---------------------------- MODULE MCAllowance ----------------------------
(***************************************************************************)
(* Two invocations, of any two kinds, with amounts 1 and 2.                *)
(***************************************************************************)
EXTENDS Allowance, TLC

CONSTANTS process1, process2

\* Every bid and repayment, with and without an address, as a preview or not;
\* the token commands as a preview or not, with the allowance of the spender
\* set to nothing or one, or changed by one or two.
MCInputs ==
  { c \in Commands :
      \/ c.kind = "bid" /\ c.spender = "auction" /\ c.amount > 0
      \/ c.kind = "repay" /\ c.spender = "pool" /\ c.amount > 0
      \/ c.kind = "approve" /\ c.amount < MaxAmount /\ c.known /\ ~c.dry
      \/ c.kind \in {"increase", "decrease"} /\ c.amount > 0 /\ c.known /\ ~c.dry }

Symmetry == Permutations({process1, process2})
=============================================================================
