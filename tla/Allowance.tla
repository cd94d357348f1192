----------------------------- MODULE Allowance -----------------------------
(***************************************************************************)
(* The commands that spend TUSDT through an allowance, and those that set  *)
(* it: "auction bid", "lending repay-tusdt", "token approve" and "token    *)
(* increase-allowance" and "decrease-allowance".  A bid is a small         *)
(* workflow: read the allowance, ask the user, approve, bid; a repayment   *)
(* reads the allowance and goes on or stops.  Several invocations run at   *)
(* once against the same allowances.                                       *)
(*                                                                         *)
(* A submission is taken at the level of SubmitOnce, which TxPipeline      *)
(* implements: it is sent, the chain executes it once or never, and the    *)
(* process learns the result or gives up first.  The token and the two     *)
(* spending contracts are external.                                        *)
(***************************************************************************)
EXTENDS Integers

Accounts == {"wallet", "signer"}  \* the account of wallet_name; another one
Spenders == {"auction", "pool"}
Kinds == {"bid", "repay", "approve", "increase", "decrease"}

CONSTANTS
  Invocations,  \* processes
  MaxBalance,   \* the largest Balance of the token, 2^64 - 1
  MaxAmount,    \* bound: the largest amount a user asks for
  Inputs        \* bound: the commands the users type

\* A command as typed: signer is the account that signs, which need not be
\* the wallet's when a Ledger or the extension signs, or, for a bid, when a
\* "signer" key is configured; known says that an address to look up the
\* allowance of was found.
Commands ==
  [kind : Kinds, amount : 0 .. MaxAmount, spender : Spenders,
   signer : Accounts, known : BOOLEAN, dry : BOOLEAN]

ASSUME BalanceAssumption == MaxBalance \in Nat /\ MaxAmount \in 0 .. MaxBalance
ASSUME InputsAssumption ==
  /\ Inputs \subseteq Commands
  /\ \A c \in Inputs : /\ c.kind = "bid" => c.spender = "auction"
                       /\ c.kind = "repay" => c.spender = "pool"

VARIABLES
  pc,        \* [Invocations -> Pcs]
  cmd,       \* [Invocations -> Commands]
  approval,  \* the approval a bid submits: none, sent, executed ok or bad
  spend,     \* the command's own extrinsic, likewise
  report,    \* what the user was told when the process ended
  allowance, \* chain: [Accounts -> [Spenders -> 0 .. MaxBalance]]
  stale      \* history: since the invocation read the allowance, or since
             \* its approval was executed, another one made it smaller

process == <<pc, cmd, report>>
vars == <<process, approval, spend, allowance, stale>>

----------------------------------------------------------------------------

\* Before the user typed one.
NoCommand == [kind |-> "approve", amount |-> 0, spender |-> "pool",
              signer |-> "wallet", known |-> FALSE, dry |-> FALSE]
Running == {"check", "prompt", "approving", "waitApproval", "spending", "waitSpend"}
Pcs == {"idle", "done"} \cup Running
Extrinsic == {"none", "sent", "ok", "bad"}
Reports == {"none", "success", "previewed", "refused", "cancelled", "error"}

TypeOK ==
  /\ pc \in [Invocations -> Pcs]
  /\ cmd \in [Invocations -> Commands]
  /\ approval \in [Invocations -> Extrinsic]
  /\ spend \in [Invocations -> Extrinsic]
  /\ report \in [Invocations -> Reports]
  /\ allowance \in [Accounts -> [Spenders -> 0 .. MaxBalance]]
  /\ stale \in [Invocations -> BOOLEAN]

Init ==
  /\ pc = [i \in Invocations |-> "idle"]
  /\ cmd = [i \in Invocations |-> NoCommand]
  /\ approval = [i \in Invocations |-> "none"]
  /\ spend = [i \in Invocations |-> "none"]
  /\ report = [i \in Invocations |-> "none"]
  /\ allowance \in [Accounts -> [Spenders -> {0, MaxAmount}]]
  /\ stale = [i \in Invocations |-> FALSE]

Goto(i, from, to) ==
  /\ pc[i] = from
  /\ pc' = [pc EXCEPT ![i] = to]

Exit(i, from, r) ==
  /\ Goto(i, from, "done")
  /\ report' = [report EXCEPT ![i] = r]

----------------------------------------------------------------------------
(* Steps of a process.                                                     *)

\* The commands of the token group submit at once, the others look first.
Start(i) ==
  \E c \in Inputs :
    /\ Goto(i, "idle", IF c.kind \in {"bid", "repay"} THEN "check" ELSE "spending")
    /\ cmd' = [cmd EXCEPT ![i] = c]
    /\ UNCHANGED <<approval, spend, report, allowance, stale>>

\* Without an address a bid stops; a repayment goes on, with a warning.
NoAddress(i) ==
  /\ ~cmd[i].known
  /\ \/ cmd[i].kind = "bid" /\ Exit(i, "check", "refused")
     \/ cmd[i].kind = "repay" /\ Goto(i, "check", "spending") /\ UNCHANGED report
  /\ UNCHANGED <<cmd, approval, spend, allowance, stale>>

\* Both look at the allowance of the configured wallet's account, whoever
\* signs afterwards.  Too small, it makes a bid ask and a repayment stop.
Check(i) ==
  /\ cmd[i].known
  /\ LET covered == allowance["wallet"][cmd[i].spender] >= cmd[i].amount
     IN  \/ covered /\ Goto(i, "check", "spending") /\ UNCHANGED report
         \/ /\ ~covered
            /\ cmd[i].kind = "bid"
            /\ Goto(i, "check", "prompt")
            /\ UNCHANGED report
         \/ ~covered /\ cmd[i].kind = "repay" /\ Exit(i, "check", "refused")
  /\ stale' = [stale EXCEPT ![i] = FALSE]
  /\ UNCHANGED <<cmd, approval, spend, allowance>>

Confirm(i) ==
  /\ \/ Goto(i, "prompt", "approving") /\ UNCHANGED report
     \/ Exit(i, "prompt", "cancelled")
  /\ UNCHANGED <<cmd, approval, spend, allowance, stale>>

\* submit() shows the preview and ends the process: the preview of a bid
\* that needs an approval is that of the approval alone.
Preview(i) ==
  /\ cmd[i].dry
  /\ \E from \in {"approving", "spending"} : Exit(i, from, "previewed")
  /\ UNCHANGED <<cmd, approval, spend, allowance, stale>>

\* Mutant: the approval is submitted by a client without the dry_run flag.
SendApprovalIgnoresDryRun(i) ==
  /\ Goto(i, "approving", "waitApproval")
  /\ approval' = [approval EXCEPT ![i] = "sent"]
  /\ UNCHANGED <<cmd, report, spend, allowance, stale>>

SendApproval(i) ==
  /\ ~cmd[i].dry
  /\ Goto(i, "approving", "waitApproval")
  /\ approval' = [approval EXCEPT ![i] = "sent"]
  /\ UNCHANGED <<cmd, report, spend, allowance, stale>>

\* Mutant: the bid follows the approval without waiting for its inclusion.
ApprovalDoneAtOnce(i) ==
  /\ Goto(i, "waitApproval", "spending")
  /\ UNCHANGED <<cmd, report, approval, spend, allowance, stale>>

\* A failed approval is a ContractError, which ends the process.
ApprovalDone(i) ==
  /\ \/ approval[i] = "ok" /\ Goto(i, "waitApproval", "spending") /\ UNCHANGED report
     \/ approval[i] = "bad" /\ Exit(i, "waitApproval", "error")
  /\ UNCHANGED <<cmd, approval, spend, allowance, stale>>

SendSpend(i) ==
  /\ ~cmd[i].dry
  /\ Goto(i, "spending", "waitSpend")
  /\ spend' = [spend EXCEPT ![i] = "sent"]
  /\ UNCHANGED <<cmd, report, approval, allowance, stale>>

SpendDone(i) ==
  /\ \/ spend[i] = "ok" /\ Exit(i, "waitSpend", "success")
     \/ spend[i] = "bad" /\ Exit(i, "waitSpend", "error")
  /\ UNCHANGED <<cmd, approval, spend, allowance, stale>>

\* Mutant: a failed submission is submitted again.
FailRetries(i) ==
  /\ Goto(i, "waitSpend", "spending")
  /\ UNCHANGED <<cmd, report, approval, spend, allowance, stale>>

\* A lost connection, a signer that refuses, an answer that cannot be
\* decoded, Ctrl-C: the process ends where it is.
Fail(i) ==
  /\ \E from \in Running : Exit(i, from, "error")
  /\ UNCHANGED <<cmd, approval, spend, allowance, stale>>

----------------------------------------------------------------------------
(* Steps of the chain.                                                     *)

\* Mutant: 2 ** 64 does not fit a Balance any more.
MaxApprovalTooWide == MaxBalance + 1

\* What a bid approves, 2 ** 64 - 1.
MaxApproval == MaxBalance

\* The allowance after the message of c, if the token takes it (external).
After(c) ==
  LET old == allowance[c.signer][c.spender]
  IN  CASE c.kind = "approve"  -> c.amount
        [] c.kind = "increase" -> old + c.amount
        [] OTHER               -> old - c.amount

\* The token refuses what it cannot subtract or what does not fit.
Accepts(c) == After(c) \in 0 .. MaxBalance

ExecuteApproval(i) ==
  /\ approval[i] = "sent"
  /\ \/ /\ approval' = [approval EXCEPT ![i] = "ok"]
        /\ allowance' = [allowance EXCEPT ![cmd[i].signer][cmd[i].spender] = MaxApproval]
        /\ stale' = [stale EXCEPT ![i] = FALSE]
     \/ /\ approval' = [approval EXCEPT ![i] = "bad"]
        /\ UNCHANGED <<allowance, stale>>
  /\ UNCHANGED <<process, spend>>

\* j counts on the allowance that c changes.
ReliesOn(j, c) ==
  pc[j] \in Running /\ cmd[j].signer = c.signer /\ cmd[j].spender = c.spender

\* The contract may refuse the command for a reason of its own.
ExecuteSpend(i) ==
  /\ spend[i] = "sent"
  /\ \/ LET c == cmd[i]
        IN  /\ Accepts(c)
            /\ spend' = [spend EXCEPT ![i] = "ok"]
            /\ allowance' = [allowance EXCEPT ![c.signer][c.spender] = After(c)]
            /\ stale' = [j \in Invocations |->
                 \/ stale[j]
                 \/ j # i /\ ReliesOn(j, c) /\ After(c) < allowance[c.signer][c.spender]]
     \/ /\ spend' = [spend EXCEPT ![i] = "bad"]
        /\ UNCHANGED <<allowance, stale>>
  /\ UNCHANGED <<process, approval>>

----------------------------------------------------------------------------

Next ==
  \E i \in Invocations :
    \/ Start(i) \/ NoAddress(i) \/ Check(i) \/ Confirm(i) \/ Preview(i)
    \/ SendApproval(i) \/ ApprovalDone(i) \/ SendSpend(i) \/ SpendDone(i)
    \/ Fail(i) \/ ExecuteApproval(i) \/ ExecuteSpend(i)

Spec == Init /\ [][Next]_vars

----------------------------------------------------------------------------
(* Properties.                                                             *)

\* The extrinsic of a bid or a repayment is about to be sent, or is on its way.
Submitting(i) ==
  /\ pc[i] \in {"spending", "waitSpend"}
  /\ spend[i] \in {"none", "sent"}
  /\ cmd[i].kind \in {"bid", "repay"}
  /\ cmd[i].known

\* A bid or a repayment of the wallet's own, and a bid that submitted an
\* approval, is covered when it reaches the chain, unless another invocation
\* made the allowance smaller in the meantime.  (auction.py:185-200,
\* lending.py:187-203)
GoesOnOnlyIfCovered ==
  \A i \in Invocations :
    /\ Submitting(i)
    /\ cmd[i].signer = "wallet" \/ approval[i] # "none"
    /\ ~stale[i]
    => allowance[cmd[i].signer][cmd[i].spender] >= cmd[i].amount

\* A command that was refused, cancelled or previewed has sent nothing, in
\* neither of its two submissions, and so changed no allowance.
StoppedLeavesNoTrace ==
  \A i \in Invocations :
    report[i] \in {"refused", "cancelled", "previewed"} =>
      approval[i] = "none" /\ spend[i] = "none"

\* What SubmitOnce sees of a place and of a report.
Phase(p) == IF p \in Running THEN "running" ELSE p
Verdict(r) ==
  IF r = "previewed" THEN "shown"
  ELSE IF r \in {"refused", "cancelled", "error"} THEN "failure" ELSE r

\* The second submission of the workflow keeps the promise that SubmitOnce
\* makes for one: whatever comes before it, a bid is placed at most once, and
\* a success is reported only of a bid the chain executed.
Submission == INSTANCE SubmitOnce WITH
  phase   <- [i \in Invocations |-> Phase(pc[i])],
  passive <- [i \in Invocations |-> cmd[i].dry],
  sent    <- [i \in Invocations |-> spend[i] # "none"],
  answer  <- [i \in Invocations |-> IF spend[i] = "sent" THEN "none" ELSE spend[i]],
  report  <- [i \in Invocations |-> Verdict(report[i])]

SpendKeepsPromise == Submission!Spec

\* commands/lending.py:169-171: "the signer's TUSDT allowance to the lending
\* pool is verified and the command aborts".
RepayVerifiesTheSigner ==
  \A i \in Invocations :
    Submitting(i) /\ cmd[i].kind = "repay" /\ ~stale[i] =>
      allowance[cmd[i].signer][cmd[i].spender] >= cmd[i].amount
=============================================================================
