---------------------------- MODULE CommandSteps ----------------------------
(***************************************************************************)
(* What the body of a command of the CLI is made of.  A command is the     *)
(* sequence of its steps, in the order of the code: conversions and guards *)
(* that may end it, reads, prompts, submissions.  What a step prints, and  *)
(* how, is left out, except for the number a user is asked to pay.         *)
(***************************************************************************)
EXTENDS Sequences, TLC

\* A conversion or a guard that ends the command with one of `ends`.
Check(ends) == [op |-> "check", ends |-> ends]

\* parse_balance, resolve_ss58, bytes.fromhex, int of a float, outside a try:
\* what they raise escapes the click group.
Convert == Check({"traceback"})

\* A guard, or a conversion inside a try: output.error and return, which
\* leaves the exit code at 0.
Guard == Check({"refused"})

\* The same, for code that has both.
ConvertOrGuard == Check({"traceback", "refused"})

\* --owner, or the configured wallet, or an error.
Owner == ConvertOrGuard

\* parse_balance of an amount that is later attached as the value.
Amount == [op |-> "amount"]

\* run_read of one client method whose answer is used as it is.
Read(m) == [op |-> "read", method |-> m, keeps |-> FALSE, tests |-> FALSE, absent |-> <<>>]

\* The answer is a number that a later step shows or attaches.
ReadKept(m) == [Read(m) EXCEPT !.keeps = TRUE]

\* None, or an empty list, is tested for; `absent` is the rest of the command
\* in that case.
ReadOr(m, absent) == [Read(m) EXCEPT !.tests = TRUE, !.absent = absent]

\* The command returns after output.error, or after output.info.
End(r) == [op |-> "end", report |-> r]
Refuse == <<End("refused")>>
Notice == <<End("notice")>>

\* An if in the command whose condition the other steps say nothing of.
Option(steps) == [op |-> "option", steps |-> steps]

\* click.confirm of a number above 0, unless --yes.
Ask == [op |-> "ask"]

\* click.confirm, whatever --yes says.
Insist == [op |-> "insist"]

\* output.detail of the number that the next step attaches.
Show == [op |-> "show"]

\* submit() of one client method, without or with a value attached.
Send(m) == [op |-> "send", method |-> m, pays |-> FALSE]
Pay(m)  == [op |-> "send", method |-> m, pays |-> TRUE]

----------------------------------------------------------------------------
(* Commands.  A command is known by its group and its name.                *)

Command(group, name, steps) == <<group, name>> :> steps

\* Commands of one shape: the steps `before`, then one more for the method
\* that goes with the name.
Alike(group, before, last(_), pairs) ==
  [c \in {<<group, p[1]>> : p \in pairs} |->
     LET pair == CHOOSE p \in pairs : p[1] = c[2]
     IN  before \o <<last(pair[2])>>]

Shows(group, pairs) == Alike(group, <<>>, Read, pairs)
Sends(group, pairs) == Alike(group, <<>>, Send, pairs)
=============================================================================
