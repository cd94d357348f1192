----------------------------- MODULE SubmitOnce -----------------------------
(***************************************************************************)
(* What a command of the CLI promises to the person who typed it, whatever *)
(* signer, node and network lie underneath:                                *)
(*   - one invocation puts at most one extrinsic on the wire, a read or a  *)
(*     preview puts none, and nothing is sent once it has reported;        *)
(*   - it reports success only after the chain answered that the           *)
(*     extrinsic was executed.                                             *)
(* A failure report promises nothing about an extrinsic already sent: the  *)
(* answer may still arrive afterwards.                                     *)
(***************************************************************************)
CONSTANT Invocations

VARIABLES
  phase,   \* "idle", "running" or "done"
  passive, \* the invocation is a read or a preview
  sent,    \* its extrinsic was put on the wire
  answer,  \* the chain's first answer: "none", "ok" or "bad"
  report   \* what the user was told: "none", "success", "failure", "shown"

vars == <<phase, passive, sent, answer, report>>

Init ==
  /\ phase   = [i \in Invocations |-> "idle"]
  /\ passive = [i \in Invocations |-> FALSE]
  /\ sent    = [i \in Invocations |-> FALSE]
  /\ answer  = [i \in Invocations |-> "none"]
  /\ report  = [i \in Invocations |-> "none"]

\* The user starts an invocation that may, or may not, change the chain.
Begin(i) ==
  /\ phase[i] = "idle"
  /\ phase' = [phase EXCEPT ![i] = "running"]
  /\ \E p \in BOOLEAN : passive' = [passive EXCEPT ![i] = p]
  /\ UNCHANGED <<sent, answer, report>>

\* The one extrinsic of the invocation leaves the process.
Send(i) ==
  /\ phase[i] = "running"
  /\ ~passive[i]
  /\ ~sent[i]
  /\ sent' = [sent EXCEPT ![i] = TRUE]
  /\ UNCHANGED <<phase, passive, answer, report>>

\* The chain executes the extrinsic, whether or not anyone still waits.
Answer(i) ==
  /\ sent[i]
  /\ answer[i] = "none"
  /\ \E a \in {"ok", "bad"} : answer' = [answer EXCEPT ![i] = a]
  /\ UNCHANGED <<phase, passive, sent, report>>

\* The invocation ends and tells the user how.
Finish(i, r) ==
  /\ phase[i] = "running"
  /\ r = "success" => answer[i] = "ok"
  /\ r = "shown" => passive[i]
  /\ phase' = [phase EXCEPT ![i] = "done"]
  /\ report' = [report EXCEPT ![i] = r]
  /\ UNCHANGED <<passive, sent, answer>>

Next ==
  \E i \in Invocations :
    \/ Begin(i)
    \/ Send(i)
    \/ Answer(i)
    \/ \E r \in {"success", "failure", "shown"} : Finish(i, r)

Spec == Init /\ [][Next]_vars
=============================================================================
