------------------------------ MODULE Commands ------------------------------
(***************************************************************************)
(* One invocation of a command of the CLI, whichever it is: its body is a  *)
(* row of the Catalogue, a sequence of the steps of CommandSteps, and each *)
(* step goes through the parts that all commands share: run_read and       *)
(* submit of context.py, the methods of client.py, the contracts.          *)
(*                                                                         *)
(* TxPipeline has the inside of a submission; here it is one step to the   *)
(* chain and one back, and what matters is the order of a command's steps. *)
(***************************************************************************)
EXTENDS Integers, Sequences

CONSTANTS
  Catalogue,    \* [names of commands -> sequences of steps]
  Bodies,       \* the sequences of steps that a command may have left
  Wrapper,      \* [methods of TUSDTClient -> [contract, message, via]]
  Interface,    \* [contracts -> their messages]
  MaxQuantity   \* bound: fees, debts and amounts are 0 .. MaxQuantity

ASSUME MaxQuantityAssumption == MaxQuantity \in Nat

VARIABLES
  pc,        \* where the process is; "asking": the prompt is on the screen
  todo,      \* the steps of the command that are left
  dry,       \* --dry-run
  yes,       \* --yes
  quiet,     \* --quiet
  held,      \* the number the command read or converted, to attach or to show
  told,      \* history: the number the user was shown
  reply,     \* history: what the chain answered to the last read
  tx,        \* the last extrinsic of the command
  sends,     \* history: how many extrinsics left the process
  charged,   \* history: the value that went along with one
  report,    \* how the command ended
  quantity   \* chain: the number that ReadKept reads, as it is now

flags == <<dry, yes, quiet>>
chain == <<tx, sends, charged>>
vars == <<pc, todo, flags, held, told, reply, chain, report, quantity>>

Quantities == 0 .. MaxQuantity
Answers == {"none", "value", "absent", "err", "failure"}
Reports == {"none", "shown", "success", "refused", "notice", "cancelled",
            "preview", "error", "traceback", "aborted", "usage"}

Steps == UNION {{body[i] : i \in DOMAIN body} : body \in Bodies}

\* What a step leaves of a command is one of the bodies as well.
ASSUME BodiesAssumption ==
  /\ <<>> \in Bodies
  /\ Bodies \subseteq Seq(Steps)
  /\ \A c \in DOMAIN Catalogue : Catalogue[c] \in Bodies
  /\ \A body \in Bodies \ {<<>>} :
       LET step == Head(body) rest == Tail(body) IN
         /\ rest \in Bodies
         /\ step.op = "option" => step.steps \o rest \in Bodies
         /\ step.op = "read" => (step.tests => step.absent \in Bodies)

ASSUME StepsAssumption ==
  \A step \in Steps :
    /\ step.op = "check" => step.ends \subseteq Reports
    /\ step.op = "end" => step.report \in Reports

\* Once a command submits, it does nothing else.
Submits(body) == \A i \in DOMAIN body : body[i].op = "send"

ASSUME SubmissionsAssumption ==
  \A body \in Bodies \ {<<>>} : Head(body).op = "send" => Submits(Tail(body))

\* Nothing is submitted, and no way parts, before the user is shown the number.
Tells(body) ==
  \E i \in DOMAIN body :
    /\ body[i].op \in {"ask", "show"}
    /\ \A j \in 1 .. i - 1 : \/ body[j].op = "check"
                             \/ body[j].op = "read" /\ ~body[j].tests

\* A number that is read to be attached is shown first.
ASSUME NumbersAssumption ==
  \A body \in Bodies \ {<<>>} :
    Head(body).op = "read" =>
      (Head(body).keeps => /\ Tells(Tail(body))
                           /\ Head(body).tests => Tells(Head(body).absent))

TypeOK ==
  /\ pc \in {"idle", "running", "asking", "waiting", "done"}
  /\ dry \in BOOLEAN /\ yes \in BOOLEAN /\ quiet \in BOOLEAN
  /\ held \in Quantities
  /\ told \in Quantities
  /\ reply \in Answers
  /\ tx \in {"none", "sent", "executed", "reverted"}
  /\ sends \in Nat
  /\ charged \in Quantities
  /\ report \in Reports
  /\ quantity \in Quantities

Init ==
  /\ pc = "idle" /\ todo = <<>>
  /\ dry \in BOOLEAN /\ yes \in BOOLEAN /\ quiet \in BOOLEAN
  /\ held = 0 /\ told = 0 /\ reply = "none"
  /\ tx = "none" /\ sends = 0 /\ charged = 0
  /\ report = "none"
  /\ quantity \in Quantities

----------------------------------------------------------------------------
(* Client methods.                                                         *)

\* A method the client does not have, and a message the ABI does not list,
\* raise inside the try of run_read or submit.
Known(m) ==
  /\ m \in DOMAIN Wrapper
  /\ \E kind \in {"reads", "fallible", "writes", "payable"} :
       Wrapper[m].message \in Interface[Wrapper[m].contract][kind]

Fallible(m) == Wrapper[m].message \in Interface[Wrapper[m].contract].fallible
Payable(m)  == Wrapper[m].message \in Interface[Wrapper[m].contract].payable

\* The methods and the ABIs agree on what can answer with an error.
ASSUME FallibleAssumption ==
  \A m \in DOMAIN Wrapper : Fallible(m) => Wrapper[m].via = "result"

\* Mutant: unwrap_result hands over the Err variant as it is.
ReceivedUnread(m, answer) ==
  IF answer = "failure" THEN IF Wrapper[m].via = "clock" THEN "absent" ELSE "raised"
  ELSE IF answer = "err" THEN "value" ELSE answer

\* What a method returns for an answer: only unwrap_result looks for the
\* error of the contract, and the clock's reader catches everything.
Received(m, answer) ==
  CASE answer = "failure" -> IF Wrapper[m].via = "clock" THEN "absent" ELSE "raised"
    [] answer = "err"     -> IF Wrapper[m].via = "result" THEN "raised" ELSE "value"
    [] OTHER              -> answer

----------------------------------------------------------------------------
(* Steps of the process.                                                   *)

\* The next step of the command is one of this kind.
At(op) == pc = "running" /\ todo # <<>> /\ Head(todo).op = op

Go == todo' = Tail(todo)

\* The command ends, and r is what its caller sees of it.
Stop(r) == pc' = "done" /\ report' = r

\* click has parsed the global flags into the CLIContext; the command starts.
Start ==
  /\ pc = "idle"
  /\ pc' = "running"
  /\ \E c \in DOMAIN Catalogue : todo' = Catalogue[c]
  /\ UNCHANGED <<flags, held, told, reply, chain, report, quantity>>

\* A missing argument, an unknown option: click ends the process itself.
Usage ==
  /\ pc = "idle"
  /\ Stop("usage")
  /\ UNCHANGED <<todo, flags, held, told, reply, chain, quantity>>

CheckPasses ==
  /\ At("check")
  /\ Go
  /\ UNCHANGED <<pc, flags, held, told, reply, chain, report, quantity>>

CheckFails ==
  /\ At("check")
  /\ \E r \in Head(todo).ends : Stop(r)
  /\ UNCHANGED <<todo, flags, held, told, reply, chain, quantity>>

Branch ==
  /\ At("option")
  /\ \/ todo' = Head(todo).steps \o Tail(todo)
     \/ Go
  /\ UNCHANGED <<pc, flags, held, told, reply, chain, report, quantity>>

\* Mutant: one less than nothing is an amount.
ConvertAnyAmount ==
  /\ At("amount")
  /\ \E n \in Quantities \cup {-1} : held' = n /\ told' = n
  /\ Go
  /\ UNCHANGED <<pc, flags, reply, chain, report, quantity>>

\* The amount is the user's own.
ConvertAmount ==
  /\ At("amount")
  /\ \E n \in Quantities : held' = n /\ told' = n
  /\ Go
  /\ UNCHANGED <<pc, flags, reply, chain, report, quantity>>

\* run_read: whatever is raised becomes an error with exit code 1.
RunRead ==
  /\ At("read")
  /\ LET step == Head(todo) m == step.method IN
       \/ /\ ~Known(m)
          /\ Stop("error")
          /\ UNCHANGED <<todo, held, reply>>
       \/ /\ Known(m)
          /\ \E answer \in Answers \ {"none"} :
               /\ answer = "err" => Fallible(m)
               /\ answer = "absent" => step.tests
               /\ reply' = answer
               /\ LET got == Received(m, answer) IN
                    \/ /\ got = "raised"
                       /\ Stop("error")
                       /\ UNCHANGED <<todo, held>>
                    \/ /\ got # "raised"
                       /\ todo' = IF got = "absent" /\ step.tests
                                  THEN step.absent ELSE Tail(todo)
                       /\ held' = IF step.keeps THEN quantity ELSE held
                       /\ UNCHANGED <<pc, report>>
  /\ UNCHANGED <<flags, told, chain, quantity>>

Return ==
  /\ At("end")
  /\ Stop(Head(todo).report)
  /\ UNCHANGED <<todo, flags, held, told, reply, chain, quantity>>

ShowNumber ==
  /\ At("show")
  /\ told' = held
  /\ Go
  /\ UNCHANGED <<pc, flags, held, reply, chain, report, quantity>>

\* output.info is silent under --quiet; click.confirm is not.
Confirm ==
  /\ At("ask")
  /\ \/ /\ held > 0 /\ ~yes
        /\ pc' = "asking"
        /\ UNCHANGED todo
     \/ /\ held = 0 \/ yes
        /\ Go
        /\ UNCHANGED pc
  /\ told' = IF held > 0 /\ ~quiet THEN held ELSE told
  /\ UNCHANGED <<flags, held, reply, chain, report, quantity>>

ConfirmAlways ==
  /\ At("insist")
  /\ pc' = "asking"
  /\ UNCHANGED <<todo, flags, held, told, reply, chain, report, quantity>>

Answer ==
  /\ pc = "asking"
  /\ \/ pc' = "running" /\ Go /\ UNCHANGED report
     \/ Stop("cancelled") /\ UNCHANGED todo
  /\ UNCHANGED <<flags, held, told, reply, chain, quantity>>
\* submit() fails before anything was sent: the signer, the connection, the
\* simulation, a message the ABI does not list.  Only what a Ledger or an
\* extension raises escapes it.
SubmitFails ==
  /\ At("send")
  /\ \E r \in {"error", "traceback"} : Stop(r)
  /\ UNCHANGED <<todo, flags, held, told, reply, chain, quantity>>

\* The first submit() of a command under --dry-run ends the process.
Preview ==
  /\ At("send") /\ dry /\ Known(Head(todo).method)
  /\ Stop("preview")
  /\ UNCHANGED <<todo, flags, held, told, reply, chain, quantity>>

\* Mutant: the number is read again when it is attached.
SubmitReadsAgain ==
  /\ At("send") /\ ~dry /\ Known(Head(todo).method)
  /\ pc' = "waiting"
  /\ tx' = "sent"
  /\ sends' = sends + 1
  /\ charged' = IF Head(todo).pays THEN quantity ELSE charged
  /\ UNCHANGED <<todo, flags, held, told, reply, report, quantity>>

\* Mutant: --dry-run does not reach the submission.
SubmitRegardless ==
  /\ At("send") /\ Known(Head(todo).method)
  /\ pc' = "waiting"
  /\ tx' = "sent"
  /\ sends' = sends + 1
  /\ charged' = IF Head(todo).pays THEN held ELSE charged
  /\ UNCHANGED <<todo, flags, held, told, reply, report, quantity>>

Submit ==
  /\ At("send") /\ ~dry /\ Known(Head(todo).method)
  /\ pc' = "waiting"
  /\ tx' = "sent"
  /\ sends' = sends + 1
  /\ charged' = IF Head(todo).pays THEN held ELSE charged
  /\ UNCHANGED <<todo, flags, held, told, reply, report, quantity>>

\* Mutant: any receipt is taken for a success.
ReceiveIgnoresReceipt ==
  /\ pc = "waiting" /\ tx \in {"executed", "reverted"}
  /\ pc' = "running" /\ Go /\ UNCHANGED report
  /\ UNCHANGED <<flags, held, told, reply, chain, quantity>>

\* The receipt says whether the call went through.
Receive ==
  /\ pc = "waiting"
  /\ \/ tx = "executed" /\ pc' = "running" /\ Go /\ UNCHANGED report
     \/ tx = "reverted" /\ Stop("error") /\ UNCHANGED todo
  /\ UNCHANGED <<flags, held, told, reply, chain, quantity>>

\* The connection is lost while the process waits.
WaitFails ==
  /\ pc = "waiting"
  /\ Stop("error")
  /\ UNCHANGED <<todo, flags, held, told, reply, chain, quantity>>

\* Ctrl-C, at a prompt too.
Interrupt ==
  /\ pc \in {"running", "asking", "waiting"}
  /\ Stop("aborted")
  /\ UNCHANGED <<todo, flags, held, told, reply, chain, quantity>>

\* The command has shown what it read, or said that it succeeded.
Finish ==
  /\ pc = "running" /\ todo = <<>>
  /\ Stop(IF sends > 0 THEN "success" ELSE "shown")
  /\ UNCHANGED <<todo, flags, held, told, reply, chain, quantity>>

----------------------------------------------------------------------------
(* Steps of the chain (external).                                          *)

\* A value attached to a message that takes none is refused.
Execute ==
  /\ tx = "sent"
  /\ LET step == Head(todo) IN
       tx' \in IF step.pays /\ held > 0 /\ ~Payable(step.method)
               THEN {"reverted"} ELSE {"executed", "reverted"}
  /\ UNCHANGED <<pc, todo, flags, held, told, reply, sends, charged, report, quantity>>

\* Others change the parameters and the debts.
Drift ==
  /\ \E q \in Quantities \ {quantity} : quantity' = q
  /\ UNCHANGED <<pc, todo, flags, held, told, reply, chain, report>>

----------------------------------------------------------------------------

Progress ==
  \/ CheckPasses \/ CheckFails \/ Branch \/ ConvertAmount
  \/ RunRead \/ Return \/ ShowNumber \/ Confirm \/ ConfirmAlways
  \/ SubmitFails \/ Preview \/ Submit \/ Receive \/ Finish

Next ==
  \/ Start \/ Usage \/ Progress \/ Answer
  \/ WaitFails \/ Interrupt \/ Execute \/ Drift

Spec == Init /\ [][Next]_vars

----------------------------------------------------------------------------
(* Properties.                                                             *)

\* click reports a bad argument with 2, submit and run_read end with 1; a
\* return, a declined prompt and a preview leave 0.
ExitCode(r) ==
  IF r \in {"error", "traceback", "aborted"} THEN 1
  ELSE IF r = "usage" THEN 2 ELSE 0

\* The error a contract answers with never passes for an answer, whichever
\* method asked: the command ends there, with an error (client.py's
\* unwrap_result against the return types of the ABIs).
ContractErrorIsReported ==
  reply = "err" => pc = "done" /\ report = "error"

\* The value that goes along is the one the user was shown or gave, however
\* the fee or the debt moved while a prompt was open (vault.py:57-71,
\* lending.py:306-355); --quiet hides the announcement.
ChargedAsAnnounced ==
  charged > 0 /\ ~quiet => charged = told

\* A refusal, a declined prompt and a preview come before the first
\* submission of the command, in every command: none leaves half of its work
\* on the chain.
EndsBeforeSending ==
  pc = "done" /\ report \in {"usage", "refused", "notice", "cancelled", "preview"} =>
    sends = 0

\* A script that looks at the exit code is not misled: with code 0 nothing of
\* the command is under way or was reverted, and what raises past the click
\* group has nothing under way either.
ExitCodeTellsTheTruth ==
  pc = "done" /\ tx \in {"sent", "reverted"} =>
    ExitCode(report) = 1 /\ report # "traceback"
=============================================================================
