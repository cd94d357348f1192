--------------------------- MODULE CommandsProofs ---------------------------
(***************************************************************************)
(* What holds of every command there may be.  Of the Catalogue the proofs  *)
(* know the shape alone: which step may follow which, as the assumptions   *)
(* of Commands say and a run confirms for every command there is.  A       *)
(* command added to the CLI in that shape keeps these properties.          *)
(***************************************************************************)
EXTENDS Commands, TLAPS

\* Nothing is under way or reverted while the process still decides, and what
\* is when it ends is owned up to.
InDoubt == tx \in {"sent", "reverted"}

DoubtInv ==
  /\ InDoubt => pc \in {"waiting", "done"}
  /\ InDoubt /\ pc = "done" => report \in {"error", "aborted"}

LEMMA DoubtInit == Init => DoubtInv
  BY DEF Init, DoubtInv, InDoubt

\* Before a submission, and after its receipt.
LEMMA DoubtLocal ==
  ASSUME DoubtInv, CheckPasses \/ CheckFails \/ Branch \/ ConvertAmount \/ Return
                     \/ ShowNumber \/ Confirm \/ ConfirmAlways \/ Answer
                     \/ SubmitFails \/ Preview \/ Finish \/ Start \/ Usage
  PROVE  DoubtInv'
<1>1. tx' = tx /\ pc \notin {"waiting", "done"}
  BY DEF CheckPasses, CheckFails, Branch, ConvertAmount, Return, ShowNumber, Confirm,
         ConfirmAlways, Answer, SubmitFails, Preview, Finish, Start, Usage, At, chain
<1>2. QED
  BY <1>1 DEF DoubtInv, InDoubt

LEMMA DoubtRead == ASSUME DoubtInv, RunRead PROVE DoubtInv'
<1>1. tx' = tx /\ pc \notin {"waiting", "done"}
  BY DEF RunRead, At, chain
<1>2. QED
  BY <1>1 DEF DoubtInv, InDoubt

LEMMA DoubtStep == DoubtInv /\ [Next]_vars => DoubtInv'
<1> SUFFICES ASSUME DoubtInv, [Next]_vars PROVE DoubtInv'
  OBVIOUS
<1>1. CASE Submit
  BY <1>1 DEF Submit, DoubtInv, InDoubt
<1>2. CASE Receive
  BY <1>2 DEF Receive, Stop, chain, DoubtInv, InDoubt
<1>3. CASE WaitFails
  BY <1>3 DEF WaitFails, Stop, chain, DoubtInv, InDoubt
<1>4. CASE Interrupt
  BY <1>4 DEF Interrupt, Stop, chain, DoubtInv, InDoubt
<1>5. CASE Execute
  <2>1. tx = "sent" /\ pc' = pc /\ report' = report
    BY <1>5 DEF Execute
  <2>2. QED
    BY <2>1 DEF DoubtInv, InDoubt
<1>6. CASE Drift
  BY <1>6 DEF Drift, chain, DoubtInv, InDoubt
<1>7. CASE UNCHANGED vars
  BY <1>7 DEF vars, chain, DoubtInv, InDoubt
<1>8. QED
  BY <1>1, <1>2, <1>3, <1>4, <1>5, <1>6, <1>7, DoubtLocal, DoubtRead DEF Next, Progress

\* Exit code 0 means that nothing of the command is under way or reverted,
\* and a traceback that nothing was, in every command (context.py:160-217).
THEOREM ExitCodeCorrect == Spec => []ExitCodeTellsTheTruth
<1>1. DoubtInv => ExitCodeTellsTheTruth
  BY DEF DoubtInv, InDoubt, ExitCodeTellsTheTruth, ExitCode
<1>2. QED
  BY <1>1, DoubtInit, DoubtStep, PTL DEF Spec

----------------------------------------------------------------------------

LEMMA ReplyRead == ASSUME ContractErrorIsReported, RunRead PROVE ContractErrorIsReported'
<1> DEFINE m == Head(todo).method
<1>1. pc = "running"
  BY DEF RunRead, At
<1>2. CASE reply' = reply
  BY <1>1, <1>2 DEF ContractErrorIsReported
<1>3. CASE reply' # reply /\ reply' = "err"
  <2>1. Known(m) /\ Fallible(m)
    BY <1>3 DEF RunRead
  <2>2. Wrapper[m].via = "result"
    BY <2>1, FallibleAssumption DEF Known
  <2>3. Received(m, "err") = "raised"
    BY <2>2 DEF Received
  <2>4. Stop("error")
    BY <1>3, <2>3 DEF RunRead
  <2>5. QED
    BY <2>4 DEF Stop, ContractErrorIsReported
<1>4. CASE reply' # "err"
  BY <1>4 DEF ContractErrorIsReported
<1>5. QED
  BY <1>2, <1>3, <1>4

LEMMA ReplyStep ==
  ContractErrorIsReported /\ [Next]_vars => ContractErrorIsReported'
<1> SUFFICES ASSUME ContractErrorIsReported, [Next]_vars
             PROVE  ContractErrorIsReported'
  OBVIOUS
<1>1. CASE RunRead
  BY <1>1, ReplyRead
<1>2. CASE Progress /\ ~RunRead
  <2>1. reply' = reply /\ pc # "done"
    BY <1>2 DEF Progress, CheckPasses, CheckFails, Branch, ConvertAmount, Return,
                ShowNumber, Confirm, ConfirmAlways, SubmitFails, Preview, Submit,
                Receive, Finish, At
  <2>2. QED
    BY <2>1 DEF ContractErrorIsReported
<1>3. CASE Start \/ Usage \/ Answer \/ WaitFails \/ Interrupt
  <2>1. reply' = reply /\ pc # "done"
    BY <1>3 DEF Start, Usage, Answer, WaitFails, Interrupt
  <2>2. QED
    BY <2>1 DEF ContractErrorIsReported
<1>4. CASE Execute \/ Drift \/ UNCHANGED vars
  BY <1>4 DEF Execute, Drift, vars, ContractErrorIsReported
<1>5. QED
  BY <1>1, <1>2, <1>3, <1>4 DEF Next

\* Whatever commands there are, an error of a contract is never shown as its
\* answer, as long as the methods unwrap what the ABIs declare fallible.
THEOREM ContractErrorsCorrect == Spec => []ContractErrorIsReported
<1>1. Init => ContractErrorIsReported
  BY DEF Init, ContractErrorIsReported
<1>2. QED
  BY <1>1, ReplyStep, PTL DEF Spec
----------------------------------------------------------------------------
(* The order of the steps.                                                 *)

\* The user has not seen the number that is held.
Unseen == held > 0 /\ ~quiet /\ held # told

\* What was sent has submissions alone after it; a number that was not seen yet
\* is shown before anything is sent; a prompt shows it at once.
OrderInv ==
  /\ todo \in Bodies
  /\ sends > 0 => ~dry /\ Submits(todo)
  /\ charged > 0 => sends > 0
  /\ pc = "idle" => sends = 0 /\ todo = <<>>
  /\ pc = "asking" => todo # <<>> /\ Head(todo).op \in {"ask", "insist"} /\ ~Unseen
  /\ pc = "waiting" => todo # <<>> /\ sends > 0
  /\ Unseen => Tells(todo)

CommandInv == TypeOK /\ OrderInv /\ ChargedAsAnnounced /\ EndsBeforeSending

LEMMA BodyFacts ==
  ASSUME NEW body \in Bodies, body # <<>>
  PROVE  /\ body \in Seq(Steps) /\ Head(body) \in Steps /\ Tail(body) \in Bodies
         /\ Len(body) \in Nat \ {0} /\ Head(body) = body[1]
         /\ Len(Tail(body)) = Len(body) - 1
         /\ \A i \in 1 .. Len(body) - 1 : Tail(body)[i] = body[i + 1]
<1>1. body \in Seq(Steps) /\ Tail(body) \in Bodies
  BY BodiesAssumption
<1>2. QED
  BY <1>1

LEMMA EmptyBody == Submits(<<>>) /\ ~Tells(<<>>)
<1>1. DOMAIN <<>> = {}
  OBVIOUS
<1>2. QED
  BY <1>1 DEF Submits, Tells

LEMMA SubmitsFacts ==
  ASSUME NEW body \in Bodies, body # <<>>
  PROVE  Submits(body) <=> Head(body).op = "send" /\ Submits(Tail(body))
<1>1. /\ DOMAIN body = 1 .. Len(body) /\ Len(body) \in Nat \ {0} /\ Head(body) = body[1]
      /\ DOMAIN Tail(body) = 1 .. Len(body) - 1
      /\ \A i \in 1 .. Len(body) - 1 : Tail(body)[i] = body[i + 1]
  <2>1. body \in Seq(Steps) /\ Tail(body) \in Seq(Steps)
    BY BodyFacts, BodiesAssumption
  <2>2. QED
    BY <2>1, BodyFacts
<1>2. ASSUME Submits(body) PROVE Head(body).op = "send" /\ Submits(Tail(body))
  <2>1. \A i \in 1 .. Len(body) : body[i].op = "send"
    BY <1>1, <1>2 DEF Submits
  <2>2. body[1].op = "send"
    BY <1>1, <2>1
  <2>3. ASSUME NEW i \in 1 .. Len(body) - 1 PROVE Tail(body)[i].op = "send"
    <3>1. i + 1 \in 1 .. Len(body)
      BY <1>1
    <3>2. QED
      BY <1>1, <2>1, <3>1
  <2>4. QED
    BY <1>1, <2>2, <2>3 DEF Submits
<1>3. ASSUME Head(body).op = "send", Submits(Tail(body)) PROVE Submits(body)
  <2>1. \A i \in 1 .. Len(body) - 1 : body[i + 1].op = "send"
    BY <1>1, <1>3 DEF Submits
  <2>2. ASSUME NEW i \in 1 .. Len(body) PROVE body[i].op = "send"
    <3>1. CASE i = 1
      BY <1>1, <1>3, <3>1
    <3>2. CASE i # 1
      <4>1. i - 1 \in 1 .. Len(body) - 1 /\ i - 1 + 1 = i
        BY <1>1, <3>2
      <4>2. QED
        BY <2>1, <4>1
    <3>3. QED
      BY <3>1, <3>2
  <2>3. QED
    BY <1>1, <2>2 DEF Submits
<1>4. QED
  BY <1>2, <1>3

\* A body that tells begins with an announcement, or goes on to tell.
LEMMA TellsFacts ==
  ASSUME NEW body \in Bodies, body # <<>>, Tells(body)
  PROVE  \/ Head(body).op \in {"ask", "show"}
         \/ /\ Head(body).op = "check" \/ (Head(body).op = "read" /\ ~Head(body).tests)
            /\ Tells(Tail(body))
<1>1. /\ DOMAIN body = 1 .. Len(body) /\ Len(body) \in Nat \ {0} /\ Head(body) = body[1]
      /\ DOMAIN Tail(body) = 1 .. Len(body) - 1
      /\ \A i \in 1 .. Len(body) - 1 : Tail(body)[i] = body[i + 1]
  <2>1. body \in Seq(Steps) /\ Tail(body) \in Seq(Steps)
    BY BodyFacts, BodiesAssumption
  <2>2. QED
    BY <2>1, BodyFacts
<1> DEFINE Plain(step) == step.op = "check" \/ (step.op = "read" /\ ~step.tests)
<1>2. PICK i \in 1 .. Len(body) :
        body[i].op \in {"ask", "show"} /\ \A j \in 1 .. i - 1 : Plain(body[j])
  BY <1>1 DEF Tells
<1>3. CASE i = 1
  BY <1>1, <1>2, <1>3
<1>4. CASE i # 1
  <2>1. i - 1 \in 1 .. Len(body) - 1 /\ i - 1 + 1 = i /\ 1 \in 1 .. i - 1
    BY <1>1, <1>4
  <2>2. Plain(body[1])
    BY <1>2, <2>1
  <2>3. Tail(body)[i - 1].op \in {"ask", "show"}
    BY <1>1, <1>2, <2>1
  <2>4. ASSUME NEW j \in 1 .. (i - 1) - 1 PROVE Plain(Tail(body)[j])
    <3>1. j + 1 \in 1 .. i - 1 /\ j \in 1 .. Len(body) - 1
      BY <1>1, <2>1
    <3>2. QED
      BY <1>1, <1>2, <3>1
  <2>5. Tells(Tail(body))
    BY <1>1, <2>1, <2>3, <2>4 DEF Tells
  <2>6. QED
    BY <1>1, <2>2, <2>5
<1>5. QED
  BY <1>3, <1>4

LEMMA TypeFacts ==
  ASSUME CommandInv
  PROVE  /\ sends \in Nat /\ charged \in Nat /\ held \in Nat /\ told \in Nat
         /\ held \in Quantities /\ told \in Quantities /\ charged \in Quantities
         /\ quantity \in Quantities
         /\ todo \in Bodies
  BY DEF CommandInv, TypeOK, Quantities, OrderInv

\* Before the first submission.
LEMMA NothingSent ==
  ASSUME CommandInv, todo # <<>>, Head(todo).op # "send"
  PROVE  sends = 0 /\ charged = 0
<1>1. ~Submits(todo)
  BY SubmitsFacts, TypeFacts
<1>2. QED
  BY <1>1, TypeFacts DEF CommandInv, OrderInv

LEMMA CommandInit == Init => CommandInv
<1> SUFFICES ASSUME Init PROVE CommandInv
  OBVIOUS
<1>1. TypeOK
  BY MaxQuantityAssumption DEF Init, TypeOK, Quantities, Answers, Reports
<1>2. OrderInv
  BY BodiesAssumption DEF Init, OrderInv, Unseen
<1>3. QED
  BY <1>1, <1>2 DEF Init, CommandInv, ChargedAsAnnounced, EndsBeforeSending

\* A step that sends nothing and after which nothing can have been sent.
LEMMA OrderKept ==
  ASSUME CommandInv, TypeOK', UNCHANGED <<dry, quiet, sends, charged>>, sends = 0,
         todo' \in Bodies, pc' \in {"running", "done"}, Unseen' => Tells(todo)'
  PROVE  CommandInv'
<1>1. charged = 0
  BY TypeFacts DEF CommandInv, OrderInv
<1>2. OrderInv'
  BY <1>1 DEF OrderInv
<1>3. ChargedAsAnnounced' /\ EndsBeforeSending'
  BY <1>1 DEF ChargedAsAnnounced, EndsBeforeSending
<1>4. QED
  BY <1>2, <1>3 DEF CommandInv

LEMMA CommandChecks ==
  ASSUME CommandInv, CheckPasses \/ CheckFails \/ Branch \/ Return
  PROVE  CommandInv'
<1> DEFINE step == Head(todo)
<1>1. /\ pc = "running" /\ todo # <<>> /\ step.op \in {"check", "option", "end"}
      /\ UNCHANGED <<flags, held, told, reply, chain, quantity>>
  BY DEF CheckPasses, CheckFails, Branch, Return, At
<1>2. sends = 0 /\ todo \in Bodies /\ step \in Steps /\ Tail(todo) \in Bodies
  BY <1>1, NothingSent, TypeFacts, BodyFacts
<1>3. UNCHANGED <<dry, yes, quiet, held, told, reply, tx, sends, charged, quantity>>
  BY <1>1 DEF flags, chain
<1>4. pc' \in {"running", "done"} /\ report' \in Reports
  BY <1>1, <1>2, StepsAssumption
     DEF CheckPasses, CheckFails, Branch, Return, At, Stop, CommandInv, TypeOK
<1>5. TypeOK'
  BY <1>3, <1>4 DEF CommandInv, TypeOK
<1>6. todo' \in Bodies
  BY <1>1, <1>2, BodiesAssumption DEF CheckPasses, CheckFails, Branch, Return, At, Go
<1>7. Unseen' => Tells(todo)'
  <2> SUFFICES ASSUME Unseen PROVE Tells(todo)'
    BY <1>3 DEF Unseen
  <2>1. Tells(todo)
    BY DEF CommandInv, OrderInv
  <2>2. step.op = "check" /\ Tells(Tail(todo))
    BY <1>1, <1>2, <2>1, TellsFacts
  <2>3. todo' = todo \/ todo' = Tail(todo)
    BY <2>2 DEF CheckPasses, CheckFails, Branch, Return, At, Go
  <2>4. QED
    BY <2>1, <2>2, <2>3 DEF Tells
<1>8. QED
  BY <1>2, <1>3, <1>4, <1>5, <1>6, <1>7, OrderKept

LEMMA CommandNumbers ==
  ASSUME CommandInv, ConvertAmount \/ ShowNumber
  PROVE  CommandInv'
<1>1. /\ pc = "running" /\ todo # <<>> /\ Head(todo).op \in {"amount", "show"}
      /\ todo' = Tail(todo) /\ held' \in Quantities /\ told' = held'
      /\ UNCHANGED <<pc, dry, yes, quiet, reply, tx, sends, charged, report, quantity>>
  BY TypeFacts DEF ConvertAmount, ShowNumber, At, Go, flags, chain
<1>2. sends = 0 /\ todo' \in Bodies
  BY <1>1, NothingSent, TypeFacts, BodyFacts
<1>3. TypeOK'
  BY <1>1 DEF CommandInv, TypeOK
<1>4. ~Unseen'
  BY <1>1 DEF Unseen
<1>5. QED
  BY <1>1, <1>2, <1>3, <1>4, OrderKept

LEMMA CommandReads == ASSUME CommandInv, RunRead PROVE CommandInv'
<1> DEFINE step == Head(todo)
<1>1. /\ pc = "running" /\ todo # <<>> /\ step.op = "read"
      /\ UNCHANGED <<dry, yes, quiet, told, tx, sends, charged, quantity>>
  BY DEF RunRead, At, flags, chain
<1>2. sends = 0 /\ todo \in Bodies /\ Tail(todo) \in Bodies
  BY <1>1, NothingSent, TypeFacts, BodyFacts
<1>3. \/ /\ pc' = "done" /\ report' = "error"
         /\ UNCHANGED <<todo, held>>
         /\ reply' \in Answers \/ reply' = reply
      \/ /\ UNCHANGED <<pc, report>> /\ reply' \in Answers
         /\ todo' = Tail(todo) \/ (step.tests /\ todo' = step.absent)
         /\ held' = IF step.keeps THEN quantity ELSE held
  BY DEF RunRead, Stop
<1>4. TypeOK'
  BY <1>1, <1>3, TypeFacts DEF CommandInv, TypeOK, Reports
<1>5. todo' \in Bodies
  BY <1>1, <1>2, <1>3, BodiesAssumption
<1>6. Unseen' => Tells(todo)'
  <2> SUFFICES ASSUME Unseen' PROVE Tells(todo')
    BY DEF Tells
  <2>1. CASE todo' = todo /\ held' = held
    BY <1>1, <2>1 DEF CommandInv, OrderInv, Unseen
  <2>2. CASE /\ todo' = Tail(todo) \/ (step.tests /\ todo' = step.absent)
             /\ held' = IF step.keeps THEN quantity ELSE held
    <3>1. CASE step.keeps
      BY <1>1, <1>2, <2>2, <3>1, NumbersAssumption
    <3>2. CASE ~step.keeps
      <4>1. Tells(todo)
        BY <1>1, <2>2, <3>2 DEF CommandInv, OrderInv, Unseen
      <4>2. ~step.tests /\ Tells(Tail(todo))
        BY <1>1, <1>2, <4>1, TellsFacts
      <4>3. QED
        BY <2>2, <4>2
    <3>3. QED
      BY <3>1, <3>2
  <2>3. QED
    BY <1>3, <2>1, <2>2
<1>7. QED
  BY <1>1, <1>2, <1>3, <1>4, <1>5, <1>6, OrderKept

\* A prompt shows the number that is held, --quiet apart.
LEMMA CommandPrompts ==
  ASSUME CommandInv, Confirm \/ ConfirmAlways
  PROVE  CommandInv'
<1>1. /\ pc = "running" /\ todo # <<>> /\ Head(todo).op \in {"ask", "insist"}
      /\ (pc' = "asking" /\ todo' = todo) \/ (pc' = pc /\ todo' = Tail(todo))
      /\ UNCHANGED <<dry, yes, quiet, held, reply, tx, sends, charged, report, quantity>>
  BY DEF Confirm, ConfirmAlways, At, Go, flags, chain
<1>2. sends = 0 /\ charged = 0 /\ todo \in Bodies /\ Tail(todo) \in Bodies
  BY <1>1, NothingSent, TypeFacts, BodyFacts
<1>3. told' \in Quantities
  BY TypeFacts DEF Confirm, ConfirmAlways
<1>4. TypeOK'
  BY <1>1, <1>3 DEF CommandInv, TypeOK
<1>5. ~Unseen'
  <2>1. CASE Confirm
    <3>1. told' = IF held > 0 /\ ~quiet THEN held ELSE told
      BY <2>1 DEF Confirm
    <3>2. QED
      BY <1>1, <3>1 DEF Unseen
  <2>2. CASE ConfirmAlways
    <3>1. Head(todo).op = "insist" /\ told' = told
      BY <2>2 DEF ConfirmAlways, At
    <3>2. ~Tells(todo)
      BY <1>1, <1>2, <3>1, TellsFacts
    <3>3. QED
      BY <1>1, <3>1, <3>2 DEF CommandInv, OrderInv, Unseen
  <2>3. QED
    BY <2>1, <2>2
<1>6. OrderInv'
  <2>1. sends' = 0 /\ charged' = 0 /\ todo' \in Bodies
    BY <1>1, <1>2
  <2>2. pc' = "asking" => todo' # <<>> /\ Head(todo').op \in {"ask", "insist"}
    BY <1>1
  <2>3. pc' \in {"asking", "running"}
    BY <1>1
  <2>4. QED
    BY <1>5, <2>1, <2>2, <2>3 DEF OrderInv
<1>7. ChargedAsAnnounced' /\ EndsBeforeSending'
  BY <1>1, <1>2 DEF ChargedAsAnnounced, EndsBeforeSending
<1>8. QED
  BY <1>4, <1>6, <1>7 DEF CommandInv

LEMMA CommandAnswers == ASSUME CommandInv, Answer PROVE CommandInv'
<1>1. /\ pc = "asking" /\ pc' \in {"running", "done"}
      /\ todo' = todo \/ todo' = Tail(todo)
      /\ report' \in {report, "cancelled"}
      /\ UNCHANGED <<dry, yes, quiet, held, told, reply, tx, sends, charged, quantity>>
  BY DEF Answer, Go, Stop, flags, chain
<1>2. todo # <<>> /\ Head(todo).op \in {"ask", "insist"} /\ ~Unseen
  BY <1>1 DEF CommandInv, OrderInv
<1>3. sends = 0 /\ todo' \in Bodies
  BY <1>1, <1>2, NothingSent, TypeFacts, BodyFacts
<1>4. TypeOK'
  BY <1>1 DEF CommandInv, TypeOK, Reports
<1>5. ~Unseen'
  BY <1>1, <1>2 DEF Unseen
<1>6. QED
  BY <1>1, <1>3, <1>4, <1>5, OrderKept

\* What goes along was shown: a body that still has to tell does not submit.
LEMMA CommandSubmits == ASSUME CommandInv, Submit PROVE CommandInv'
<1>1. /\ pc = "running" /\ todo # <<>> /\ Head(todo).op = "send" /\ ~dry
      /\ pc' = "waiting" /\ tx' = "sent" /\ sends' = sends + 1
      /\ charged' = held \/ charged' = charged
      /\ UNCHANGED <<todo, dry, yes, quiet, held, told, reply, report, quantity>>
  BY DEF Submit, At, flags
<1>2. /\ sends \in Nat /\ held \in Nat /\ charged \in Nat /\ held \in Quantities
      /\ charged \in Quantities /\ todo \in Bodies
  BY TypeFacts
<1>3. TypeOK'
  BY <1>1, <1>2 DEF CommandInv, TypeOK
<1>4. Submits(todo)
  BY <1>1, <1>2, SubmitsFacts, SubmissionsAssumption
<1>5. ~Unseen
  <2>1. ~Tells(todo)
    BY <1>1, <1>2, TellsFacts
  <2>2. QED
    BY <2>1 DEF CommandInv, OrderInv
<1>6. ~Unseen' /\ Submits(todo)'
  BY <1>1, <1>4, <1>5 DEF Unseen, Submits
<1>7. OrderInv'
  BY <1>1, <1>2, <1>6 DEF OrderInv
<1>8. ChargedAsAnnounced'
  BY <1>1, <1>2, <1>5 DEF CommandInv, ChargedAsAnnounced, Unseen
<1>9. EndsBeforeSending'
  BY <1>1 DEF EndsBeforeSending
<1>10. QED
  BY <1>3, <1>7, <1>8, <1>9 DEF CommandInv

LEMMA CommandReceives == ASSUME CommandInv, Receive PROVE CommandInv'
<1>1. /\ pc = "waiting" /\ UNCHANGED <<dry, yes, quiet, held, told, reply, tx, sends, charged, quantity>>
      /\ \/ pc' = "running" /\ todo' = Tail(todo) /\ report' = report
         \/ pc' = "done" /\ todo' = todo /\ report' = "error"
  BY DEF Receive, Go, Stop, flags, chain
<1>2. todo # <<>> /\ todo \in Bodies /\ sends > 0 /\ ~dry /\ Submits(todo)
  BY <1>1 DEF CommandInv, OrderInv
<1>3. Head(todo).op = "send" /\ Submits(Tail(todo)) /\ Tail(todo) \in Bodies
  BY <1>2, SubmitsFacts, BodyFacts
<1>4. ~Unseen
  BY <1>2, <1>3, TellsFacts DEF CommandInv, OrderInv
<1>5. TypeOK'
  BY <1>1 DEF CommandInv, TypeOK, Reports
<1>6. Submits(todo)' /\ ~Unseen'
  BY <1>1, <1>2, <1>3, <1>4 DEF Submits, Unseen
<1>7. OrderInv'
  BY <1>1, <1>2, <1>3, <1>6 DEF OrderInv
<1>8. ChargedAsAnnounced' /\ EndsBeforeSending'
  BY <1>1 DEF CommandInv, ChargedAsAnnounced, EndsBeforeSending
<1>9. QED
  BY <1>5, <1>7, <1>8 DEF CommandInv

LEMMA CommandStarts == ASSUME CommandInv, Start \/ Usage PROVE CommandInv'
<1>1. /\ pc = "idle" /\ pc' \in {"running", "done"}
      /\ todo' = todo \/ \E c \in DOMAIN Catalogue : todo' = Catalogue[c]
      /\ report' \in {report, "usage"}
      /\ UNCHANGED <<dry, yes, quiet, held, told, reply, tx, sends, charged, quantity>>
  BY DEF Start, Usage, Stop, flags, chain
<1>2. sends = 0 /\ todo = <<>> /\ todo' \in Bodies
  BY <1>1, BodiesAssumption DEF CommandInv, OrderInv
<1>3. TypeOK'
  BY <1>1 DEF CommandInv, TypeOK, Reports
<1>4. ~Unseen'
  BY <1>1, <1>2, EmptyBody DEF CommandInv, OrderInv, Unseen
<1>5. QED
  BY <1>1, <1>2, <1>3, <1>4, OrderKept

\* The other ends of a command, and the chain.
LEMMA CommandEnds ==
  ASSUME CommandInv, SubmitFails \/ Preview \/ WaitFails \/ Interrupt \/ Finish
  PROVE  CommandInv'
<1>1. /\ pc' = "done" /\ report' \in {"error", "traceback", "preview", "aborted", "success", "shown"}
      /\ report' = "preview" => dry
      /\ UNCHANGED <<todo, dry, yes, quiet, held, told, reply, tx, sends, charged, quantity>>
  BY DEF SubmitFails, Preview, WaitFails, Interrupt, Finish, Stop, flags, chain
<1>2. TypeOK'
  BY <1>1 DEF CommandInv, TypeOK, Reports
<1>3. OrderInv'
  BY <1>1 DEF CommandInv, OrderInv, Unseen, Submits, Tells
<1>4. ChargedAsAnnounced'
  BY <1>1 DEF CommandInv, ChargedAsAnnounced
<1>5. EndsBeforeSending'
  <2>1. dry => sends = 0
    BY TypeFacts DEF CommandInv, OrderInv
  <2>2. QED
    BY <1>1, <2>1 DEF EndsBeforeSending
<1>6. QED
  BY <1>2, <1>3, <1>4, <1>5 DEF CommandInv

LEMMA CommandChain ==
  ASSUME CommandInv, Execute \/ Drift \/ UNCHANGED vars
  PROVE  CommandInv'
<1>1. /\ UNCHANGED <<pc, todo, dry, yes, quiet, held, told, reply, sends, charged, report>>
      /\ tx' \in {tx, "executed", "reverted"} /\ quantity' \in Quantities
  BY TypeFacts DEF Execute, Drift, vars, flags, chain
<1>2. TypeOK'
  BY <1>1 DEF CommandInv, TypeOK
<1>3. OrderInv'
  BY <1>1 DEF CommandInv, OrderInv, Unseen, Submits, Tells
<1>4. ChargedAsAnnounced' /\ EndsBeforeSending'
  BY <1>1 DEF CommandInv, ChargedAsAnnounced, EndsBeforeSending
<1>5. QED
  BY <1>2, <1>3, <1>4 DEF CommandInv

LEMMA CommandStep == CommandInv /\ [Next]_vars => CommandInv'
  BY CommandChecks, CommandNumbers, CommandReads, CommandPrompts, CommandAnswers,
     CommandSubmits, CommandReceives, CommandStarts, CommandEnds, CommandChain
     DEF Next, Progress

\* Whatever the commands are made of, as long as their steps are typed.
THEOREM CommandsTyped == Spec => []TypeOK
<1>1. CommandInv => TypeOK
  BY DEF CommandInv
<1>2. QED
  BY <1>1, CommandInit, CommandStep, PTL DEF Spec

\* For every command that shows a number after it read it and before it submits:
\* the fee or the debt that goes along is the one that was shown, whatever
\* happens on the chain meanwhile (vault.py:57-71, lending.py:306-355).
THEOREM ChargesCorrect == Spec => []ChargedAsAnnounced
<1>1. CommandInv => ChargedAsAnnounced
  BY DEF CommandInv
<1>2. QED
  BY <1>1, CommandInit, CommandStep, PTL DEF Spec

\* For every command that does nothing but submit once it has begun to: no
\* refusal, declined prompt or preview comes after a submission, with options,
\* prompts and --dry-run in any combination.
THEOREM RefusalsComeFirst == Spec => []EndsBeforeSending
<1>1. CommandInv => EndsBeforeSending
  BY DEF CommandInv
<1>2. QED
  BY <1>1, CommandInit, CommandStep, PTL DEF Spec
=============================================================================
