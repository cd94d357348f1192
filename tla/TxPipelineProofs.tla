-------------------------- MODULE TxPipelineProofs --------------------------
(***************************************************************************)
(* The safety of the pipeline for any number of invocations, any retry     *)
(* limit and any number of forks.                                          *)
(***************************************************************************)
EXTENDS TxPipeline, TLAPS

\* What each place of the code has, and has not, done so far.
Stage(i) ==
  /\ pc[i] = "idle" =>
         mode[i] = "read" /\ report[i] = "none"
  /\ pc[i] \in {"signer", "simulate", "fee", "estimate", "sign", "send", "watch"} =>
         mode[i] # "read"
  /\ pc[i] \in {"query", "simulate", "fee"} => mode[i] # "write"
  /\ pc[i] \in {"estimate", "sign", "send", "watch"} => mode[i] = "write"
  /\ pc[i] \notin {"send", "watch", "done"} => ~signed[i]
  /\ tx[i] # "none" => pc[i] \in {"watch", "done"} /\ mode[i] = "write"
  /\ pc[i] = "watch" => tx[i] # "none"
  /\ report[i] # "none" => pc[i] = "done"
  /\ report[i] = "success" => mode[i] = "write" /\ told[i] = "ok"
  /\ report[i] = "traceback" => ~signed[i] /\ tx[i] = "none" /\ external[i]

Stages == \A i \in Invocations : Stage(i)

\* What the answer given to the process says about the extrinsic.
AnswerOf(i) ==
  /\ tx[i] \in {"none", "inflight", "rejected", "lost"} => told[i] = "none"
  /\ retracts = 0 /\ tx[i] = "pool" => told[i] = "none"
  /\ retracts = 0 /\ told[i] = "ok" => tx[i] \in {"okInBlock", "okFinal"}

Answers == \A i \in Invocations : AnswerOf(i)

\* Every spent nonce of the account belongs to an extrinsic in a block.
NoncesSpent ==
  \A n \in 0 .. accountNonce - 1 :
    \E j \in Invocations : tx[j] \in InBlock \cup Final /\ nonce[j] = n

\* Where an extrinsic's nonce stands: ahead of the account's in the pool, behind
\* it in a block, and no two of them have the same.
Taken == {"pool"} \cup InBlock \cup Final
NoncesInOrder ==
  /\ \A i \in Invocations :
       /\ tx[i] = "pool" => nonce[i] >= accountNonce
       /\ tx[i] \in InBlock \cup Final => nonce[i] < accountNonce
  /\ \A i, j \in Invocations :
       i # j /\ tx[i] \in Taken /\ tx[j] \in Taken => nonce[i] # nonce[j]

\* While the pool gives nothing up, every nonce from the account's to one that
\* was signed is in the pool: a fork puts back what it takes.
Gapless ==
  (\A j \in Invocations : tx[j] # "dropped") =>
    \A i \in Invocations : \A n \in accountNonce .. nonce[i] - 1 : InPool(n)

\* A process that waits unanswered has an extrinsic that nothing decided yet.
Unanswered ==
  \A i \in Invocations :
    pc[i] = "watch" /\ told[i] = "none" =>
      tx[i] \in {"inflight", "pool", "rejected", "dropped"}

IInv ==
  /\ TypeOK
  /\ Stages
  /\ Answers
  /\ NoncesSpent
  /\ RefusedOnlyByARival
  /\ NoncesInOrder
  /\ Gapless
  /\ Unanswered
----------------------------------------------------------------------------

\* Every step keeps the type invariant.
LEMMA TypeStep == TypeOK /\ [Next]_vars => TypeOK'
<1> SUFFICES ASSUME TypeOK, [Next]_vars PROVE TypeOK'
  OBVIOUS
<1> USE MaxRetriesAssumption, MaxRetractsAssumption DEF TypeOK, Pcs, Running,
        Modes, Outcomes, Reports, TxStates, InBlock, Final, OuterOk
<1>1. CASE UNCHANGED vars
  BY <1>1 DEF vars, perProcess, chain
<1>2. CASE Drift
  BY <1>2 DEF Drift, perProcess
<1>3. ASSUME NEW i \in Invocations, Start(i)
      PROVE  TypeOK'
  BY <1>3 DEF Start, Goto, chain
<1>4. ASSUME NEW i \in Invocations, ResolveSigner(i)
      PROVE  TypeOK'
  BY <1>4 DEF ResolveSigner, Goto, chain
<1>5. ASSUME NEW i \in Invocations, SignerFails(i)
      PROVE  TypeOK'
  BY <1>5 DEF SignerFails, Exit, Goto, chain
<1>6. ASSUME NEW i \in Invocations, ConnectOk(i)
      PROVE  TypeOK'
  BY <1>6 DEF ConnectOk, Goto, chain
<1>7. ASSUME NEW i \in Invocations, ConnectRetry(i)
      PROVE  TypeOK'
  BY <1>7 DEF ConnectRetry, Goto, chain
<1>8. ASSUME NEW i \in Invocations, ConnectGivesUp(i)
      PROVE  TypeOK'
  BY <1>8 DEF ConnectGivesUp, Exit, Goto, chain
<1>9. ASSUME NEW i \in Invocations, Query(i)
      PROVE  TypeOK'
  BY <1>9 DEF Query, Exit, Goto, chain
<1>10. ASSUME NEW i \in Invocations, Simulate(i)
      PROVE  TypeOK'
  BY <1>10 DEF Simulate, Goto, Exit, chain
<1>11. ASSUME NEW i \in Invocations, EstimateFee(i)
      PROVE  TypeOK'
  BY <1>11 DEF EstimateFee, Exit, Goto, chain
<1>12. ASSUME NEW i \in Invocations, Estimate(i)
      PROVE  TypeOK'
  BY <1>12 DEF Estimate, Goto, Exit, chain
<1>13. ASSUME NEW i \in Invocations, Sign(i)
      PROVE  TypeOK'
  BY <1>13 DEF Sign, Goto, chain
<1>14. ASSUME NEW i \in Invocations, Send(i)
      PROVE  TypeOK'
  BY <1>14 DEF Send, Goto, chain
<1>15. ASSUME NEW i \in Invocations, Receive(i)
      PROVE  TypeOK'
  BY <1>15 DEF Receive, Exit, Goto, chain
<1>16. ASSUME NEW i \in Invocations, Raise(i)
      PROVE  TypeOK'
  BY <1>16 DEF Raise, Exit, Goto, chain
<1>17. ASSUME NEW i \in Invocations, Interrupt(i)
      PROVE  TypeOK'
  BY <1>17 DEF Interrupt, Exit, Goto, chain
<1>18. ASSUME NEW i \in Invocations, Arrive(i)
      PROVE  TypeOK'
  BY <1>18 DEF Arrive, perProcess, chain
<1>19. ASSUME NEW i \in Invocations, LoseInFlight(i)
      PROVE  TypeOK'
  BY <1>19 DEF LoseInFlight, perProcess, chain
<1>20. ASSUME NEW i \in Invocations, Include(i)
      PROVE  TypeOK'
  BY <1>20 DEF Include, perProcess
<1>21. ASSUME NEW i \in Invocations, Drop(i)
      PROVE  TypeOK'
  BY <1>21 DEF Drop, perProcess, chain
<1>22. ASSUME NEW i \in Invocations, Finalize(i)
      PROVE  TypeOK'
  BY <1>22 DEF Finalize, perProcess, chain
<1>23. ASSUME NEW i \in Invocations, Retract(i)
      PROVE  TypeOK'
  BY <1>23 DEF Retract, perProcess
<1>24. QED
  BY <1>1, <1>2, <1>3, <1>4, <1>5, <1>6, <1>7, <1>8, <1>9, <1>10, <1>11, <1>12, <1>13, <1>14, <1>15, <1>16, <1>17, <1>18, <1>19, <1>20, <1>21, <1>22, <1>23 DEF Next, Progress, Chain

\* Every step keeps what the places of the code have done so far.
LEMMA StagesStep == TypeOK /\ Stages /\ [Next]_vars => Stages'
<1> SUFFICES ASSUME TypeOK, Stages, [Next]_vars,
                    NEW k \in Invocations
             PROVE  Stage(k)'
  BY DEF Stages
<1> USE DEF TypeOK, Stages, Stage, Running, Modes, InBlock, OuterOk
<1>1. CASE UNCHANGED vars
  BY <1>1 DEF vars, perProcess, chain
<1>2. CASE Drift
  BY <1>2 DEF Drift, perProcess
<1>3. ASSUME NEW i \in Invocations, Start(i)
      PROVE  Stage(k)'
  BY <1>3 DEF Start, Goto, chain
<1>4. ASSUME NEW i \in Invocations, ResolveSigner(i)
      PROVE  Stage(k)'
  BY <1>4 DEF ResolveSigner, Goto, chain
<1>5. ASSUME NEW i \in Invocations, SignerFails(i)
      PROVE  Stage(k)'
  BY <1>5 DEF SignerFails, Goto, Exit, chain
<1>6. ASSUME NEW i \in Invocations, ConnectOk(i)
      PROVE  Stage(k)'
  BY <1>6 DEF ConnectOk, Goto, chain
<1>7. ASSUME NEW i \in Invocations, ConnectRetry(i)
      PROVE  Stage(k)'
  BY <1>7 DEF ConnectRetry, Goto, chain
<1>8. ASSUME NEW i \in Invocations, ConnectGivesUp(i)
      PROVE  Stage(k)'
  BY <1>8 DEF ConnectGivesUp, Goto, Exit, chain
<1>9. ASSUME NEW i \in Invocations, Query(i)
      PROVE  Stage(k)'
  BY <1>9 DEF Query, Goto, Exit, chain
<1>10. ASSUME NEW i \in Invocations, Simulate(i)
      PROVE  Stage(k)'
  BY <1>10 DEF Simulate, Goto, Exit, chain
<1>11. ASSUME NEW i \in Invocations, EstimateFee(i)
      PROVE  Stage(k)'
  BY <1>11 DEF EstimateFee, Goto, Exit, chain
<1>12. ASSUME NEW i \in Invocations, Estimate(i)
      PROVE  Stage(k)'
  BY <1>12 DEF Estimate, Goto, Exit, chain
<1>13. ASSUME NEW i \in Invocations, Sign(i)
      PROVE  Stage(k)'
  BY <1>13 DEF Sign, Goto, chain
<1>14. ASSUME NEW i \in Invocations, Send(i)
      PROVE  Stage(k)'
  BY <1>14 DEF Send, Goto, chain
<1>15. ASSUME NEW i \in Invocations, Receive(i)
      PROVE  Stage(k)'
  BY <1>15 DEF Receive, Goto, Exit, chain
<1>16. ASSUME NEW i \in Invocations, Raise(i)
      PROVE  Stage(k)'
  BY <1>16 DEF Raise, Goto, Exit, chain
<1>17. ASSUME NEW i \in Invocations, Interrupt(i)
      PROVE  Stage(k)'
  BY <1>17 DEF Interrupt, Goto, Exit, chain
<1>18. ASSUME NEW i \in Invocations, Arrive(i)
      PROVE  Stage(k)'
  BY <1>18 DEF Arrive, perProcess, chain
<1>19. ASSUME NEW i \in Invocations, LoseInFlight(i)
      PROVE  Stage(k)'
  BY <1>19 DEF LoseInFlight, perProcess, chain
<1>20. ASSUME NEW i \in Invocations, Include(i)
      PROVE  Stage(k)'
  BY <1>20 DEF Include, perProcess
<1>21. ASSUME NEW i \in Invocations, Drop(i)
      PROVE  Stage(k)'
  BY <1>21 DEF Drop, perProcess, chain
<1>22. ASSUME NEW i \in Invocations, Finalize(i)
      PROVE  Stage(k)'
  BY <1>22 DEF Finalize, perProcess, chain
<1>23. ASSUME NEW i \in Invocations, Retract(i)
      PROVE  Stage(k)'
  BY <1>23 DEF Retract, perProcess
<1>24. QED
  BY <1>1, <1>2, <1>3, <1>4, <1>5, <1>6, <1>7, <1>8, <1>9, <1>10, <1>11, <1>12,
     <1>13, <1>14, <1>15, <1>16, <1>17, <1>18, <1>19, <1>20, <1>21, <1>22, <1>23
  DEF Next, Progress, Chain

\* Every step keeps what an answer says about the extrinsic.
LEMMA AnswersStep == TypeOK /\ Stages /\ Answers /\ [Next]_vars => Answers'
<1> SUFFICES ASSUME TypeOK, Stages, Answers, [Next]_vars,
                    NEW k \in Invocations
             PROVE  AnswerOf(k)'
  BY DEF Answers
<1> USE MaxRetractsAssumption
    DEF TypeOK, Stages, Stage, Answers, AnswerOf, InBlock
<1>1. CASE UNCHANGED vars
  BY <1>1 DEF vars, perProcess, chain
<1>2. CASE Drift
  BY <1>2 DEF Drift, perProcess
<1>3. ASSUME NEW i \in Invocations, Start(i)
      PROVE  AnswerOf(k)'
  BY <1>3 DEF Start, Goto, chain
<1>4. ASSUME NEW i \in Invocations, ResolveSigner(i)
      PROVE  AnswerOf(k)'
  BY <1>4 DEF ResolveSigner, Goto, chain
<1>5. ASSUME NEW i \in Invocations, SignerFails(i)
      PROVE  AnswerOf(k)'
  BY <1>5 DEF SignerFails, Goto, Exit, chain
<1>6. ASSUME NEW i \in Invocations, ConnectOk(i)
      PROVE  AnswerOf(k)'
  BY <1>6 DEF ConnectOk, Goto, chain
<1>7. ASSUME NEW i \in Invocations, ConnectRetry(i)
      PROVE  AnswerOf(k)'
  BY <1>7 DEF ConnectRetry, Goto, chain
<1>8. ASSUME NEW i \in Invocations, ConnectGivesUp(i)
      PROVE  AnswerOf(k)'
  BY <1>8 DEF ConnectGivesUp, Goto, Exit, chain
<1>9. ASSUME NEW i \in Invocations, Query(i)
      PROVE  AnswerOf(k)'
  BY <1>9 DEF Query, Goto, Exit, chain
<1>10. ASSUME NEW i \in Invocations, Simulate(i)
      PROVE  AnswerOf(k)'
  BY <1>10 DEF Simulate, Goto, Exit, chain
<1>11. ASSUME NEW i \in Invocations, EstimateFee(i)
      PROVE  AnswerOf(k)'
  BY <1>11 DEF EstimateFee, Goto, Exit, chain
<1>12. ASSUME NEW i \in Invocations, Estimate(i)
      PROVE  AnswerOf(k)'
  BY <1>12 DEF Estimate, Goto, Exit, chain
<1>13. ASSUME NEW i \in Invocations, Sign(i)
      PROVE  AnswerOf(k)'
  BY <1>13 DEF Sign, Goto, chain
<1>14. ASSUME NEW i \in Invocations, Send(i)
      PROVE  AnswerOf(k)'
  BY <1>14 DEF Send, Goto, chain
<1>15. ASSUME NEW i \in Invocations, Receive(i)
      PROVE  AnswerOf(k)'
  BY <1>15 DEF Receive, Goto, Exit, chain
<1>16. ASSUME NEW i \in Invocations, Raise(i)
      PROVE  AnswerOf(k)'
  BY <1>16 DEF Raise, Goto, Exit, chain
<1>17. ASSUME NEW i \in Invocations, Interrupt(i)
      PROVE  AnswerOf(k)'
  BY <1>17 DEF Interrupt, Goto, Exit, chain
<1>18. ASSUME NEW i \in Invocations, Arrive(i)
      PROVE  AnswerOf(k)'
  BY <1>18 DEF Arrive, perProcess, chain
<1>19. ASSUME NEW i \in Invocations, LoseInFlight(i)
      PROVE  AnswerOf(k)'
  BY <1>19 DEF LoseInFlight, perProcess, chain
<1>20. ASSUME NEW i \in Invocations, Include(i)
      PROVE  AnswerOf(k)'
  BY <1>20 DEF Include, perProcess
<1>21. ASSUME NEW i \in Invocations, Drop(i)
      PROVE  AnswerOf(k)'
  BY <1>21 DEF Drop, perProcess, chain
<1>22. ASSUME NEW i \in Invocations, Finalize(i)
      PROVE  AnswerOf(k)'
  BY <1>22 DEF Finalize, perProcess, chain
<1>23. ASSUME NEW i \in Invocations, Retract(i)
      PROVE  AnswerOf(k)'
  BY <1>23 DEF Retract, perProcess
<1>24. QED
  BY <1>1, <1>2, <1>3, <1>4, <1>5, <1>6, <1>7, <1>8, <1>9, <1>10, <1>11, <1>12,
     <1>13, <1>14, <1>15, <1>16, <1>17, <1>18, <1>19, <1>20, <1>21, <1>22, <1>23
  DEF Next, Progress, Chain

\* Every step keeps the account's nonces spent by extrinsics in blocks.
LEMMA NoncesStep == TypeOK /\ Stages /\ NoncesSpent /\ [Next]_vars => NoncesSpent'
<1> SUFFICES ASSUME TypeOK, Stages, NoncesSpent, [Next]_vars
             PROVE  NoncesSpent'
  OBVIOUS
<1> USE DEF TypeOK, Stages, Stage, NoncesSpent, InBlock, Final
<1>1. CASE UNCHANGED vars
  BY <1>1 DEF vars, perProcess, chain
<1>2. CASE Drift
  BY <1>2 DEF Drift, perProcess
<1>3. ASSUME NEW i \in Invocations, Start(i)
      PROVE  NoncesSpent'
  BY <1>3 DEF Start, Goto, chain
<1>4. ASSUME NEW i \in Invocations, ResolveSigner(i)
      PROVE  NoncesSpent'
  BY <1>4 DEF ResolveSigner, Goto, chain
<1>5. ASSUME NEW i \in Invocations, SignerFails(i)
      PROVE  NoncesSpent'
  BY <1>5 DEF SignerFails, Goto, Exit, chain
<1>6. ASSUME NEW i \in Invocations, ConnectOk(i)
      PROVE  NoncesSpent'
  BY <1>6 DEF ConnectOk, Goto, chain
<1>7. ASSUME NEW i \in Invocations, ConnectRetry(i)
      PROVE  NoncesSpent'
  BY <1>7 DEF ConnectRetry, Goto, chain
<1>8. ASSUME NEW i \in Invocations, ConnectGivesUp(i)
      PROVE  NoncesSpent'
  BY <1>8 DEF ConnectGivesUp, Goto, Exit, chain
<1>9. ASSUME NEW i \in Invocations, Query(i)
      PROVE  NoncesSpent'
  BY <1>9 DEF Query, Goto, Exit, chain
<1>10. ASSUME NEW i \in Invocations, Simulate(i)
      PROVE  NoncesSpent'
  BY <1>10 DEF Simulate, Goto, Exit, chain
<1>11. ASSUME NEW i \in Invocations, EstimateFee(i)
      PROVE  NoncesSpent'
  BY <1>11 DEF EstimateFee, Goto, Exit, chain
<1>12. ASSUME NEW i \in Invocations, Estimate(i)
      PROVE  NoncesSpent'
  BY <1>12 DEF Estimate, Goto, Exit, chain
<1>13. ASSUME NEW i \in Invocations, Sign(i)
      PROVE  NoncesSpent'
  BY <1>13 DEF Sign, Goto, chain
<1>14. ASSUME NEW i \in Invocations, Send(i)
      PROVE  NoncesSpent'
  BY <1>14 DEF Send, Goto, chain
<1>15. ASSUME NEW i \in Invocations, Receive(i)
      PROVE  NoncesSpent'
  BY <1>15 DEF Receive, Goto, Exit, chain
<1>16. ASSUME NEW i \in Invocations, Raise(i)
      PROVE  NoncesSpent'
  BY <1>16 DEF Raise, Goto, Exit, chain
<1>17. ASSUME NEW i \in Invocations, Interrupt(i)
      PROVE  NoncesSpent'
  BY <1>17 DEF Interrupt, Goto, Exit, chain
<1>18. ASSUME NEW i \in Invocations, Arrive(i)
      PROVE  NoncesSpent'
  BY <1>18 DEF Arrive, perProcess, chain
<1>19. ASSUME NEW i \in Invocations, LoseInFlight(i)
      PROVE  NoncesSpent'
  BY <1>19 DEF LoseInFlight, perProcess, chain
<1>20. ASSUME NEW i \in Invocations, Include(i)
      PROVE  NoncesSpent'
  BY <1>20 DEF Include, perProcess
<1>21. ASSUME NEW i \in Invocations, Drop(i)
      PROVE  NoncesSpent'
  BY <1>21 DEF Drop, perProcess, chain
<1>22. ASSUME NEW i \in Invocations, Finalize(i)
      PROVE  NoncesSpent'
  BY <1>22 DEF Finalize, perProcess, chain
<1>23. ASSUME NEW i \in Invocations, Retract(i)
      PROVE  NoncesSpent'
  BY <1>23 DEF Retract, perProcess
<1>24. QED
  BY <1>1, <1>2, <1>3, <1>4, <1>5, <1>6, <1>7, <1>8, <1>9, <1>10, <1>11, <1>12,
     <1>13, <1>14, <1>15, <1>16, <1>17, <1>18, <1>19, <1>20, <1>21, <1>22, <1>23
  DEF Next, Progress, Chain

\* Every step keeps the rival of a refused extrinsic.
LEMMA RivalStep ==
  TypeOK /\ Stages /\ NoncesSpent /\ RefusedOnlyByARival /\ [Next]_vars
    => RefusedOnlyByARival'
<1> SUFFICES ASSUME TypeOK, Stages, NoncesSpent, RefusedOnlyByARival, [Next]_vars
             PROVE  RefusedOnlyByARival'
  OBVIOUS
<1> USE DEF TypeOK, Stages, Stage, RefusedOnlyByARival
<1>1. CASE UNCHANGED vars
  BY <1>1 DEF vars, perProcess, chain
<1>2. CASE Drift
  BY <1>2 DEF Drift, perProcess
<1>3. ASSUME NEW i \in Invocations, Start(i)
      PROVE  RefusedOnlyByARival'
  BY <1>3 DEF Start, Goto, chain
<1>4. ASSUME NEW i \in Invocations, ResolveSigner(i)
      PROVE  RefusedOnlyByARival'
  BY <1>4 DEF ResolveSigner, Goto, chain
<1>5. ASSUME NEW i \in Invocations, SignerFails(i)
      PROVE  RefusedOnlyByARival'
  BY <1>5 DEF SignerFails, Goto, Exit, chain
<1>6. ASSUME NEW i \in Invocations, ConnectOk(i)
      PROVE  RefusedOnlyByARival'
  BY <1>6 DEF ConnectOk, Goto, chain
<1>7. ASSUME NEW i \in Invocations, ConnectRetry(i)
      PROVE  RefusedOnlyByARival'
  BY <1>7 DEF ConnectRetry, Goto, chain
<1>8. ASSUME NEW i \in Invocations, ConnectGivesUp(i)
      PROVE  RefusedOnlyByARival'
  BY <1>8 DEF ConnectGivesUp, Goto, Exit, chain
<1>9. ASSUME NEW i \in Invocations, Query(i)
      PROVE  RefusedOnlyByARival'
  BY <1>9 DEF Query, Goto, Exit, chain
<1>10. ASSUME NEW i \in Invocations, Simulate(i)
      PROVE  RefusedOnlyByARival'
  BY <1>10 DEF Simulate, Goto, Exit, chain
<1>11. ASSUME NEW i \in Invocations, EstimateFee(i)
      PROVE  RefusedOnlyByARival'
  BY <1>11 DEF EstimateFee, Goto, Exit, chain
<1>12. ASSUME NEW i \in Invocations, Estimate(i)
      PROVE  RefusedOnlyByARival'
  BY <1>12 DEF Estimate, Goto, Exit, chain
<1>13. ASSUME NEW i \in Invocations, Sign(i)
      PROVE  RefusedOnlyByARival'
  BY <1>13 DEF Sign, Goto, chain
<1>14. ASSUME NEW i \in Invocations, Send(i)
      PROVE  RefusedOnlyByARival'
  BY <1>14 DEF Send, Goto, chain
<1>15. ASSUME NEW i \in Invocations, Receive(i)
      PROVE  RefusedOnlyByARival'
  BY <1>15 DEF Receive, Goto, Exit, chain
<1>16. ASSUME NEW i \in Invocations, Raise(i)
      PROVE  RefusedOnlyByARival'
  BY <1>16 DEF Raise, Goto, Exit, chain
<1>17. ASSUME NEW i \in Invocations, Interrupt(i)
      PROVE  RefusedOnlyByARival'
  BY <1>17 DEF Interrupt, Goto, Exit, chain
<1>18. ASSUME NEW i \in Invocations, Arrive(i)
      PROVE  RefusedOnlyByARival'
  <2>1. CASE tx'[i] = "pool"
    BY <1>18, <2>1 DEF Arrive, perProcess, chain
  <2>2. CASE tx'[i] = "rejected"
    <3>1. \E j \in Invocations :
            tx[j] # "none" /\ tx[j] # "inflight" /\ nonce[j] = nonce[i]
      BY <1>18, <2>2 DEF Arrive, InPool, NoncesSpent, InBlock, Final
    <3>2. QED
      BY <1>18, <3>1 DEF Arrive, perProcess, chain
  <2>3. QED
    BY <1>18, <2>1, <2>2 DEF Arrive
<1>19. ASSUME NEW i \in Invocations, LoseInFlight(i)
      PROVE  RefusedOnlyByARival'
  BY <1>19 DEF LoseInFlight, perProcess, chain
<1>20. ASSUME NEW i \in Invocations, Include(i)
      PROVE  RefusedOnlyByARival'
  BY <1>20 DEF Include, perProcess
<1>21. ASSUME NEW i \in Invocations, Drop(i)
      PROVE  RefusedOnlyByARival'
  BY <1>21 DEF Drop, perProcess, chain
<1>22. ASSUME NEW i \in Invocations, Finalize(i)
      PROVE  RefusedOnlyByARival'
  BY <1>22 DEF Finalize, perProcess, chain
<1>23. ASSUME NEW i \in Invocations, Retract(i)
      PROVE  RefusedOnlyByARival'
  BY <1>23 DEF Retract, perProcess
<1>24. QED
  BY <1>1, <1>2, <1>3, <1>4, <1>5, <1>6, <1>7, <1>8, <1>9, <1>10, <1>11, <1>12,
     <1>13, <1>14, <1>15, <1>16, <1>17, <1>18, <1>19, <1>20, <1>21, <1>22, <1>23
  DEF Next, Progress, Chain
\* Most steps of a process leave the extrinsics alone, and what it waits for.
LEMMA LeavesExtrinsics ==
  ASSUME TypeOK, NEW i \in Invocations,
         \/ Start(i) \/ ResolveSigner(i) \/ SignerFails(i) \/ ConnectOk(i)
         \/ ConnectRetry(i) \/ ConnectGivesUp(i) \/ Query(i) \/ Simulate(i)
         \/ EstimateFee(i) \/ Estimate(i) \/ Receive(i) \/ Raise(i) \/ Interrupt(i)
  PROVE  /\ UNCHANGED <<tx, nonce, told, accountNonce>>
         /\ \A k \in Invocations : pc'[k] = "watch" => pc[k] = "watch"
<1> USE DEF TypeOK, Pcs, Running, Modes, Goto, Exit, chain
<1>1. CASE Start(i)
  BY <1>1 DEF Start
<1>2. CASE ResolveSigner(i)
  BY <1>2 DEF ResolveSigner
<1>3. CASE SignerFails(i)
  BY <1>3 DEF SignerFails
<1>4. CASE ConnectOk(i)
  BY <1>4 DEF ConnectOk
<1>5. CASE ConnectRetry(i)
  BY <1>5 DEF ConnectRetry
<1>6. CASE ConnectGivesUp(i)
  BY <1>6 DEF ConnectGivesUp
<1>7. CASE Query(i)
  BY <1>7 DEF Query
<1>8. CASE Simulate(i)
  BY <1>8 DEF Simulate
<1>9. CASE EstimateFee(i)
  BY <1>9 DEF EstimateFee
<1>10. CASE Estimate(i)
  BY <1>10 DEF Estimate
<1>11. CASE Receive(i)
  BY <1>11 DEF Receive
<1>12. CASE Raise(i)
  BY <1>12 DEF Raise
<1>13. CASE Interrupt(i)
  BY <1>13 DEF Interrupt
<1>14. QED
  BY <1>1, <1>2, <1>3, <1>4, <1>5, <1>6, <1>7, <1>8, <1>9, <1>10, <1>11, <1>12, <1>13

\* Every step keeps the nonces in order.
LEMMA OrderStep == TypeOK /\ Stages /\ NoncesInOrder /\ [Next]_vars => NoncesInOrder'
<1> SUFFICES ASSUME TypeOK, Stages, NoncesInOrder, [Next]_vars PROVE NoncesInOrder'
  OBVIOUS
<1> USE DEF TypeOK, Stages, Stage, NoncesInOrder, Taken, InPool, InBlock, Final
<1>1. CASE UNCHANGED vars
  BY <1>1 DEF vars, perProcess, chain
<1>2. CASE Drift
  BY <1>2 DEF Drift, perProcess
<1>3. ASSUME NEW i \in Invocations,
             \/ Start(i) \/ ResolveSigner(i) \/ SignerFails(i) \/ ConnectOk(i)
             \/ ConnectRetry(i) \/ ConnectGivesUp(i) \/ Query(i) \/ Simulate(i)
             \/ EstimateFee(i) \/ Estimate(i) \/ Receive(i) \/ Raise(i) \/ Interrupt(i)
      PROVE  NoncesInOrder'
  BY <1>3, LeavesExtrinsics
<1>4. ASSUME NEW i \in Invocations, Sign(i)
      PROVE  NoncesInOrder'
  BY <1>4 DEF Sign, Goto, chain
<1>5. ASSUME NEW i \in Invocations, Send(i)
      PROVE  NoncesInOrder'
  BY <1>5 DEF Send, Goto, chain
<1>6. ASSUME NEW i \in Invocations, Arrive(i)
      PROVE  NoncesInOrder'
  BY <1>6 DEF Arrive, perProcess, chain
<1>7. ASSUME NEW i \in Invocations, LoseInFlight(i)
      PROVE  NoncesInOrder'
  BY <1>7 DEF LoseInFlight, perProcess, chain
<1>8. ASSUME NEW i \in Invocations, Include(i)
      PROVE  NoncesInOrder'
  BY <1>8 DEF Include, perProcess
<1>9. ASSUME NEW i \in Invocations, Drop(i)
      PROVE  NoncesInOrder'
  BY <1>9 DEF Drop, perProcess, chain
<1>10. ASSUME NEW i \in Invocations, Finalize(i)
      PROVE  NoncesInOrder'
  BY <1>10 DEF Finalize, perProcess, chain
<1>11. ASSUME NEW i \in Invocations, Retract(i)
      PROVE  NoncesInOrder'
  BY <1>11 DEF Retract, perProcess
<1>12. QED
  BY <1>1, <1>2, <1>3, <1>4, <1>5, <1>6, <1>7, <1>8, <1>9, <1>10, <1>11
  DEF Next, Progress, Chain

\* No step opens a gap in the nonces of the pool.
LEMMA GaplessStep == TypeOK /\ Stages /\ NoncesInOrder /\ Gapless /\ [Next]_vars => Gapless'
<1> SUFFICES ASSUME TypeOK, Stages, NoncesInOrder, Gapless, [Next]_vars PROVE Gapless'
  OBVIOUS
<1> USE DEF TypeOK, Stages, Stage, NoncesInOrder, Gapless, Taken, InPool, InBlock, Final
<1>1. CASE UNCHANGED vars
  BY <1>1 DEF vars, perProcess, chain
<1>2. CASE Drift
  BY <1>2 DEF Drift, perProcess
<1>3. ASSUME NEW i \in Invocations,
             \/ Start(i) \/ ResolveSigner(i) \/ SignerFails(i) \/ ConnectOk(i)
             \/ ConnectRetry(i) \/ ConnectGivesUp(i) \/ Query(i) \/ Simulate(i)
             \/ EstimateFee(i) \/ Estimate(i) \/ Receive(i) \/ Raise(i) \/ Interrupt(i)
      PROVE  Gapless'
  BY <1>3, LeavesExtrinsics
<1>4. ASSUME NEW i \in Invocations, Sign(i)
      PROVE  Gapless'
  BY <1>4 DEF Sign, Goto, chain
<1>5. ASSUME NEW i \in Invocations, Send(i)
      PROVE  Gapless'
  BY <1>5 DEF Send, Goto, chain
<1>6. ASSUME NEW i \in Invocations, Arrive(i)
      PROVE  Gapless'
  BY <1>6 DEF Arrive, perProcess, chain
<1>7. ASSUME NEW i \in Invocations, LoseInFlight(i)
      PROVE  Gapless'
  BY <1>7 DEF LoseInFlight, perProcess, chain
<1>8. ASSUME NEW i \in Invocations, Include(i)
      PROVE  Gapless'
  BY <1>8 DEF Include, perProcess
<1>9. ASSUME NEW i \in Invocations, Drop(i)
      PROVE  Gapless'
  BY <1>9 DEF Drop, perProcess, chain
<1>10. ASSUME NEW i \in Invocations, Finalize(i)
      PROVE  Gapless'
  BY <1>10 DEF Finalize, perProcess, chain
<1>11. ASSUME NEW i \in Invocations, Retract(i)
      PROVE  Gapless'
  BY <1>11 DEF Retract, perProcess
<1>12. QED
  BY <1>1, <1>2, <1>3, <1>4, <1>5, <1>6, <1>7, <1>8, <1>9, <1>10, <1>11
  DEF Next, Progress, Chain

\* Every step decides on an extrinsic and answers, or does neither.
LEMMA UnansweredStep == TypeOK /\ Stages /\ Unanswered /\ [Next]_vars => Unanswered'
<1> SUFFICES ASSUME TypeOK, Stages, Unanswered, [Next]_vars PROVE Unanswered'
  OBVIOUS
<1> USE DEF TypeOK, Stages, Stage, Unanswered, InBlock, Final
<1>1. CASE UNCHANGED vars
  BY <1>1 DEF vars, perProcess, chain
<1>2. CASE Drift
  BY <1>2 DEF Drift, perProcess
<1>3. ASSUME NEW i \in Invocations,
             \/ Start(i) \/ ResolveSigner(i) \/ SignerFails(i) \/ ConnectOk(i)
             \/ ConnectRetry(i) \/ ConnectGivesUp(i) \/ Query(i) \/ Simulate(i)
             \/ EstimateFee(i) \/ Estimate(i) \/ Receive(i) \/ Raise(i) \/ Interrupt(i)
      PROVE  Unanswered'
  BY <1>3, LeavesExtrinsics
<1>4. ASSUME NEW i \in Invocations, Sign(i)
      PROVE  Unanswered'
  BY <1>4 DEF Sign, Goto, chain
<1>5. ASSUME NEW i \in Invocations, Send(i)
      PROVE  Unanswered'
  BY <1>5 DEF Send, Goto, chain
<1>6. ASSUME NEW i \in Invocations, Arrive(i)
      PROVE  Unanswered'
  BY <1>6 DEF Arrive, perProcess, chain
<1>7. ASSUME NEW i \in Invocations, LoseInFlight(i)
      PROVE  Unanswered'
  BY <1>7 DEF LoseInFlight, perProcess, chain
<1>8. ASSUME NEW i \in Invocations, Include(i)
      PROVE  Unanswered'
  BY <1>8 DEF Include, perProcess
<1>9. ASSUME NEW i \in Invocations, Drop(i)
      PROVE  Unanswered'
  BY <1>9 DEF Drop, perProcess, chain
<1>10. ASSUME NEW i \in Invocations, Finalize(i)
      PROVE  Unanswered'
  BY <1>10 DEF Finalize, perProcess, chain
<1>11. ASSUME NEW i \in Invocations, Retract(i)
      PROVE  Unanswered'
  BY <1>11 DEF Retract, perProcess
<1>12. QED
  BY <1>1, <1>2, <1>3, <1>4, <1>5, <1>6, <1>7, <1>8, <1>9, <1>10, <1>11
  DEF Next, Progress, Chain

\* The inductive invariant holds in every reachable state.
THEOREM Invariance == Spec => []IInv
<1>1. Init => IInv
  BY MaxRetriesAssumption, MaxRetractsAssumption
  DEF Init, IInv, TypeOK, Stages, Stage, Answers, AnswerOf, NoncesSpent,
      RefusedOnlyByARival, NoncesInOrder, Gapless, Unanswered, Taken, InBlock, Final,
      Pcs, Modes, Outcomes, Reports, TxStates
<1>2. IInv /\ [Next]_vars => IInv'
  BY TypeStep, StagesStep, AnswersStep, NoncesStep, RivalStep, OrderStep, GaplessStep,
     UnansweredStep
  DEF IInv
<1>3. QED
  BY <1>1, <1>2, PTL DEF Spec

\* Types: every variable keeps to its values, for any constants.
THEOREM TypeCorrect == Spec => []TypeOK
<1>1. IInv => TypeOK
  BY DEF IInv
<1>2. QED
  BY <1>1, Invariance, PTL

\* A read or a --dry-run never submits and never reports a transaction.
THEOREM PassiveSafe == Spec => []PassiveLeavesNoTrace
<1>1. IInv => PassiveLeavesNoTrace
  BY DEF IInv, Stages, Stage, PassiveLeavesNoTrace
<1>2. QED
  BY <1>1, Invariance, PTL

\* Without a fork, what submit() reported as a success stays executed.
THEOREM SuccessSafe == Spec => []SuccessHoldsWithoutForks
<1>1. IInv => SuccessHoldsWithoutForks
  BY DEF IInv, Stages, Stage, Answers, AnswerOf, SuccessHoldsWithoutForks
<1>2. QED
  BY <1>1, Invariance, PTL

\* An extrinsic is refused only for a rival sent with the same nonce.
THEOREM RefusalSafe == Spec => []RefusedOnlyByARival
<1>1. IInv => RefusedOnlyByARival
  BY DEF IInv
<1>2. QED
  BY <1>1, Invariance, PTL

\* A traceback never hides a signature or a submission.
THEOREM TracebackSafe == Spec => []TracebackMeansNothingDone
<1>1. IInv => TracebackMeansNothingDone
  BY DEF IInv, Stages, Stage, TracebackMeansNothingDone
<1>2. QED
  BY <1>1, Invariance, PTL

\* Nobody waits behind a gap in the account's nonces, in however many terminals:
\* while the pool gives nothing up, somebody's extrinsic can be executed next.
THEOREM NobodyStuck == Spec => []NobodyWaitsInVain
<1>1. IInv => NobodyWaitsInVain
  <2> SUFFICES ASSUME IInv, NEW i \in Invocations, pc[i] = "watch", told[i] = "none",
                      tx[i] = "pool", \A j \in Invocations : tx[j] # "dropped"
               PROVE  \E j \in Invocations : tx[j] = "pool" /\ nonce[j] = accountNonce
    BY DEF IInv, Unanswered, NobodyWaitsInVain
  <2>1. nonce[i] \in Nat /\ accountNonce \in Nat /\ nonce[i] >= accountNonce
    BY DEF IInv, TypeOK, NoncesInOrder
  <2>2. CASE nonce[i] = accountNonce
    BY <2>2
  <2>3. CASE nonce[i] > accountNonce
    <3>1. accountNonce \in accountNonce .. nonce[i] - 1
      BY <2>1, <2>3
    <3>2. QED
      BY <3>1 DEF IInv, Gapless, InPool
  <2>4. QED
    BY <2>1, <2>2, <2>3
<1>2. QED
  BY <1>1, Invariance, PTL

\* What a process has left when it took a step.
LEMMA StepIsForward ==
  ASSUME TypeOK, NEW i \in Invocations,
         Start(i) \/ Progress(i) \/ Raise(i) \/ Interrupt(i)
  PROVE  /\ StepsLeft(i)' < StepsLeft(i)
         /\ \A k \in Invocations \ {i} :
              UNCHANGED <<pc[k], mode[k], external[k], attempt[k], sim[k], signed[k],
                          nonce[k], report[k]>>
<1> USE MaxRetriesAssumption
    DEF TypeOK, Pcs, Running, Modes, Goto, Exit, StepsLeft
<1>1. CASE Start(i)
  BY <1>1 DEF Start
<1>2. CASE ResolveSigner(i)
  BY <1>2 DEF ResolveSigner
<1>3. CASE SignerFails(i)
  BY <1>3 DEF SignerFails
<1>4. CASE ConnectOk(i)
  BY <1>4 DEF ConnectOk
<1>5. CASE ConnectRetry(i)
  BY <1>5 DEF ConnectRetry
<1>6. CASE ConnectGivesUp(i)
  BY <1>6 DEF ConnectGivesUp
<1>7. CASE Query(i)
  BY <1>7 DEF Query
<1>8. CASE Simulate(i)
  BY <1>8 DEF Simulate
<1>9. CASE EstimateFee(i)
  BY <1>9 DEF EstimateFee
<1>10. CASE Estimate(i)
  BY <1>10 DEF Estimate
<1>11. CASE Sign(i)
  BY <1>11 DEF Sign
<1>12. CASE Send(i)
  BY <1>12 DEF Send
<1>13. CASE Receive(i)
  BY <1>13 DEF Receive
<1>14. CASE Raise(i)
  BY <1>14 DEF Raise
<1>15. CASE Interrupt(i)
  BY <1>15 DEF Interrupt
<1>16. QED
  BY <1>1, <1>2, <1>3, <1>4, <1>5, <1>6, <1>7, <1>8,
     <1>9, <1>10, <1>11, <1>12, <1>13, <1>14, <1>15 DEF Progress

\* There are no more than MaxRetries + 6 of them.
LEMMA StepsAreFew ==
  ASSUME TypeOK, NEW i \in Invocations
  PROVE  StepsLeft(i) \in 0 .. MaxRetries + 6
BY MaxRetriesAssumption DEF TypeOK, Pcs, Running, StepsLeft

\* Every step a process takes is one less of MaxRetries + 6, for any number of
\* retries: no failure, no retry and no answer of the chain makes it go round.
THEOREM StepsCount ==
  Spec => /\ EveryStepCounts
          /\ [](\A i \in Invocations : StepsLeft(i) \in 0 .. MaxRetries + 6)
<1> DEFINE Forward ==
      \A i \in Invocations :
        \/ UNCHANGED <<pc[i], mode[i], external[i], attempt[i], sim[i], signed[i],
                       nonce[i], report[i]>>
        \/ StepsLeft(i)' < StepsLeft(i)
    Few == \A i \in Invocations : StepsLeft(i) \in 0 .. MaxRetries + 6
<1>1. TypeOK /\ [Next]_vars => [Forward]_vars
  <2> SUFFICES ASSUME TypeOK, Next PROVE Forward
    OBVIOUS
  <2>1. CASE Drift
    BY <2>1 DEF Drift, perProcess
  <2>2. ASSUME NEW i \in Invocations, Start(i) \/ Progress(i) \/ Raise(i) \/ Interrupt(i)
        PROVE  Forward
    BY <2>2, StepIsForward
  <2>3. ASSUME NEW i \in Invocations, Chain(i)
        PROVE  Forward
    BY <2>3 DEF Chain, Arrive, LoseInFlight, Include, Drop, Finalize, Retract, perProcess
  <2>4. QED
    BY <2>1, <2>2, <2>3 DEF Next
<1>2. TypeOK => Few
  BY StepsAreFew
<1> HIDE DEF Few
<1>3. QED
  BY <1>1, <1>2, TypeCorrect, PTL DEF Spec, EveryStepCounts, Few

----------------------------------------------------------------------------
(* The refinement of SubmitOnce.                                           *)

\* The initial states of the pipeline are initial states of SubmitOnce.
LEMMA InitRefines == Init => Abstract!Init
<1> SUFFICES ASSUME Init PROVE Abstract!Init
  OBVIOUS
<1> USE DEF Init
<1>1. [i \in Invocations |-> Phase(pc[i])] = [i \in Invocations |-> "idle"]
  BY DEF Phase, Running
<1>2. [i \in Invocations |-> IsPassive(pc[i], mode[i])]
        = [i \in Invocations |-> FALSE]
  BY DEF IsPassive
<1>3. [i \in Invocations |-> tx[i] # "none"] = [i \in Invocations |-> FALSE]
  OBVIOUS
<1>4. [i \in Invocations |-> Verdict(report[i])]
        = [i \in Invocations |-> "none"]
  BY DEF Verdict
<1>5. QED
  BY <1>1, <1>2, <1>3, <1>4 DEF Abstract!Init

\* SubmitOnce does not see a running process go from one place to another.
LEMMA MoveStutters ==
  ASSUME TypeOK, NEW i \in Invocations, NEW p \in Running,
         pc[i] \in Running, pc' = [pc EXCEPT ![i] = p],
         UNCHANGED <<mode, report, tx, told>>
  PROVE  UNCHANGED Abstract!vars
<1> USE DEF TypeOK
<1>1. \A j \in Invocations :
        /\ Phase(pc'[j]) = Phase(pc[j])
        /\ IsPassive(pc'[j], mode'[j]) = IsPassive(pc[j], mode[j])
  BY DEF Phase, IsPassive, Running
<1>2. [j \in Invocations |-> Phase(pc'[j])] = [j \in Invocations |-> Phase(pc[j])]
  BY <1>1
<1>3. [j \in Invocations |-> IsPassive(pc'[j], mode'[j])]
        = [j \in Invocations |-> IsPassive(pc[j], mode[j])]
  BY <1>1
<1>4. QED
  BY <1>2, <1>3 DEF Abstract!vars

\* A process that ends is a Finish of SubmitOnce, when its report is earned.
LEMMA ExitFinishes ==
  ASSUME TypeOK, NEW i \in Invocations, NEW from \in Running, NEW r \in Reports,
         Exit(i, from, r), UNCHANGED <<mode, tx, told>>,
         r = "success" => told[i] = "ok",
         Verdict(r) = "shown" => mode[i] # "write"
  PROVE  Abstract!Finish(i, Verdict(r))
<1> USE DEF TypeOK, Exit, Goto
<1>1. [j \in Invocations |-> Phase(pc[j])][i] = "running"
  BY DEF Phase
<1>2. [j \in Invocations |-> IsPassive(pc[j], mode[j])][i] <=> mode[i] # "write"
  BY DEF IsPassive, Running
<1>3. [j \in Invocations |-> Phase(pc'[j])]
        = [[j \in Invocations |-> Phase(pc[j])] EXCEPT ![i] = "done"]
  BY DEF Phase, Running
<1>4. [j \in Invocations |-> Verdict(report'[j])]
        = [[j \in Invocations |-> Verdict(report[j])] EXCEPT ![i] = Verdict(r)]
  OBVIOUS
<1>5. UNCHANGED [j \in Invocations |-> IsPassive(pc[j], mode[j])]
  <2>1. \A j \in Invocations :
          IsPassive(pc'[j], mode'[j]) = IsPassive(pc[j], mode[j])
    BY DEF IsPassive, Running
  <2>2. QED
    BY <2>1
<1>6. Verdict(r) = "success" => told[i] = "ok"
  BY DEF Verdict, Reports
<1>7. QED
  BY <1>1, <1>2, <1>3, <1>4, <1>5, <1>6 DEF Abstract!Finish

\* A command that starts is a Begin of SubmitOnce.
LEMMA StartBegins ==
  ASSUME TypeOK, Stages, NEW i \in Invocations, Start(i)
  PROVE  Abstract!Begin(i)
<1> USE DEF TypeOK, Start, Goto
<1>1. [j \in Invocations |-> Phase(pc[j])][i] = "idle"
  BY DEF Phase, Running
<1>2. [j \in Invocations |-> Phase(pc'[j])]
        = [[j \in Invocations |-> Phase(pc[j])] EXCEPT ![i] = "running"]
  BY DEF Phase, Running
<1>3. [j \in Invocations |-> IsPassive(pc'[j], mode'[j])]
        = [[j \in Invocations |-> IsPassive(pc[j], mode[j])]
             EXCEPT ![i] = (mode'[i] # "write")]
  <2>1. IsPassive(pc'[i], mode'[i]) = (mode'[i] # "write")
    BY DEF IsPassive
  <2>2. \A j \in Invocations \ {i} :
          IsPassive(pc'[j], mode'[j]) = IsPassive(pc[j], mode[j])
    BY DEF IsPassive
  <2>3. QED
    BY <2>1, <2>2
<1>4. UNCHANGED <<[j \in Invocations |-> tx[j] # "none"], told,
                  [j \in Invocations |-> Verdict(report[j])]>>
  OBVIOUS
<1>5. (mode'[i] # "write") \in BOOLEAN
  OBVIOUS
<1>6. QED
  BY <1>1, <1>2, <1>3, <1>4, <1>5 DEF Abstract!Begin

\* The chain's steps leave the process alone; unless they bring the first
\* answer, SubmitOnce does not see them.
LEMMA ChainStutters ==
  ASSUME TypeOK, NEW i \in Invocations, NEW t \in TxStates \ {"none"},
         tx[i] # "none", tx' = [tx EXCEPT ![i] = t],
         UNCHANGED <<perProcess, told>>
  PROVE  UNCHANGED Abstract!vars
<1> USE DEF TypeOK, perProcess
<1>1. [j \in Invocations |-> tx'[j] # "none"] = [j \in Invocations |-> tx[j] # "none"]
  <2>1. \A j \in Invocations : (tx'[j] # "none") = (tx[j] # "none")
    OBVIOUS
  <2>2. QED
    BY <2>1
<1>2. QED
  BY <1>1 DEF Abstract!vars

\* Every step of the pipeline is a step of SubmitOnce, or invisible to it.
LEMMA StepRefines == IInv /\ [Next]_vars => [Abstract!Next]_(Abstract!vars)
<1> SUFFICES ASSUME IInv, [Next]_vars
             PROVE  [Abstract!Next]_(Abstract!vars)
  OBVIOUS
<1> USE DEF IInv
<1>1. CASE UNCHANGED vars
  BY <1>1 DEF vars, perProcess, chain, Abstract!vars
<1>2. CASE Drift
  BY <1>2 DEF Drift, perProcess, Abstract!vars
<1>3. ASSUME NEW i \in Invocations, Start(i)
      PROVE  [Abstract!Next]_(Abstract!vars)
  BY <1>3, StartBegins DEF Abstract!Next
<1>4. ASSUME NEW i \in Invocations, ResolveSigner(i)
      PROVE  [Abstract!Next]_(Abstract!vars)
  BY <1>4, MoveStutters DEF ResolveSigner, Goto, Running
<1>5. ASSUME NEW i \in Invocations, SignerFails(i)
      PROVE  [Abstract!Next]_(Abstract!vars)
  <2>1. PICK from \in Running, r \in {"error", "traceback"} : Exit(i, from, r)
    BY <1>5 DEF SignerFails, Running
  <2>2. r \in Reports /\ Verdict(r) = "failure"
    BY DEF Reports, Verdict
  <2>3. Abstract!Finish(i, "failure")
    BY <1>5, <2>1, <2>2, ExitFinishes DEF SignerFails
  <2>4. QED
    BY <2>3 DEF Abstract!Next
<1>6. ASSUME NEW i \in Invocations, ConnectOk(i)
      PROVE  [Abstract!Next]_(Abstract!vars)
  <2>1. PICK p \in Running : pc' = [pc EXCEPT ![i] = p]
    BY <1>6 DEF ConnectOk, Goto, Running, TypeOK, Modes
  <2>2. QED
    BY <1>6, <2>1, MoveStutters DEF ConnectOk, Goto, Running
<1>7. ASSUME NEW i \in Invocations, ConnectRetry(i)
      PROVE  [Abstract!Next]_(Abstract!vars)
  BY <1>7, MoveStutters DEF ConnectRetry, Goto, Running
<1>8. ASSUME NEW i \in Invocations, ConnectGivesUp(i)
      PROVE  [Abstract!Next]_(Abstract!vars)
  <2>1. PICK from \in Running, r \in {"error"} : Exit(i, from, r)
    BY <1>8 DEF ConnectGivesUp, Running
  <2>2. r \in Reports /\ Verdict(r) = "failure"
    BY DEF Reports, Verdict
  <2>3. Abstract!Finish(i, "failure")
    BY <1>8, <2>1, <2>2, ExitFinishes DEF ConnectGivesUp
  <2>4. QED
    BY <2>3 DEF Abstract!Next
<1>9. ASSUME NEW i \in Invocations, Query(i)
      PROVE  [Abstract!Next]_(Abstract!vars)
  <2>1. PICK r \in {"error", "shown"} : Exit(i, "query", r)
    BY <1>9 DEF Query
  <2>2. r \in Reports /\ Verdict(r) \in {"failure", "shown"} /\ r # "success"
    BY DEF Reports, Verdict
  <2>3. mode[i] # "write"
    BY <2>1 DEF Exit, Goto, Stages, Stage
  <2>4. Abstract!Finish(i, Verdict(r))
    BY <1>9, <2>1, <2>2, <2>3, ExitFinishes DEF Query, Running
  <2>5. QED
    BY <2>2, <2>4 DEF Abstract!Next
<1>10. ASSUME NEW i \in Invocations, Simulate(i)
      PROVE  [Abstract!Next]_(Abstract!vars)
  <2>1. CASE Goto(i, "simulate", "fee") /\ UNCHANGED report
    BY <1>10, <2>1, MoveStutters DEF Simulate, Goto, Running
  <2>2. CASE Exit(i, "simulate", "previewFailed")
    <3>1. mode[i] # "read" /\ Verdict("previewFailed") = "shown"
      BY <2>2 DEF Exit, Goto, Stages, Stage, Verdict
    <3>2. Abstract!Finish(i, "shown")
      BY <1>10, <2>2, <3>1, ExitFinishes
      DEF Simulate, Exit, Goto, Reports, Running, Stages, Stage
    <3>3. QED
      BY <3>2 DEF Abstract!Next
  <2>3. QED
    BY <1>10, <2>1, <2>2 DEF Simulate
<1>11. ASSUME NEW i \in Invocations, EstimateFee(i)
      PROVE  [Abstract!Next]_(Abstract!vars)
  <2>1. PICK r \in {"previewOk", "previewFailed"} : Exit(i, "fee", r)
    BY <1>11 DEF EstimateFee
  <2>2. r \in Reports /\ Verdict(r) \in {"failure", "shown"} /\ r # "success"
    BY DEF Reports, Verdict
  <2>3. mode[i] # "write"
    BY <2>1 DEF Exit, Goto, Stages, Stage
  <2>4. Abstract!Finish(i, Verdict(r))
    BY <1>11, <2>1, <2>2, <2>3, ExitFinishes DEF EstimateFee, Running
  <2>5. QED
    BY <2>2, <2>4 DEF Abstract!Next
<1>12. ASSUME NEW i \in Invocations, Estimate(i)
      PROVE  [Abstract!Next]_(Abstract!vars)
  <2>1. CASE Goto(i, "estimate", "sign") /\ UNCHANGED report
    BY <1>12, <2>1, MoveStutters DEF Estimate, Goto, Running
  <2>2. CASE Exit(i, "estimate", "error")
    <3>1. mode[i] # "read" /\ Verdict("error") = "failure"
      BY <2>2 DEF Exit, Goto, Stages, Stage, Verdict
    <3>2. Abstract!Finish(i, "failure")
      BY <1>12, <2>2, <3>1, ExitFinishes
      DEF Estimate, Exit, Goto, Reports, Running, Stages, Stage
    <3>3. QED
      BY <3>2 DEF Abstract!Next
  <2>3. QED
    BY <1>12, <2>1, <2>2 DEF Estimate
<1>13. ASSUME NEW i \in Invocations, Sign(i)
      PROVE  [Abstract!Next]_(Abstract!vars)
  BY <1>13, MoveStutters DEF Sign, Goto, Running
<1>14. ASSUME NEW i \in Invocations, Send(i)
      PROVE  [Abstract!Next]_(Abstract!vars)
  <2>1. UNCHANGED [j \in Invocations |-> Phase(pc[j])]
    BY <1>14 DEF Send, Goto, Phase, Running, TypeOK
  <2>2. UNCHANGED [j \in Invocations |-> IsPassive(pc[j], mode[j])]
    <3>1. \A j \in Invocations :
            IsPassive(pc'[j], mode'[j]) = IsPassive(pc[j], mode[j])
      BY <1>14 DEF Send, Goto, IsPassive, TypeOK
    <3>2. QED
      BY <3>1
  <2>3. [j \in Invocations |-> Phase(pc[j])][i] = "running"
    BY <1>14 DEF Send, Goto, Phase, Running
  <2>4. ~[j \in Invocations |-> IsPassive(pc[j], mode[j])][i]
    BY <1>14 DEF Send, Goto, IsPassive, Stages, Stage
  <2>5. tx[i] = "none"
    BY <1>14 DEF Send, Goto, Stages, Stage
  <2>6. [j \in Invocations |-> tx'[j] # "none"]
          = [[j \in Invocations |-> tx[j] # "none"] EXCEPT ![i] = TRUE]
    BY <1>14 DEF Send, TypeOK
  <2>7. Abstract!Send(i)
    BY <1>14, <2>1, <2>2, <2>3, <2>4, <2>5, <2>6 DEF Send, Abstract!Send
  <2>8. QED
    BY <2>7 DEF Abstract!Next
<1>15. ASSUME NEW i \in Invocations, Receive(i)
      PROVE  [Abstract!Next]_(Abstract!vars)
  <2>1. PICK r \in {"success", "error"} :
          Exit(i, "watch", r) /\ (r = "success" => told[i] = "ok")
    BY <1>15 DEF Receive
  <2>2. r \in Reports /\ Verdict(r) \in {"success", "failure"}
    BY DEF Reports, Verdict
  <2>3. Abstract!Finish(i, Verdict(r))
    BY <1>15, <2>1, <2>2, ExitFinishes DEF Receive, Running
  <2>4. QED
    BY <2>2, <2>3 DEF Abstract!Next
<1>16. ASSUME NEW i \in Invocations, Raise(i)
      PROVE  [Abstract!Next]_(Abstract!vars)
  <2>1. PICK from \in Running, r \in {"error"} : Exit(i, from, r)
    BY <1>16 DEF Raise, Running
  <2>2. r \in Reports /\ Verdict(r) = "failure"
    BY DEF Reports, Verdict
  <2>3. Abstract!Finish(i, "failure")
    BY <1>16, <2>1, <2>2, ExitFinishes DEF Raise
  <2>4. QED
    BY <2>3 DEF Abstract!Next
<1>17. ASSUME NEW i \in Invocations, Interrupt(i)
      PROVE  [Abstract!Next]_(Abstract!vars)
  <2>1. PICK from \in Running, r \in {"aborted"} : Exit(i, from, r)
    BY <1>17 DEF Interrupt, Running
  <2>2. r \in Reports /\ Verdict(r) = "failure"
    BY DEF Reports, Verdict
  <2>3. Abstract!Finish(i, "failure")
    BY <1>17, <2>1, <2>2, ExitFinishes DEF Interrupt
  <2>4. QED
    BY <2>3 DEF Abstract!Next
<1>18. ASSUME NEW i \in Invocations, Arrive(i)
      PROVE  [Abstract!Next]_(Abstract!vars)
  <2>1. PICK t \in TxStates \ {"none"} : tx' = [tx EXCEPT ![i] = t]
    BY <1>18 DEF Arrive, TxStates
  <2>2. QED
    BY <1>18, <2>1, ChainStutters DEF Arrive, InBlock
<1>19. ASSUME NEW i \in Invocations, LoseInFlight(i)
      PROVE  [Abstract!Next]_(Abstract!vars)
  <2>1. PICK t \in TxStates \ {"none"} : tx' = [tx EXCEPT ![i] = t]
    BY <1>19 DEF LoseInFlight, TxStates
  <2>2. QED
    BY <1>19, <2>1, ChainStutters DEF LoseInFlight, InBlock
<1>20. ASSUME NEW i \in Invocations, Include(i)
      PROVE  [Abstract!Next]_(Abstract!vars)
  <2>1. CASE told[i] # "none"
    <3>1. PICK t \in TxStates \ {"none"} : tx' = [tx EXCEPT ![i] = t]
      BY <1>20 DEF Include, TxStates, InBlock
    <3>2. UNCHANGED told
      BY <1>20, <2>1 DEF Include, TypeOK
    <3>3. QED
      BY <1>20, <3>1, <3>2, ChainStutters DEF Include
  <2>2. CASE told[i] = "none"
    <3>1. PICK r \in {"ok", "bad"} : told' = [told EXCEPT ![i] = r]
      BY <1>20, <2>2 DEF Include
    <3>2. UNCHANGED [j \in Invocations |-> tx[j] # "none"]
      <4>1. \A j \in Invocations : (tx'[j] # "none") = (tx[j] # "none")
        BY <1>20 DEF Include, TypeOK
      <4>2. QED
        BY <4>1
    <3>3. [j \in Invocations |-> tx[j] # "none"][i]
      BY <1>20 DEF Include
    <3>4. Abstract!Answer(i)
      BY <1>20, <2>2, <3>1, <3>2, <3>3 DEF Include, perProcess, Abstract!Answer
    <3>5. QED
      BY <3>4 DEF Abstract!Next
  <2>3. QED
    BY <2>1, <2>2
<1>21. ASSUME NEW i \in Invocations, Drop(i)
      PROVE  [Abstract!Next]_(Abstract!vars)
  <2>1. PICK t \in TxStates \ {"none"} : tx' = [tx EXCEPT ![i] = t]
    BY <1>21 DEF Drop, TxStates
  <2>2. QED
    BY <1>21, <2>1, ChainStutters DEF Drop, InBlock
<1>22. ASSUME NEW i \in Invocations, Finalize(i)
      PROVE  [Abstract!Next]_(Abstract!vars)
  <2>1. PICK t \in TxStates \ {"none"} : tx' = [tx EXCEPT ![i] = t]
    BY <1>22 DEF Finalize, TxStates, InBlock, Final
  <2>2. QED
    BY <1>22, <2>1, ChainStutters DEF Finalize, InBlock
<1>23. ASSUME NEW i \in Invocations, Retract(i)
      PROVE  [Abstract!Next]_(Abstract!vars)
  <2>1. PICK t \in TxStates \ {"none"} : tx' = [tx EXCEPT ![i] = t]
    BY <1>23 DEF Retract, TxStates
  <2>2. QED
    BY <1>23, <2>1, ChainStutters DEF Retract, InBlock
<1>24. QED
  BY <1>1, <1>2, <1>3, <1>4, <1>5, <1>6, <1>7, <1>8, <1>9, <1>10, <1>11, <1>12,
     <1>13, <1>14, <1>15, <1>16, <1>17, <1>18, <1>19, <1>20, <1>21, <1>22, <1>23
  DEF Next, Progress, Chain

\* The pipeline keeps the promise of SubmitOnce: at most one extrinsic per
\* invocation, none from a read or a preview or after the end, and no success
\* report before the chain's answer.
THEOREM PromiseKept == Spec => KeepsPromise
<1>1. QED
  BY Invariance, InitRefines, StepRefines, PTL
  DEF Spec, KeepsPromise, Abstract!Spec
=============================================================================
