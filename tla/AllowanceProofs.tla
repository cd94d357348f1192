-------------------------- MODULE AllowanceProofs --------------------------
(***************************************************************************)
(* The safety of the spending commands for any number of invocations and   *)
(* any amounts.                                                            *)
(***************************************************************************)
EXTENDS Allowance, TLAPS

\* What each place of a command has, and has not, done so far.
Stage(i) ==
  /\ pc[i] \in {"idle", "check", "prompt", "approving"} => approval[i] = "none"
  /\ pc[i] \in {"idle", "check", "prompt", "approving", "waitApproval", "spending"}
       => spend[i] = "none"
  /\ pc[i] = "waitApproval" => approval[i] # "none"
  /\ pc[i] \in {"spending", "waitSpend"} => approval[i] \in {"none", "ok"}
  /\ cmd[i].dry => approval[i] = "none" /\ spend[i] = "none"
  /\ pc[i] = "waitSpend" => spend[i] # "none"
  /\ report[i] # "none" => pc[i] = "done"
  /\ report[i] \in {"refused", "cancelled", "previewed"}
       => approval[i] = "none" /\ spend[i] = "none"

Stages == \A i \in Invocations : Stage(i)

\* What the command may count on: its approval was executed, or it found the
\* allowance of the wallet large enough and the wallet signs.
CountsOn(i) ==
  /\ pc[i] \in Running
  /\ spend[i] \in {"none", "sent"}
  /\ ~stale[i]
  /\ \/ approval[i] = "ok"
     \/ /\ approval[i] = "none"
        /\ pc[i] \in {"spending", "waitSpend"}
        /\ cmd[i].kind \in {"bid", "repay"}
        /\ cmd[i].known
        /\ cmd[i].signer = "wallet"

Covered(i) ==
  CountsOn(i) => allowance[cmd[i].signer][cmd[i].spender] >= cmd[i].amount

Coverage == \A i \in Invocations : Covered(i)

IInv ==
  /\ TypeOK
  /\ Stages
  /\ Coverage
----------------------------------------------------------------------------

\* What a command holds.
LEMMA CommandFields ==
  ASSUME NEW c \in Commands
  PROVE  /\ c.kind \in Kinds
         /\ c.amount \in 0 .. MaxAmount
         /\ c.spender \in Spenders
         /\ c.signer \in Accounts
         /\ c.known \in BOOLEAN
         /\ c.dry \in BOOLEAN
BY DEF Commands

\* The placeholder before a command was typed is a command too.
LEMMA NoCommandType == NoCommand \in Commands /\ NoCommand.dry = FALSE
BY BalanceAssumption DEF NoCommand, Commands, Kinds, Spenders, Accounts

\* One allowance set to a balance leaves all of them balances.
LEMMA SetAllowance ==
  ASSUME NEW f \in [Accounts -> [Spenders -> 0 .. MaxBalance]],
         NEW a \in Accounts, NEW p \in Spenders, NEW v \in 0 .. MaxBalance
  PROVE  [f EXCEPT ![a][p] = v] \in [Accounts -> [Spenders -> 0 .. MaxBalance]]
<1>1. [f[a] EXCEPT ![p] = v] \in [Spenders -> 0 .. MaxBalance]
  OBVIOUS
<1>2. QED
  BY <1>1

\* Every step keeps the type invariant.
LEMMA TypeStep == TypeOK /\ [Next]_vars => TypeOK'
<1> SUFFICES ASSUME TypeOK, [Next]_vars PROVE TypeOK'
  OBVIOUS
<1> USE BalanceAssumption, InputsAssumption
    DEF TypeOK, Pcs, Running, Extrinsic, Reports
<1>1. CASE UNCHANGED vars
  BY <1>1 DEF vars, process
<1>2. ASSUME NEW i \in Invocations, Start(i)
      PROVE  TypeOK'
  BY <1>2 DEF Start, Goto
<1>3. ASSUME NEW i \in Invocations, NoAddress(i)
      PROVE  TypeOK'
  BY <1>3 DEF NoAddress, Goto, Exit
<1>4. ASSUME NEW i \in Invocations, Check(i)
      PROVE  TypeOK'
  BY <1>4 DEF Check, Goto, Exit
<1>5. ASSUME NEW i \in Invocations, Confirm(i)
      PROVE  TypeOK'
  BY <1>5 DEF Confirm, Goto, Exit
<1>6. ASSUME NEW i \in Invocations, Preview(i)
      PROVE  TypeOK'
  BY <1>6 DEF Preview, Goto, Exit
<1>7. ASSUME NEW i \in Invocations, SendApproval(i)
      PROVE  TypeOK'
  BY <1>7 DEF SendApproval, Goto
<1>8. ASSUME NEW i \in Invocations, ApprovalDone(i)
      PROVE  TypeOK'
  BY <1>8 DEF ApprovalDone, Goto, Exit
<1>9. ASSUME NEW i \in Invocations, SendSpend(i)
      PROVE  TypeOK'
  BY <1>9 DEF SendSpend, Goto
<1>10. ASSUME NEW i \in Invocations, SpendDone(i)
      PROVE  TypeOK'
  BY <1>10 DEF SpendDone, Goto, Exit
<1>11. ASSUME NEW i \in Invocations, Fail(i)
      PROVE  TypeOK'
  BY <1>11 DEF Fail, Goto, Exit
<1>12. ASSUME NEW i \in Invocations, ExecuteApproval(i)
      PROVE  TypeOK'
  <2>1. cmd[i].signer \in Accounts /\ cmd[i].spender \in Spenders
    BY CommandFields
  <2>2. allowance' \in [Accounts -> [Spenders -> 0 .. MaxBalance]]
    <3>1. MaxApproval \in 0 .. MaxBalance
      BY DEF MaxApproval
    <3>2. [allowance EXCEPT ![cmd[i].signer][cmd[i].spender] = MaxApproval]
            \in [Accounts -> [Spenders -> 0 .. MaxBalance]]
      BY <2>1, <3>1, SetAllowance
    <3>3. QED
      BY <1>12, <3>2 DEF ExecuteApproval
  <2>3. QED
    BY <1>12, <2>2 DEF ExecuteApproval, process
<1>13. ASSUME NEW i \in Invocations, ExecuteSpend(i)
      PROVE  TypeOK'
  <2>1. cmd[i].signer \in Accounts /\ cmd[i].spender \in Spenders
    BY CommandFields
  <2>2. allowance' \in [Accounts -> [Spenders -> 0 .. MaxBalance]]
    <3>1. CASE UNCHANGED allowance
      BY <3>1
    <3>2. CASE /\ Accepts(cmd[i])
               /\ allowance' = [allowance EXCEPT
                    ![cmd[i].signer][cmd[i].spender] = After(cmd[i])]
      BY <2>1, <3>2, SetAllowance DEF Accepts
    <3>3. QED
      BY <1>13, <3>1, <3>2 DEF ExecuteSpend
  <2>3. stale' \in [Invocations -> BOOLEAN]
    BY <1>13 DEF ExecuteSpend
  <2>4. QED
    BY <1>13, <2>2, <2>3 DEF ExecuteSpend, process
<1>14. QED
  BY <1>1, <1>2, <1>3, <1>4, <1>5, <1>6, <1>7, <1>8, <1>9, <1>10, <1>11, <1>12,
     <1>13 DEF Next

\* Every step keeps what the places have done so far.
LEMMA StagesStep == TypeOK /\ Stages /\ [Next]_vars => Stages'
<1> SUFFICES ASSUME TypeOK, Stages, [Next]_vars, NEW k \in Invocations
             PROVE  Stage(k)'
  BY DEF Stages
<1> USE DEF TypeOK, Stages, Stage, Running
<1>1. CASE UNCHANGED vars
  BY <1>1 DEF vars, process
<1>2. ASSUME NEW i \in Invocations, Start(i)
      PROVE  Stage(k)'
  BY <1>2 DEF Start, Goto
<1>3. ASSUME NEW i \in Invocations, NoAddress(i)
      PROVE  Stage(k)'
  BY <1>3 DEF NoAddress, Goto, Exit
<1>4. ASSUME NEW i \in Invocations, Check(i)
      PROVE  Stage(k)'
  BY <1>4 DEF Check, Goto, Exit
<1>5. ASSUME NEW i \in Invocations, Confirm(i)
      PROVE  Stage(k)'
  BY <1>5 DEF Confirm, Goto, Exit
<1>6. ASSUME NEW i \in Invocations, Preview(i)
      PROVE  Stage(k)'
  BY <1>6 DEF Preview, Goto, Exit
<1>7. ASSUME NEW i \in Invocations, SendApproval(i)
      PROVE  Stage(k)'
  BY <1>7 DEF SendApproval, Goto
<1>8. ASSUME NEW i \in Invocations, ApprovalDone(i)
      PROVE  Stage(k)'
  BY <1>8 DEF ApprovalDone, Goto, Exit
<1>9. ASSUME NEW i \in Invocations, SendSpend(i)
      PROVE  Stage(k)'
  BY <1>9 DEF SendSpend, Goto
<1>10. ASSUME NEW i \in Invocations, SpendDone(i)
      PROVE  Stage(k)'
  BY <1>10 DEF SpendDone, Goto, Exit
<1>11. ASSUME NEW i \in Invocations, Fail(i)
      PROVE  Stage(k)'
  BY <1>11 DEF Fail, Goto, Exit
<1>12. ASSUME NEW i \in Invocations, ExecuteApproval(i)
      PROVE  Stage(k)'
  BY <1>12 DEF ExecuteApproval, process
<1>13. ASSUME NEW i \in Invocations, ExecuteSpend(i)
      PROVE  Stage(k)'
  BY <1>13 DEF ExecuteSpend, process
<1>14. QED
  BY <1>1, <1>2, <1>3, <1>4, <1>5, <1>6, <1>7, <1>8, <1>9, <1>10, <1>11, <1>12,
     <1>13 DEF Next

\* What a command counts on stays covered, or the command becomes stale.
LEMMA CoverageStep ==
  TypeOK /\ Stages /\ Coverage /\ [Next]_vars => Coverage'
<1> SUFFICES ASSUME TypeOK, Stages, Coverage, [Next]_vars, NEW k \in Invocations
             PROVE  Covered(k)'
  BY DEF Coverage
<1> USE DEF TypeOK, Stages, Stage, Coverage, Covered, CountsOn, Running
<1>1. CASE UNCHANGED vars
  BY <1>1 DEF vars, process
<1>2. ASSUME NEW i \in Invocations, Start(i)
      PROVE  Covered(k)'
  BY <1>2 DEF Start, Goto
<1>3. ASSUME NEW i \in Invocations, NoAddress(i)
      PROVE  Covered(k)'
  BY <1>3 DEF NoAddress, Goto, Exit
<1>4. ASSUME NEW i \in Invocations, Check(i)
      PROVE  Covered(k)'
  BY <1>4 DEF Check, Goto, Exit
<1>5. ASSUME NEW i \in Invocations, Confirm(i)
      PROVE  Covered(k)'
  BY <1>5 DEF Confirm, Goto, Exit
<1>6. ASSUME NEW i \in Invocations, Preview(i)
      PROVE  Covered(k)'
  BY <1>6 DEF Preview, Goto, Exit
<1>7. ASSUME NEW i \in Invocations, SendApproval(i)
      PROVE  Covered(k)'
  BY <1>7 DEF SendApproval, Goto
<1>8. ASSUME NEW i \in Invocations, ApprovalDone(i)
      PROVE  Covered(k)'
  BY <1>8 DEF ApprovalDone, Goto, Exit
<1>9. ASSUME NEW i \in Invocations, SendSpend(i)
      PROVE  Covered(k)'
  BY <1>9 DEF SendSpend, Goto
<1>10. ASSUME NEW i \in Invocations, SpendDone(i)
      PROVE  Covered(k)'
  BY <1>10 DEF SpendDone, Goto, Exit
<1>11. ASSUME NEW i \in Invocations, Fail(i)
      PROVE  Covered(k)'
  BY <1>11 DEF Fail, Goto, Exit
<1>12. ASSUME NEW i \in Invocations, ExecuteApproval(i)
      PROVE  Covered(k)'
  <2> DEFINE s == cmd[k].signer  p == cmd[k].spender
  <2>1. /\ cmd[i].signer \in Accounts /\ cmd[i].spender \in Spenders
        /\ s \in Accounts /\ p \in Spenders
        /\ cmd[k].amount \in 0 .. MaxAmount
    BY CommandFields
  <2>2. UNCHANGED process /\ UNCHANGED spend
    BY <1>12 DEF ExecuteApproval
  <2>3. CASE approval' = [approval EXCEPT ![i] = "bad"] /\ UNCHANGED <<allowance, stale>>
    BY <2>2, <2>3 DEF process
  <2>4. CASE /\ approval' = [approval EXCEPT ![i] = "ok"]
             /\ allowance' = [allowance EXCEPT ![cmd[i].signer][cmd[i].spender] = MaxApproval]
             /\ stale' = [stale EXCEPT ![i] = FALSE]
    <3>1. CASE s = cmd[i].signer /\ p = cmd[i].spender
      <4>1. allowance'[s][p] = MaxBalance
        BY <2>1, <2>4, <3>1 DEF MaxApproval
      <4>2. QED
        BY <2>1, <2>2, <4>1, BalanceAssumption DEF process
    <3>2. CASE ~(s = cmd[i].signer /\ p = cmd[i].spender)
      <4>1. allowance'[s][p] = allowance[s][p] /\ k # i
        BY <2>1, <2>4, <3>2
      <4>2. QED
        BY <2>2, <2>4, <4>1 DEF process
    <3>3. QED
      BY <3>1, <3>2
  <2>5. QED
    BY <1>12, <2>3, <2>4 DEF ExecuteApproval
<1>13. ASSUME NEW i \in Invocations, ExecuteSpend(i)
      PROVE  Covered(k)'
  <2> DEFINE c == cmd[i]  s == cmd[k].signer  p == cmd[k].spender
  <2>1. /\ c.signer \in Accounts /\ c.spender \in Spenders
        /\ s \in Accounts /\ p \in Spenders
        /\ cmd[k].amount \in 0 .. MaxAmount
    BY CommandFields
  <2>2. UNCHANGED process /\ UNCHANGED approval
    BY <1>13 DEF ExecuteSpend
  <2>3. CASE spend' = [spend EXCEPT ![i] = "bad"] /\ UNCHANGED <<allowance, stale>>
    BY <2>2, <2>3 DEF process
  <2>4. CASE /\ Accepts(c)
             /\ spend' = [spend EXCEPT ![i] = "ok"]
             /\ allowance' = [allowance EXCEPT ![c.signer][c.spender] = After(c)]
             /\ stale' = [j \in Invocations |->
                  \/ stale[j]
                  \/ j # i /\ ReliesOn(j, c) /\ After(c) < allowance[c.signer][c.spender]]
    <3>1. CASE k = i
      BY <2>4, <3>1
    <3>2. CASE k # i /\ s = c.signer /\ p = c.spender
      <4>1. allowance'[s][p] = After(c)
        BY <2>1, <2>4, <3>2
      <4>2. allowance[s][p] \in Int /\ After(c) \in Int
        BY <2>1, <2>4, BalanceAssumption DEF Accepts
      <4>3. SUFFICES ASSUME CountsOn(k)'
                     PROVE  allowance'[s][p] >= cmd[k].amount
        BY <2>2 DEF process
      <4>4. pc[k] \in Running /\ ~stale'[k]
        BY <2>2, <4>3 DEF process
      <4>5. ReliesOn(k, c)
        BY <3>2, <4>4 DEF ReliesOn
      <4>6. ~stale[k] /\ ~(After(c) < allowance[s][p])
        BY <2>4, <3>2, <4>4, <4>5
      <4>7. CountsOn(k)
        BY <2>2, <2>4, <3>2, <4>3, <4>6 DEF process
      <4>8. allowance[s][p] >= cmd[k].amount
        BY <4>7
      <4>9. QED
        BY <2>1, <4>1, <4>2, <4>6, <4>8, BalanceAssumption
    <3>3. CASE k # i /\ ~(s = c.signer /\ p = c.spender)
      <4>1. allowance'[s][p] = allowance[s][p]
        BY <2>1, <2>4, <3>3
      <4>2. stale'[k] = stale[k] /\ spend'[k] = spend[k]
        BY <2>4, <3>3 DEF ReliesOn
      <4>3. QED
        BY <2>2, <4>1, <4>2 DEF process
    <3>4. QED
      BY <3>1, <3>2, <3>3
  <2>5. QED
    BY <1>13, <2>3, <2>4 DEF ExecuteSpend
<1>14. QED
  BY <1>1, <1>2, <1>3, <1>4, <1>5, <1>6, <1>7, <1>8, <1>9, <1>10, <1>11, <1>12,
     <1>13 DEF Next

\* The inductive invariant holds in every reachable state.
THEOREM Invariance == Spec => []IInv
<1>1. Init => IInv
  <2> SUFFICES ASSUME Init PROVE IInv
    OBVIOUS
  <2>1. TypeOK
    BY NoCommandType, BalanceAssumption
    DEF Init, TypeOK, Pcs, Extrinsic, Reports
  <2>2. Stages
    BY NoCommandType DEF Init, Stages, Stage
  <2>3. Coverage
    BY DEF Init, Coverage, Covered, CountsOn, Running
  <2>4. QED
    BY <2>1, <2>2, <2>3 DEF IInv
<1>2. IInv /\ [Next]_vars => IInv'
  BY TypeStep, StagesStep, CoverageStep DEF IInv
<1>3. QED
  BY <1>1, <1>2, PTL DEF Spec

\* The variables keep their types: no allowance leaves the width of a Balance.
THEOREM TypeCorrect == Spec => []TypeOK
<1>1. IInv => TypeOK
  BY DEF IInv
<1>2. QED
  BY <1>1, Invariance, PTL

\* A bid or a repayment that goes on is covered when it reaches the chain,
\* unless another invocation made the allowance smaller in the meantime.
THEOREM CoverageSafe == Spec => []GoesOnOnlyIfCovered
<1>1. IInv => GoesOnOnlyIfCovered
  BY DEF IInv, Stages, Stage, Coverage, Covered, CountsOn, Running,
         GoesOnOnlyIfCovered, Submitting
<1>2. QED
  BY <1>1, Invariance, PTL

\* A refused, cancelled or previewed command has sent nothing.
THEOREM TraceSafe == Spec => []StoppedLeavesNoTrace
<1>1. IInv => StoppedLeavesNoTrace
  BY DEF IInv, Stages, Stage, StoppedLeavesNoTrace
<1>2. QED
  BY <1>1, Invariance, PTL

----------------------------------------------------------------------------
(* The refinement of SubmitOnce.                                           *)

\* A command that has not started is a SubmitOnce that has not started.
LEMMA InitRefines == Init => Submission!Init
<1> SUFFICES ASSUME Init PROVE Submission!Init
  OBVIOUS
<1>1. [i \in Invocations |-> cmd[i].dry] = [i \in Invocations |-> FALSE]
  BY NoCommandType DEF Init
<1>2. [i \in Invocations |-> spend[i] # "none"] = [i \in Invocations |-> FALSE]
  BY DEF Init
<1>3. QED
  BY <1>1, <1>2 DEF Init, Submission!Init, Phase, Verdict, Running

\* A process that moves on without sending is not seen by SubmitOnce.
LEMMA MoveStutters ==
  ASSUME TypeOK, NEW i \in Invocations, NEW from \in Running, NEW to \in Running,
         Goto(i, from, to), UNCHANGED <<cmd, report, spend>>
  PROVE  UNCHANGED Submission!vars
<1>1. UNCHANGED [j \in Invocations |-> Phase(pc[j])]
  BY DEF Goto, TypeOK, Phase
<1>2. QED
  BY <1>1 DEF Submission!vars

\* A process that ends is a Finish of SubmitOnce.
LEMMA ExitFinishes ==
  ASSUME TypeOK, NEW i \in Invocations, NEW from \in Running,
         NEW r \in Reports \ {"none"}, Exit(i, from, r),
         r = "success" => spend[i] = "ok",
         r = "previewed" => cmd[i].dry,
         UNCHANGED <<cmd, spend>>
  PROVE  Submission!Next
<1> USE DEF TypeOK, Exit, Goto
<1>1. [j \in Invocations |-> Phase(pc[j])][i] = "running"
  BY DEF Phase
<1>2. [j \in Invocations |-> Phase(pc'[j])]
        = [[j \in Invocations |-> Phase(pc[j])] EXCEPT ![i] = "done"]
  BY DEF Phase, Running
<1>3. [j \in Invocations |-> Verdict(report'[j])]
        = [[j \in Invocations |-> Verdict(report[j])] EXCEPT ![i] = Verdict(r)]
  OBVIOUS
<1>4. Verdict(r) \in {"success", "failure", "shown"}
  BY DEF Verdict, Reports
<1>5. Verdict(r) = "success" =>
        [j \in Invocations |-> IF spend[j] = "sent" THEN "none" ELSE spend[j]][i] = "ok"
  BY DEF Verdict, Reports
<1>6. Verdict(r) = "shown" => [j \in Invocations |-> cmd[j].dry][i]
  BY DEF Verdict, Reports
<1>7. Submission!Finish(i, Verdict(r))
  BY <1>1, <1>2, <1>3, <1>5, <1>6 DEF Submission!Finish
<1>8. QED
  BY <1>4, <1>7 DEF Submission!Next

\* A command that starts is a Begin of SubmitOnce.
LEMMA StartBegins ==
  ASSUME TypeOK, Stages, NEW i \in Invocations, Start(i)
  PROVE  Submission!Next
<1>1. PICK c \in Inputs :
        /\ Goto(i, "idle", IF c.kind \in {"bid", "repay"} THEN "check" ELSE "spending")
        /\ cmd' = [cmd EXCEPT ![i] = c]
        /\ UNCHANGED <<approval, spend, report, allowance, stale>>
  BY DEF Start
<1>2. c.dry \in BOOLEAN
  BY InputsAssumption, CommandFields
<1>3. [j \in Invocations |-> Phase(pc[j])][i] = "idle"
  BY <1>1 DEF Goto, Phase, Running
<1>4. [j \in Invocations |-> Phase(pc'[j])]
        = [[j \in Invocations |-> Phase(pc[j])] EXCEPT ![i] = "running"]
  BY <1>1 DEF Goto, Phase, Running, TypeOK
<1>5. [j \in Invocations |-> cmd'[j].dry]
        = [[j \in Invocations |-> cmd[j].dry] EXCEPT ![i] = c.dry]
  BY <1>1 DEF TypeOK
<1>6. Submission!Begin(i)
  BY <1>1, <1>2, <1>3, <1>4, <1>5 DEF Submission!Begin
<1>7. QED
  BY <1>6 DEF Submission!Next

\* The extrinsic of the command leaves the process once.
LEMMA SendSends ==
  ASSUME TypeOK, Stages, NEW i \in Invocations, SendSpend(i)
  PROVE  Submission!Next
<1> USE DEF TypeOK, SendSpend, Goto
<1>1. UNCHANGED [j \in Invocations |-> Phase(pc[j])]
  BY DEF Phase, Running
<1>2. [j \in Invocations |-> Phase(pc[j])][i] = "running"
  BY DEF Phase, Running
<1>3. spend[i] = "none"
  BY DEF Stages, Stage
<1>4. [j \in Invocations |-> spend'[j] # "none"]
        = [[j \in Invocations |-> spend[j] # "none"] EXCEPT ![i] = TRUE]
  OBVIOUS
<1>5. UNCHANGED [j \in Invocations |-> IF spend[j] = "sent" THEN "none" ELSE spend[j]]
  BY <1>3
<1>6. UNCHANGED <<[j \in Invocations |-> cmd[j].dry],
                  [j \in Invocations |-> Verdict(report[j])]>>
  OBVIOUS
<1>7. Submission!Send(i)
  BY <1>1, <1>2, <1>3, <1>4, <1>5, <1>6 DEF Submission!Send
<1>8. QED
  BY <1>7 DEF Submission!Next

\* The chain executes the extrinsic once.
LEMMA ExecuteAnswers ==
  ASSUME TypeOK, NEW i \in Invocations, ExecuteSpend(i)
  PROVE  Submission!Next
<1> USE DEF TypeOK
<1>1. PICK r \in {"ok", "bad"} : spend' = [spend EXCEPT ![i] = r]
  BY DEF ExecuteSpend
<1>2. spend[i] = "sent" /\ UNCHANGED process
  BY DEF ExecuteSpend
<1>3. UNCHANGED [j \in Invocations |-> spend[j] # "none"]
  <2>1. \A j \in Invocations : (spend'[j] # "none") = (spend[j] # "none")
    BY <1>1, <1>2
  <2>2. QED
    BY <2>1
<1>4. [j \in Invocations |-> IF spend'[j] = "sent" THEN "none" ELSE spend'[j]]
        = [[j \in Invocations |-> IF spend[j] = "sent" THEN "none" ELSE spend[j]]
             EXCEPT ![i] = r]
  BY <1>1
<1>5. Submission!Answer(i)
  BY <1>1, <1>2, <1>3, <1>4 DEF process, Submission!Answer
<1>6. QED
  BY <1>5 DEF Submission!Next

\* Every step is a step of SubmitOnce, or invisible to it.
LEMMA StepRefines == IInv /\ [Next]_vars => [Submission!Next]_(Submission!vars)
<1> SUFFICES ASSUME IInv, [Next]_vars
             PROVE  [Submission!Next]_(Submission!vars)
  OBVIOUS
<1> USE DEF IInv
<1>1. CASE UNCHANGED vars
  BY <1>1 DEF vars, process, Submission!vars
<1>2. ASSUME NEW i \in Invocations, Start(i)
      PROVE  [Submission!Next]_(Submission!vars)
  BY <1>2, StartBegins
<1>3. ASSUME NEW i \in Invocations, NoAddress(i)
      PROVE  [Submission!Next]_(Submission!vars)
  <2>1. CASE Exit(i, "check", "refused")
    BY <1>3, <2>1, ExitFinishes DEF NoAddress, Running, Reports
  <2>2. CASE Goto(i, "check", "spending") /\ UNCHANGED report
    BY <1>3, <2>2, MoveStutters DEF NoAddress, Running
  <2>3. QED
    BY <1>3, <2>1, <2>2 DEF NoAddress
<1>4. ASSUME NEW i \in Invocations, Check(i)
      PROVE  [Submission!Next]_(Submission!vars)
  <2>1. CASE Exit(i, "check", "refused")
    BY <1>4, <2>1, ExitFinishes DEF Check, Running, Reports
  <2>2. CASE Goto(i, "check", "spending") /\ UNCHANGED report
    BY <1>4, <2>2, MoveStutters DEF Check, Running
  <2>3. CASE Goto(i, "check", "prompt") /\ UNCHANGED report
    BY <1>4, <2>3, MoveStutters DEF Check, Running
  <2>4. QED
    BY <1>4, <2>1, <2>2, <2>3 DEF Check
<1>5. ASSUME NEW i \in Invocations, Confirm(i)
      PROVE  [Submission!Next]_(Submission!vars)
  <2>1. CASE Exit(i, "prompt", "cancelled")
    BY <1>5, <2>1, ExitFinishes DEF Confirm, Running, Reports
  <2>2. CASE Goto(i, "prompt", "approving") /\ UNCHANGED report
    BY <1>5, <2>2, MoveStutters DEF Confirm, Running
  <2>3. QED
    BY <1>5, <2>1, <2>2 DEF Confirm
<1>6. ASSUME NEW i \in Invocations, Preview(i)
      PROVE  [Submission!Next]_(Submission!vars)
  <2>1. PICK from \in Running : Exit(i, from, "previewed")
    BY <1>6 DEF Preview, Running
  <2>2. QED
    BY <1>6, <2>1, ExitFinishes DEF Preview, Reports
<1>7. ASSUME NEW i \in Invocations, SendApproval(i)
      PROVE  [Submission!Next]_(Submission!vars)
  BY <1>7, MoveStutters DEF SendApproval, Running
<1>8. ASSUME NEW i \in Invocations, ApprovalDone(i)
      PROVE  [Submission!Next]_(Submission!vars)
  <2>1. CASE Exit(i, "waitApproval", "error")
    BY <1>8, <2>1, ExitFinishes DEF ApprovalDone, Running, Reports
  <2>2. CASE Goto(i, "waitApproval", "spending") /\ UNCHANGED report
    BY <1>8, <2>2, MoveStutters DEF ApprovalDone, Running
  <2>3. QED
    BY <1>8, <2>1, <2>2 DEF ApprovalDone
<1>9. ASSUME NEW i \in Invocations, SendSpend(i)
      PROVE  [Submission!Next]_(Submission!vars)
  BY <1>9, SendSends
<1>10. ASSUME NEW i \in Invocations, SpendDone(i)
      PROVE  [Submission!Next]_(Submission!vars)
  <2>1. PICK r \in {"success", "error"} :
          Exit(i, "waitSpend", r) /\ (r = "success" => spend[i] = "ok")
    BY <1>10 DEF SpendDone
  <2>2. QED
    BY <1>10, <2>1, ExitFinishes DEF SpendDone, Running, Reports
<1>11. ASSUME NEW i \in Invocations, Fail(i)
      PROVE  [Submission!Next]_(Submission!vars)
  <2>1. PICK from \in Running : Exit(i, from, "error")
    BY <1>11 DEF Fail
  <2>2. QED
    BY <1>11, <2>1, ExitFinishes DEF Fail, Reports
<1>12. ASSUME NEW i \in Invocations, ExecuteApproval(i)
      PROVE  [Submission!Next]_(Submission!vars)
  BY <1>12 DEF ExecuteApproval, process, Submission!vars
<1>13. ASSUME NEW i \in Invocations, ExecuteSpend(i)
      PROVE  [Submission!Next]_(Submission!vars)
  BY <1>13, ExecuteAnswers
<1>14. QED
  BY <1>1, <1>2, <1>3, <1>4, <1>5, <1>6, <1>7, <1>8, <1>9, <1>10, <1>11, <1>12,
     <1>13 DEF Next

\* Whatever precedes it, the extrinsic of a command is sent at most once, by
\* no preview and by nothing that has reported, and a success is reported
\* only of one that the chain executed.
THEOREM PromiseKept == Spec => SpendKeepsPromise
<1>1. QED
  BY Invariance, InitRefines, StepRefines, PTL
  DEF Spec, SpendKeepsPromise, Submission!Spec
=============================================================================
