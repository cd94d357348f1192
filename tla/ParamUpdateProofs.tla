------------------------- MODULE ParamUpdateProofs -------------------------
(***************************************************************************)
(* The theorems of ParamUpdate and their proofs, for any number of         *)
(* invocations, any width of a field and any unit of the stored ratios     *)
(* above it.                                                               *)
(***************************************************************************)
EXTENDS ParamUpdate, TLAPS

----------------------------------------------------------------------------
(* The inductive invariant.                                                *)

\* What a command has put together at each place, and what it may have sent.
Drafts ==
  \A i \in Invocations :
    /\ pc[i] \in {"idle", "read"} => tx[i] = "none" /\ report[i] = "none"
    /\ pc[i] = "read" => family \notin Globals
    /\ pc[i] = "submit" => tx[i] = "none"
    /\ tx[i] # "none" => Encodable(config[i])
    /\ mine[i] => tx[i] = "ok" /\ pending = config[i]
    /\ mine[i] /\ ~moved[i] => approved

\* A draft holds what was given and, as long as nothing moved, what is in
\* force: exactly that, or the stored ratio in its own unit.
Fresh ==
  \A i \in Invocations :
    (pc[i] = "submit" \/ tx[i] # "none") =>
      \A k \in Fields :
        /\ given[i][k] # Unset => config[i][k] = given[i][k]
        /\ given[i][k] = Unset =>
             /\ family \in Globals => config[i][k] = Unset
             /\ family = "vaultNetuid" => config[i][k] \in 0 .. MaxValue
             /\ family \notin Globals \cup {"poolMarket"} /\ ~moved[i] =>
                  config[i][k] \in {params[k], Scale * params[k]} \cup
                                   (IF approved THEN {} ELSE {0})

\* Only the alpha markets may be without an approved netuid.
Approval == family # "poolAlpha" => approved

IInv == TypeOK /\ Drafts /\ Fresh /\ Approval /\ VaultUpdateFits

----------------------------------------------------------------------------
(* Lemmas about the operators.                                             *)

\* Merge keeps the type of what it merges.
LEMMA MergeType ==
  ASSUME NEW g \in Given, NEW c \in Draft
  PROVE  Merge(g, c) \in Draft
BY MaxValueAssumption DEF Merge, Given, Draft, Unset

\* A read returns integers, and those of the vault fit.
LEMMA CurrentType ==
  ASSUME TypeOK
  PROVE  /\ Current \in Draft
         /\ family = "vaultNetuid" => Current \in Config
<1>1. params \in [Fields -> Nat]
  BY MaxValueAssumption DEF TypeOK, Config
<1>2. [params EXCEPT !["ratio"] = Scale * @] \in Draft
  BY <1>1, ScaleAssumption DEF Draft, Fields
<1>3. params \in Draft /\ Zero \in Draft
  BY <1>1 DEF Draft, Zero
<1>4. CASE family = "vaultNetuid"
  BY <1>3, <1>4 DEF Current, TypeOK
<1>5. CASE family # "vaultNetuid"
  BY <1>2, <1>3, <1>5 DEF Current
<1> QED
  BY <1>4, <1>5

\* A stored ratio other than 0 is above the width of a field.
LEMMA StoredRatioFitsOnlyIfZero ==
  ASSUME NEW p \in Nat, Scale * p \in 0 .. MaxValue
  PROVE  p = 0
<1>1. SUFFICES ASSUME p >= 1
               PROVE  FALSE
  OBVIOUS
<1>2. PICK q \in Nat : p = q + 1
  BY <1>1
<1>3. Scale * p = Scale * q + Scale /\ Scale * q \in Nat
  BY <1>2, ScaleAssumption
<1> QED
  BY <1>3, ScaleAssumption, MaxValueAssumption

\* An encodable configuration is one.
LEMMA EncodableIsConfig ==
  ASSUME NEW c \in Draft, Encodable(c)
  PROVE  c \in Config
BY DEF Encodable, Draft, Config

----------------------------------------------------------------------------
(* The invariant holds.                                                    *)

LEMMA InitIInv == Init => IInv
<1> SUFFICES ASSUME Init
             PROVE  IInv
  OBVIOUS
<1>1. Nothing \in Given /\ Nothing \in Draft
  BY MaxValueAssumption DEF Nothing, Given, Draft, Unset
<1>2. TypeOK
  BY <1>1 DEF Init, TypeOK
<1> QED
  BY <1>2 DEF Init, IInv, Drafts, Fresh, Approval, VaultUpdateFits

LEMMA TypeStep ==
  ASSUME TypeOK, Drafts, [Next]_vars
  PROVE  TypeOK'
<1> USE DEF TypeOK
<1>1. ASSUME NEW i \in Invocations, Start(i)
      PROVE  TypeOK'
  <2>1. Given \subseteq Draft
    BY MaxValueAssumption DEF Given, Draft, Unset
  <2> QED
    BY <1>1, <2>1 DEF Start, Exit, Goto, chain, history
<1>2. ASSUME NEW i \in Invocations, Read(i)
      PROVE  TypeOK'
  BY <1>2, CurrentType, MergeType DEF Read, Goto, chain
<1>3. ASSUME NEW i \in Invocations, Submit(i)
      PROVE  TypeOK'
  BY <1>3 DEF Submit, Exit, Goto, chain, history
<1>4. ASSUME NEW i \in Invocations, Finish(i)
      PROVE  TypeOK'
  BY <1>4 DEF Finish, Exit, Goto, chain, history
<1>5. ASSUME NEW i \in Invocations, Fail(i)
      PROVE  TypeOK'
  BY <1>5 DEF Fail, Exit, Goto, chain, history
<1>6. ASSUME NEW i \in Invocations, Schedule(i)
      PROVE  TypeOK'
  <2>1. config[i] \in Config
    BY <1>6, EncodableIsConfig DEF Schedule, Drafts
  <2> QED
    BY <1>6, <2>1 DEF Schedule
<1>7. CASE TimelockEnds
  BY <1>7 DEF TimelockEnds, history
<1>8. CASE Execute
  BY <1>8 DEF Execute, Unschedule
<1>9. CASE Cancel
  BY <1>9 DEF Cancel, Unschedule
<1>10. CASE Approve
  BY <1>10 DEF Approve
<1>11. CASE UNCHANGED vars
  BY <1>11 DEF vars, chain, history
<1> QED
  BY <1>1, <1>2, <1>3, <1>4, <1>5, <1>6, <1>7, <1>8, <1>9, <1>10, <1>11 DEF Next

\* Which step ties what to the place of a process; only Schedule makes a
\* configuration somebody's, and Approve marks everybody.
LEMMA DraftsStep ==
  ASSUME TypeOK, Drafts, [Next]_vars
  PROVE  Drafts'
<1> USE DEF TypeOK, Drafts
<1>1. ASSUME NEW i \in Invocations, Start(i)
      PROVE  Drafts'
  BY <1>1 DEF Start, Exit, Goto, chain, history
<1>2. ASSUME NEW i \in Invocations, Read(i)
      PROVE  Drafts'
  BY <1>2 DEF Read, Goto, chain
<1>3. ASSUME NEW i \in Invocations, Submit(i)
      PROVE  Drafts'
  BY <1>3 DEF Submit, Exit, Goto, chain, history
<1>4. ASSUME NEW i \in Invocations, Finish(i)
      PROVE  Drafts'
  BY <1>4 DEF Finish, Exit, Goto, chain, history
<1>5. ASSUME NEW i \in Invocations, Fail(i)
      PROVE  Drafts'
  BY <1>5 DEF Fail, Exit, Goto, chain, history
<1>6. ASSUME NEW i \in Invocations, Schedule(i)
      PROVE  Drafts'
  BY <1>6 DEF Schedule
<1>7. CASE TimelockEnds
  BY <1>7 DEF TimelockEnds, history
<1>8. CASE Execute
  BY <1>8 DEF Execute, Unschedule
<1>9. CASE Cancel
  BY <1>9 DEF Cancel, Unschedule
<1>10. CASE Approve
  BY <1>10 DEF Approve
<1>11. CASE UNCHANGED vars
  BY <1>11 DEF vars, chain, history
<1> QED
  BY <1>1, <1>2, <1>3, <1>4, <1>5, <1>6, <1>7, <1>8, <1>9, <1>10, <1>11 DEF Next

\* A draft is made in Start and in Read; what moves under it, marks it.
LEMMA FreshStep ==
  ASSUME TypeOK, Drafts, Fresh, [Next]_vars
  PROVE  Fresh'
<1>1. ASSUME NEW i \in Invocations, Start(i)
      PROVE  Fresh'
  <2>1. ASSUME NEW j \in Invocations, j # i
        PROVE  /\ (pc[j])' = pc[j] /\ (tx[j])' = tx[j]
               /\ (given[j])' = given[j] /\ (config[j])' = config[j]
               /\ (moved[j])' = moved[j]
    BY <1>1, <2>1 DEF Start, Exit, Goto, TypeOK, history
  <2>2. pc'[i] = "submit" => family \in Globals /\ config'[i] = given'[i]
    BY <1>1 DEF Start, Exit, Goto, TypeOK
  <2>3. tx'[i] = "none"
    BY <1>1 DEF Start, Exit, Goto, TypeOK, Drafts
  <2>4. family' = family /\ params' = params /\ approved' = approved
    BY <1>1 DEF Start, chain
  <2> QED
    BY <2>1, <2>2, <2>3, <2>4 DEF Fresh, Globals
<1>2. ASSUME NEW i \in Invocations, Read(i)
      PROVE  Fresh'
  <2>1. ASSUME NEW j \in Invocations, j # i
        PROVE  /\ (pc[j])' = pc[j] /\ (config[j])' = config[j]
               /\ (moved[j])' = moved[j]
    BY <1>2, <2>1 DEF Read, Goto, TypeOK
  <2>2. /\ UNCHANGED <<family, params, approved, given, tx>>
        /\ config'[i] = Merge(given[i], Current)
    BY <1>2 DEF Read, chain, TypeOK
  <2>3. ASSUME NEW k \in Fields
        PROVE  /\ given[i][k] # Unset => config'[i][k] = given[i][k]
               /\ given[i][k] = Unset => config'[i][k] = Current[k]
    BY <2>2 DEF Merge
  <2>4. ASSUME NEW k \in Fields
        PROVE  /\ family = "vaultNetuid" => Current[k] \in 0 .. MaxValue
               /\ family \in {"vaultNetuid", "poolAlpha"} =>
                    Current[k] \in {params[k], Scale * params[k]} \cup
                                   (IF approved THEN {} ELSE {0})
    BY DEF Current, Zero, TypeOK, Config
  <2>5. family \notin Globals
    BY <1>2 DEF Read, Goto, Drafts
  <2> QED
    BY <2>1, <2>2, <2>3, <2>4, <2>5 DEF Fresh, TypeOK, Families, Globals
<1>3. ASSUME NEW i \in Invocations, Submit(i) \/ Finish(i) \/ Fail(i)
      PROVE  Fresh'
  BY <1>3 DEF Submit, Finish, Fail, Exit, Goto, Fresh, TypeOK, chain, history
<1>4. ASSUME NEW i \in Invocations, Schedule(i)
      PROVE  Fresh'
  BY <1>4 DEF Schedule, Fresh, TypeOK
<1>5. CASE TimelockEnds \/ Cancel \/ UNCHANGED vars
  BY <1>5 DEF TimelockEnds, Cancel, Fresh, vars, chain, history
<1>6. CASE Execute \/ Approve
  BY <1>6 DEF Execute, Approve, Fresh, TypeOK
<1> QED
  BY <1>1, <1>2, <1>3, <1>4, <1>5, <1>6 DEF Next

\* The netuid's approval changes for the alpha markets only.
LEMMA ApprovalStep ==
  ASSUME TypeOK, Approval, [Next]_vars
  PROVE  Approval'
BY DEF TypeOK, Approval, Next, Start, Read, Submit, Finish, Fail, Schedule,
       TimelockEnds, Execute, Cancel, Unschedule, Approve, vars, chain

\* Of the fields of a vault's draft that do not fit, each was given.
LEMMA FitsStep ==
  ASSUME TypeOK, Drafts, Fresh, VaultUpdateFits, [Next]_vars
  PROVE  VaultUpdateFits'
<1>1. ASSUME NEW i \in Invocations, Submit(i)
      PROVE  VaultUpdateFits'
  <2>1. UNCHANGED <<family, given>>
        /\ \A j \in Invocations \ {i} : (report[j])' = report[j]
    BY <1>1 DEF Submit, Exit, chain, TypeOK
  <2>2. CASE Encodable(config[i])
    BY <1>1, <2>1, <2>2 DEF Submit, VaultUpdateFits, TypeOK
  <2>3. ASSUME ~Encodable(config[i]), family = "vaultNetuid"
        PROVE  \E k \in Fields : given[i][k] > MaxValue
    <3>1. PICK k \in Fields : config[i][k] \notin 0 .. MaxValue
      BY <2>3 DEF Encodable
    <3>2. pc[i] = "submit"
      BY <1>1 DEF Submit, Goto, Exit
    <3>3. given[i][k] # Unset /\ given[i][k] = config[i][k]
      BY <2>3, <3>1, <3>2 DEF Fresh
    <3>4. given[i][k] \in {Unset} \cup 0 .. MaxValue + 1
      BY DEF TypeOK, Given
    <3> QED
      BY <3>1, <3>3, <3>4, MaxValueAssumption
  <2> QED
    BY <2>1, <2>2, <2>3 DEF VaultUpdateFits
<1>2. ASSUME NEW i \in Invocations, Start(i)
      PROVE  VaultUpdateFits'
  <2>1. ASSUME NEW j \in Invocations, j # i
        PROVE  (report[j])' = report[j] /\ (given[j])' = given[j]
    BY <1>2, <2>1 DEF Start, Exit, TypeOK
  <2>2. report'[i] # "unencodable" /\ family' = family
    BY <1>2 DEF Start, Exit, Goto, Drafts, chain, TypeOK
  <2> QED
    BY <2>1, <2>2 DEF VaultUpdateFits
<1>3. ASSUME NEW i \in Invocations, Finish(i) \/ Fail(i)
      PROVE  VaultUpdateFits'
  BY <1>3 DEF Finish, Fail, Exit, VaultUpdateFits, TypeOK, chain
<1>4. ASSUME UNCHANGED <<family, given, report>>
      PROVE  VaultUpdateFits'
  BY <1>4 DEF VaultUpdateFits
<1> QED
  BY <1>1, <1>2, <1>3, <1>4 DEF Next, Read, Schedule, TimelockEnds, Execute,
     Cancel, Approve, vars, chain

\* The inductive invariant, one lemma per part.
THEOREM Invariance == Spec => []IInv
<1>1. Init => IInv
  BY InitIInv
<1>2. IInv /\ [Next]_vars => IInv'
  BY TypeStep, DraftsStep, FreshStep, ApprovalStep, FitsStep DEF IInv
<1> QED
  BY <1>1, <1>2, PTL DEF Spec

----------------------------------------------------------------------------
(* The theorems.                                                           *)

\* Whatever is scheduled or in force is a configuration of the right width.
THEOREM TypeCorrect == Spec => []TypeOK
BY Invariance, PTL DEF IInv

\* A vault update that cannot be encoded was given a number out of range.
THEOREM VaultFits == Spec => []VaultUpdateFits
BY Invariance, PTL DEF IInv

\* What is somebody's and did not move comes into force as a change of what
\* was given and of nothing else.
LEMMA ExecuteKeeps ==
  ASSUME IInv, Execute, family # "poolMarket",
         NEW i \in Invocations, mine[i], ~moved[i],
         NEW k \in Fields
  PROVE  params'[k] = IF given[i][k] # Unset THEN given[i][k] ELSE params[k]
<1>1. params' = config[i] /\ Encodable(config[i]) /\ tx[i] = "ok" /\ approved
  BY DEF IInv, Drafts, Execute
<1>2. config[i][k] \in 0 .. MaxValue
  BY <1>1 DEF Encodable
<1>3. CASE given[i][k] # Unset
  BY <1>1, <1>3 DEF IInv, Fresh
<1>4. CASE given[i][k] = Unset
  <2>1. family \notin Globals
    BY <1>1, <1>2, <1>4 DEF IInv, Fresh, Unset
  <2>2. config[i][k] \in {params[k], Scale * params[k]}
    BY <1>1, <1>4, <2>1 DEF IInv, Fresh
  <2>3. params[k] \in Nat
    BY MaxValueAssumption DEF IInv, TypeOK, Config
  <2>4. CASE config[i][k] = Scale * params[k]
    <3>1. params[k] = 0
      BY <1>2, <2>3, <2>4, StoredRatioFitsOnlyIfZero
    <3>2. Scale * params[k] = 0
      BY <3>1, ScaleAssumption
    <3> QED
      BY <1>1, <1>4, <2>4, <3>1, <3>2
  <2> QED
    BY <1>1, <1>4, <2>2, <2>4
<1> QED
  BY <1>3, <1>4

\* An executed update keeps what its user did not give, whatever was read,
\* replaced or cancelled in the meantime.
THEOREM KeepsTheRest == Spec => UpdateKeepsTheRest
<1>1. ASSUME IInv, [Next]_vars, NEW i \in Invocations,
             params' # params, mine[i], ~moved[i], family # "poolMarket",
             NEW k \in Fields
      PROVE  params'[k] = IF given[i][k] # Unset THEN given[i][k] ELSE params[k]
  <2>1. Execute
    BY <1>1 DEF Next, Start, Read, Submit, Finish, Fail, Schedule,
       TimelockEnds, Cancel, Approve, vars, chain
  <2> QED
    BY <1>1, <2>1, ExecuteKeeps
<1>2. IInv /\ [Next]_vars =>
        [\A i \in Invocations :
           params' # params /\ mine[i] /\ ~moved[i] /\ family # "poolMarket" =>
             \A k \in Fields :
               params'[k] = IF given[i][k] # Unset THEN given[i][k] ELSE params[k]]_vars
  BY <1>1
<1> QED
  BY <1>2, Invariance, PTL DEF Spec, UpdateKeepsTheRest
=============================================================================
