---------------------------- MODULE ParamUpdate ----------------------------
(***************************************************************************)
(* The commands that change some parameters of a contract and keep the     *)
(* rest: "vault set-params" and "governance vault-set-params", "lending    *)
(* set-alpha-params", "lending set-market-params", and the set-global-     *)
(* params of the vault, of governance and of the pool.  The contract takes *)
(* a whole configuration, so a command has to fill in what the user did    *)
(* not give; it is scheduled, and after a timelock anybody executes it.    *)
(*                                                                         *)
(* The families of parameters have no state in common: a behaviour is      *)
(* about one of them, and the invocations are the set commands of that     *)
(* family, from any terminal and along any route.  A submission is taken   *)
(* at the level of SubmitOnce.  The contracts are external.                *)
(***************************************************************************)
EXTENDS Integers

CONSTANTS
  Invocations,  \* processes
  MaxValue,     \* the largest value a field of a configuration holds
  Scale         \* what a stored ratio is, per basis point: 10^14

ASSUME MaxValueAssumption == MaxValue \in Nat
ASSUME ScaleAssumption == Scale \in Nat /\ Scale > MaxValue

Families == {"vaultNetuid", "vaultGlobal", "poolAlpha", "poolMarket", "poolGlobal"}
Globals == {"vaultGlobal", "poolGlobal"}

\* Two fields stand for all: a ratio, which poolAlpha stores in another unit
\* than its configuration has, and a plain number.
Fields == {"ratio", "cap"}
Unset == -1
Config == [Fields -> 0 .. MaxValue]
Nothing == [k \in Fields |-> Unset]
Zero == [k \in Fields |-> 0]

\* What a user gives: nothing, a number that fits, or one that does not.
Given == [Fields -> {Unset} \cup 0 .. MaxValue + 1]

\* What a command puts together before it is encoded.
Draft == [Fields -> Int]

VARIABLES
  family,    \* the family of the behaviour
  params,    \* chain: the configuration in force
  pending,   \* chain: the scheduled one, or Nothing
  ripe,      \* chain: its timelock is over
  approved,  \* chain: the netuid is among the approved alpha markets
  pc,        \* [Invocations -> {"idle", "read", "submit", "wait", "done"}]
  given,     \* [Invocations -> Given] the options
  config,    \* [Invocations -> Draft] what will be submitted
  tx,        \* the extrinsic: none, sent, executed ok or bad
  report,    \* what the user was told when the process ended
  moved,     \* history: since the invocation read, params or approved changed
  mine       \* history: the scheduled configuration is the invocation's

chain == <<family, params, pending, ripe, approved>>
history == <<moved, mine>>
vars == <<chain, pc, given, config, tx, report, history>>

TypeOK ==
  /\ family \in Families
  /\ params \in Config
  /\ pending \in Config \cup {Nothing}
  /\ ripe \in BOOLEAN
  /\ approved \in BOOLEAN
  /\ pc \in [Invocations -> {"idle", "read", "submit", "wait", "done"}]
  /\ given \in [Invocations -> Given]
  /\ config \in [Invocations -> Draft]
  /\ tx \in [Invocations -> {"none", "sent", "ok", "bad"}]
  /\ report \in [Invocations ->
                   {"none", "success", "refused", "unencodable", "error"}]
  /\ moved \in [Invocations -> BOOLEAN]
  /\ mine \in [Invocations -> BOOLEAN]

Init ==
  /\ family \in Families
  /\ params \in Config
  /\ pending = Nothing
  /\ ripe = FALSE
  /\ approved \in BOOLEAN
  /\ family # "poolAlpha" => approved
  /\ pc = [i \in Invocations |-> "idle"]
  /\ given = [i \in Invocations |-> Nothing]
  /\ config = [i \in Invocations |-> Nothing]
  /\ tx = [i \in Invocations |-> "none"]
  /\ report = [i \in Invocations |-> "none"]
  /\ moved = [i \in Invocations |-> FALSE]
  /\ mine = [i \in Invocations |-> FALSE]

Goto(i, from, to) ==
  /\ pc[i] = from
  /\ pc' = [pc EXCEPT ![i] = to]

Exit(i, from, r) ==
  /\ Goto(i, from, "done")
  /\ report' = [report EXCEPT ![i] = r]

----------------------------------------------------------------------------
(* Steps of a process.                                                     *)

\* Mutant: a zero counts as not given.
MergeFalsy(g, current) ==
  [k \in Fields |-> IF g[k] \notin {Unset, 0} THEN g[k] ELSE current[k]]

\* The given fields, and the current ones for the rest.
Merge(g, current) ==
  [k \in Fields |-> IF g[k] # Unset THEN g[k] ELSE current[k]]

\* set-params asks for something to change, the pool's commands do not.  The
\* global commands submit the options as they are, the others read first.
Start(i) ==
  \E g \in Given :
    /\ given' = [given EXCEPT ![i] = g]
    /\ IF g = Nothing /\ family \in {"vaultNetuid", "vaultGlobal"}
       THEN Exit(i, "idle", "refused") /\ UNCHANGED config
       ELSE /\ Goto(i, "idle", IF family \in Globals THEN "submit" ELSE "read")
            /\ config' = [config EXCEPT ![i] = g]
            /\ UNCHANGED report
    /\ UNCHANGED <<chain, tx, history>>

\* Mutant: the vault's parameters are read in the unit they are stored in.
CurrentInStoredUnits ==
  CASE family = "poolMarket" -> Zero
    [] OTHER -> [params EXCEPT !["ratio"] = Scale * @]

\* What the read returns for the fields of the configuration.  The vault has
\* a getter for it.  The pool's list of alpha markets has the ratios as they
\* are stored, and nothing for a netuid that is not approved.  The market's
\* state, which set-market-params reads, has none of the fields.
Current ==
  CASE family = "vaultNetuid" -> params
    [] family = "poolAlpha" /\ approved -> [params EXCEPT !["ratio"] = Scale * @]
    [] OTHER -> Zero

Read(i) ==
  /\ Goto(i, "read", "submit")
  /\ config' = [config EXCEPT ![i] = Merge(given[i], Current)]
  /\ moved' = [moved EXCEPT ![i] = FALSE]
  /\ UNCHANGED <<chain, given, tx, report, mine>>

\* Mutant: a number that does not fit is cut to the width of its field.
EncodableInWrap(c) == \A k \in Fields : c[k] # Unset

\* The codec wants every field of the structure, in its range (external).
Encodable(c) == \A k \in Fields : c[k] \in 0 .. MaxValue

\* The gas estimate is the first to encode the configuration.
Submit(i) ==
  /\ \/ /\ Encodable(config[i])
        /\ Goto(i, "submit", "wait")
        /\ tx' = [tx EXCEPT ![i] = "sent"]
        /\ UNCHANGED report
     \/ /\ ~Encodable(config[i])
        /\ Exit(i, "submit", "unencodable")
        /\ UNCHANGED tx
  /\ UNCHANGED <<chain, given, config, history>>

Finish(i) ==
  /\ \/ tx[i] = "ok" /\ Exit(i, "wait", "success")
     \/ tx[i] = "bad" /\ Exit(i, "wait", "error")
  /\ UNCHANGED <<chain, given, config, tx, history>>

\* A lost connection, a refused signature, a read that fails, Ctrl-C.
Fail(i) ==
  /\ \E from \in {"read", "submit", "wait"} : Exit(i, from, "error")
  /\ UNCHANGED <<chain, given, config, tx, history>>

----------------------------------------------------------------------------
(* Steps of the contract (external), and the commands that are one message. *)

\* The set message: the configuration is scheduled, in place of any other.
\* The contract may refuse it for a reason of its own.
Schedule(i) ==
  /\ tx[i] = "sent"
  /\ \/ /\ approved
        /\ tx' = [tx EXCEPT ![i] = "ok"]
        /\ pending' = config[i]
        /\ ripe' = FALSE
        /\ mine' = [j \in Invocations |-> j = i]
     \/ /\ tx' = [tx EXCEPT ![i] = "bad"]
        /\ UNCHANGED <<pending, ripe, mine>>
  /\ UNCHANGED <<family, params, approved, pc, given, config, report, moved>>

TimelockEnds ==
  /\ pending # Nothing
  /\ ~ripe
  /\ ripe' = TRUE
  /\ UNCHANGED <<family, params, pending, approved, pc, given, config, tx, report, history>>

Unschedule ==
  /\ pending # Nothing
  /\ pending' = Nothing
  /\ ripe' = FALSE
  /\ mine' = [i \in Invocations |-> FALSE]

\* execute-update and its likes, by anybody.
Execute ==
  /\ ripe
  /\ params' = pending
  /\ Unschedule
  /\ moved' = [i \in Invocations |-> TRUE]
  /\ UNCHANGED <<family, approved, pc, given, config, tx, report>>

\* cancel-update and its likes.
Cancel ==
  /\ Unschedule
  /\ UNCHANGED <<family, params, approved, pc, given, config, tx, report, moved>>

\* lending set-approved-netuid.
Approve ==
  /\ family = "poolAlpha"
  /\ approved' = ~approved
  /\ moved' = [i \in Invocations |-> TRUE]
  /\ UNCHANGED <<family, params, pending, ripe, pc, given, config, tx, report, mine>>

----------------------------------------------------------------------------

Next ==
  \/ \E i \in Invocations :
       Start(i) \/ Read(i) \/ Submit(i) \/ Finish(i) \/ Fail(i) \/ Schedule(i)
  \/ TimelockEnds \/ Execute \/ Cancel \/ Approve

Spec == Init /\ [][Next]_vars

----------------------------------------------------------------------------
(* Properties.                                                             *)

\* However many updates are read, sent, replaced and executed in between, an
\* update that comes into force changes what its user gave and keeps the
\* rest, if since its read no other one came into force and the netuid was
\* not approved or revoked.  The timelock belongs to the window: a command
\* reads what is in force and not what is scheduled.  set-market-params does
\* not even do that, see MarketUpdateKeepsTheRest.  (client.py:739-762,
\* lending.py:471-490)
UpdateKeepsTheRest ==
  [][\A i \in Invocations :
       params' # params /\ mine[i] /\ ~moved[i] /\ family # "poolMarket" =>
         \A k \in Fields :
           params'[k] = IF given[i][k] # Unset THEN given[i][k] ELSE params[k]]_vars

\* A set-params that cannot be encoded was given a number out of range: what
\* it fills in for the rest fits, whenever it was read.  (client.py:739-762)
VaultUpdateFits ==
  \A i \in Invocations :
    family = "vaultNetuid" /\ report[i] = "unencodable" =>
      \E k \in Fields : given[i][k] > MaxValue

\* lending.py:558-561, of set-market-params: "Reads current params first, then
\* merges the provided values".
MarketUpdateKeepsTheRest ==
  \A i \in Invocations :
    family = "poolMarket" /\ given[i] # Nothing /\ tx[i] # "none" /\ ~moved[i] =>
      \A k \in Fields : given[i][k] = Unset => config[i][k] = params[k]
=============================================================================
