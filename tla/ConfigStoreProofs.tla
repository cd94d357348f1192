-------------------------- MODULE ConfigStoreProofs --------------------------
(***************************************************************************)
(* Types and the safety of contract commands, for any number of terminals  *)
(* and any options of config set.                                          *)
(***************************************************************************)
EXTENDS ConfigStore, TLAPS

Keys == {"network", "endpoint", "wallet"}

\* A loaded configuration has a network and an endpoint, perhaps no wallet.
Config == [network : Names, endpoint : Endpoints, wallet : Wallets \cup {Unset}]

\* What a preset and the environment can provide.
Partial == [network : Names \cup {Unset}, endpoint : Endpoints \cup {Unset}]

\* The file's object is well formed, parseable or not.
LEMMA OnDiskType == TypeOK => OnDisk \in Saved
BY DEF TypeOK, OnDisk, Nothing, Saved, Unset

\* Overlay works key by key.
LEMMA OverlayFields ==
  ASSUME NEW a, DOMAIN a = Keys, NEW b, NEW k \in Keys
  PROVE  Overlay(a, b)[k] =
           IF k \in DOMAIN b /\ b[k] # Unset THEN b[k] ELSE a[k]
BY DEF Overlay

\* An overlay of a record with the three keys is such a record.
LEMMA OverlayRecord ==
  ASSUME NEW a, DOMAIN a = Keys, NEW b
  PROVE  Overlay(a, b) = [network |-> Overlay(a, b).network,
                          endpoint |-> Overlay(a, b).endpoint,
                          wallet |-> Overlay(a, b).wallet]
BY DEF Overlay, Keys

\* Saved overrides over saved overrides are saved overrides.
LEMMA OverlaySaved ==
  ASSUME NEW a \in Saved, NEW b \in Saved
  PROVE  Overlay(a, b) \in Saved
<1>1. DOMAIN a = Keys /\ DOMAIN b = Keys
  BY DEF Saved, Keys
<1>2. \A k \in Keys : Overlay(a, b)[k] = IF b[k] # Unset THEN b[k] ELSE a[k]
  BY <1>1, OverlayFields
<1>3. QED
  BY <1>1, <1>2, OverlayRecord DEF Saved, Keys

\* Saved overrides complete a configuration.
LEMMA OverlayConfig ==
  ASSUME NEW a \in Config, NEW b \in Saved
  PROVE  /\ Overlay(a, b) \in Config
         /\ b.endpoint = Unset => Overlay(a, b).endpoint = a.endpoint
<1>1. DOMAIN a = Keys /\ DOMAIN b = Keys
  BY DEF Config, Saved, Keys
<1>2. \A k \in Keys : Overlay(a, b)[k] = IF b[k] # Unset THEN b[k] ELSE a[k]
  BY <1>1, OverlayFields
<1>3. QED
  BY <1>1, <1>2, OverlayRecord DEF Config, Saved, Keys, Names

\* So do the environment and a preset.
LEMMA OverlayPartial ==
  ASSUME NEW a \in Config, NEW b \in Partial
  PROVE  /\ Overlay(a, b) \in Config
         /\ b.endpoint # Unset => Overlay(a, b).endpoint = b.endpoint
<1>1. DOMAIN a = Keys /\ DOMAIN b = {"network", "endpoint"}
  BY DEF Config, Partial, Keys
<1>2. \A k \in Keys : Overlay(a, b)[k] =
        IF k \in {"network", "endpoint"} /\ b[k] # Unset THEN b[k] ELSE a[k]
  BY <1>1, OverlayFields
<1>3. QED
  BY <1>1, <1>2, OverlayRecord DEF Config, Partial, Keys

\* load_config returns a configuration, named as asked, whose endpoint is
\* the preset's of its name when the file pins none.
LEMMA LoadResult ==
  ASSUME TypeOK, NEW net \in Names \cup {Unset}
  PROVE  /\ Load(net) \in Config
         /\ net # Unset => Load(net).network = net
         /\ Load(net).network \in Networks /\ OnDisk.endpoint = Unset =>
              Load(net).endpoint = Load(net).network
<1> DEFINE base   == Overlay(Overlay(Defaults, env), OnDisk)
           eff    == IF net # Unset THEN net ELSE base.network
           preset == IF eff \in Networks THEN Overlay(base, Preset(eff)) ELSE base
           loaded == Overlay(preset, OnDisk)
<1>1. Defaults \in Config
  BY DEF Defaults, Config, Names, Networks, Endpoints
<1>2. env \in Partial
  BY DEF TypeOK, Partial, Endpoints
<1>3. base \in Config
  BY <1>1, <1>2, OverlayPartial, OverlayConfig, OnDiskType
<1>4. eff \in Names
  BY <1>3 DEF Config
<1>5. eff \in Networks =>
        /\ Preset(eff) \in Partial
        /\ Preset(eff).endpoint = eff
        /\ Preset(eff).endpoint # Unset
  BY DEF Preset, Partial, Names, Networks, Endpoints, Unset
<1>6. preset \in Config /\ (eff \in Networks => preset.endpoint = eff)
  BY <1>3, <1>5, OverlayPartial
<1>7. /\ loaded \in Config
      /\ OnDisk.endpoint = Unset => loaded.endpoint = preset.endpoint
  BY <1>6, OverlayConfig, OnDiskType
<1>8. Load(net) = [loaded EXCEPT !.network = eff]
  BY DEF Load
<1>9. /\ Load(net) \in Config
      /\ Load(net).network = eff
      /\ Load(net).endpoint = loaded.endpoint
  BY <1>4, <1>7, <1>8 DEF Config
<1>10. QED
  BY <1>6, <1>7, <1>9

\* What config set writes are saved overrides.
LEMMA MergeType ==
  ASSUME NEW old \in Saved, NEW o \in Saved
  PROVE  Merge(old, o) \in Saved
<1>1. [old EXCEPT !.endpoint = Unset] \in Saved
  BY DEF Saved
<1>2. QED
  BY <1>1, OverlaySaved DEF Merge

----------------------------------------------------------------------------

\* A command that passed its guard is a drain labelled testnet.
Guarded ==
  \A u \in Users :
    /\ upc[u] = "started" => label[u] \in Names
    /\ upc[u] = "guarded" => drain[u] /\ label[u] = "testnet"

IInv == TypeOK /\ Guarded /\ EndpointFollowsLabel /\ DrainPassedItsGuard

\* Every step keeps the type invariant and the place of the guard.
LEMMA TypeStep == TypeOK /\ Guarded /\ [Next]_vars => TypeOK' /\ Guarded'
<1> SUFFICES ASSUME TypeOK, Guarded, [Next]_vars
             PROVE  TypeOK' /\ Guarded'
  OBVIOUS
<1> USE DEF TypeOK, Guarded
<1>1. CASE UNCHANGED vars
  BY <1>1 DEF vars, setter, user
<1>2. ASSUME NEW s \in Setters, SetRead(s)
      PROVE  TypeOK' /\ Guarded'
  <2>1. PICK o \in Options :
          /\ spc' = [spc EXCEPT ![s] = "read"]
          /\ opts' = [opts EXCEPT ![s] = o]
          /\ mem' = [mem EXCEPT ![s] = Merge(OnDisk, o)]
          /\ clean' = (clean /\ Alone(s))
          /\ UNCHANGED <<env, kind, saved, user>>
    BY <1>2 DEF SetRead
  <2>2. o \in Saved /\ Merge(OnDisk, o) \in Saved
    BY OptionsAssumption, OnDiskType, MergeType
  <2>3. clean' \in BOOLEAN
    BY <2>1
  <2>4. QED
    BY <2>1, <2>2, <2>3 DEF user
<1>3. ASSUME NEW s \in Setters, SetOpen(s)
      PROVE  TypeOK' /\ Guarded'
  BY <1>3 DEF SetOpen, user
<1>4. ASSUME NEW s \in Setters, SetWrite(s)
      PROVE  TypeOK' /\ Guarded'
  BY <1>4 DEF SetWrite, user, Nothing, Saved
<1>5. ASSUME NEW s \in Setters, SetKilled(s)
      PROVE  TypeOK' /\ Guarded'
  BY <1>5 DEF SetKilled, user, Nothing, Saved
<1>6. ASSUME NEW u \in Users, Start(u)
      PROVE  TypeOK' /\ Guarded'
  <2>1. Load(Unset).network \in Names
    BY LoadResult DEF Config
  <2>2. QED
    BY <1>6, <2>1 DEF Start, setter, NoUse, Names
<1>7. ASSUME NEW u \in Users, Guard(u)
      PROVE  TypeOK' /\ Guarded'
  <2>1. Load(label[u]).network = label[u]
    BY <1>7, LoadResult DEF Guard, Names, Networks, Unset
  <2>2. UNCHANGED <<env, kind, saved, spc, opts, mem, clean, used>> /\ drain[u]
    BY <1>7 DEF Guard, setter
  <2>3. CASE /\ label[u] = "testnet"
             /\ upc' = [upc EXCEPT ![u] = "guarded"]
             /\ UNCHANGED <<drain, label>>
    BY <2>2, <2>3
  <2>4. CASE Stop(u)
    BY <2>2, <2>4 DEF Stop
  <2>5. QED
    BY <1>7, <2>1, <2>3, <2>4 DEF Guard
<1>8. ASSUME NEW u \in Users, Submit(u)
      PROVE  TypeOK' /\ Guarded'
  <2>1. Load(label[u]) \in Config
    BY LoadResult
  <2>2. QED
    BY <1>8, <2>1 DEF Submit, Stop, setter, Config
<1>9. QED
  BY <1>1, <1>2, <1>3, <1>4, <1>5, <1>6, <1>7, <1>8 DEF Next

\* Every step keeps the two properties of what was submitted.
LEMMA UseStep ==
  IInv /\ [Next]_vars => EndpointFollowsLabel' /\ DrainPassedItsGuard'
<1> SUFFICES ASSUME IInv, [Next]_vars
             PROVE  EndpointFollowsLabel' /\ DrainPassedItsGuard'
  OBVIOUS
<1> USE DEF IInv, EndpointFollowsLabel, DrainPassedItsGuard
<1>1. CASE UNCHANGED <<env, used>>
  BY <1>1
<1>2. ASSUME NEW u \in Users, Start(u)
      PROVE  EndpointFollowsLabel' /\ DrainPassedItsGuard'
  BY <1>2 DEF Start, NoUse, Networks, Unset, TypeOK
<1>3. ASSUME NEW u \in Users, Submit(u)
      PROVE  EndpointFollowsLabel' /\ DrainPassedItsGuard'
  <2>1. label[u] \in Names
    BY <1>3 DEF Submit, Guarded, Names, Networks
  <2>2. /\ Load(label[u]).network = label[u]
        /\ label[u] \in Networks /\ OnDisk.endpoint = Unset =>
             Load(label[u]).endpoint = label[u]
    BY <2>1, LoadResult DEF Names, Networks, Unset
  <2>3. drain[u] => label[u] = "testnet"
    BY <1>3 DEF Submit, Guarded
  <2>4. QED
    BY <1>3, <2>2, <2>3 DEF Submit, TypeOK
<1>4. QED
  BY <1>1, <1>2, <1>3
  DEF Next, vars, user, SetRead, SetOpen, SetWrite, SetKilled, Guard

\* The inductive invariant holds in every reachable state.
THEOREM Invariance == Spec => []IInv
<1>1. Init => IInv
  BY OptionsAssumption
  DEF Init, IInv, TypeOK, Guarded, EndpointFollowsLabel, DrainPassedItsGuard,
      NoUse, Nothing, Saved, Networks, Unset
<1>2. IInv /\ [Next]_vars => IInv'
  BY TypeStep, UseStep DEF IInv
<1>3. QED
  BY <1>1, <1>2, PTL DEF Spec

\* Types: the file, the sets in progress and the loaded values keep their form.
THEOREM TypeCorrect == Spec => []TypeOK
<1>1. IInv => TypeOK
  BY DEF IInv
<1>2. QED
  BY <1>1, Invariance, PTL

\* A command goes to the network it is labelled with, where neither the file
\* nor TUSDT_RPC names an endpoint.
THEOREM EndpointSafe == Spec => []EndpointFollowsLabel
<1>1. IInv => EndpointFollowsLabel
  BY DEF IInv
<1>2. QED
  BY <1>1, Invariance, PTL

\* A drain is submitted under the label its guard asked for.
THEOREM DrainSafe == Spec => []DrainPassedItsGuard
<1>1. IInv => DrainPassedItsGuard
  BY DEF IInv
<1>2. QED
  BY <1>1, Invariance, PTL

----------------------------------------------------------------------------
(* config set, as long as nothing disturbs it. *)

\* While sets neither overlap nor are killed, the one under way will write the
\* object that is in the file, or was in it until it was opened, with its
\* options merged in.
CleanInv ==
  /\ kind = "missing" => saved = Nothing
  /\ clean =>
       /\ \A s, t \in Setters : spc[s] # "idle" /\ spc[t] # "idle" => s = t
       /\ \A s \in Setters : spc[s] = "opened" => kind = "empty"
       /\ \A s \in Setters : spc[s] # "idle" => mem[s] = Merge(saved, opts[s])
       /\ ReadableUnlessDisturbed

LEMMA CleanStep == TypeOK /\ CleanInv /\ [Next]_vars => CleanInv'
<1> SUFFICES ASSUME TypeOK, CleanInv, [Next]_vars
             PROVE  CleanInv'
  OBVIOUS
<1>0. /\ spc \in [Setters -> {"idle", "read", "opened"}]
      /\ opts \in [Setters -> Saved] /\ mem \in [Setters -> Saved]
  BY DEF TypeOK
<1>1. ASSUME NEW s \in Setters, SetRead(s)
      PROVE  CleanInv'
  <2>1. PICK o \in Options :
          /\ spc[s] = "idle"
          /\ spc' = [spc EXCEPT ![s] = "read"]
          /\ opts' = [opts EXCEPT ![s] = o]
          /\ mem' = [mem EXCEPT ![s] = Merge(OnDisk, o)]
          /\ clean' = (clean /\ Alone(s))
          /\ kind' = kind /\ saved' = saved
    BY <1>1 DEF SetRead
  <2>2. ASSUME clean' PROVE OnDisk = saved
    <3>1. \A t \in Setters : spc[t] = "idle"
      BY <2>1, <2>2 DEF Alone
    <3>2. kind \in {"missing", "ok"}
      BY <2>1, <2>2, <3>1 DEF CleanInv, ReadableUnlessDisturbed
    <3>3. QED
      BY <3>2 DEF CleanInv, OnDisk
  <2>3. \A t \in Setters : t # s => spc'[t] = spc[t] /\ mem'[t] = mem[t] /\ opts'[t] = opts[t]
    BY <1>0, <2>1
  <2>4. spc'[s] = "read" /\ mem'[s] = Merge(OnDisk, o) /\ opts'[s] = o
    BY <1>0, <2>1
  <2>5. ASSUME clean' PROVE \A t \in Setters : spc'[t] # "idle" => mem'[t] = Merge(saved', opts'[t])
    BY <2>1, <2>2, <2>3, <2>4, <2>5 DEF Alone
  <2>6. ASSUME clean' PROVE ReadableUnlessDisturbed'
    BY <2>1, <2>3, <2>4, <2>6 DEF CleanInv, ReadableUnlessDisturbed, Alone
  <2>7. ASSUME clean' PROVE \A t \in Setters : spc'[t] # "idle" => t = s /\ spc'[t] = "read"
    BY <2>1, <2>3, <2>4, <2>7 DEF Alone
  <2>8. kind' = "missing" => saved' = Nothing
    BY <2>1 DEF CleanInv
  <2>9. QED
    BY <2>5, <2>6, <2>7, <2>8 DEF CleanInv
<1>2. ASSUME NEW s \in Setters, SetOpen(s)
      PROVE  CleanInv'
  <2>1. /\ spc[s] = "read" /\ spc' = [spc EXCEPT ![s] = "opened"]
        /\ kind' = "empty" /\ saved' = saved /\ opts' = opts /\ mem' = mem /\ clean' = clean
    BY <1>2 DEF SetOpen
  <2>2. \A t \in Setters : spc'[t] = IF t = s THEN "opened" ELSE spc[t]
    BY <1>0, <2>1
  <2>3. clean => \A t \in Setters : spc'[t] # "idle" => mem'[t] = Merge(saved', opts'[t])
    BY <2>1, <2>2 DEF CleanInv
  <2>4. QED
    BY <2>1, <2>2, <2>3 DEF CleanInv, ReadableUnlessDisturbed
<1>3. ASSUME NEW s \in Setters, SetWrite(s)
      PROVE  CleanInv'
  <2>1. /\ spc[s] = "opened" /\ spc' = [spc EXCEPT ![s] = "idle"] /\ clean' = clean
        /\ kind' = "ok" \/ (kind # "empty" /\ kind' = "garbage")
    BY <1>3 DEF SetWrite
  <2>2. \A t \in Setters : spc'[t] = IF t = s THEN "idle" ELSE spc[t]
    BY <1>0, <2>1
  <2>3. clean => kind' = "ok" /\ \A t \in Setters : spc'[t] = "idle"
    BY <2>1, <2>2 DEF CleanInv
  <2>4. kind' # "missing"
    BY <2>1
  <2>5. QED
    BY <2>1, <2>3, <2>4 DEF CleanInv, ReadableUnlessDisturbed
<1>4. ASSUME NEW s \in Setters, SetKilled(s)
      PROVE  CleanInv'
  <2>1. /\ spc[s] # "idle" /\ spc' = [spc EXCEPT ![s] = "idle"]
        /\ clean' = (clean /\ spc[s] # "opened")
        /\ kind' = kind /\ saved' = saved
    BY <1>4 DEF SetKilled
  <2>2. \A t \in Setters : spc'[t] = IF t = s THEN "idle" ELSE spc[t]
    BY <1>0, <2>1
  <2>3. clean' => /\ clean /\ kind \in {"missing", "ok"}
                  /\ \A t \in Setters : spc'[t] = "idle"
    BY <1>0, <2>1, <2>2 DEF CleanInv, ReadableUnlessDisturbed
  <2>4. QED
    BY <2>1, <2>3 DEF CleanInv, ReadableUnlessDisturbed
<1>5. CASE UNCHANGED <<kind, saved, spc, opts, mem, clean>>
  BY <1>5 DEF CleanInv, ReadableUnlessDisturbed
<1>6. QED
  BY <1>1, <1>2, <1>3, <1>4, <1>5 DEF Next, vars, setter, Start, Guard, Submit

\* A merge is the old object but for the options and the endpoint it drops.
LEMMA MergeFields ==
  ASSUME NEW old \in Saved, NEW o \in Saved, NEW k \in Keys
  PROVE  Merge(old, o)[k] = IF o[k] # Unset THEN o[k]
                            ELSE IF k = "endpoint" /\ o.network # Unset THEN Unset
                            ELSE old[k]
<1> DEFINE dropped == [old EXCEPT !.endpoint = Unset]
<1>1. DOMAIN old = Keys /\ DOMAIN o = Keys
  BY DEF Saved, Keys
<1>2. DOMAIN dropped = Keys /\ dropped[k] = IF k = "endpoint" THEN Unset ELSE old[k]
  BY <1>1 DEF Keys, Saved
<1>3. CASE o.network # Unset
  <2>1. Merge(old, o) = Overlay(dropped, o)
    BY <1>3 DEF Merge
  <2> HIDE DEF dropped
  <2>2. QED
    BY <1>1, <1>2, <1>3, <2>1, OverlayFields
<1>4. CASE o.network = Unset
  BY <1>1, <1>4, OverlayFields DEF Merge
<1>5. QED
  BY <1>3, <1>4

LEMMA CleanWrite ==
  ASSUME TypeOK, CleanInv, [Next]_vars, NEW s \in Setters,
         spc[s] = "opened", spc'[s] = "idle", clean'
  PROVE  \A k \in DOMAIN saved :
           saved'[k] = IF opts[s][k] # Unset THEN opts[s][k]
                       ELSE IF k = "endpoint" /\ opts[s].network # Unset
                       THEN Unset ELSE saved[k]
<1>0. /\ spc \in [Setters -> {"idle", "read", "opened"}]
      /\ opts[s] \in Saved /\ saved \in Saved
  BY DEF TypeOK
<1>1. SetWrite(s)
  <2>1. ASSUME NEW t \in Setters, SetRead(t) \/ SetOpen(t) PROVE FALSE
    BY <1>0, <2>1 DEF SetRead, SetOpen
  <2>2. ASSUME NEW t \in Setters, SetKilled(t) PROVE FALSE
    <3>1. clean /\ spc[t] # "opened" /\ spc' = [spc EXCEPT ![t] = "idle"]
      BY <2>2 DEF SetKilled
    <3>2. QED
      BY <1>0, <3>1
  <2>3. ASSUME NEW t \in Setters, SetWrite(t) PROVE t = s
    BY <1>0, <2>3 DEF SetWrite
  <2>4. CASE \E u \in Users : Start(u) \/ Guard(u) \/ Submit(u)
    BY <2>4 DEF Start, Guard, Submit, setter
  <2>5. CASE UNCHANGED vars
    BY <2>5 DEF vars, setter
  <2>6. QED
    BY <2>1, <2>2, <2>3, <2>4, <2>5 DEF Next
<1>2. kind = "empty" /\ mem[s] = Merge(saved, opts[s])
  BY <1>1 DEF CleanInv, SetWrite
<1>3. saved' = Merge(saved, opts[s])
  BY <1>1, <1>2 DEF SetWrite
<1>4. DOMAIN saved = Keys
  BY <1>0 DEF Saved, Keys
<1>5. QED
  BY <1>0, <1>3, <1>4, MergeFields

\* The clean history keeps its invariant.
THEOREM CleanInvariance == Spec => [](TypeOK /\ CleanInv)
<1>1. Init => CleanInv
  BY DEF Init, CleanInv, ReadableUnlessDisturbed
<1>2. CleanInv /\ TypeOK /\ [Next]_vars => CleanInv'
  BY CleanStep
<1>3. QED
  BY <1>1, <1>2, TypeCorrect, PTL DEF Spec

\* The file stays readable for any number of terminals, unless sets overlap or
\* one is killed between emptying and writing the file (config.py:179-199).
THEOREM FileReadable == Spec => []ReadableUnlessDisturbed
<1>1. CleanInv => ReadableUnlessDisturbed
  BY DEF CleanInv, ReadableUnlessDisturbed
<1>2. QED
  BY <1>1, CleanInvariance, PTL

\* config set changes what it was asked to change, and drops the endpoints of
\* the network it leaves, whatever was in the file (cli.py, config_set).
THEOREM OnlyProvidedChange == Spec => OnlyProvidedOptionsChange
<1>1. TypeOK /\ CleanInv /\ [Next]_vars =>
        [\A s \in Setters :
           spc[s] = "opened" /\ spc'[s] = "idle" /\ clean' =>
             \A k \in DOMAIN saved :
               saved'[k] = IF opts[s][k] # Unset THEN opts[s][k]
                           ELSE IF k = "endpoint" /\ opts[s].network # Unset
                           THEN Unset ELSE saved[k]]_vars
  BY CleanWrite
<1>2. QED
  BY <1>1, CleanInvariance, PTL DEF Spec, OnlyProvidedOptionsChange
=============================================================================
