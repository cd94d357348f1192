----------------------------- MODULE ConfigStore -----------------------------
(***************************************************************************)
(* ~/.tusdt-cli/config.json and the processes that share it: "config set"  *)
(* in some terminals, contract commands in others.  A command loads the    *)
(* configuration several times (the root group, a guard such as the one of *)
(* "vault emergency-drain", then submit()), and nothing locks the file.    *)
(*                                                                         *)
(* Three keys stand for all: "network"; "endpoint", for the rpc, the       *)
(* contract addresses and the ABI paths, which config set drops when it    *)
(* switches networks; "wallet", for the keys that it never drops.          *)
(***************************************************************************)
EXTENDS FiniteSets

CONSTANTS
  Setters,    \* terminals that run "config set"
  Users,      \* terminals that run contract commands
  Options     \* bound: the option combinations "config set" is called with

Networks == {"finney", "testnet"}     \* the presets of NETWORKS
Names == Networks \cup {"other"}      \* what TUSDT_NETWORK may hold
Endpoints == Networks \cup {"custom"} \* a preset's endpoint, or another one
Wallets == {"w1", "w2"}
Unset == "unset"                      \* the key is absent

\* Saved overrides: a value, or none, for every key.
Saved == [network : Networks \cup {Unset}, endpoint : Endpoints \cup {Unset},
          wallet : Wallets \cup {Unset}]
Nothing == [network |-> Unset, endpoint |-> Unset, wallet |-> Unset]

ASSUME OptionsAssumption == Options \subseteq Saved

VARIABLES
  env,    \* TUSDT_NETWORK and TUSDT_RPC of the terminals
  kind,   \* the file is "missing", "empty", "garbage" or "ok"
  saved,  \* its JSON object while it is "ok", the last one otherwise
  spc,    \* [Setters -> {"idle", "read", "opened"}]
  opts,   \* [Setters -> Options] the options of this config set
  mem,    \* [Setters -> Saved] what this config set will write
  clean,  \* no two sets overlapped so far, none was killed while writing
  upc,    \* [Users -> {"idle", "started", "guarded"}]
  drain,  \* the command is emergency-drain
  label,  \* state.network of the command
  used    \* what the last command of the user was submitted with

setter == <<spc, opts, mem>>
user == <<upc, drain, label, used>>
vars == <<env, kind, saved, setter, clean, user>>

----------------------------------------------------------------------------
(* Reading.                                                                *)

\* a, with the keys that are set in b taken from b.
Overlay(a, b) ==
  [k \in DOMAIN a |-> IF k \in DOMAIN b /\ b[k] # Unset THEN b[k] ELSE a[k]]

\* What a reader gets: a file it cannot parse counts as an empty object.
OnDisk == IF kind = "ok" THEN saved ELSE Nothing

Preset(net) == [network |-> net, endpoint |-> net]

Defaults == [network |-> "finney", endpoint |-> "finney", wallet |-> Unset]

\* Mutant: the preset is the saved network's, whatever network is asked for.
LoadIgnoresFlag(net) ==
  LET base   == Overlay(Overlay(Defaults, env), OnDisk)
      eff    == IF net # Unset THEN net ELSE base.network
      preset == IF base.network \in Networks
                THEN Overlay(base, Preset(base.network)) ELSE base
  IN  [Overlay(preset, OnDisk) EXCEPT !.network = eff]

\* load_config: defaults, environment, file; then the preset of the network
\* asked for (or found), the file once more, and the network's name.
Load(net) ==
  LET base   == Overlay(Overlay(Defaults, env), OnDisk)
      eff    == IF net # Unset THEN net ELSE base.network
      preset == IF eff \in Networks THEN Overlay(base, Preset(eff)) ELSE base
  IN  [Overlay(preset, OnDisk) EXCEPT !.network = eff]

----------------------------------------------------------------------------

NoUse == [network |-> Unset, endpoint |-> Unset, pinned |-> FALSE, drain |-> FALSE]

TypeOK ==
  /\ env \in [network : Names \cup {Unset}, endpoint : {Unset, "custom"}]
  /\ kind \in {"missing", "empty", "garbage", "ok"}
  /\ saved \in Saved
  /\ spc \in [Setters -> {"idle", "read", "opened"}]
  /\ opts \in [Setters -> Saved]
  /\ mem \in [Setters -> Saved]
  /\ clean \in BOOLEAN
  /\ upc \in [Users -> {"idle", "started", "guarded"}]
  /\ drain \in [Users -> BOOLEAN]
  /\ label \in [Users -> Names \cup {Unset}]
  /\ used \in [Users -> [network : Names \cup {Unset},
                         endpoint : Endpoints \cup {Unset},
                         pinned : BOOLEAN, drain : BOOLEAN]]

\* The file may come from an older version, which saved the endpoints too.
Init ==
  /\ env \in [network : Names \cup {Unset}, endpoint : {Unset, "custom"}]
  /\ \/ kind = "missing" /\ saved = Nothing
     \/ kind = "ok" /\ saved \in Options
  /\ spc = [s \in Setters |-> "idle"]
  /\ opts = [s \in Setters |-> Nothing]
  /\ mem = [s \in Setters |-> Nothing]
  /\ clean = TRUE
  /\ upc = [u \in Users |-> "idle"]
  /\ drain = [u \in Users |-> FALSE]
  /\ label = [u \in Users |-> Unset]
  /\ used = [u \in Users |-> NoUse]

----------------------------------------------------------------------------
(* config set.                                                             *)

\* Mutant: the dropped keys are popped after the update.
MergeThenPop(old, o) ==
  IF o.network # Unset
  THEN [k \in {"network", "wallet"} |-> Overlay(old, o)[k]]
  ELSE Overlay(old, o)

\* Switching networks drops the keys that a preset or the package provides.
Merge(old, o) ==
  Overlay(IF o.network # Unset THEN [old EXCEPT !.endpoint = Unset] ELSE old, o)

Alone(s) == \A t \in Setters \ {s} : spc[t] = "idle"

\* Mutant: the whole resolved configuration is written back.
SetReadResolved(s) ==
  \E o \in Options \ {Nothing} :
    /\ spc[s] = "idle"
    /\ spc' = [spc EXCEPT ![s] = "read"]
    /\ opts' = [opts EXCEPT ![s] = o]
    /\ mem' = [mem EXCEPT ![s] = Merge(Load(Unset), o)]
    /\ clean' = (clean /\ Alone(s))
    /\ UNCHANGED <<env, kind, saved, user>>

\* config set reads the raw overrides and computes the new ones.  Without
\* options it stops there.
SetRead(s) ==
  \E o \in Options \ {Nothing} :
    /\ spc[s] = "idle"
    /\ spc' = [spc EXCEPT ![s] = "read"]
    /\ opts' = [opts EXCEPT ![s] = o]
    /\ mem' = [mem EXCEPT ![s] = Merge(OnDisk, o)]
    /\ clean' = (clean /\ Alone(s))
    /\ UNCHANGED <<env, kind, saved, user>>

\* save_config opens the file for writing, which empties it.
SetOpen(s) ==
  /\ spc[s] = "read"
  /\ spc' = [spc EXCEPT ![s] = "opened"]
  /\ kind' = "empty"
  /\ UNCHANGED <<env, saved, opts, mem, clean, user>>

\* Mutant: the buffered text is never flushed.
SetWriteUnflushed(s) ==
  /\ spc[s] = "opened"
  /\ spc' = [spc EXCEPT ![s] = "idle"]
  /\ opts' = [opts EXCEPT ![s] = Nothing]
  /\ mem' = [mem EXCEPT ![s] = Nothing]
  /\ UNCHANGED <<env, kind, saved, clean, user>>

\* The buffered text is written at the start of the file when it is closed.
\* Over another set's text, a longer one leaves its tail behind.
SetWrite(s) ==
  /\ spc[s] = "opened"
  /\ spc' = [spc EXCEPT ![s] = "idle"]
  /\ opts' = [opts EXCEPT ![s] = Nothing]
  /\ mem' = [mem EXCEPT ![s] = Nothing]
  /\ \/ kind' = "ok" /\ saved' = mem[s]
     \/ kind # "empty" /\ kind' = "garbage" /\ UNCHANGED saved
  /\ UNCHANGED <<env, clean, user>>

\* Ctrl-C, a lost terminal, a full disk.
SetKilled(s) ==
  /\ spc[s] # "idle"
  /\ spc' = [spc EXCEPT ![s] = "idle"]
  /\ opts' = [opts EXCEPT ![s] = Nothing]
  /\ mem' = [mem EXCEPT ![s] = Nothing]
  /\ clean' = (clean /\ spc[s] # "opened")
  /\ UNCHANGED <<env, kind, saved, user>>

----------------------------------------------------------------------------
(* Contract commands.                                                      *)

\* The root group reads the saved network into state.network; the command's
\* --network, if given, replaces it.
Start(u) ==
  \E flag \in Networks \cup {Unset}, d \in BOOLEAN :
    /\ upc[u] = "idle"
    /\ upc' = [upc EXCEPT ![u] = "started"]
    /\ drain' = [drain EXCEPT ![u] = d]
    /\ label' = [label EXCEPT ![u] =
                   IF flag # Unset THEN flag ELSE Load(Unset).network]
    /\ used' = [used EXCEPT ![u] = NoUse]
    /\ UNCHANGED <<env, kind, saved, setter, clean>>

Stop(u) ==
  /\ upc' = [upc EXCEPT ![u] = "idle"]
  /\ drain' = [drain EXCEPT ![u] = FALSE]
  /\ label' = [label EXCEPT ![u] = Unset]

\* Mutant: the guard is asked of the saved network.
GuardSavedNetwork(u) ==
  /\ upc[u] = "started"
  /\ drain[u]
  /\ \/ /\ Load(Unset).network = "testnet"
        /\ upc' = [upc EXCEPT ![u] = "guarded"]
        /\ UNCHANGED <<drain, label>>
     \/ Load(Unset).network # "testnet" /\ Stop(u)
  /\ UNCHANGED <<env, kind, saved, setter, clean, used>>

\* emergency-drain loads the configuration and refuses any network whose
\* name is not testnet.
Guard(u) ==
  /\ upc[u] = "started"
  /\ drain[u]
  /\ \/ /\ Load(label[u]).network = "testnet"
        /\ upc' = [upc EXCEPT ![u] = "guarded"]
        /\ UNCHANGED <<drain, label>>
     \/ Load(label[u]).network # "testnet" /\ Stop(u)
  /\ UNCHANGED <<env, kind, saved, setter, clean, used>>

\* submit() loads the configuration again and connects to what it says.
Submit(u) ==
  /\ upc[u] = IF drain[u] THEN "guarded" ELSE "started"
  /\ used' = [used EXCEPT ![u] =
                LET cfg == Load(label[u])
                IN  [network |-> cfg.network, endpoint |-> cfg.endpoint,
                     pinned |-> OnDisk.endpoint # Unset, drain |-> drain[u]]]
  /\ Stop(u)
  /\ UNCHANGED <<env, kind, saved, setter, clean>>

----------------------------------------------------------------------------

Next ==
  \/ \E s \in Setters : SetRead(s) \/ SetOpen(s) \/ SetWrite(s) \/ SetKilled(s)
  \/ \E u \in Users : Start(u) \/ Guard(u) \/ Submit(u)

Spec == Init /\ [][Next]_vars

----------------------------------------------------------------------------
(* Properties.                                                             *)

\* "Only provided options are changed" (config_set), as long as sets do not
\* overlap: a set leaves every other key as it was, but for the endpoints of
\* the network it leaves.
OnlyProvidedOptionsChange ==
  [][\A s \in Setters :
       spc[s] = "opened" /\ spc'[s] = "idle" /\ clean' =>
         \A k \in DOMAIN saved :
           saved'[k] = IF opts[s][k] # Unset THEN opts[s][k]
                       ELSE IF k = "endpoint" /\ opts[s].network # Unset
                       THEN Unset ELSE saved[k]]_vars

\* Only an overlap or a kill while writing leaves a file that load_config
\* silently takes for an empty one.
ReadableUnlessDisturbed ==
  clean /\ (\A s \in Setters : spc[s] # "opened") => kind \in {"missing", "ok"}

\* However the file changed between a command's loads, a command goes to the
\* endpoint of the network it is labelled with (load_config), where neither
\* TUSDT_RPC nor the file names an endpoint.  It claims nothing where TUSDT_RPC
\* is set: the environment is to take precedence over the built-in defaults
\* (config.py:151), and Load lays the preset over it.
EndpointFollowsLabel ==
  env.endpoint = Unset =>
    \A u \in Users :
      used[u].network \in Networks /\ ~used[u].pinned =>
        used[u].endpoint = used[u].network

\* The guard of emergency-drain outlives the second load: what it let
\* through is submitted under the name testnet, and so, by the property above,
\* to the testnet endpoint where nothing else names one.
DrainPassedItsGuard ==
  \A u \in Users : used[u].drain => used[u].network = "testnet"
=============================================================================
