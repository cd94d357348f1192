---------------------------- MODULE BridgeDaemon ----------------------------
(***************************************************************************)
(* How the server of the extension bridge is started, found and stopped:   *)
(* extension/session.py, daemon.py and tokens.py, with the processes of    *)
(* the machine, the port, the pid file and the token file around them.     *)
(* Invocations are "extension start" (stops first), a command that signs   *)
(* by the extension (does not), and "extension stop".  "extension status"  *)
(* only probes the port, as they do.                                       *)
(*                                                                         *)
(* The daemon is bridge.py run as a script, in which the relative import   *)
(* of the tokens module fails, so that it never listens.  A server that    *)
(* serves was started by hand (python -m tusdt_cli.extension.bridge).      *)
(* Process numbers are used again once they are free.                      *)
(***************************************************************************)
EXTENDS Naturals

CONSTANTS Invocations, Pids

VARIABLES
    process,    \* what runs under each process number
    tokenFile,  \* the server whose token extension_bridge.token holds
    pidFile,    \* the number in extension_bridge.pid
    at,         \* where each invocation is
    number,     \* the number an invocation holds: its child's, or one it read
    rivalled,   \* history: servers that ran beside another one
    daemons     \* history: the numbers that daemons had

vars == <<process, tokenFile, pidFile, at, number, rivalled, daemons>>

None == 0

ASSUME PidsAssumption == None \notin Pids

Servers == {"starting", "binding", "serving"}
Running(p) == process[p] \in Servers
Reachable == \E p \in Pids : process[p] = "serving"

Ended == {"returned", "unreachable", "stopped", "traceback"}

TypeOK ==
    /\ process \in [Pids -> {"free", "daemon", "other"} \union Servers]
    /\ \A p, q \in Pids : process[p] = "serving" /\ process[q] = "serving" => p = q
    /\ tokenFile \in Pids \union {None}
    /\ pidFile \in Pids \union {None}
    /\ at \in [Invocations -> Ended \union {"idle", "toStop", "toSignal", "toCheck", "toUnlink",
                                            "toProbe", "toStart", "toWrite", "waiting"}]
    /\ number \in [Invocations -> Pids \union {None}]
    /\ rivalled \subseteq Pids
    /\ daemons \subseteq Pids

Init ==
    /\ process \in [Pids -> {"free", "other"}]
    /\ tokenFile = None
    /\ pidFile = None
    /\ at = [i \in Invocations |-> "idle"]
    /\ number = [i \in Invocations |-> None]
    /\ rivalled = {}
    /\ daemons = {}

machine == <<process, tokenFile, pidFile, rivalled, daemons>>

Go(i, from, to) == at[i] = from /\ at' = [at EXCEPT ![i] = to]

----------------------------------------------------------------------------
(* Invocations. *)

\* extension start, a command with --signer-backend extension, extension stop
Begin(i) ==
    /\ \E first \in {"toStop", "toProbe"} : Go(i, "idle", first)
    /\ UNCHANGED <<machine, number>>

\* An invocation that stops either is "extension stop" and ends after it, or is
\* "extension start" and goes on (ensure_bridge, fresh)
AfterStop(i, from) == Go(i, from, "stopped") \/ Go(i, from, "toProbe")

\* stop_bridge_daemon(): no pid file
StopNothing(i) ==
    /\ pidFile = None
    /\ AfterStop(i, "toStop")
    /\ UNCHANGED <<machine, number>>

\* stop_bridge_daemon(): int(path.read_text())
ReadPid(i) ==
    /\ pidFile # None
    /\ Go(i, "toStop", "toSignal")
    /\ number' = [number EXCEPT ![i] = pidFile]
    /\ UNCHANGED machine

\* os.kill(pid, SIGTERM): ends whatever has the number now; it may have none,
\* or belong to somebody else
Signal(i) ==
    /\ Go(i, "toSignal", "toCheck")
    /\ \/ process' = [process EXCEPT ![number[i]] = "free"]
       \/ process[number[i]] \in {"other"} /\ UNCHANGED process
    /\ UNCHANGED <<tokenFile, pidFile, number, rivalled, daemons>>

\* finally: path.exists(), path.unlink(); another stop may unlink in between
CheckPidFile(i) ==
    /\ \/ pidFile # None /\ Go(i, "toCheck", "toUnlink")
       \/ pidFile = None /\ AfterStop(i, "toCheck")
    /\ UNCHANGED <<machine, number>>

UnlinkPidFile(i) ==
    /\ \/ pidFile # None /\ AfterStop(i, "toUnlink")
       \/ pidFile = None /\ Go(i, "toUnlink", "traceback")
    /\ pidFile' = None
    /\ UNCHANGED <<process, tokenFile, number, rivalled, daemons>>

\* ensure_bridge(): a bridge is reachable, the page is opened; or none is
Probe(i) ==
    /\ Go(i, "toProbe", IF Reachable THEN "returned" ELSE "toStart")
    /\ UNCHANGED <<machine, number>>

\* start_bridge_daemon(): subprocess.Popen
StartDaemon(i) ==
    /\ Go(i, "toStart", "toWrite")
    /\ \E p \in Pids :
        /\ process[p] = "free"
        /\ process' = [process EXCEPT ![p] = "daemon"]
        /\ number' = [number EXCEPT ![i] = p]
        /\ daemons' = daemons \union {p}
    /\ UNCHANGED <<tokenFile, pidFile, rivalled>>

\* Mutant: the number of the process that starts the daemon, not of the daemon
WriteOwnPid(i) ==
    /\ Go(i, "toWrite", "waiting")
    /\ \E p \in Pids : process[p] = "other" /\ pidFile' = p
    /\ UNCHANGED <<process, tokenFile, number, rivalled, daemons>>

\* start_bridge_daemon(): the pid file
WritePid(i) ==
    /\ Go(i, "toWrite", "waiting")
    /\ pidFile' = number[i]
    /\ UNCHANGED <<process, tokenFile, number, rivalled, daemons>>

\* Mutant: no deadline
WaitForBridgeForever(i) ==
    /\ Reachable
    /\ Go(i, "waiting", "returned")
    /\ UNCHANGED <<machine, number>>

\* wait_for_bridge(): a probe succeeds, or 10 s are over; any server will do
WaitForBridge(i) ==
    /\ \/ Reachable /\ Go(i, "waiting", "returned")
       \/ ~Reachable /\ Go(i, "waiting", "unreachable")
    /\ UNCHANGED <<machine, number>>

Step(i) ==
    \/ StopNothing(i) \/ ReadPid(i) \/ Signal(i) \/ CheckPidFile(i) \/ UnlinkPidFile(i)
    \/ Probe(i) \/ StartDaemon(i) \/ WritePid(i) \/ WaitForBridge(i)

----------------------------------------------------------------------------
(* Processes. *)

Becomes(p, from, to) == process[p] = from /\ process' = [process EXCEPT ![p] = to]

\* the daemon: "from .tokens import write_bridge_token" raises
DaemonFails(p) ==
    /\ Becomes(p, "daemon", "free")
    /\ UNCHANGED <<tokenFile, pidFile, at, number, rivalled, daemons>>

\* a server is started by hand
StartServer(p) ==
    /\ Becomes(p, "free", "starting")
    /\ LET others == {q \in Pids : Running(q)} IN
        rivalled' = IF others = {} THEN rivalled \ {p} ELSE rivalled \union others \union {p}
    /\ UNCHANGED <<tokenFile, pidFile, at, number, daemons>>

\* Mutant: the token is written once the server listens
WriteTokenLater(p) ==
    /\ Becomes(p, "starting", "binding")
    /\ UNCHANGED <<tokenFile, pidFile, at, number, rivalled, daemons>>

\* BridgeServer.start(): write_bridge_token() comes before the port is bound
WriteToken(p) ==
    /\ Becomes(p, "starting", "binding")
    /\ tokenFile' = p
    /\ UNCHANGED <<pidFile, at, number, rivalled, daemons>>

\* Mutant: the port is shared with the server that has it
BindBeside(p) ==
    /\ Becomes(p, "binding", "serving")
    /\ UNCHANGED <<tokenFile, pidFile, at, number, rivalled, daemons>>

\* _run_ws(): the port is free, or the server ends with an error
Bind(p) ==
    /\ Becomes(p, "binding", IF Reachable THEN "free" ELSE "serving")
    /\ UNCHANGED <<tokenFile, pidFile, at, number, rivalled, daemons>>

\* a server is interrupted; other processes come and go
Interrupt(p) ==
    /\ Becomes(p, "serving", "free")
    /\ UNCHANGED <<tokenFile, pidFile, at, number, rivalled, daemons>>

OtherStarts(p) ==
    /\ Becomes(p, "free", "other")
    /\ UNCHANGED <<tokenFile, pidFile, at, number, rivalled, daemons>>

OtherEnds(p) ==
    /\ Becomes(p, "other", "free")
    /\ UNCHANGED <<tokenFile, pidFile, at, number, rivalled, daemons>>

Next ==
    \/ \E i \in Invocations : Begin(i) \/ Step(i)
    \/ \E p \in Pids :
        \/ DaemonFails(p) \/ StartServer(p) \/ WriteToken(p) \/ Bind(p)
        \/ Interrupt(p) \/ OtherStarts(p) \/ OtherEnds(p)

(* An invocation goes on, a daemon comes to its end and a server to its    *)
(* port, by themselves.  A number for a new process is found in the end:   *)
(* other processes end.  Nobody has to stop a server.                      *)
Fairness ==
    /\ \A i \in Invocations : WF_vars(Step(i)) /\ SF_vars(StartDaemon(i))
    /\ \A p \in Pids : WF_vars(DaemonFails(p) \/ WriteToken(p) \/ Bind(p) \/ OtherEnds(p))

Spec == Init /\ [][Next]_vars /\ Fairness

----------------------------------------------------------------------------
(* Properties. *)

\* tokens.py:3, the client reads the token of the server that it connects to:
\* unless a second server is started beside the first.  That one writes the
\* file and then fails to bind, and from then on nobody can authenticate.
TokenFitsUnlessRivalled ==
    \A p \in Pids : process[p] = "serving" /\ p \notin rivalled => tokenFile = p

\* stop_bridge_daemon() signals a number that was a daemon's once; the pid file
\* outlives the daemon, and other processes may have it by now.
SignalsOnlyDaemonNumbers ==
    \A i \in Invocations : at[i] = "toSignal" => number[i] \in daemons

\* Every invocation ends: ensure_bridge() does not wait for ever for a bridge,
\* although the daemon it starts never listens.
EveryInvocationEnds ==
    \A i \in Invocations : at[i] # "idle" ~> at[i] \in Ended
=============================================================================
