------------------------- MODULE BridgeDaemonProofs -------------------------
(***************************************************************************)
(* The port, the pid file and the token file of the extension bridge, for  *)
(* any number of invocations and processes.                                *)
(***************************************************************************)
EXTENDS BridgeDaemon, TLAPS

\* A server that runs beside no other has the token file from the moment it
\* writes it: no one else is there to write it again.
TokenInv ==
    /\ \A p, q \in Pids : Running(p) /\ p \notin rivalled /\ Running(q) => p = q
    /\ \A p \in Pids : process[p] \in {"binding", "serving"} /\ p \notin rivalled =>
            tokenFile = p

\* A number that is written to the pid file, or read from it, was a daemon's.
NumberInv ==
    /\ pidFile \in daemons \union {None}
    /\ \A i \in Invocations : at[i] \in {"toWrite", "toSignal"} => number[i] \in daemons

----------------------------------------------------------------------------

LEMMA TypeInit == Init => TypeOK
  BY DEF Init, TypeOK, Servers

LEMMA TypeStep == TypeOK /\ [Next]_vars => TypeOK'
<1> SUFFICES ASSUME TypeOK, [Next]_vars PROVE TypeOK'
  OBVIOUS
<1>1. CASE \E i \in Invocations : Begin(i) \/ StopNothing(i) \/ ReadPid(i) \/ CheckPidFile(i)
                \/ UnlinkPidFile(i) \/ Probe(i) \/ WritePid(i) \/ WaitForBridge(i)
  <2>1. PICK i \in Invocations : Begin(i) \/ StopNothing(i) \/ ReadPid(i) \/ CheckPidFile(i)
                \/ UnlinkPidFile(i) \/ Probe(i) \/ WritePid(i) \/ WaitForBridge(i)
    BY <1>1
  <2>2. CASE Begin(i) \/ StopNothing(i) \/ CheckPidFile(i) \/ Probe(i) \/ WaitForBridge(i)
    BY <2>2 DEF TypeOK, Begin, StopNothing, CheckPidFile, Probe, WaitForBridge, AfterStop,
                Go, Ended, machine
  <2>3. CASE ReadPid(i)
    BY <2>3 DEF TypeOK, ReadPid, Go, machine
  <2>4. CASE UnlinkPidFile(i)
    BY <2>4 DEF TypeOK, UnlinkPidFile, AfterStop, Go, Ended
  <2>5. CASE WritePid(i)
    BY <2>5 DEF TypeOK, WritePid, Go
  <2>6. QED
    BY <2>1, <2>2, <2>3, <2>4, <2>5
<1>2. ASSUME NEW i \in Invocations, Signal(i) PROVE TypeOK'
  BY <1>2 DEF TypeOK, Signal, Go
<1>3. ASSUME NEW i \in Invocations, StartDaemon(i) PROVE TypeOK'
  BY <1>3 DEF TypeOK, StartDaemon, Go, Servers
<1>4. ASSUME NEW p \in Pids,
             DaemonFails(p) \/ StartServer(p) \/ WriteToken(p) \/ Interrupt(p)
               \/ OtherStarts(p) \/ OtherEnds(p)
      PROVE  TypeOK'
  BY <1>4 DEF TypeOK, DaemonFails, StartServer, WriteToken, Interrupt, OtherStarts,
              OtherEnds, Becomes, Servers
<1>5. ASSUME NEW p \in Pids, Bind(p) PROVE TypeOK'
  BY <1>5 DEF TypeOK, Bind, Becomes, Reachable, Servers
<1>6. CASE UNCHANGED vars
  BY <1>6 DEF vars, TypeOK
<1>7. QED
  BY <1>1, <1>2, <1>3, <1>4, <1>5, <1>6 DEF Next, Step

\* At most one server has the port, and the files hold numbers of processes
\* (daemon.py:14-54, bridge.py:146-173).
THEOREM DaemonTyped == Spec => []TypeOK
  BY TypeInit, TypeStep, PTL DEF Spec

----------------------------------------------------------------------------

LEMMA TokenInit == Init => TokenInv
  BY DEF Init, TokenInv, Running, Servers

\* Steps that start no server and write no token can only end processes.
LEMMA TokenKept ==
  ASSUME TokenInv, tokenFile' = tokenFile, rivalled' = rivalled,
         \A p \in Pids : process'[p] \in Servers =>
            process'[p] = process[p] \/ (process[p] = "binding" /\ process'[p] = "serving")
  PROVE  TokenInv'
<1>1. \A p \in Pids : process'[p] \in Servers => process[p] \in Servers
  BY DEF Servers
<1>2. \A p \in Pids : process'[p] \in {"binding", "serving"} => process[p] \in {"binding", "serving"}
  BY DEF Servers
<1>3. QED
  BY <1>1, <1>2 DEF TokenInv, Running

LEMMA TokenStep == TypeOK /\ TokenInv /\ [Next]_vars => TokenInv'
<1> SUFFICES ASSUME TypeOK, TokenInv, [Next]_vars PROVE TokenInv'
  OBVIOUS
<1>0. process \in [Pids -> {"free", "daemon", "other"} \union Servers]
  BY DEF TypeOK
<1>1. ASSUME NEW i \in Invocations, Begin(i) \/ (Step(i) /\ ~Signal(i) /\ ~StartDaemon(i))
      PROVE  TokenInv'
  <2>1. process' = process /\ tokenFile' = tokenFile /\ rivalled' = rivalled
    BY <1>1 DEF Begin, Step, StopNothing, ReadPid, CheckPidFile, UnlinkPidFile, Probe,
                WritePid, WaitForBridge, machine
  <2>2. QED
    BY <2>1, TokenKept
<1>2. ASSUME NEW i \in Invocations, Signal(i) PROVE TokenInv'
  <2>1. /\ tokenFile' = tokenFile /\ rivalled' = rivalled
        /\ process' = [process EXCEPT ![number[i]] = "free"] \/ process' = process
    BY <1>2 DEF Signal
  <2>2. \A p \in Pids : process'[p] \in Servers => process'[p] = process[p]
    BY <1>0, <2>1 DEF Servers
  <2>3. QED
    BY <2>1, <2>2, TokenKept
<1>3. ASSUME NEW i \in Invocations, StartDaemon(i) PROVE TokenInv'
  <2>1. PICK p \in Pids : process' = [process EXCEPT ![p] = "daemon"]
    BY <1>3 DEF StartDaemon
  <2>2. tokenFile' = tokenFile /\ rivalled' = rivalled
    BY <1>3 DEF StartDaemon
  <2>3. \A q \in Pids : process'[q] \in Servers => process'[q] = process[q]
    BY <1>0, <2>1 DEF Servers
  <2>4. QED
    BY <2>2, <2>3, TokenKept
<1>4. ASSUME NEW p \in Pids,
             DaemonFails(p) \/ Bind(p) \/ Interrupt(p) \/ OtherStarts(p) \/ OtherEnds(p)
      PROVE  TokenInv'
  <2>1. tokenFile' = tokenFile /\ rivalled' = rivalled
    BY <1>4 DEF DaemonFails, Bind, Interrupt, OtherStarts, OtherEnds
  <2>2. \A q \in Pids : process'[q] \in Servers =>
            process'[q] = process[q] \/ (process[q] = "binding" /\ process'[q] = "serving")
    BY <1>0, <1>4 DEF DaemonFails, Bind, Interrupt, OtherStarts, OtherEnds, Becomes, Servers
  <2>3. QED
    BY <2>1, <2>2, TokenKept
<1>5. ASSUME NEW p \in Pids, StartServer(p) PROVE TokenInv'
  <2> DEFINE others == {q \in Pids : Running(q)}
  <2>1. /\ process[p] = "free" /\ process' = [process EXCEPT ![p] = "starting"]
        /\ rivalled' = IF others = {} THEN rivalled \ {p} ELSE rivalled \union others \union {p}
        /\ tokenFile' = tokenFile
    BY <1>5 DEF StartServer, Becomes
  <2>2. \A q \in Pids : process'[q] = IF q = p THEN "starting" ELSE process[q]
    BY <1>0, <2>1
  <2>3. QED
    BY <2>1, <2>2 DEF TokenInv, Running, Servers
<1>6. ASSUME NEW p \in Pids, WriteToken(p) PROVE TokenInv'
  <2>1. /\ process[p] = "starting" /\ process' = [process EXCEPT ![p] = "binding"]
        /\ rivalled' = rivalled /\ tokenFile' = p
    BY <1>6 DEF WriteToken, Becomes
  <2>2. \A q \in Pids : process'[q] = IF q = p THEN "binding" ELSE process[q]
    BY <1>0, <2>1
  <2>3. QED
    BY <2>1, <2>2 DEF TokenInv, Running, Servers
<1>7. CASE UNCHANGED vars
  BY <1>7 DEF vars, TokenInv, Running
<1>8. QED
  BY <1>1, <1>2, <1>3, <1>4, <1>5, <1>6, <1>7 DEF Next

\* A server that never ran beside another one can be authenticated to, whatever
\* processes end and whoever stops what (tokens.py:24-36, bridge.py:137-149).
THEOREM TokenFits == Spec => []TokenFitsUnlessRivalled
<1>1. TokenInv => TokenFitsUnlessRivalled
  BY DEF TokenInv, TokenFitsUnlessRivalled
<1>2. QED
  BY <1>1, TypeInit, TypeStep, TokenInit, TokenStep, PTL DEF Spec

----------------------------------------------------------------------------

LEMMA NumberInit == Init => NumberInv
  BY DEF Init, NumberInv

LEMMA NumberStep == TypeOK /\ NumberInv /\ [Next]_vars => NumberInv'
<1> SUFFICES ASSUME TypeOK, NumberInv, [Next]_vars PROVE NumberInv'
  OBVIOUS
<1>1. ASSUME NEW i \in Invocations, Begin(i) \/ StopNothing(i) \/ CheckPidFile(i) \/ Probe(i)
                \/ WaitForBridge(i) \/ Signal(i)
      PROVE  NumberInv'
  BY <1>1 DEF TypeOK, NumberInv, Begin, StopNothing, CheckPidFile, Probe, WaitForBridge,
              Signal, AfterStop, Go, machine
<1>2. ASSUME NEW i \in Invocations, ReadPid(i) PROVE NumberInv'
  BY <1>2 DEF TypeOK, NumberInv, ReadPid, Go, machine
<1>3. ASSUME NEW i \in Invocations, UnlinkPidFile(i) \/ WritePid(i) PROVE NumberInv'
  BY <1>3 DEF TypeOK, NumberInv, UnlinkPidFile, WritePid, AfterStop, Go
<1>4. ASSUME NEW i \in Invocations, StartDaemon(i) PROVE NumberInv'
  BY <1>4 DEF TypeOK, NumberInv, StartDaemon, Go
<1>5. ASSUME NEW p \in Pids,
             DaemonFails(p) \/ StartServer(p) \/ WriteToken(p) \/ Bind(p) \/ Interrupt(p)
               \/ OtherStarts(p) \/ OtherEnds(p)
      PROVE  NumberInv'
  BY <1>5 DEF NumberInv, DaemonFails, StartServer, WriteToken, Bind, Interrupt,
              OtherStarts, OtherEnds
<1>6. CASE UNCHANGED vars
  BY <1>6 DEF vars, NumberInv
<1>7. QED
  BY <1>1, <1>2, <1>3, <1>4, <1>5, <1>6 DEF Next, Step

\* A stop, whatever runs between its reading the file and its kill, signals a
\* number that start_bridge_daemon() wrote for its child (daemon.py:38-51).
THEOREM SignalsDaemons == Spec => []SignalsOnlyDaemonNumbers
<1>1. NumberInv => SignalsOnlyDaemonNumbers
  BY DEF NumberInv, SignalsOnlyDaemonNumbers
<1>2. QED
  BY <1>1, TypeInit, TypeStep, NumberInit, NumberStep, PTL DEF Spec
=============================================================================
