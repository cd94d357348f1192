----------------------------- MODULE TxPipeline -----------------------------
(***************************************************************************)
(* The path every command of the CLI takes to the chain: run_read and      *)
(* submit in context.py, the client's connection, read, execute and        *)
(* dry-run helpers in client.py.  Several invocations (several terminals,  *)
(* scripts, cron jobs) run at once with the same account, against one      *)
(* chain that other accounts keep changing.                                *)
(*                                                                         *)
(* The chain, its transaction pool and substrate-interface are external:   *)
(* they are modelled from what client.py uses them for.                    *)
(***************************************************************************)
EXTENDS Integers, FiniteSets

CONSTANTS
  Invocations,  \* the processes that share the account
  MaxRetries,   \* _MAX_RETRIES, 3 in the code
  MaxRetracts   \* bound: how many blocks a fork may take back in a behaviour

ASSUME MaxRetriesAssumption  == MaxRetries \in Nat \ {0}
ASSUME MaxRetractsAssumption == MaxRetracts \in Nat

VARIABLES
  pc,           \* [Invocations -> Pcs] where the process is
  mode,         \* "read", "preview" (--dry-run) or "write"
  external,     \* the signer is a Ledger or the extension, not a wallet
  attempt,      \* the loop counter of _connect_with_retry, 0 outside it
  sim,          \* what the simulation of a preview answered
  signed,       \* the account's key signed an extrinsic in this invocation
  nonce,        \* the nonce the extrinsic was signed with
  tx,           \* where the extrinsic is: process, network, pool, block
  told,         \* the first inclusion result sent to the process
  report,       \* what the process told the user when it ended
  accountNonce, \* chain: the next nonce of the shared account
  outcome,      \* chain: what the contract call would answer now
  retracts      \* how many blocks were taken back so far

perProcess == <<pc, mode, external, attempt, sim, signed, nonce, report>>
chain == <<accountNonce, outcome, retracts>>
vars == <<perProcess, tx, told, chain>>

----------------------------------------------------------------------------
(* The values of the variables.                                            *)

\* The answers of a contract call: it succeeds, the contract returns its own
\* error (the state change is reverted), the ink! language layer returns
\* LangError, or the runtime cannot dispatch the call at all.
Outcomes == {"Ok", "ContractErr", "LangErr", "Trap"}

Modes == {"read", "preview", "write"}

\* The steps of a process, in the order of submit() and _exec().
Running == {"signer", "connect", "query", "simulate", "fee",
            "estimate", "sign", "send", "watch"}
Pcs == {"idle", "done"} \cup Running

Reports == {"none", "shown", "previewOk", "previewFailed", "success",
            "error", "traceback", "aborted"}

InBlock == {"okInBlock", "badInBlock"}
Final   == {"okFinal", "badFinal"}
TxStates == {"none", "inflight", "pool", "rejected", "dropped", "lost"}
              \cup InBlock \cup Final

TypeOK ==
  /\ pc \in [Invocations -> Pcs]
  /\ mode \in [Invocations -> Modes]
  /\ external \in [Invocations -> BOOLEAN]
  /\ attempt \in [Invocations -> 0 .. MaxRetries - 1]
  /\ sim \in [Invocations -> Outcomes \cup {"none"}]
  /\ signed \in [Invocations -> BOOLEAN]
  /\ nonce \in [Invocations -> Nat]
  /\ tx \in [Invocations -> TxStates]
  /\ told \in [Invocations -> {"none", "ok", "bad"}]
  /\ report \in [Invocations -> Reports]
  /\ accountNonce \in Nat
  /\ outcome \in Outcomes
  /\ retracts \in 0 .. MaxRetracts

Init ==
  /\ pc = [i \in Invocations |-> "idle"]
  /\ mode = [i \in Invocations |-> "read"]
  /\ external = [i \in Invocations |-> FALSE]
  /\ attempt = [i \in Invocations |-> 0]
  /\ sim = [i \in Invocations |-> "none"]
  /\ signed = [i \in Invocations |-> FALSE]
  /\ nonce = [i \in Invocations |-> 0]
  /\ tx = [i \in Invocations |-> "none"]
  /\ told = [i \in Invocations |-> "none"]
  /\ report = [i \in Invocations |-> "none"]
  /\ accountNonce = 0
  /\ outcome \in Outcomes
  /\ retracts = 0

----------------------------------------------------------------------------
(* Steps of a process.                                                     *)

Goto(i, from, to) ==
  /\ pc[i] = from
  /\ pc' = [pc EXCEPT ![i] = to]

\* The process ends and r is the last thing the user sees.
Exit(i, from, r) ==
  /\ Goto(i, from, "done")
  /\ report' = [report EXCEPT ![i] = r]

\* A command starts: a read goes through run_read and needs no signer, the
\* others go through submit().
Start(i) ==
  /\ \E m \in Modes, x \in BOOLEAN :
       /\ m = "read" => ~x
       /\ mode' = [mode EXCEPT ![i] = m]
       /\ external' = [external EXCEPT ![i] = x]
       /\ Goto(i, "idle", IF m = "read" THEN "connect" ELSE "signer")
  /\ UNCHANGED <<attempt, sim, signed, nonce, report, tx, told, chain>>

ResolveSigner(i) ==
  /\ Goto(i, "signer", "connect")
  /\ UNCHANGED <<mode, external, attempt, sim, signed, nonce, report, tx, told, chain>>

\* Only the wallet's branch of the resolution is inside a try: what the
\* Ledger and the extension raise escapes submit() and the click group.
SignerFails(i) ==
  /\ Exit(i, "signer", IF external[i] THEN "traceback" ELSE "error")
  /\ UNCHANGED <<mode, external, attempt, sim, signed, nonce, tx, told, chain>>

\* Mutant: submit() forgets to set client.dry_run.
ConnectOkForgetsDryRun(i) ==
  /\ Goto(i, "connect", IF mode[i] = "read" THEN "query" ELSE "estimate")
  /\ attempt' = [attempt EXCEPT ![i] = 0]
  /\ UNCHANGED <<mode, external, sim, signed, nonce, report, tx, told, chain>>

\* The lazy connection is opened by the first contract accessor; what comes
\* next depends on the command and on client.dry_run.
ConnectOk(i) ==
  /\ Goto(i, "connect", CASE mode[i] = "read"    -> "query"
                          [] mode[i] = "preview" -> "simulate"
                          [] mode[i] = "write"   -> "estimate")
  /\ attempt' = [attempt EXCEPT ![i] = 0]
  /\ UNCHANGED <<mode, external, sim, signed, nonce, report, tx, told, chain>>

\* Mutant: the last attempt is retried too.
ConnectRetryOnceMore(i) ==
  /\ Goto(i, "connect", "connect")
  /\ attempt[i] < MaxRetries
  /\ attempt' = [attempt EXCEPT ![i] = @ + 1]
  /\ UNCHANGED <<mode, external, sim, signed, nonce, report, tx, told, chain>>

\* Mutant: a new round of attempts begins where the last one should give up.
ConnectRetryForever(i) ==
  /\ Goto(i, "connect", "connect")
  /\ attempt' = [attempt EXCEPT ![i] = (@ + 1) % MaxRetries]
  /\ UNCHANGED <<mode, external, sim, signed, nonce, report, tx, told, chain>>

\* A failed attempt that is not the last one sleeps and tries again.
ConnectRetry(i) ==
  /\ Goto(i, "connect", "connect")
  /\ attempt[i] < MaxRetries - 1
  /\ attempt' = [attempt EXCEPT ![i] = @ + 1]
  /\ UNCHANGED <<mode, external, sim, signed, nonce, report, tx, told, chain>>

ConnectGivesUp(i) ==
  /\ attempt[i] = MaxRetries - 1
  /\ Exit(i, "connect", "error")
  /\ attempt' = [attempt EXCEPT ![i] = 0]
  /\ UNCHANGED <<mode, external, sim, signed, nonce, tx, told, chain>>

\* _read for a read command: a dispatch error is raised as ContractError,
\* any value the contract returns, an error value too, is shown.
Query(i) ==
  /\ Exit(i, "query", IF outcome = "Trap" THEN "error" ELSE "shown")
  /\ UNCHANGED <<mode, external, attempt, sim, signed, nonce, tx, told, chain>>

\* _dry_run: the read-only simulation.  ContractError is caught and becomes a
\* failed preview, without a fee.
Simulate(i) ==
  /\ sim' = [sim EXCEPT ![i] = outcome]
  /\ \/ /\ outcome # "Trap"
        /\ Goto(i, "simulate", "fee")
        /\ UNCHANGED report
     \/ /\ outcome = "Trap"
        /\ Exit(i, "simulate", "previewFailed")
  /\ UNCHANGED <<mode, external, attempt, signed, nonce, tx, told, chain>>

\* is_success in _dry_run: only the outer variant of the returned value, the
\* one that tells LangError from a returned value, is looked at.
OuterOk(o) == o \in {"Ok", "ContractErr"}

\* _estimate_fee composes the call and asks the signer for a signature; every
\* exception, a refused signature included, is swallowed into "no estimate".
EstimateFee(i) ==
  /\ \E s \in BOOLEAN : signed' = [signed EXCEPT ![i] = s]
  /\ Exit(i, "fee", IF OuterOk(sim[i]) THEN "previewOk" ELSE "previewFailed")
  /\ UNCHANGED <<mode, external, attempt, sim, nonce, tx, told, chain>>

\* The gas estimate of _exec.  Only a dispatch error stops the command: of
\* any other answer the gas alone is used, and a call that would revert is
\* still signed and submitted.
Estimate(i) ==
  /\ \/ /\ outcome # "Trap"
        /\ Goto(i, "estimate", "sign")
        /\ UNCHANGED report
     \/ /\ outcome = "Trap"
        /\ Exit(i, "estimate", "error")
  /\ UNCHANGED <<mode, external, attempt, sim, signed, nonce, tx, told, chain>>

\* Mutant: the nonce after the one the chain expects.
SignOneAhead(i) ==
  /\ Goto(i, "sign", "send")
  /\ nonce' = [nonce EXCEPT ![i] = accountNonce + 1]
  /\ signed' = [signed EXCEPT ![i] = TRUE]
  /\ UNCHANGED <<mode, external, attempt, sim, report, tx, told, chain>>

\* contract.exec, first half: the account's nonce is read from the chain, the
\* signer signs the extrinsic with it.
Sign(i) ==
  /\ Goto(i, "sign", "send")
  /\ nonce' = [nonce EXCEPT ![i] = accountNonce]
  /\ signed' = [signed EXCEPT ![i] = TRUE]
  /\ UNCHANGED <<mode, external, attempt, sim, report, tx, told, chain>>

\* contract.exec, second half: the extrinsic leaves the process, which waits
\* for the node to say it was included in a block.
Send(i) ==
  /\ Goto(i, "send", "watch")
  /\ tx' = [tx EXCEPT ![i] = "inflight"]
  /\ UNCHANGED <<mode, external, attempt, sim, signed, nonce, report, told, chain>>

\* Mutant: receipt.is_success is not looked at.
ReceiveIgnoresResult(i) ==
  /\ \/ told[i] # "none" /\ Exit(i, "watch", "success")
     \/ tx[i] = "rejected" /\ told[i] = "none" /\ Exit(i, "watch", "error")
  /\ UNCHANGED <<mode, external, attempt, sim, signed, nonce, tx, told, chain>>

\* Mutant: contract.exec is called with wait_for_inclusion=False.
ReceiveWithoutWaiting(i) ==
  /\ \/ tx[i] = "pool" /\ Exit(i, "watch", "success")
     \/ tx[i] = "rejected" /\ Exit(i, "watch", "error")
  /\ UNCHANGED <<mode, external, attempt, sim, signed, nonce, tx, told, chain>>

\* contract.exec returns the receipt of the first inclusion, and is_success
\* of that receipt decides; a node that refuses the extrinsic makes
\* contract.exec raise.
Receive(i) ==
  /\ \/ told[i] = "ok" /\ Exit(i, "watch", "success")
     \/ told[i] = "bad" /\ Exit(i, "watch", "error")
     \/ tx[i] = "rejected" /\ told[i] = "none" /\ Exit(i, "watch", "error")
  /\ UNCHANGED <<mode, external, attempt, sim, signed, nonce, tx, told, chain>>

\* Mutant: submit() lets anything but TUSDTError escape.
RaiseUnhandled(i) ==
  /\ \E from \in Running \ {"signer", "fee"} : Exit(i, from, "traceback")
  /\ attempt' = [attempt EXCEPT ![i] = 0]
  /\ UNCHANGED <<mode, external, sim, signed, nonce, tx, told, chain>>

\* Mutant: a connection lost while waiting makes the client send again.
RaiseResubmits(i) ==
  /\ Goto(i, "watch", "send")
  /\ UNCHANGED <<mode, external, attempt, sim, signed, nonce, report, tx, told, chain>>

\* Anything else the libraries raise inside the try blocks of run_read and
\* submit: a missing address or ABI, a lost connection, a refused signature.
Raise(i) ==
  /\ \E from \in Running \ {"signer", "fee"} : Exit(i, from, "error")
  /\ attempt' = [attempt EXCEPT ![i] = 0]
  /\ UNCHANGED <<mode, external, sim, signed, nonce, tx, told, chain>>

\* Ctrl-C, at any moment: KeyboardInterrupt is not an Exception.
Interrupt(i) ==
  /\ \E from \in Running : Exit(i, from, "aborted")
  /\ attempt' = [attempt EXCEPT ![i] = 0]
  /\ UNCHANGED <<mode, external, sim, signed, nonce, tx, told, chain>>

----------------------------------------------------------------------------
(* Steps of the chain and of the network (external).                       *)

\* Other accounts change the contracts' state.
Drift ==
  /\ \E o \in Outcomes \ {outcome} : outcome' = o
  /\ UNCHANGED <<perProcess, tx, told, accountNonce, retracts>>

InPool(n) == \E j \in Invocations : tx[j] = "pool" /\ nonce[j] = n

\* The pool takes an extrinsic whose nonce is neither spent nor already there.
Arrive(i) ==
  /\ tx[i] = "inflight"
  /\ tx' = [tx EXCEPT ![i] =
              IF nonce[i] >= accountNonce /\ ~InPool(nonce[i])
              THEN "pool" ELSE "rejected"]
  /\ UNCHANGED <<perProcess, told, chain>>

\* The process ended, and its connection with it, before the bytes left.
LoseInFlight(i) ==
  /\ tx[i] = "inflight"
  /\ pc[i] = "done"
  /\ tx' = [tx EXCEPT ![i] = "lost"]
  /\ UNCHANGED <<perProcess, told, chain>>

\* A block executes the extrinsic.  The gas limit came from an earlier state,
\* so a call that would succeed may still run out of gas.  The watcher gets
\* the result of the first inclusion.
Include(i) ==
  /\ tx[i] = "pool"
  /\ nonce[i] = accountNonce
  /\ \E r \in {"ok", "bad"} :
       /\ r = "ok" => outcome = "Ok"
       /\ tx' = [tx EXCEPT ![i] = IF r = "ok" THEN "okInBlock" ELSE "badInBlock"]
       /\ told' = [told EXCEPT ![i] = IF @ = "none" THEN r ELSE @]
  /\ accountNonce' = accountNonce + 1
  /\ UNCHANGED <<perProcess, outcome, retracts>>

\* The pool gives an extrinsic up (full, banned); the watcher is not told.
Drop(i) ==
  /\ tx[i] = "pool"
  /\ tx' = [tx EXCEPT ![i] = "dropped"]
  /\ UNCHANGED <<perProcess, told, chain>>

\* Blocks become final in order.
Finalize(i) ==
  /\ tx[i] \in InBlock
  /\ \A j \in Invocations : tx[j] \in InBlock => nonce[j] >= nonce[i]
  /\ tx' = [tx EXCEPT ![i] = IF @ = "okInBlock" THEN "okFinal" ELSE "badFinal"]
  /\ UNCHANGED <<perProcess, told, chain>>

\* A fork takes the newest block back; its extrinsic returns to the pool.
Retract(i) ==
  /\ retracts < MaxRetracts
  /\ tx[i] \in InBlock
  /\ nonce[i] = accountNonce - 1
  /\ tx' = [tx EXCEPT ![i] = "pool"]
  /\ accountNonce' = accountNonce - 1
  /\ retracts' = retracts + 1
  /\ UNCHANGED <<perProcess, told, outcome>>

----------------------------------------------------------------------------

\* The steps a process takes by itself while nothing goes wrong outside.
Progress(i) ==
  \/ ResolveSigner(i) \/ SignerFails(i)
  \/ ConnectOk(i) \/ ConnectRetry(i) \/ ConnectGivesUp(i)
  \/ Query(i) \/ Simulate(i) \/ EstimateFee(i) \/ Estimate(i)
  \/ Sign(i) \/ Send(i) \/ Receive(i)

\* What the chain does with one extrinsic.
Chain(i) ==
  \/ Arrive(i) \/ LoseInFlight(i) \/ Include(i)
  \/ Drop(i) \/ Finalize(i) \/ Retract(i)

Next ==
  \/ Drift
  \/ \E i \in Invocations :
       \/ Start(i) \/ Progress(i) \/ Raise(i) \/ Interrupt(i) \/ Chain(i)

Spec == Init /\ [][Next]_vars

\* A process that can move moves, and a reachable, honest node neither keeps
\* an extrinsic in transit for ever nor leaves a valid one out of its blocks.
\* Failures, Ctrl-C and forks are never obliged to happen.
Fairness ==
  \A i \in Invocations :
    /\ WF_vars(Progress(i))
    /\ WF_vars(Arrive(i))
    /\ WF_vars(Include(i))

FairSpec == Spec /\ Fairness

----------------------------------------------------------------------------
(* Properties.                                                             *)

\* A read and a --dry-run never put anything on the wire, and a success
\* report ("Finalized") is a write's alone (run_read, _exec, _dry_run).
PassiveLeavesNoTrace ==
  \A i \in Invocations :
    mode[i] # "write" => tx[i] = "none" /\ report[i] # "success"

\* As long as no fork takes a block back, a success report of submit() stays
\* true: the extrinsic sits executed in the chain, whatever other
\* invocations, other accounts and the pool did in the meantime.
SuccessHoldsWithoutForks ==
  \A i \in Invocations :
    report[i] = "success" /\ retracts = 0 => tx[i] \in {"okInBlock", "okFinal"}

\* The nonce read in contract.exec is stale only when another invocation with
\* the same account won the race for it: an extrinsic is refused only if
\* another one was sent with the same nonce.
RefusedOnlyByARival ==
  \A i \in Invocations :
    tx[i] = "rejected" =>
      \E j \in Invocations \ {i} : tx[j] # "none" /\ nonce[j] = nonce[i]

\* A traceback comes from resolving the signer (its Ledger and extension
\* branches are outside every try), so it never follows a signature or a
\* submission; a failure after that is reported as an error.
TracebackMeansNothingDone ==
  \A i \in Invocations :
    report[i] = "traceback" =>
      ~signed[i] /\ tx[i] = "none" /\ external[i]

\* contract.exec waits without a limit, and extrinsics of one account wait for
\* each other: the chain executes a nonce only after the one before it.  Unless
\* the pool gave one up, nobody waits in vain: its own extrinsic is on its way
\* or refused, or the next one of the account, whose ever it is, is in the pool.
NobodyWaitsInVain ==
  \A i \in Invocations :
    pc[i] = "watch" /\ told[i] = "none" =>
      \/ tx[i] \in {"inflight", "rejected"}
      \/ \E j \in Invocations : tx[j] = "pool" /\ nonce[j] = accountNonce
      \/ \E j \in Invocations : tx[j] = "dropped"

\* How many steps a process can still take, from each place of the code.
StepsLeft(i) ==
  CASE pc[i] = "idle"     -> MaxRetries + 6
    [] pc[i] = "signer"   -> MaxRetries + 5
    [] pc[i] = "connect"  -> MaxRetries + 4 - attempt[i]
    [] pc[i] = "estimate" -> 4
    [] pc[i] = "sign"     -> 3
    [] pc[i] \in {"simulate", "send"} -> 2
    [] pc[i] \in {"query", "fee", "watch"} -> 1
    [] pc[i] = "done"     -> 0

\* No step of a process is for nothing: no failure, retry or answer sends it back
\* to where it has been, and nothing the chain does moves it.  So an invocation
\* takes at most MaxRetries + 6 steps, however it ends (_connect_with_retry,
\* _exec, _dry_run have no other loop).
EveryStepCounts ==
  [][\A i \in Invocations :
       \/ UNCHANGED <<pc[i], mode[i], external[i], attempt[i], sim[i], signed[i],
                      nonce[i], report[i]>>
       \/ StepsLeft(i)' < StepsLeft(i)]_vars

\* Every command comes to an end, unless the pool gave up an extrinsic of the
\* account: the node does not say so, and contract.exec waits without a limit.
EveryInvocationExits ==
  \A i \in Invocations :
    pc[i] \in Running ~> \/ pc[i] = "done"
                        \/ \E j \in Invocations : tx[j] = "dropped"

\* What SubmitOnce sees of a place of the code, of a command and of a report.
Phase(p) == IF p \in Running THEN "running" ELSE p
IsPassive(p, m) == p # "idle" /\ m # "write"
Verdict(r) ==
  IF r \in {"shown", "previewOk", "previewFailed"} THEN "shown"
  ELSE IF r \in {"error", "traceback", "aborted"} THEN "failure" ELSE r

\* The pipeline keeps the promise of SubmitOnce.
Abstract == INSTANCE SubmitOnce WITH
  phase   <- [i \in Invocations |-> Phase(pc[i])],
  passive <- [i \in Invocations |-> IsPassive(pc[i], mode[i])],
  sent    <- [i \in Invocations |-> tx[i] # "none"],
  answer  <- told,
  report  <- [i \in Invocations |-> Verdict(report[i])]

KeepsPromise == Abstract!Spec

\* README.md:394-396: --dry-run previews "whether the call would succeed".
PreviewOkMeansCallSucceeds ==
  \A i \in Invocations : report[i] = "previewOk" => sim[i] = "Ok"
=============================================================================
