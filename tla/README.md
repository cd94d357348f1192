# TUSDT CLI: verification

TLA+ models of `tusdt-cli`, the command line client of the TUSDT contracts
(vault, token, auction, lending pool, oracle, governance, election, treasury) on
a Substrate chain, with the TLC configurations that check them and proofs for
TLAPS. Paths below are relative to the repository; `PROJECT.json` maps every
definition to the lines it models.

    tlc -workers 2 -config MCTxPipeline.cfg MCTxPipeline.tla
    tlapm TxPipelineProofs.tla

## 1. The system

The program is a Click application. A process runs one command and ends, so
everything that is hard about it happens **between** processes (several
terminals, scripts and cron jobs with one wallet and one configuration file) and
between a process and the chain, which other accounts change all the time.
Nothing in the code takes a lock.

| component | source | state | operations |
|---|---|---|---|
| Command pipeline | `context.py`, `client.py`, `signing.py`, `errors.py` | per process: the signer, a lazy connection, the retry counter, `client.dry_run`; on the chain: account nonces, blocks, contract state | `run_read`, `submit`, `_connect_with_retry`, `_read`, `_exec`, `_dry_run`, `_estimate_fee` |
| Configuration store | `config.py`, `cli.py`, `globals.py` | `~/.tusdt-cli/config.json`, the environment, `state.network` | `load_config`, `save_config`, `config set`, `config show` |
| Allowance workflows | `commands/auction.py`, `commands/lending.py`, `commands/token.py` | the token's allowances (chain), where in its workflow a command is | `bid`, `repay-tusdt`, `approve`, `increase-allowance`, `decrease-allowance` |
| Vault commands | `commands/vault.py` | what a command read before it asked the user | `create` (fee, prompt, submission), parameter updates with a timelock, lists by page, `emergency-drain` |
| Lending commands | `commands/lending.py` | likewise | supply, borrow, parameter updates that merge into what was read, projections put together from several reads |
| Interest arithmetic | `lending_interest.py` | none: pure integer arithmetic at 10^18 | rate curve, accrual, projection of a debt |
| Governance, election, oracle, auction, treasury | `commands/*.py` | none of their own | a few reads, conversions and prompts, then one submission per command (two for `bid`) |
| Extension bridge | `extension/` | sessions, authenticated sessions, pending futures, token file, pid file, the port | authentication, relay, start and stop of the daemon, the client's calls |
| Ledger | `ledger.py` | the HID device, the APDU in progress | address, signature, framing |
| Wallet files | `wallet.py` | key files | find, decrypt, resolve the signer and its address |
| Output, errors, logs, helpers | `output.py`, `logs.py`, `utils.py` | none | rendering |
| Contract interfaces | `abi/*.json` | data | none |

How they interact. The root group loads the configuration and fixes
`state.network`; a command may load it again for a guard or an address, and
`submit()` or `run_read()` loads it once more before it builds the client. The
client opens its connection at the first contract accessor. `submit()` resolves
a signer (wallet files, Ledger or extension), runs one client method, and turns
what it raises into a message and an exit code. Every write method of the client
is one `_exec`, every read method one `_read`; under `--dry-run`, `_exec` turns
into `_dry_run`. A few commands put several of these together, and there the
state read by the first is old when the second uses it.

### What makes it correct

* **Pipeline.** An invocation sends at most one extrinsic; a read or a preview
  sends none; a success is reported only of an execution the chain confirmed; a
  failure never hides behind a traceback once something was signed; a command
  ends.
* **Configuration.** What a command connects to is the network it says it is on;
  a guard is still true when the submission that it guards loads the
  configuration again; `config set` changes what it was given and nothing else,
  and leaves a file that can be read.
* **Allowance workflows.** A bid or a repayment goes on only when it is covered,
  up to what others do in the meantime; what stops has left no trace; the last
  extrinsic of a workflow keeps the pipeline's promise.
* **Parameter updates.** An update that comes into force changes the parameters
  it was given and keeps the others, up to what came into force since its read;
  what a command fills in can be encoded.
* **Every command**, whatever its steps: a refusal, a declined prompt or a preview
  comes before its first submission; the value that goes along is the one that was
  announced; a contract's error never passes for an answer; exit code 0 hides no
  extrinsic that failed or is still under way.
* **Projections.** What is shown is what an accrual would make of the pool; when
  accruals happen between the reads, it is never less than what was stored, and no
  interest is counted twice.
* **Interest.** On every curve the borrow rate never falls as more is lent, every
  utilisation up to 100 % has a rate, suppliers never get more than borrowers pay.
* **Bridge.** Nothing is relayed for a client without the token; a client that is
  alone with one page reads the answer to its own call until it meets an error;
  every call ends; a session whose end is gone is dropped. The token file fits the server that listens; a stop
  signals a number that was a daemon's; starting and stopping end.

### What is hard about it

Two processes with one account read the same nonce. A connection is lost, or
Ctrl-C comes, between a submission and its answer. The pool drops an extrinsic
without a word. A fork takes back a block that was announced. The file that
another process truncated is read. The configuration, an allowance or a
parameter is read, the user is asked, and the value has changed. A projection
puts reads of several blocks together. A relay waits longer than the client it
relays for, and clients share it with pages that come and go. Section 8 and
`hazards` in `PROJECT.json` give the lines.

## 2. Modules

| module | models | composed with |
|---|---|---|
| `SubmitOnce` | the abstract promise of one invocation | the target of both refinements |
| `TxPipeline` | one invocation from its start to its report, the nonce, the pool, the blocks | implements `SubmitOnce` |
| `ConfigStore` | the file, `config set`, the loads of a command | |
| `Allowance` | the workflows that spend or set an allowance | implements `SubmitOnce` for the command's own extrinsic |
| `ParamUpdate` | the set commands of the vault, governance and the pool: read, merge, schedule, execute | |
| `Commands` | one invocation of any command, as a sequence of steps: the flags, the reads, the prompt, the submission, the exit code | `CommandSteps` and the catalogue, by `MCCommands` |
| `CommandSteps` | what the body of a command is made of | |
| `VaultCommands`, `GovernanceCommands`, `LendingCommands`, `AuctionCommands`, `ElectionCommands`, `OracleCommands`, `TokenCommands` | the catalogue: each of the 273 commands of the eight groups as its steps (`TokenCommands` has the treasury's too) | extend `CommandSteps` |
| `ClientMethods` | the 276 methods of `TUSDTClient`: the message each calls, how it unwraps the answer | a constant of `Commands` |
| `Interfaces` | the messages of the eight packaged ABI files: which read, write, take a value, may answer with an error | a constant of `Commands` |
| `Bridge` | the relay's server, the client class, the script of the bridge page | |
| `BridgeDaemon` | starting, finding and stopping the server; the pid file and the token file | |
| `Interest` | the arithmetic of `lending_interest.py` | |
| `Projection` | `user-debt-details`, `exchange-rate` and `market-state` against a pool that goes on | extends `Interest` |
| `MC*` | the instances for TLC | |
| `*Proofs` | theorems and proofs | extend the module and TLAPS |

Definitions whose comment begins with *Mutant* are negative controls: plausible
mistakes in the definition that follows them (a dropped guard, a swapped order).
They are part of no next-state relation; each shows that a property notices that
mistake.

### SubmitOnce

Five variables per invocation (`phase`, `passive`, `sent`, `answer`, `report`) and
four actions. It says what a user may rely on: one extrinsic at most, none for a
read or a preview, none after the report, success only after the answer "ok". It
says nothing of a failure report, because the code cannot: the extrinsic may
still be executed after the connection was lost.

### TxPipeline

| state | code |
|---|---|
| `pc` | where the process is in `submit()` or `run_read()`, `_connect_with_retry` and `_exec` |
| `mode`, `external` | the kind of client method and `dry_run`; the backend of the signer |
| `attempt` | the counter of `_connect_with_retry` |
| `sim`, `outcome` | what a simulation answers, what the call would answer now (other accounts change it: `Drift`) |
| `signed`, `nonce` | what `create_signed_extrinsic` does in `contract.exec` and in `_estimate_fee` |
| `tx`, `told`, `accountNonce`, `retracts` | the extrinsic, the watcher's first message, the account's next nonce, the forks so far (external) |
| `report` | the last message and the exit code |

| action | code |
|---|---|
| `Start`, `ResolveSigner`, `SignerFails` | `submit()` and `run_read()` down to the signer; only the wallet's branch is inside a `try` |
| `ConnectOk`, `ConnectRetry`, `ConnectGivesUp` | the loop of `_connect_with_retry` |
| `Query` | `_read` of a read command |
| `Simulate`, `EstimateFee` | `_dry_run`, `_estimate_fee` |
| `Estimate`, `Sign`, `Send`, `Receive` | `_exec`: the gas estimate, the two halves of `contract.exec`, the receipt |
| `Raise`, `Interrupt` | any other exception inside the `try`; Ctrl-C |
| `Drift`, `Arrive`, `LoseInFlight`, `Include`, `Drop`, `Finalize`, `Retract` | the chain, its pool and the network (external) |

The answer of a contract call is abstracted to the four cases that the code tells
apart: success, the contract's own error (reverted), `LangError`, and a dispatch
error. Which of the client's methods is called does not matter here: each is one
`_read` or one `_exec`, and `ClientMethods` says which.

### ConfigStore

`kind` and `saved` are the file: missing, truncated, unparsable or a JSON object.
`SetRead`, `SetOpen`, `SetWrite` and `SetKilled` are `config set` with
`save_config` split where another process can come in between: after the read,
and between `open(..., "w")`, which truncates, and the close, which writes the
buffer. `Start`, `Guard` and `Submit` are the three loads of a command.
`Load(net)` is `load_config`, in the order of its layers: defaults, environment,
file, preset of the effective network, file again. Three keys stand for all of
them: `network`; `endpoint` (the rpc, the contract addresses and the ABI paths,
which `config set` drops when it switches networks); `wallet` (the keys it never
drops). The initial file is missing or one that some version of the program
wrote; older versions saved endpoints too.

### Allowance

`Check` is the read of the allowance, `Confirm` the prompt of `bid`,
`SendApproval` and `ApprovalDone` its first `submit()`, `SendSpend` and
`SpendDone` the command's own `submit()`, `Preview` the exit of `submit()` under
`--dry-run`, `Fail` everything that ends the process in between. `signer` is the
account that signs and `"wallet"` the one whose allowance is read; the code
resolves the two separately. The token is external: it refuses to subtract more
than there is and to overflow a `Balance`, and a spending contract takes the
amount from the allowance. `stale` is a history variable: it is set when another
invocation lowers an allowance that this one relies on, and no action looks at
it. A submission is taken at the level of `SubmitOnce`, without nonces or forks.

### ParamUpdate

The contracts take whole configurations, so a command has to fill in what the
user left out, and there are five families, which differ in where they look:

| family | commands | filled in from |
|---|---|---|
| `vaultNetuid` | `vault set-params`, `governance vault-set-params` | the vault's getter, in the right unit |
| `poolAlpha` | `lending set-alpha-params` | the list of alpha markets, whose ratios are at 10^18; nothing if the netuid is not approved |
| `poolMarket` | `lending set-market-params` | the market's state, which has none of the fields |
| `vaultGlobal`, `poolGlobal` | the `set-global-params` commands | nothing |

`Start`, `Read`, `Submit` and `Finish` are a set command. `Current` is what its
read returns for the fields of the configuration, `Merge` what it makes of it,
`Encodable` what the codec accepts. `Execute`, `Cancel` and `Approve` are the
commands that are a single message; anybody may execute. Two fields stand for
all, a ratio and a plain number. Families share no state, so a behaviour has one
of them, chosen in `Init`. `moved` and `mine` are history variables that no
guard looks at: whether something came into force since a command's read, and
whose configuration is scheduled.

### Commands

| state | code |
|---|---|
| `pc`, `todo` | where the process is, and the steps of its command that are left |
| `dry`, `yes`, `quiet` | the global flags in `CLIContext` |
| `held`, `told` | the number a command read or converted, to show or to attach; history: what the user saw of it |
| `reply` | history: the chain's answer to the last read |
| `tx`, `sends`, `charged` | the extrinsic of the command; history: how many left, and with what value |
| `report` | how the command ended; `ExitCode` says what its caller sees of it |
| `quantity` | the fee or the debt on chain, which others change (external) |

| action | code |
|---|---|
| `Start`, `Usage` | click parses the arguments, or ends with exit code 2 |
| `CheckPasses`, `CheckFails`, `ConvertAmount`, `Branch` | guards and conversions of the body: `parse_balance`, `resolve_ss58`, `int`, an option that adds steps |
| `RunRead`, `Return` | `run_read` with the method's unwrapping; the tests for `None` or an empty list, and the early returns |
| `ShowNumber`, `Confirm`, `ConfirmAlways`, `Answer` | `output.detail`, `click.confirm` with and without `--yes` |
| `Submit`, `SubmitFails`, `Preview`, `Receive`, `WaitFails`, `Finish` | `submit()` from the signer to the report |
| `Interrupt` | Ctrl-C |
| `Execute`, `Drift` | the chain (external) |

A command is a row of the catalogue, for instance

    Command("vault", "create",
            <<Convert, ReadKept("get_global_params"), Ask, Pay("create_alpha_vault")>>)

and its steps stand in the order of the body of the function. `Convert` and
`Guard` differ in how they end: what a conversion raises escapes the click group
as a traceback, a guard is `output.error` and `return`, with exit code 0. The
inside of a submission is `TxPipeline`'s; here it is a step to the chain and one
back. Arguments, wording and layout are left out.

Three assumptions say what the catalogue looks like, so that the proofs need no
row of it: what a step leaves of a command is a command as well
(`BodiesAssumption`, with `Bodies` as the set of them); once a command submits it
does nothing but submit (`SubmissionsAssumption`); and a number that is read to be
attached is shown, or asked about, before anything is submitted and before the
command can part ways (`NumbersAssumption`). TLC evaluates them for the whole CLI:
`MCCommands` follows every command through the `MaxSteps` steps that the longest
can take, and `BodiesAssumption` fails if that is one too few. A command that
refuses after its first submission breaks the second, one that submits before it
has shown the number the third.

`ClientMethods` and `Interfaces` are compared by assumptions that TLC evaluates: a
message that may answer with an error is unwrapped by `unwrap_result`
(`FallibleAssumption`), and every method calls a message of a packaged ABI except
`vault_emergency_drain` (`OnlyTheDrainIsUnpackaged`): `vault emergency-drain`
ends with an error on testnet too.

### Bridge

| state | code |
|---|---|
| `sessions`, `authenticated` | `BridgeServer._sessions` and `_authenticated` |
| `handler` | the `_handle_message` of each session: what it relays, to whom it may still turn |
| `open`, `toServer`, `toEnd` | the connections, as two queues each |
| `token`, `at`, `calls` | of an end: whether it has this server's token, where it is, how many calls it has made |
| `approving` | the requests before the user of a page |
| `answer`, `troubled` | history: what a client took for a result, and who has met an error |

`Authenticate`, `Reject`, `RefuseRequest`, `Relay`, `RelayTimesOut` and `Forget` are
the server's handler and its `finally`; `Join`, `ReceiveWelcome`, `Call`,
`ReceiveReply`, `GiveUp` and `Close` the client; `PageReceives` and
`PageResponds` the script of the page. The handler waits inside the loop over the
other sessions, so that a session's next message is not read before, while other
sessions' are: the model has one step per `await`. What the code does and
nothing says: a reply carries an `id`, takes the branch for requests, and reaches
the client as a relayed message; the future is never resolved, so the
handler waits its 60 s out after each call, and a call that follows within them
times out after 30 s; the client may get two messages for one call. When the wait is over, the loop
asks the next session: with a second page its user is asked too, and the late
answer of either is read as that of the client's next call, which is why
`OwnResultUntilTrouble` is about one page. `connect()`
looks for `status` where the server does not put it, so a command never gets past
it; a program that drops that error uses the same socket. The page which the
server hands out dials the port of its own HTTP server (`extension/bridge.py:34`,
`:179`), so that with it alone there is no page; `Pages` run the script at an
address that answers.

### BridgeDaemon

`Begin` chooses among `extension start`, a command that signs by the extension, and
`extension stop`; `ReadPid`, `Signal`, `CheckPidFile` and `UnlinkPidFile` are
`stop_bridge_daemon()` with its check and its use of the pid file apart; `Probe`,
`StartDaemon`, `WritePid` and `WaitForBridge` are `ensure_bridge()`. The processes
are the machine's: a daemon, which fails at its relative import and never
listens (`DaemonFails`); a server started by hand, which writes the token file
before it binds the port (`StartServer`, `WriteToken`, `Bind`, `Interrupt`); and
others, which take the numbers that become free. A stop never stops a server
that was started by hand: only the daemon's number is in the pid file.

### Interest and Projection

`Interest` has every function of `lending_interest.py` under its own name, with a
floor after every multiplication as in the code; `Scale` stands for 10^18.
`Round` is one round of the loop of `pow_fixed`, a recursive function of the number
of rounds. `Projection` runs the three commands that
project: `Read` takes one value per step, in the order of the code, `NoProjection`
is the early return, `ReadFails` the end of the command, `ReadClock` the chain's
clock or the local one. Missing parameters are the curve of zeros, as in the debt's
projection. The pool is external: `Tick`, `Accrue`, `Borrow`, `SetCurve`. It accrues
as the code mirrors it, and its books balance as `derive_cash()` says. `first`, `changed` and
`localClock` are history variables.

## 3. What TLC checks

| run | instance | shows |
|---|---|---|
| `tx` | two invocations of any mode and signer, `MaxRetries` 3, one retracted block; 174 thousand states | the type invariant; `PassiveLeavesNoTrace`, `SuccessHoldsWithoutForks`, `RefusedOnlyByARival`, `TracebackMeansNothingDone`, `NobodyWaitsInVain`; the action property `EveryStepCounts`; the refinement `KeepsPromise`; the liveness property `EveryInvocationExits` |
| `config` | two setters, one user, five option combinations, every environment; 801 thousand states | `ReadableUnlessDisturbed`, `EndpointFollowsLabel`, `DrainPassedItsGuard`, the action property `OnlyProvidedOptionsChange` |
| `allowance` | two invocations of any of the five commands, amounts 1 and 2, `Balance` up to 5; 1.2 million states | `GoesOnOnlyIfCovered`, `StoppedLeavesNoTrace`, the refinement `SpendKeepsPromise` |
| `params` | two set commands of any family with any options and values 0 and 1; 560 thousand states | `VaultUpdateFits`, the action property `UpdateKeepsTheRest` |
| `commands` | every command of the CLI with every combination of the flags, fees and debts up to 2; 52 thousand states | `ContractErrorIsReported`, `ChargedAsAnnounced`, `EndsBeforeSending`, `ExitCodeTellsTheTruth` |
| `bridge` | one program with or without the token, one page, two calls; 13 thousand states | `NothingForStrangers`, `OwnResultUntilTrouble`; the liveness properties `EveryCallEnds` and `GoneIsForgotten` |
| `bridge_daemon` | two invocations of any kind, two process numbers; 40 thousand states | `TokenFitsUnlessRivalled`, `SignalsOnlyDaemonNumbers`; the liveness property `EveryInvocationEnds` |
| `lending` | three pools (in use, nearly lent out, new), two curves, a clock off by one; 1.8 million states | `ExactWhenUndisturbed`, `NeverBelowStored`, `NoInterestTwice`, `LocalClockCostsAnHour`; that `pow_fixed` is a power (`PowIsAPower`) |

Four more runs check one statement each that a document, a comment or a docstring
makes and that the code does not keep; they end in a counterexample.

| run | the statement | what happens |
|---|---|---|
| `tx_preview_ok` | README.md:394: a dry run previews whether the call would succeed | `_dry_run` looks at the outer variant of the result, which is `Ok` also when the contract returns its own error |
| `params_market` | commands/lending.py:560, `set-market-params`: reads current params first, then merges the provided values | `_merge` reads the market's state, which has none of the parameters, and submits 0 for what was not given |
| `allowance_signer` | commands/lending.py:169: the signer's allowance is verified | the configured wallet's allowance is read, a device or an extension signs |
| `bridge_connect` | extension/client.py:47: connects to the bridge server and authenticates | the server answers with the status under `result` (extension/bridge.py:230), the client looks at the top level (client.py:66) and raises |

The models follow the code at these places too, which disagree with what is
written about them; each is plain to see in the code, and no run is spent on it:

* a preview signs with the user's key for the fee estimate (client.py:497), against
  "without signing" (README.md:395) and "no real signature needed" (client.py:484);
* a success is announced as finalized (client.py:372) at the first inclusion, which
  a fork may take back (`Retract`);
* the preset of the effective network is laid over `TUSDT_RPC` (config.py:131), against
  README.md:320 and config.py:151, which put the environment over the defaults; so
  `EndpointFollowsLabel` makes no claim about a command with `TUSDT_RPC` set;
* the guard of `vault emergency-drain` looks at the name of the network alone
  (commands/vault.py:1300), and saved endpoints win over the preset;
* `lending set-global-params` submits the given options alone
  (commands/lending.py:652), which cannot be encoded without the others, against
  "others keep their current values" (commands/lending.py:645);
* a failed read raises `SystemExit`, which the projections' `except Exception` does
  not catch (commands/lending.py:1373), against "Never raises"
  (commands/lending.py:1300).

### Bounds, and why they are enough

* Two processes with one account: every rivalry in the code is between two (the
  same nonce, the same file, the same allowance). With two setters and a user, a
  command can load the file before, between and after two overlapping writes.
* `MaxRetries` is 3, the code's own. `MaxRetracts` 1: one retracted block
  separates "in a block" from "final", and each further one repeats it.
* Each process runs one command in `TxPipeline` and `Allowance`. A terminal that
  runs another one later is a second invocation that starts after the first has
  ended, which is among the interleavings. Setters and users of `ConfigStore`
  run command after command, without a bound.
* Options: one combination per way an update can meet the file (a switch alone, a
  switch with another key, each other key alone, an old file that pins
  endpoints).
* `MaxBalance` 5 with amounts 1 and 2: the largest approval is above everything
  that is spent, an increase can overflow it, a decrease can fail.
* `MaxValue` 1 and `Scale` 3: a value in force, another one, one that is out of
  range, and a unit above the width. Executions and cancellations are steps of
  anybody, so two set commands with one of them executed in between suffice.

* `Commands`: the catalogue is the whole CLI and nothing of it is bounded
  (`MaxSteps` 12 is above its longest command, or an assumption fails);
  `MaxQuantity` 2 gives a fee that is nothing, one, and one that has changed. One
  invocation: what others do to what it read is `Drift`.
* `Bridge`: a program (which goes on where a command ends) and a page, and two
  calls, so that the second meets what the first left behind: the busy handler, a
  late answer, a page that has gone. A second page, or two clients with two calls
  each, are beyond five minutes; the theorems of section 5 hold for any number.
* `BridgeDaemon`: two invocations and two numbers: two starts at once, a stop
  during a start, a number that is taken by another process.
* `Projection`: an hour is two units of the clock, a year two hours, and `MaxTime` 8
  three hours after the last accrual, so that whole hours, rests and several
  accruals between reads happen. `Scale` 10000 keeps the numbers within TLC's
  integers and still rounds at every step. `MaxMoves` 2 loans, repayments or new
  curves.

The proofs of section 5 do without all of these bounds.

### Fairness

`TxPipeline!FairSpec` asks for weak fairness of what a process does by itself
(`Progress`), of `Arrive` and of `Include`. The process is sequential Python that
the operating system keeps running, its reads have the connection's timeouts,
and a node that can be reached takes an extrinsic and includes a valid one.
Nothing obliges a failure, Ctrl-C, a fork, a dropped extrinsic or a lost one to
happen, and nothing obliges a user to start a command. `EveryInvocationExits`
has one exception because the code has it: `contract.exec` waits without a limit,
and the node does not tell it that the pool dropped an extrinsic.

`Bridge` asks for weak fairness of the server's steps for each session, which the
event loop serves in turn and whose waits are bounded, and of a client's, whose
`_recv()` has a timer; a command closes after the error of `connect()`. The user
of a page need not answer and nobody need call. `BridgeDaemon` asks for weak
fairness of what an invocation or a process does by itself, and for strong
fairness of `StartDaemon`, since process numbers are taken and freed by others
all the time; nobody need stop a server.

Deadlock is not checked where every process really ends: in `TxPipeline`,
`Allowance`, `ParamUpdate`, `Bridge`, `BridgeDaemon` and `Projection`.

## 4. Assumptions about what is outside `src/`

* `substrate-interface` (1.8.1 in `uv.lock`): `contract.exec` reads the nonce when
  it signs and, as the code calls it, waits for the inclusion and not for
  finality; a refused extrinsic raises.
* The pool takes an extrinsic whose nonce is neither spent nor already in it, and
  may give it up. Blocks execute an account's extrinsics in the order of their
  nonces, become final in that order, and are taken back newest first.
* Processes share one account; those of other accounts change `outcome` only.
* `scalecodec` (1.2.12): a structure is encoded from a dictionary that has all its
  fields, and a number out of the range of its type raises.
* A message that schedules an update replaces one that is scheduled already (the
  interfaces in `abi/` have no error for that), and is refused for a netuid that
  is not approved.
* The contracts are taken from the messages the client sends them; they answer as
  the packaged ABIs say.
* The pool charges whole hours, keeps the rest of the time, and gives to its reserve
  what suppliers do not get, so that its books balance as `derive_cash()` assumes.
* `websockets`: messages of a connection arrive in order; those received before it
  closed can still be read; a send on a closed connection raises.
* The operating system gives a process number to another process once it is free,
  and a port to one listener.
* A Ledger or an extension is a signer that succeeds or fails, which includes more
  behaviours than either has.

## 5. What is proved

TLAPS checks every proof to the last leaf; none of the theorems bounds the number
of processes or the values of the constants beyond the named assumptions
(`MaxRetriesAssumption`, `MaxRetractsAssumption`, `OptionsAssumption`,
`BalanceAssumption`, `InputsAssumption`, `MaxValueAssumption`, `ScaleAssumption`,
`MaxQuantityAssumption`, `FallibleAssumption`, `BodiesAssumption`, `StepsAssumption`,
`SubmissionsAssumption`, `NumbersAssumption`, `EndsAssumption`,
`MaxCallsAssumption`, `PidsAssumption`, `ScalesAssumption`, `CurvesAssumption`,
`SkewsAssumption`, `BoundsAssumption`, `PoolsAssumption`).

* **TxPipelineProofs.** `TypeCorrect`, `PassiveSafe`, `SuccessSafe`, `RefusalSafe`
  and `TracebackSafe` state the run's invariants, `PromiseKept` the refinement of
  `SubmitOnce`. The invariants are not inductive alone. `Stages` ties each place of
  the code to what can have been signed and sent by then; `Answers` ties the
  watcher's message, the report and the extrinsic's place in the chain, with the
  proviso that forks leave; `NoncesSpent` says that every nonce below the
  account's has an owner in a block. The last one makes the refusal theorem work:
  an extrinsic is refused because its nonce is spent or in the pool, and in both
  cases somebody owns it. `NobodyStuck` is the safety half of "every command ends":
  while the pool gives nothing up, a process that waits has an extrinsic that is on
  its way or refused, or the account's next nonce is in the pool. It rests on
  `NoncesInOrder` (a nonce in the pool is not spent, one in a block is, and no two
  are the same), `Gapless` (from the account's nonce to any that was signed all are
  in the pool, because a nonce is read from the chain and a fork puts back what it
  takes) and `Unanswered`. `StepsCount` is the other half: whatever a process does, it
  has fewer of `MaxRetries + 6` steps left after it. What is missing for liveness is
  fairness. The refinement proof maps a step to a step of `SubmitOnce` or to a
  stutter, with one lemma per abstract action.
* **ConfigStoreProofs.** `TypeCorrect`, `EndpointSafe` and `DrainSafe`. The argument
  is that a load depends on the file at one instant only: whatever it is then, the
  effective network chooses the preset, and only a pinned endpoint replaces it.
  `EndpointSafe` states this where `TUSDT_RPC` is unset (section 3 says why), with
  the environment constant in every step. So no interleaving with setters, no
  half-written file and no choice of options breaks the two properties.
  `FileReadable` and `OnlyProvidedChange`, the second an action property, follow from `CleanInv`: while sets neither overlap nor are
  killed, the one under way will write the object that is in the file, or was in it
  until it was opened, with its options merged in.
* **AllowanceProofs.** `TypeCorrect`, `CoverageSafe`, `TraceSafe` and `PromiseKept`.
  `Stages` again ties places to extrinsics; `Coverage` is the coverage at every
  place after the check and not only where the last submission begins, with the
  executed approval as its second source. `SetAllowance` is the lemma about
  nested updates of the allowances that the steps share.
* **ParamUpdateProofs.** `TypeCorrect`, `VaultFits` and `KeepsTheRest`, the last an
  action property. `Fresh` says what a draft holds as long as nothing moved: what
  was given and, for the rest, what is in force or that times `Scale`;
  `Drafts` says that what is scheduled is its author's draft and was encodable.
  A stored ratio that fits is 0 (`StoredRatioFitsOnlyIfZero`), and so the alpha
  markets keep the rest too, by failing where they would not.
* **CommandsProofs.** `CommandsTyped`, `ContractErrorsCorrect`, `ExitCodeCorrect`,
  `ChargesCorrect` and `RefusalsComeFirst`. The proofs know of the catalogue only its
  shape, so that a command that is added in that shape keeps the properties.
  `ContractErrorsCorrect` rests on `FallibleAssumption`, which the methods and the ABIs
  satisfy. `DoubtInv` is the invariant of `ExitCodeCorrect`: what is under way or
  reverted is so only while the process waits, or it ends with an error or an
  interrupt. `CommandInv` is that of the last two and of the types. Its `OrderInv`
  says that what is left of a command is one of the bodies; that once something was
  sent only submissions are left; and that while the user has not seen the number
  that is held, the steps that are left show it before they submit. So a submission
  finds it seen, and a refusal finds nothing sent.
* **BridgeProofs.** `BridgeTyped`, `StrangersGetNothing` and `OwnResults`. The first
  invariant follows a request from hand to hand: in the client's queue it bears the
  client's own name (`OwnMessages`), it is taken from authenticated sessions alone,
  these hold the token (`AuthenticatedHoldToken`), and so does whoever a handler
  works for (`HandledForHolders`), however long it waits. The second follows a call of
  a client that is alone with one page: `OneCallAtATime` says that its call is in
  one place at a time (`Stages`: asked, carried, considered, answered, told) and
  that a client which is not waiting has none under way; what else can reach it is
  an error, after which the property promises nothing. That a handler has
  nobody left to turn to after its first relay (`NobodyLeft`) is where the second
  page comes in. `Base` says that an end is registered once, and that nothing is
  under way to or from one that has not come.
* **BridgeDaemonProofs.** `DaemonTyped`, `TokenFits` and `SignalsDaemons`. `TokenInv`: a
  server that runs beside no other has the token file from the moment it writes it;
  `NumberInv`: what is written to the pid file, or read from it, was a daemon's.
* **ProjectionProofs**, the arithmetic, for every scale and curve: `BorrowRateMonotone`
  across the kink and with every floor, `EveryRatioHasARate`, `SuppliersGetNoMore`,
  `SkewCostsAnHour`, and of `pow_fixed` that it ends (`PowFinishes`), that it is
  never less than one for a base of one or more (`PowNeverShrinks`), that it is one
  for one (`PowOfOne`) and that it never falls as the base grows (`PowMonotone`).
  The library's induction theorems cannot be instantiated; that a set of natural
  numbers has a least member can (`LeastNatural`), and gives an induction over sets
  (`Induction`). `Iteration` is the lemma that a recursive function, as TLA+ defines
  it, does exist and is what its recursion says, whatever single step it repeats;
  `Round` is that step for `pow_fixed`, and an invariant of it is one of the loop.
  `PowAccurate` says how near `pow_fixed` is to the exact power, `Power`, a recursive
  function over the natural numbers with the laws of powers proved for it: never
  above, and below by a share of (exp - 1) in `Scale` at the most, although a floor
  follows every product. Each product loses a share of 1 in `Scale` of a result that
  is at least `Scale` (`ProductLoses`), two numbers that are near the powers have a
  product that is near the sum's (`NearTimes`), and `Stands` is the invariant of the
  loop that adds these up. `SupplyRateMonotone` is `BorrowRateMonotone` for suppliers.
* **ProjectionProofs**, the commands: `ProjectionTyped`, `ProjectionExact`,
  `NeverTooLittle`, `NothingTwice` and `LocalClockBounded`, for every set of pools, curves, amounts and
  skews. `Inv` is their invariant. `Progress` says that what has been read is what
  the command read so far, in its order; `Fresh` that it is the pool's as
  long as nothing happened to it; `Since` that as long as only accruals happened the
  shares are those of the first read, and an index or a rate, the pool's own or one
  that was read, is no less than at the first read. `ProjectedIsAccrued` then compares the two computations: that
  the cash derived from books that balance is the pool's own (`Balanced` is part of
  `TypeOK` for that), and the same floors follow. An accrual can only add because of
  `PowNeverShrinks`.

  `NothingTwice` compares one accrual, computed by the command from reads of several
  blocks, with as many as there were on the chain, each with floors of its own, before,
  between and after the reads. `Behind` says that what was read is never ahead of
  the pool: no index, rate, debt or time of it, while the cash and the curve are the
  pool's own, so that the utilization of the reads, and with it the rates, is no more
  than what the pool charges (`UtilizationMonotone`, `BorrowRateMonotone`,
  `SupplyRateMonotone`). `Charged` says of the hours since the time that was read that
  the pool charged them whole, and has grown by no less than the rates of the reads
  give for them: `AtLeast(x, y, f, h)` is that y grew to x in h hours at the factor f,
  but for a share of h in `Scale`. An accrual of n hours makes `AtLeast` of h one of
  h + n (`AtLeastGrows`): (Scale - h)(Scale - n) is no less than Scale (Scale - h - n),
  which is how the losses add up, by `PowAccurate` for the n hours. In the end the
  hours of the pool and the hours of the projection are the same (`HoursAdd`), the
  projection is no more than the exact power, and `NoMoreOwed` puts the two together.
  That the times are read last is what the argument needs: a market that was read
  after them would have their interest already.

### Only model-checked

Every invariant, action property and refinement that a passing run checks is a
theorem. With TLC alone stay:

* `EveryInvocationExits`, `EveryCallEnds`, `GoneIsForgotten` and
  `EveryInvocationEnds`: liveness under fairness is out of the prover's reach. For
  the first, `NobodyStuck` and `StepsCount` prove the two facts it rests on.
* `PowIsAPower`, which compares `pow_fixed` with multiplying step by step, to the unit,
  for the bases of the instance. For every base, `PowAccurate` compares it with the
  exact power.
* The four counterexamples.

## 6. Not modelled

* The Ledger's framing (`ledger.py`). `_hid_read` returns after one report of 64
  bytes, a public key or a signature takes more, and `_apdu_response` then reads a
  status word from the middle of the payload: every exchange ends with a
  `LedgerError`, and a model of it would say no more than that. In `TxPipeline` a
  Ledger is a signer that may fail.
* Rendering, wording, layout and logging.
* Key derivation, decryption, SS58 encoding: the libraries' work.
* What the contracts decide: they are Rust programs in another repository.
* `config show` and the `signer_address` that `config set` derives, which is
  displayed and used for nothing else.
* In `extension/`: the choice of an account when the extension offers several, the
  HTTP server of the page, and that `ExtensionSigner.sign` runs each call in an
  event loop of its own, which no command reaches while `connect()` fails.
* Arguments of commands and types of messages: which options a command takes, and
  what it formats from an answer.
* Several commands in one process: the CLI has no shell.
* A `config.json` endpoint that belongs to another network than the label: saved
  values win by design (config.py:132), so `EndpointFollowsLabel` is about the
  commands for which neither the file nor `TUSDT_RPC` names an endpoint.
* Paths left out of an action. `Commands`: the traceback of `parse_balance` in
  `supply-tao` and `repay-tao` (commands/lending.py:156), before anything is sent.
  `Allowance`: a bid with no `auction_address`, which skips the check
  (commands/auction.py:178). `Bridge`: a client killed while it waits, a send on a
  connection that is already closed, and the instant between the answer and the
  close of a failed authentication (extension/bridge.py:216). `BridgeDaemon`: the
  instant in which the pid file is empty (extension/daemon.py:38), and the HTTP port
  of the page (extension/bridge.py:200).

## 7. Order of the models

The order is that of importance: `SubmitOnce` and `TxPipeline`, because everything
goes through them; `ConfigStore`, because every command depends on it;
`Allowance` and `ParamUpdate`, the workflows where old reads meet new state;
`Commands` with its catalogue, the whole CLI at the level of steps; `Bridge` and
`BridgeDaemon`, the only part with concurrency inside a process; `Interest` and
`Projection`.

What is left: the derived `signer_address` as a key of `ConfigStore`, and the event
loops of `ExtensionSigner` once `connect()` can succeed.

## 8. Hazards and the properties that watch them

| hazard | where | property |
|---|---|---|
| an answer lost after the extrinsic left | client.py:394 | `KeepsPromise`, `TracebackMeansNothingDone` |
| two commands with one nonce | client.py:394 | `RefusedOnlyByARival`, `SuccessHoldsWithoutForks`, `NobodyWaitsInVain` |
| a gas estimate older than the execution | client.py:381 | `SuccessHoldsWithoutForks` |
| a wait without a limit | client.py:394 | `EveryInvocationExits`, `NobodyWaitsInVain` |
| a retry loop that goes on, or stops early | client.py:118 | `TypeOK`, `EveryInvocationExits`, `EveryStepCounts` |
| a preview that sends | client.py:377, context.py:206 | `PassiveLeavesNoTrace`, `StoppedLeavesNoTrace` |
| a read of a truncated or half-written file | config.py:144 | `ReadableUnlessDisturbed` |
| overlapping `config set` | cli.py:207 | `OnlyProvidedOptionsChange` |
| label and endpoint of different networks | config.py:134 | `EndpointFollowsLabel` |
| a guard on an earlier load | commands/vault.py:1300 | `DrainPassedItsGuard` |
| an allowance read before a prompt and an approval | commands/auction.py:185 | `GoesOnOnlyIfCovered` |
| the allowance of another account | commands/lending.py:194 | `RepayVerifiesTheSigner` |
| one of two submissions fails | commands/auction.py:193 | `GoesOnOnlyIfCovered`, `SpendKeepsPromise` |
| parameters filled in from an old read, across a timelock | client.py:750, commands/lending.py:471 | `UpdateKeepsTheRest` |
| parameters filled in from another unit, another structure, or not at all | commands/lending.py:480, :569 | `VaultUpdateFits`, `MarketUpdateKeepsTheRest` |
| a preview that calls a failure a success | client.py:438 | `PreviewOkMeansCallSucceeds` |
| a fee or a debt that changes while the prompt is open | commands/vault.py:57, commands/lending.py:306 | `ChargedAsAnnounced` |
| an error of a contract inside a successful call | utils.py:228 | `ContractErrorIsReported` |
| a refusal after the first of two submissions | commands/auction.py:167 | `EndsBeforeSending` |
| refusals that return with exit code 0 | commands/election.py:707 | `ExitCodeTellsTheTruth` |
| a projection from reads of several blocks | commands/lending.py:1301 | `NoInterestTwice`, `NeverBelowStored`, `ExactWhenUndisturbed` |
| floors at every step of the interest | lending_interest.py:161 | `ExactWhenUndisturbed`, `TypeOK` |
| the local clock for the chain's | commands/lending.py:1345 | `LocalClockCostsAnHour` |
| a handshake whose two sides disagree | extension/client.py:66 | `ConnectAuthenticates` |
| replies that are relayed like requests | extension/bridge.py:232 | `OwnResultUntilTrouble`, `GoneIsForgotten` |
| a relay that waits longer than its client, and then asks the next session | extension/bridge.py:257 | `EveryCallEnds`, `OwnResultUntilTrouble` |
| two servers and one token file | extension/session.py:65 | `TokenFitsUnlessRivalled`, `EveryInvocationEnds` |
| a daemon that cannot start | extension/daemon.py:30 | `EveryInvocationEnds` |
| a pid file that outlives its process | extension/daemon.py:48 | `SignalsOnlyDaemonNumbers` |

Four hazards have no property, and a note in `PROJECT.json` says why: the signature
that a fee estimate asks for (client.py:497), the `signer_address` that stays
behind (cli.py:282), the `SystemExit` in the projections
(commands/lending.py:1373), and the framing of the Ledger (ledger.py:139).
