# Blindference node: a TLA+ verification project

The Blindference node is a Python daemon. It keeps a node eligible with a
coordinator (the ICL), takes inference jobs from it, runs them as *leader* or
*verifier* of a quorum, and returns encrypted results through IPFS, the CoFHE
network and two contracts. This directory holds TLA+ models of its control
logic, the TLC configurations that check them, and proofs for TLAPS.
Paths below are relative to `src/`; `node_loop.py` stands for
`blindference_node/node_loop.py`, and so on.

## 1. Inventory of the system

| Component | State | Operations | Interacts with | What is hard | What makes it correct |
|---|---|---|---|---|---|
| Assignment poller and job tasks (`node_loop.py` 202-294) | `in_flight`, `claimed`, one task per job, the semaphore of two | poll, claim, spawn, done callback, time-out | ICL, job handler, shutdown event | sets read before an await and written after it; callbacks later than the tasks they belong to; cancellation while queued | one task per job, permits conserved, everything collected, nothing spawned while stopping |
| Daemon start and stop (`node_loop.py` 302-398) | `shutdown`, three loop tasks | start, signal, cancel, gather | all loops, `asyncio.run` | job tasks are not among the cancelled | a signal ends everything |
| Job handler (`job_handler.py`, `commitment.py`) | locals of one coroutine per job | claim, decrypt, infer, upload, commit, store key, submit; poll for the leader's CID | ICL, IPFS, bridge, contract, the handlers of other nodes | cut off at any await; half-failed steps; run again with a new key and CID; verifiers that wait with a permit in hand for leaders that wait for one | a result names a blob that exists and a key that opens it; commitments agree exactly when outputs do; every wait ends, and none gives up on a result that has been there for long |
| CoFHE bridge (`crypto.py` 327-502, `scripts/cofhe_bridge.mjs`) | one child process, three pipes, request counter | spawn, write request, read answer, close | job tasks on the event loop | blocking read on the event loop; a pipe nobody reads; answers matched by position | the answer is that of the request; a call comes back |
| CoFHE JSON-RPC client (`crypto.py` 141-250) | cached permit | ensure permit, decrypt, encrypt | CoFHE service | expiry of the cached permit, its key replaced while a call is out | a permit in use is valid, and the key at hand unseals the answer |
| Attestation (`node_loop.py` 65-121, 171-199; `cli.py` 351-559) | certificate hash and expiry in `Config` | re-attest, watchdog, `attest` | ICL, `config.json`, NodeRegistry in a thread | three callers at once; a thread overtaken by a later one; a process that dies half way | the file holds the newest certificate and is never behind the chain; an ageing certificate is renewed |
| Heartbeat (`node_loop.py` 129-168; `registry.py` 369-421) | `last_onchain` | ICL beat, on-chain beat | ICL, NodeRegistry in a thread | monotonic clock from boot; failures swallowed; one slow beat before the other; others that hold the event loop | neither kind of beat stops the other; how long one can hold up the other is bounded; a restart of the daemon does not stretch the interval |
| ICL client (`icl_client.py`) | none | signed requests with one retry | ICL | a retry of what was already done, after a long silence | repetition does no harm; every attempt has a fresh signature |
| IPFS client (`ipfs_client.py`) | cache with a time to live | upload, download over gateways | Pinata, gateways | an error that is none of those caught, stale or wrong entries, several downloads at once | a wrong answer is forgotten in time; no gateway is left out before a download fails for want of gateways |
| Registry transactions (`registry.py`) | account nonce on chain | register, heartbeat, attest, commit, reveal, stake | chain; threads, processes and the bridge | nonce read and used in two steps; a receipt that comes late or not at all | no transaction waits for a lost one; success is reported only of what took effect |
| Configuration (`config.py`, `cli.py` 218-331, 756-785) | `config.json` | load, save | daemon and commands | whole-file writes, not atomic; old values written back | no update is lost |
| Model registry (`models/registry.py`, `backend_loader.py`, `execution.py`) | backends, model map | register, run, fallback | job handler | a later backend takes over a model or a name; backends come and go | the last one registered answers if it can, the first wildcard if nobody else can; somebody always does |
| Staking commands (`cli.py` 800-918) | none | stake, unstake, withdraw | BLIND token, BlindferenceStaking | two transactions in one command; values read before the transaction | nothing is staked before it was approved |
| Wallet, utilities, backends' HTTP calls, ABIs | – | – | – | – | no state worth a property |

`PROJECT.json` lists the same components with their status, and under
`hazards` each place where this code can go wrong in a way a test would hardly
reach, with the properties that would show it.

## 2. Modules

| Module | What it is |
|---|---|
| `JobPool` | abstract: jobs are admitted, started, finished and forgotten; a spent job is never admitted again, at most `Limit` run, a closed pool admits nothing |
| `AssignmentPoller` | `assignment_poller`, `_job_wrapper`, the semaphore, the way down of the daemon; implements `JobPool` |
| `AssignmentPollerProofs` | its invariants; that it implements `JobPool` |
| `JobHandler` | one job on the leader's node and on the verifiers' nodes, with ICL, IPFS and key store as environment |
| `CofheBridge` | bridge client, process and pipes |
| `Attestation` | the certificate in the daemon's memory, in `config.json` and on chain; the commands that write the same file |
| `Rounds` | several nodes and jobs: leaders, verifiers that poll for them, the permits both hold, the event loop they share |
| `OrderedCommands` | abstract: what a command that sends transactions promises |
| `ChainAccount` | the account, its senders, mempool and chain; staking commands; implements `OrderedCommands` |
| `Heartbeat` | `heartbeat_loop` on a clock of minutes |
| `IclRequests` | one call of `ICLClient._request` with its retry |
| `IpfsClient` | `IPFSClient.download`: cache, gateways, errors |
| `ModelRegistry` | registration of backends and the choice of one |
| `CofhePermit` | the sealing permit of `CoFHERealClient` |
| `MCServices` | the eight components that share no state (`ChainAccount` to `CofhePermit`, `Rounds` and `CofheBridge`), in one run |
| `MCJobHandler`, `MCRegistry` | symmetry sets and custom backends for TLC |
| `JobHandlerProofs`, `CofheBridgeProofs`, `AttestationProofs`, `ChainAccountProofs`, `RoundsProofs` | theorems about the module of that name |
| `ClientProofs` | theorems about `IclRequests`, `IpfsClient`, `CofhePermit`, `Heartbeat` and `ModelRegistry` |
| `ServicesProofs` | what is proved of the eight components holds of their composition |

Operators named in a comment "Mutant of X" are no part of a model: each is X
with a plausible mistake in it, and the property it is listed with in
`PROJECT.json` fails when X is replaced by it. They show that the properties
depend on the code.

### 2.1 AssignmentPoller

The daemon runs on one asyncio event loop, so an action is what the code does
between two awaits. `poller` is the await `assignment_poller` is at:

| `poller` | await | actions that leave it |
|---|---|---|
| `polling` | `icl.get_assignments()` (227) | `PollAnswered`, `PollFailed` |
| `claiming` | `icl.claim_task(job_id)` (244) | `ClaimAnswered` |
| `reattesting` | `_re_attest(...)` (265) | `Reattested` |
| `sleeping` | `_sleep_or_shutdown(shutdown, 5)` (269) | `Woken` |

`rest` is what the `for` loop still has before it, its head the job being
claimed. `NextJob` is the loop up to its next await: it skips empty, in-flight
and claimed identifiers and stops at the first other one, or at once if the
shutdown event is set. `ClaimAnswered` is the code from there to the next
await: note the claim's success, add the job to `in_flight`, create the task,
go on in the list.

A task goes `created` → (`waiting` → `granted` →) `running` → `ended` →
collected. `Enter`, `Resume` and `EndAndRelease` are `asyncio.Semaphore` as of
Python 3.11: first come first served, a released permit goes straight to the
first waiter, and a waiter that wakes up wakes the next one while permits are
left. `Collect` is the done callback, a separate step because asyncio schedules
it for a later iteration of the loop. `Leave` stands for a return and for the
time-out alike: the code after both is the same.

Going down: `Signal` sets the event; `StopLoops` is `start_daemon` cancelling
its three loops; `CancelJobs` is what `asyncio.run` (`cli.py` 633) does to the
job tasks that are left; cancelled tasks unwind; `CloseLoop` is the end.

The ICL is any environment: it lists any jobs in any order, repeats them within
an answer and in later ones, refuses claims, fails.

`ImplementsJobPool` maps a job to the phase of its task. An admission may or
may not spend the job: a claim that failed leaves it free to be listed again.

### 2.2 JobHandler

`pc[n]` is the await the handler on node `n` is at. What the code does without
an await is one action: `Inferred` decrypts the prompt and runs the model,
`Uploaded` computes the commitment, encrypts the output key, stores it on chain
and issues the submission. `CutOff` ends a handler at any await, for the
five-minute limit and for a shutdown. A node may run the job up to
`MaxAttempts` times. Every run of the leader has a fresh key and, because the
AES nonce is fresh, a fresh CID: both are named by the number of the run.

The output key goes to the chain through the bridge, and `KeyOutcomes` is what
may become of it. The bridge answers when it has the receipt
(`cofhe_bridge.mjs` 231-236), so a transaction whose receipt it did not hear is
reported as a failure and may be mined later (`unmined`, `KeyMined`), in the
order of the account's nonces. It may also be dropped (`KeyLost`), or one
before it may (`NonceFreed`): then another transaction can take a number and
go ahead, and the runs this concerns are noted in `displaced`.

The module takes the bridge's answer for the answer to its own request. The
client matches them by position only (`crypto.py` 417): after a stray line on
`stdout` the handles in a result, and the hash, may be those of another
request, and what `KeyOpensBlob` and `StoredKeyStays` say of a key does not
hold. `AnswerLagsByStrays` (2.3) says by how much the answers are off, and that
they are not while no stray line was printed.

Requests to the ICL are a set that only grows, and the ICL may take any of them
at any time: this covers delay, repetition by `_request`'s retry, and loss.
An output is a text and a layout; `Normalize` drops the layout, which is what
collapsing whitespace does.

An upload is modelled with `BLF_IPFS_UPLOAD_JWT` set. Without it the code makes
up a CID and stores nothing (`ipfs_client.py` 74-77, "for local testing"), so
`ResultIsDownloadable` says nothing of that mode.

### 2.3 CofheBridge

`loop` is the job whose bridge call holds the event loop. From the write to the
end of the read nothing else of the daemon runs, so `JobOver`, which covers the
time-out, needs `loop = Free`. The client takes the first line of `stdout` for
the answer to the request it has just written. `proc = "dying"` is the time in
which the process has closed its pipes and `poll()` still says it is alive.
`TakeLine`, `Finish`, `Fail` and `ReportError` are the bridge's main loop. It
writes a stack trace to `stderr` before it answers a failed command
(`cofhe_bridge.mjs` 287), a write that blocks while the pipe is full;
`StderrRoom` counts traces instead of bytes.

### 2.4 Attestation

`_re_attest` has three callers, and `step[c]` is where the call of each stands:

| `step[c]` | code | actions that leave it |
|---|---|---|
| `asking` | challenge and submission (83-93) | `Answered`, `Failed` |
| `saving` | inside `save_config` (96), which blocks the event loop | `Saved` |
| `sending` | the thread, before its transaction is out (101) | `Sent`, `Finished` |
| `waiting` | the thread waits for the receipt (registry 455) | `Finished` |

`Issue` is the ICL's side, a step of its own, so that a certificate may be
issued and its answer lost. `Run` is `blindference-node run` with the first
part of `start_daemon`; `WatchdogDue` and `NodeUnknown` are the two loops
coming upon a reason to call. `expired` and `must` are about the certificate's
end, `due` about the six hours before it: `Age` moves `due` on, one certificate
at a time. Commands are processes: `Load` reads the file into `own`,
`CmdCertified`, `CmdRegister`, `AttestSaves`, `AddSaves` and `CmdSaved` are
what `attest` and `models add` do then, and `CmdEnds` is any early end.

`save_config` opens the file, which truncates it, and writes it later. Two
saves that overlap may leave a mixture (`Garbage`), and a process that dies in
between leaves `Empty`. `load_config` refuses both, and the node then stops for
good (`Refused`): nothing in the code repairs the file.

All senders of the account take the number of mined transactions for their
nonce, so one transaction at most is pending, and a later one replaces it or is
refused (`Finished` from `sending`).

`known`, `mishap` and `added` are history: no action depends on them. `mishap`
names the circumstances under which the code does not keep its promises. The
certificates are numbered as they are issued, and the numbers stop at
`MaxCerts`; the last one never ages. Left out: the tier, an ICL answer without
`certHash` or `expiry`, errors of the disk, prompts, and the branches without
an RPC endpoint.

### 2.5 ChainAccount and OrderedCommands

`call[s].at` follows a function of `registry.py` that sends: `build` (the
transaction count is read), `send`, `wait` (for the receipt), and the command's
end, `ok` or `over`. The functions differ in their names only, so `Transact`
is the body of all of them and each has an operator that names it. A sender is
a thread of the daemon or a process of the command line and runs one command;
`StakingStake`, `StakingUnstake` and `StakingWithdraw` are what these commands
check first. `NextNonce` is the point of the module: Python counts mined
transactions (`registry.py` 386), viem, which the bridge uses, counts the
waiting ones too. `Send` replaces a transaction with the same number. The
answer to a send may get lost, the wait may run out (`TimedOut`), the process
may be killed; the transaction stays where it is. `Mine`, `Drop` and `Unbonded`
are the chain's.

`OrderedCommands` knows nothing of all this: a command's calls take effect in
their order, each once at most, and success comes after all of them. The
refinement takes the effects from `done` and leaves the bridge out, because
viem's receipt may be that of the transaction that took its number.

### 2.6 Heartbeat

`beat` is where the loop is. What counts is how long ago `last_onchain` was
(`age`), so `last_onchain = 0.0` on a monotonic clock means `age = uptime`
(`Starts`). The daemon stops and starts at any point, the machine restarts when
the daemon is down (`Reboots`). The on-chain beat runs in a thread the loop
waits for; `OnChainReturned` covers a mined, a reverted and an unsent
transaction, because `update_heartbeat` raises none of them. `OnChainWaits` is
a minute of waiting for the receipt, `IclWaits` one of waiting for the ICL,
for which `send_heartbeat` sets no timeout of its own (aiohttp's is five
minutes, and `_request` tries twice), and `LoopHeld` one in which another
coroutine holds the event loop. `quiet`, `tried`, `disturbed` and `rebooted`
are history: `quiet` counts from the last heartbeat the ICL *took*, and
`disturbed` says that since then one failed or was kept waiting, or that the
loop was held.

### 2.7 IclRequests, IpfsClient, ModelRegistry, CofhePermit

*IclRequests:* an attempt that its client gave up on may still reach the ICL
(`flying`, `taken`). Statuses are not retried, broken connections are, once;
whatever else is raised escapes. *IpfsClient:* downloads of several jobs share
the cache; gateways may answer anything, as nothing compares the answer with
the CID. A gateway that fails in one of the four ways `download` catches leads
to the next one (`GatewayFailed`); anything else that is raised ends the
download (`GatewayEscapes`). Time passes freely: the fifteen seconds per
gateway are a timer on the event loop, which others may hold.
*ModelRegistry:*
the registry as the code keeps it (`backends`, `modelMap`) beside `log`, the
bare order of registrations, from which the property says who should answer.
A backend is told from the others by an id, whatever name it takes. The public
gateways differ from one another, as those in the code do (`ipfs_client.py`
13-18); the configured one may be among them.
*CofhePermit:* keys alternate, so that a replaced key differs from the one
before; half hours are the unit.

### 2.8 Rounds

`JobHandler` follows one job and lets its leader and verifiers wait for
nothing but each other. In `Rounds` every node works on several jobs behind
its semaphore, leads some and verifies others. `stage[n][j]` is the part of
the handler: a request (`fetch`, `upload`, `submit`), a call that holds the
event loop (`infer`, `store`: `cloud_inference.py` 200 waits for its thread,
and the bridge is read on the loop), or the poll for the leader's CID (`ask`,
`sleep`). While a node's loop is held, no other handler of that node moves.
The unit of time is forty seconds, so `_poll_leader_cid`'s 120 are three; the
run uses two (`PollLimit`), one request at the start and one before the end.
`Asks` is its loop condition: the first request is sent in any case, a later
one before the deadline only, and the deadline is looked at when the handler
wakes up, however late that is. `turn` says that asyncio serves in order what
is due: nobody holds the loop twice before a poll that waited the first time
had its turn. `FortySeconds` may not pass while something due is undone on a
free loop. `Ends` is an error or the five minutes, and never has to happen.

### 2.9 MCServices

The eight components share no variable and no event. `focus` picks one that
moves while the others stay as they began: the states of the run are the sum
of theirs and not the product, and each property is about one component.

## 3. What the runs check

| Run | Instance | Result |
|---|---|---|
| `poller` | 3 jobs, 3 task objects, 2 permits, answers of up to 2 entries | 8 safety and 3 liveness properties hold |
| `poller_skip` | 1 job | violated: finding 1 |
| `job_handler` | leader and one verifier, 2 runs each, 2 texts in 2 layouts | 6 properties hold |
| `verdict_confirm` | leader and one verifier, 1 run each | violated: finding 2 |
| `bridge_timeout` | 1 job, 3 calls, room for 1 trace | violated: finding 3 |
| `attestation` | 3 certificates, the daemon and one command at a time | 4 properties hold |
| `models_add` | 2 certificates | violated: finding 4 |
| `fresh_node` | 2 certificates | violated: finding 5 |
| `services` | 2 senders; an interval of 4 minutes, up to 3 on chain, 2 at the ICL and 1 of a held loop; 1 retry; 2 downloads of one CID over 2 gateways; 3 registrations of 4 backends; a permit of 6 half hours; 2 nodes with 2 jobs, 1 or 2 permits; a bridge with 2 jobs, 5 calls, room for 2 traces, 2 stray lines | 18 properties hold |
| `heartbeat_gap` | an interval of 6 minutes | violated: finding 6 |
| `heartbeat_eligible` | an interval of 6 minutes, 2 on chain, an ICL that answers at once | violated: finding 7 |
| `routing` | 2 registrations of 4 backends | violated: finding 8 |

**Properties of the poller.** `OneTaskPerJob`: no job has two tasks.
`InFlightExact`: `in_flight` is the jobs of the tasks not yet collected.
`PermitConservation` and `NoLostWakeup`: the semaphore through cancellations.
`ClaimedRunsOnce`: no task for a job already claimed. `NoSpawnWhenStopping`: no
task once the loops are stopped. `ImplementsJobPool`: the refinement.
`EveryTaskIsCollected`, `PollerKeepsPolling`, `ShutdownCompletes`: liveness.

**Properties of the job handler.** `ResultIsDownloadable`, `KeyOpensBlob`: what
the user needs in order to read the output. `StoredKeyStays`: a key that a
result reports as stored is not overwritten by an earlier run's transaction
that is mined late, unless a transaction was displaced, and a key on chain is
in a result that was sent. `VerifierFollowsLeader`, `HonestRoundAgrees`: what
the quorum compares.

**Properties of the bridge.** `AnswerLagsByStrays`: an answer belongs to its
request unless stray lines have been printed, and then it lags by exactly
their number. `NoPileUp`: the same of the requests outstanding. `CallReturns`:
a call comes back, except while the bridge waits for room in `stderr`.

**Properties of the certificate.** `NewestIsSaved`: with no overlap and no
death half way, the file holds the newest certificate the node was given,
whichever process got it, though the daemon never reads the file again and
writes back its own copy. `RestartKeepsUp`: whatever dies and when, a file that
loads is not behind the chain; two overlapping callers, and an `attest` that
dies between registering and saving, are excluded because the code does fail
there. `WatchdogRenews`: liveness, and this one without those exclusions.

**Properties of the account.** `OwnTurn`: a transaction of Python has the
number that is mined next, so none waits for one that was lost.
`CommandsInOrder`: the refinement. `CommandsEnd`: every command ends, whatever
becomes of its transactions.

**Properties of the heartbeats.** `IclGraceKept`: while the ICL takes
heartbeats at once and nobody holds the loop, the chain alone, slow, failing or
raising, does not keep the ICL waiting for more than one attempt and a minute's
sleep, which is below the five minutes `README.md` 324 allows. Without these
conditions the code gives no bound: a heartbeat that fails is made up for in
the next pass only, and neither the ICL's answer nor a held loop is bounded
here. That the bound is above the 120 s of `docs/slashing.md` is finding 7.
`OnChainInTime`: restarts of the daemon do not stretch the ten days, as long
as the machine is not restarted. `HeartbeatsGoOn`: both kinds go on for ever.

**Properties of the clients.** `FreshSignature`: a retry is not signed with
the time of the attempt before. `WrongBlobForgotten`: what the cache serves is
no older than its time to live, however often it is asked for.
`FailsAfterAllGateways`: a download that ends in the error "after trying ...
gateways" has asked all of them, each once; one that an error outside the four
caught ends is told apart. `PermitHonoured`: no expired permit is used, and the
answer is sealed for the key the client still has.

**Properties of the registry.** `RoutesAsRegistered`: who answers, told from
the order of registration alone, where code and docstrings agree; where they do
not is finding 8. `AlwaysAnswered`: nobody's model ends in
`ValueError` while the mock backend keeps its name.

**Properties of the rounds.** `RoundsEnd`: in the end no task queues and no
permit is held, though nodes may wait for each other in a circle.
`SkippedOnlyLate`: a verifier that gives up has not overlooked a result that
was there for longer than twice the time the loop can be held.

**Bounds.** Three jobs with two permits is the smallest instance in which a
task queues while two run, and three task objects allow a new task while two
old ones wait for their callbacks. A batch of two can name one job twice. Two
runs of the leader are enough for a key, a CID or a request of one run to meet
those of another. A second verifier would add no behaviour: verifiers do not
see one another. Five bridge calls and two stray lines let an answer be two
behind and a process be replaced in between; the room of one or two traces
stands for the 64 KiB of a Linux pipe. With three certificates, an answer the
poller's call got before the watchdog's can overwrite a newer one after it, and
a certificate that was renewed once comes due again. Two senders are enough for
a stale count, a replaced and a dropped transaction; with two different amounts
an approval of one can meet the stake of the other. An interval of four minutes
is shorter than the longest pass, three minutes on chain, two at the ICL, one
of sleep and three of a held loop, and longer than most, so that both orders of
the two come up. Two minutes at the ICL stand for any longer wait, which
`IclGraceKept` excludes in the same way. One of the two gateways is the
configured one, so that the doubled entry matters. The custom backends contend
for a model, for a built-in's name and for the mock's. Two nodes that lead one
job each and verify the other form a circle with one permit each; with two
permits the poll of one job meets a held loop of the other, and a poll of two
units asks a second time before its end. In `JobHandler` a stutter step
(`RunsOver`) marks the states in which the bound is used up, so that deadlock
is still checked everywhere else; `AllOver` does the same for `bridge_timeout`.

**Symmetry** is used in `job_handler`, which checks no liveness property:
verifiers, texts and layouts are only compared with their like.

**Fairness.** *Poller:* weak fairness of the poller's step, of each task's
steps and of the daemon's steps. The event loop serves ready callbacks in
order, `wait_for` bounds every job by 300 s, aiohttp bounds every request by
its default total time-out, and `_sleep_or_shutdown` by 5 s. A signal never has
to come. Because a job's blocking call is inside a step, these properties
assume that the call returns; `CofheBridge` shows when it does not. *Bridge:*
the bridge goes on with its command, a line that is there is read, a job's
timer goes off when the loop is free. A process never has to die.
*Account:* a call goes on, for its wait is bounded by 120 s; nothing is assumed
of the chain. *Heartbeats:* the loop goes on while the daemon runs, for nobody
holds the event loop for ever (but for finding 3).
*Rounds:* handlers move, permits are handed out and time passes; that a job
ends by an error or by its five minutes is not assumed. `Services.cfg` does
not check deadlock: commands, a request and jobs do come to an end.
*Attestation:* the operator starts the daemon when it can be started; a save
and a thread come to their end (the receipt is waited for 120 s at most); the
watchdog's ten minutes pass; and, strong fairness, an ICL that is asked again
and again by the watchdog issues a certificate and is heard some time. Nothing
is assumed of the poller's call or of the commands.

## 4. Findings

1. **A job is skipped though no task of it is alive** (`poller_skip`). The
   docstring of `assignment_poller` says a duplicate is skipped because "the
   first task is still alive" (`node_loop.py` 215-216). `claimed` is never
   emptied, so a job whose task failed or timed out after the claim is skipped
   until the daemon restarts.
2. **A verifier never rejects** (`verdict_confirm`). `README.md` 601 says a
   verifier "confirms/rejects"; `job_handler.py` 329 submits `"CONFIRM"`
   whatever the commitments are. (The commitment sent along does differ, so the
   ICL can still tell: `HonestRoundAgrees`.)
3. **The hard time-out of a job can be defeated** (`bridge_timeout`). The
   bridge's `stderr` is a pipe nobody reads. Once full, the bridge blocks
   before it answers, the client blocks on the event loop, and neither the
   job's "5 minutes max" (`node_loop.py` 291) nor a signal is ever served.
4. **`models add` is undone by a running daemon** (`models_add`). The path "is
   persisted in `./config.json`" (`cli.py` 764-766). `_re_attest` saves the
   whole `Config` the daemon loaded at its start (`node_loop.py` 96): the next
   renewal erases the path. No race is needed.
5. **A fresh node is not attested by `run`** (`fresh_node`). `updates.md` 95
   says `attestation_expiry == 0` "triggers auto-re-attest: Handles fresh
   installations without requiring manual `attest` command". `cli.py` 584-589
   exits in that case, before `start_daemon` and its check are reached.
6. **A restart of the machine delays the on-chain heartbeat**
   (`heartbeat_gap`). The docstring says "on‑chain every 10 days"
   (`node_loop.py` 136). `last_onchain = 0.0` (146) is the machine's start on
   `time.monotonic()`: after a reboot the next beat is ten days of uptime away,
   however old the last one is, and a machine that reboots more often sends
   none. On a machine that has been up for ten days every start of the daemon
   sends one at once.

7. **An on-chain heartbeat makes the node look inactive**
   (`heartbeat_eligible`). `docs/slashing.md` 86 excludes a node with "no
   heartbeat" for "more than 120 seconds" from jobs, and the docstring says the
   ICL heartbeat "keeps the node eligible" (`node_loop.py` 140-141). The loop
   waits for `update_heartbeat`, up to 120 s for its receipt, before it sends
   the ICL's heartbeat, and 60 s have passed since the one before: 180 s, with
   an ICL that answers at once and an event loop that nobody holds.
8. **An available backend that lists a model is not asked** (`routing`).
   `models/registry.py` 46-50 promises "Exact model_id match from an available
   backend" and the wildcard "if no exact match", and so does `execution.py`
   57-59. The model map keeps the last backend that listed a model; if that one
   is not available, `run` goes to the wildcard (54-79) without looking at the
   others. In the trace vLLM is available and lists the model, a later backend
   that lists it too is down, and the mock answers.

Observations that contradict no text of the repository:

* Inference and the bridge hold the event loop (`job_handler.py` 157,
  `crypto.py` 387). `run_sync`'s time-out (`cloud_inference.py` 200) does not
  change that, as leaving the `with` of its executor waits for the thread.
  Heartbeats, the watchdog and other jobs wait meanwhile.
* `_poll_leader_cid` does not ask once more when its last sleep is over: a CID
  that came in that sleep, of up to ten seconds, or while the loop was held,
  is missed (`SkippedOnlyLate` bounds by how much).
* An exception that is none of the four `download` catches, such as
  `UnicodeDecodeError` of `await resp.text()` over an undecodable error page
  (`ipfs_client.py` 149), ends the download at that gateway, though the
  docstrings speak of trying each one.
* With five gateways of fifteen seconds a download may take 75 s, where
  `ipfs_client.py` 115 says "~60 s", and longer while the event loop is held.
* The bridge reports the hash it sent even if the receipt is that of another
  transaction that took its nonce; and a transaction that was displaced in the
  mempool may overwrite a key that a later run reported as stored
  (`StoredKeyStays` excludes exactly these).
* `send_heartbeat` has no timeout of its own: an ICL that does not answer keeps
  the loop for aiohttp's five minutes, and again after a broken connection.
* A command that reports failure may still take effect: the transaction that
  was waited for too long is mined later.
* `staking unstake` prints the unbonding time it read before its transaction
  (`cli.py` 878).

## 5. What is proved

Each theorem holds for every value of the constants that the `ASSUME` of its
module allows; nothing else is assumed, and TLC evaluates each `ASSUME` on the
run of that module. The theorems follow from one inductive invariant per
module, whose step has a lemma per action or group of like actions.

| Module | Theorems | Assumption |
|---|---|---|
| `AssignmentPollerProofs` | `TypeCorrect`, `NoJobTwice`, `InFlightIsExact`, `PermitsConserved`, `WakeupsNotLost`, `QueueServed`, `ClaimedOnce`, `NoLateSpawn`; `PollerIsAJobPool`: the refinement | `PollerAssumption`: finitely many tasks, at least one permit |
| `JobHandlerProofs` | `HandlerTypeCorrect`, `ResultsDownloadable`, `KeysOpen`, `VerdictsFollow`, `CommitmentsAgree`, `StoredKeysStay` | `HandlerAssumption` |
| `CofheBridgeProofs` | `BridgeTypeCorrect`, `AnswersInStep`, `NothingPilesUp`, `OnlyStderrBlocks` | `BridgeAssumption` |
| `AttestationProofs` | `AttestTypeCorrect`, `NewestSaved`, `KeepsUp` | `AttestationAssumption`: two contents of the file are no configurations |
| `ChainAccountProofs` | `AccountTypeCorrect`, `TurnOwned`, `CommandsKeepOrder`: the refinement | `AccountAssumption` |
| `ClientProofs` | `SignatureFresh`; `PermitGood`; `IpfsTypeCorrect`, `WrongForgotten`, `AllGatewaysAsked`; `BeatTypeCorrect`, `GraceKept`, `InTime`; `RegistryTypeCorrect`, `RoutedAsRegistered`, `SomebodyAnswers` | `RequestAssumption`; `PermitAssumption`: a call is no longer than the margin, the margin shorter than a permit's life; `IpfsAssumption`: no public gateway is listed twice; `HeartbeatAssumption`; `RegistryAssumption`: no third-party backend has a built-in's id |
| `RoundsProofs` | `RoundsTypeCorrect`, `SkippedInTime`, `PermitsInRoom`, `NoCircularWait` | `RoundsAssumption`: finitely many jobs |
| `ServicesProofs` | `SideBySide`, `ServicesTypeCorrect`, `PromisesTogether` | those of the eight components |

**The poller.** `IInv` strengthens the invariants by what makes them inductive:

* `QueueOK`: the semaphore's queue holds waiting tasks, each once. Without it a
  woken waiter could be a task in any state, and permits could not be counted.
* `ClaimFresh`: the job being claimed is not busy *now*, though it was looked
  up before the await. This holds because only the poller adds to `in_flight`
  and `claimed`; it is the reason the check-then-await is safe.
* `TaskHasJob`: a task that exists belongs to a real job.
* `PollerStopped`: once `start_daemon` left its wait, the poller is done.

`NextJobStops` says where the `for` loop stops; `ReleaseKeeps` is shared by
`Leave` and `Unwind`. The permit count uses the library's facts on cardinality.
`QueueServed` follows from two of the invariants: if a permit is free somebody
is awake, and if none is, its holders are as many as the permits.

**The refinement of `JobPool`.** By `OneTaskPerJob` a job's phase is that of
its one task (`PhaseByTask`), so a step of one task moves one job. The limit on
running jobs comes from an injection of running jobs into running tasks, which
hold a permit each.

**The job handler.** `HandlerInv` is about the leader's runs. A run names a CID
and a key of its own, and until it leaves its upload nothing refers to them
(`RunIsNew`); nothing ever refers to a run that was not made (`RunsMade`). So
what a run stores and sends is not touched again, and each result describes
its blob (`ResultsDescribe`), each verdict a result's (`VerdictsDescribe`).
For the key on chain, `WaitingIsLater` says that the
runs whose transactions still wait in the account's order are later than those
reported as stored, and `ChainKeeps` that whatever the chain does leaves it so.

**The bridge.** The requests of a process have consecutive numbers.
`BridgeInv` says that those not answered or not read are an interval, of which
`stdin`, the bridge and `stdout` hold a part each, in order and with none
missing (`InOrder`). `NothingPilesUp` counts by a bijection onto an interval.
The order is lost when the process dies, which only matters if a call is left
to see it: hence the guard in `BridgeInv`. The same interval shows
`OnlyStderrBlocks`: the request of the call that holds the loop is in one of
the three parts, so somebody can take it on, unless the bridge waits for room
in `stderr`. Finding 3 is therefore the only way in which the bridge hangs.

**The certificate.** Both properties excuse some mishaps, so `AttestInv` has
three layers: what is always so (`Bounded`), what is so while no two callers
overlapped (`Alone`, `CallSound`, `CmdSound`, `NotBehind`), and what is so while
nothing died half way either (`NewestKept`). The middle layer says that the one
call under way holds the newest certificate there is and that nobody else
touches the file between its opening and its closing.

**The account.** `NotAhead`: a count that Python read is never ahead, as the
count only grows; hence `OwnTurn`. That viem's number exists is the pigeonhole
principle (`PendingTyped`). For the refinement, `Orderly` relates one command
to what it has sent and what took effect: at most one of its transactions is
waiting, that of its present call, which has had no effect yet. Each step is
then a step of one command (`Onward`) and leaves the others alone.

**The clients.** Invariants that say, by where a call is, how old something is:
the signature as old as the attempt (`RequestInv`), the permit's remaining life
and the call's duration more than the margin together (`PermitInv`), an entry
as old as its download and served within its time to live (`IpfsInv`). There,
a download at its k-th gateway has had exactly those before it (`UnderWay`),
and the list has each gateway once (`GatewayFacts`), so that a download that
failed has had as many as there are places in the list. For the
heartbeats, `QuietBounds` and `TriedBounds` give, for each place in the pass,
how long the ICL and the chain may have heard nothing.

**The registry.** The code keeps a dictionary of backends and one of models;
the property speaks of the order of registration. `RegistryInv` is what relates
them: the entry of a name is the last backend registered under it
(`EntriesAreLast`), no name is lost (`NamesKept`), entries stand in the order
in which their names came up first (`OrderKept`), and a model belongs to the
name that listed it last (`MapKept`). The third makes the first wildcard entry
the one whose name came up first (`FallbackEntry`).

**The rounds.** `RoundsInv` bounds what a poll may have missed: nothing on a
loop that was free (`NothingMissed`); while the loop is held, as much as the
call has taken (`MissedWhileHeld`); one such call more if the poll has yet to
have its turn. The two together are the bound of `SkippedOnlyLate`.

`NoCircularWait` says that the nodes never come to a standstill. Verifiers
keep their permits while they wait for leaders, whose tasks may queue behind
other verifiers on another node. If nobody can do anything, then no call holds
a loop; no poll waits for its turn, since it could take it; so no request is
held back for one; the only holders are polls that asked in this unit, each
queue has all its permits out (`PermitsInRoom`), nothing is due, and the clock
may go on, until the poll's time is over.

**The composition.** A step of `MCServices` is one of one component, and the
others stutter; hence each component goes through its own specification
(`SideBySide`), and its theorems hold under the specification of the run.

**Only model-checked:** liveness, which is out of the prover's reach, as is
anything with ENABLED: `EveryTaskIsCollected`, `PollerKeepsPolling`,
`ShutdownCompletes`, `CallReturns`, `WatchdogRenews`, `CommandsEnd`,
`HeartbeatsGoOn`, `RoundsEnd`. What three of them rest on is proved with the
guards written out: `QueueServed`, `OnlyStderrBlocks` and `NoCircularWait` say
that there is always somebody who can go on; that he does, and that this comes
to an end, is what TLC checks.

## 6. Not modelled, and the plan

Left out, with the reason:

* what the cryptography computes; the text of logs and of command output; the
  HTTP calls of the inference backends; the wallet file; the ABIs;
* services outside the repository (ICL, IPFS, CoFHE, contracts), which appear
  only as environments;
* `register_node`'s two legacy contracts and `store_output_key`: the same
  steps as the functions modelled, for networks nobody configures or without
  a caller;
* `CoFHEBridgeClient.close`, which nothing in the daemon calls;
* environment overrides and the validation of `Config`'s fields.

To come: a module `NodeDaemon` that composes start-up and the three loops on
one event loop.
