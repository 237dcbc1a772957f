# TLA+ models of SIN-Save-Token

This directory models the parts of the repository that keep shared state and
are hard to test:

* the *web callback* (a one-shot capability by which a detached session reports
  its result to the session that started it) and the *callback broker* that
  keeps delivering it;
* a *task* of the controller from its dispatch to its completion: the event log,
  the commands of controllers, worker and reviewer that race over it, the gates,
  the artifacts, the controller lease and the repository's writer reservation;
* *context requests* that share a cache and the circuits of their providers.

TLC checks the models on small instances; TLAPS proves the central properties
for every number of callbacks, processes, tasks and requests.

    tlc -workers 2 -config CallbackRecord.cfg MCCallbackRecord.tla
    tlc -workers 2 -config Task.cfg MCTaskController.tla
    tlapm TaskController_proofs.tla

## 1. The system and its parts

| Part | Code (under `src/`) | State | Operations | Modelled |
|---|---|---|---|---|
| Callback record | `lib/sin_orca/web_callbacks.py` | one JSON file per token: status, outcome, conversation, staged handoff, delivery state, relay | open, bind, stage, send, relay, reconcile, acknowledge, mark archive, abandon, cancel, expire, install and cancel relay | `CallbackRecord` |
| Transports | `callback_transports.py`, the DSH and Prime senders of `web_callbacks.py` | none | send to the exact origin session | as the outcomes of a send |
| Broker store | `callback_broker.py` | SQLite row per delivery: state, lease, due time | enqueue, claim, finish, mirror, watch, defer | `CallbackBroker` |
| Broker service | `callback_broker_service.py` | drain thread, HTTP threads | sync, drain, watch, reconcile one delivery | `CallbackBroker` |
| Callback CLI | `callback_cli.py` | service definition | install (launchd, systemd) | its restart policy only |
| Controller lease | `lease.py`, `_controller_mutation` of `cli.py` | lease file and lock file per task | acquire, assert, release (renew has no caller) | `ControllerLease` |
| Writer reservation, dispatch | `writer_reservation.py`, `dispatch.py` | one reservation per repository, baseline ref, terminals, task file | acquire, dispatch, roll back, take over, release | `WriterDispatch` |
| Task ledger | `state.py` | hash-chained event log, ledger derived from it | append, reduce | `TaskLog`, `TaskController` |
| Gates and task commands | `gates.py`, `cli.py` | none of their own | notify, mailbox, approve, messages, verify, review, cancel, complete | `TaskLog`, `TaskController` |
| Artifacts (mailbox command) | `artifacts.py`, `_cmd_mailbox` in `cli.py` | outbox files, archive | ingest, validate order | `TaskController` |
| Review, verification, manifest | `review.py`, `verification.py`, `completion_manifest.py` | artifacts, manifest | assign a reviewer, record what was run, confirm a completion | their part in the task: `TaskController` |
| Context requests | `bin/sin-context`, `lib/sin_context/provider_runtime.py` | SQLite cache and health row per provider | look up, call, record success or failure, keep | `ContextRequest` |
| Old mailbox | `mailbox.py` | the same as artifacts | the same | no: nothing imports it |
| Context cache library | `lib/sin_cache.py` | SQLite and files | read, write, evict | no: nothing stores through it at run time |
| Memory gateway | `lib/sin_memory*.py` | files; external services | read, write | no, see section 6 |
| Token stack | `lib/sin_token_stack.py` | installed third-party tools | sync, verify, run | no, see section 6 |
| Research, citation, review context, evidence firewall, Simone bridge | `lib/sin_*.py`, `lib/sin_context/*` | none shared, or files of one process | text in, text out | no |
| Scripts and hooks | `bin/`, `hooks/`, `scripts/` | timestamps | one-shot commands | no |

How they interact: a controller *dispatches* a task (reservation, task ledger,
terminals); a detached worker *opens a callback* and, when it is done, *sends*
it.  Sending commits the outcome in the record, enqueues a row with the broker,
and tries the transport.  If the origin cannot take the message, a launchd
relay or the broker's drain loop tries again; both call the same
`relay_callback` under the same file lock.  The origin answers with a receipt
(`acknowledge_callback`).  The record is the only authority; the broker mirrors
it.

A task goes its own way beside that.  The controllers' commands run under the
task's lease; the worker's and the reviewer's `notify` does not.  Each command
reads the log, decides, calls out (a terminal, git, the test commands) and then
appends; only the append is under the log's lock.  `complete` and `cancel` give
the writer reservation back, which the next `dispatch` takes.

What is hard here: several processes (client, watchdog, launchd relay, drain
thread, HTTP threads) work on one record; locks are file locks dropped by the
kernel when a process dies, in the middle of a transmission too; the broker
reads records without the lock and acts on what it read; leases lapse under a
slow worker; a transport may fail after it accepted the message; a TTL may pass
at every point.  In a task, controller commands outlive their lease; an artifact
is read, checked, recorded and unlinked in four steps; the worktree moves while
it is verified; the reservation is looked at before it is written and released
by whoever ended the task; a dispatch may fail at any of its dozen calls.
`PROJECT.json` lists each hazard at its line.

What makes each part correct:

* *record*: the message is sent at most once, but for a transmission that a
  crash left unrecorded; only a pending callback is sent; what is reported is
  what was staged, for the conversation it was staged for; a settled callback
  never moves; `done` is acknowledged only with an archive proof; no launchd
  job survives the callback.
* *broker*: it never claims more than the record does; a delivered row is never
  queued again; a watch never sends; every committed callback with an exact target
  is settled in the end; the drain loop stays alive.
* *lease*: commands of two sessions do not run at once, a command gives back its
  own lease only.
* *reservation*: a worker that may edit holds it, it is never stuck, a failed
  dispatch gives it back.
* *ledger and gates*: a completion rests on one worktree state that was
  verified, then reviewed blind, then accepted; a cancelled task is not
  completed; a completion is not cancelled away; steps follow one another.
* *artifacts*: every artifact becomes one event, and a callback that claims one
  comes after it.
* *context*: an open circuit is not called and opens exactly at the threshold;
  what is cached under a fingerprint is about a worktree of that fingerprint.

## 2. Modules

| Module | What it is |
|---|---|
| `OneShotCallback` | what a callback promises: opened, one outcome committed, transmitted, answered or closed; a second copy only where a process died with the first unrecorded |
| `CallbackRecord` | the record, its lock and all its operations; its invariants and the refinement mapping to `OneShotCallback` |
| `CallbackBroker` | extends `CallbackRecord` by the broker's rows, the drain loop, the HTTP handlers and service restarts |
| `TaskLog` | the reduction of the event log and the merge gates, as operators on a sequence of events |
| `TaskPromise` | what the controller promises about the end of a task: evidence for a worktree state, a decision, its record, and the reservation given up after it |
| `TaskController` | extends `TaskLog`: one task and the processes that work on it; its invariants and the refinement mapping to `TaskPromise` |
| `ControllerLease` | the lease and its lock file, by file system step |
| `WriterDispatch` | dispatches of editing tasks under the writer reservation, call by call |
| `ContextRequest` | requests for context over the cache and the circuits |
| `MCCallbackRecord`, `MCCallbackBroker`, `MCTaskController`, `MCControllerLease`, `MCWriterDispatch`, `MCContextRequest` | symmetry, bounds and the values of structured constants for TLC |
| `CallbackRecord_proofs` | the inductive invariant of the record, its safety theorems, those on handoff, archive proof and relay, and that it implements `OneShotCallback` |
| `CallbackBroker_proofs` | the broker beside the record changes nothing about it, so that the promise is still kept; its rows and workers follow the record |
| `TaskLog_proofs` | lemmas about the operators on logs: places, status and steps as a log grows |
| `TaskPromise_proofs` | `TaskController` implements `TaskPromise` |
| `TaskController_proofs`, `ControllerLease_proofs`, `WriterDispatch_proofs`, `ContextRequest_proofs` | an inductive invariant each, and the theorems that follow from it |

Definitions marked *Mutant* are plausible wrong versions of the definition that
follows them; nothing uses them, `PROJECT.json` says which property each breaks.

### CallbackRecord

A record's fields are the JSON fields that decide something: `status`,
`outcome` (`callback_status`), `told` (the final status the message reports),
`conv` (which binding is current), the staged handoff with the identity its MAC
covers, `delivery` (`delivery_state`), `archived` and `relay`.  `holder` is the
file lock, `proc` the step at which a process is inside an operation, `over`
whether the TTL has passed.  `wire` and `lost` are history: how many copies
reached the origin, how many accepted transmissions died before they were
written down.

An operation that takes the lock, writes once and returns is one action.
`_deliver_pending_callback` calls out while it holds the lock and is a sequence
of actions: `EnqueueWithBroker`, then `Refuse`, `RefuseAfterAccept`,
`FallBackToTerminal` or `Transmit`, then `RecordResult`.  Between any two of
them `Crash` may strike: the kernel frees the lock and the record stays as last
written.  `reconcile_callback_handoff` is the one operation that leaves the
lock and comes back (`ValidateHandoff`, then `ReconcileBound` or
`ReconcileUnbound`).

`LooseTransports` are the callbacks whose transport may report a refusal for a
message its host accepted: the DSH host (every HTTP error is retried) and
`opencode run` (a failed run that mentions "not found").  `Exact` are the
others; the at-most-once properties are about those.

### CallbackBroker

A row is its state, the holder of its lease, whether the lease has lapsed and
whether the row is due.  Each SQLite transaction is one action, and so is each
lock-free read of a record; what was read (`task[w].seen`) is used in a later
action, when the record may have moved on.  A worker's name stands for its lease
token: it cannot hold two claims on one row, and a token is fresh per claim.
Clients run every record operation (`ClientStep`); the service runs
`relay_callback` (`RelayStep`) and nothing else.  `alive` becomes false when an
exception leaves `run_cycle` in the drain thread.

`targeted` are the callbacks whose record names an exact target, chosen once and
for all: `classify_callback_transport` refuses an OpenCode origin whose session
is not known, and such a callback is committed and delivered through its terminal
like any other.  But the client's attempt to enqueue it raises, which is swallowed
(`RowEffect`), and every sync skips it (`SyncRead`), so that it never has a row.
Safety is shown for both kinds, `CommittedSettles` for the targeted only.

### TaskLog and TaskController

An event keeps its type, its actor, the kind of a callback, the step, the state
of the worktree it speaks of (`diff`) and what it claims (`ok`).  `Status` is
`reduce_events`: the status of the latest event that sets one.
`ExecutionProtocolOK` and `CompletionOK` are the two gates of `gates.py`.

`TaskController` begins where `dispatch_task` has returned.  `job[p]` is the
command process `p` is in and where: `read`, `checked` and `recorded` are the
steps of `ingest_artifact`, `rest` is a `mailbox` or `notify` after them,
`append` a command that calls out and will then append `job[p].event`,
`confirm` a `complete` between its two looks at the worktree, `manifest` and
`release` the effects that follow a completion or cancellation.  A `complete` on
a completed task takes the worktree for its gate (`CompleteAgain`, kept in
`seen`), and `verify_manifest` takes it again for the manifest (`Confirm`); the
worker may edit in between.
A stretch of a command between two external calls is one action: nothing of
another process that is modelled can come between.  Controllers start a command
only if the lease is free or their own; `Expire` takes it away from a command
that is too slow.  `owns` is the task's part in the writer reservation.

`TaskPromise` has no log, terminals, artifacts, leases or crashes.  The evidence
for a worktree state is read off the log: the state of a green verification is
`verified`; `assigned` if a reviewer was assigned to it after that; `judged` if a
review accepted it after that; `accepted` if the reviewer reported after that.
A command about to append `task.completed` or `task.cancelled` is a `decision`,
and its append the record of it.  The promise says what `complete` and `cancel`
see when they decide, and nothing of what has happened by the time they record:
the gate and the append are two steps of the code (`cli.py:1665`).  It is
`KeepsPromise` of `TaskController`.

Two ghosts say when commands overlap.  `job[p].stale` is set when the log grew,
or the reservation was given back, between the decision and the append of `p`;
`overtaken` are the events appended in that state.  Properties that the lease is
meant to give, and does not when it expires, name `overtaken` as their
exception.

`Odd` events, crashes, expiries and late edits cost one of `MaxTrouble` each.
Ordinary behaviours are those of a worker and a reviewer that follow their
prompts; `HastyTasks` have a worker that tries everything in any order.

### ControllerLease

A lock is on the file a process has open, not on the name: `fd`, `path` and
`locked` are about inodes.  `release` removes the lease under the lock and
unlinks the lock file after it (`Remove`, `Unlink`), so that a waiter may lock a
file that is gone.  Three ghosts name the ways in which the lease does not
exclude: `torn` (a lock file was unlinked under a process that had it open),
`lapsed` (the lease expired during a command), `shared` (sessions that ran two
commands at once; they share owner and token).  They are forgotten when no
command runs.  `TaskController` uses the lease as owner only, and reduces these
three to `Expire` and to a release by the same owner.

### WriterDispatch

Each call of `dispatch_task` is an action; `Raise` and `Kill` may take its place
at any of them, and what the code then undoes, records or leaves is modelled as
it is.  The reservation's lock covers `Grant` and `Reserve` only.  Beside the
dispatch run `cancel` and `complete` on the same task, and other dispatches.
The ghost `loose` holds the tasks whose worker may outlive its reservation, for
one of the reasons the code has: another dispatch took over while this one ran,
the send timed out with the prompt delivered, or a cancel could not reach the
worker.

### ContextRequest

All requests ask the same query, so cache keys are provider and worktree
fingerprint.  Each SQLite statement is an action.  `fits` records whether a cache
entry is about a worktree of its key's fingerprint; `early` whether the circuit
opened during a call.

`repository_fingerprint` asks git twice: `Turn` takes the commit, `ReadStatus` the
porcelain status of the worktree as it is by then.  `Commit` and `Status` say what
git answers for each worktree, and several worktrees may share both answers, as
two edits of one file do.  A git that is missing, too slow or without a commit
gives the constant `NoRepository`, a `git status` that fails reads as `Clean`.
`astray` says of a request that its key is not, or before the answer no longer,
the fingerprint of the worktree.

### What is abstracted

In the callbacks:

* Message text, redaction, the other identity fields, token lookup; dry runs.
* The canonical task plan: its checks can only refuse an operation, and a
  refused operation changes nothing.
* Two handoffs are told apart by their final status, not by their text.
* A client's enqueue and every mirror may fail (errors are swallowed in the
  code); `sync_repository` enqueues always, an error there ends that sync only.
* SQLite lock timeouts are not modelled elsewhere; a 4xx answer counts as
  refused; records without a delivery identity (written by older versions) do
  not occur.
* Consecutive transactions of one worker on one row are merged where no other
  worker's transaction in between can change what the second does: mirror and
  read of the row (`CheckRow`), mirror and defer (`DeferWatch`, guarded by the
  row's state in the code as in the model), `available_at` reset and claim
  (`ReconcileDelivery`).
* The two writes of `install_callback_relay` are one action; the service's
  death and restart are one action.

In the task:

* The hash chain, identities, texts and timestamps of events; the shape checks
  of artifacts and their archive copy; worker activity files.
* The git calls of one look at the worktree (changed files, then the diff) are one
  read; the two looks of a later `complete` are two.  The log's hash in the
  manifest is compared with the first of them, a step before the code does.
* An event is appended as a whole.  In the code a process killed while it writes
  leaves half a line, after which every command on the task is refused until the
  file is mended by hand.
* The ledger file: every reader rebuilds it from the log.
* The commands a verification runs, as green or red; changed files, as a function
  of the worktree state (`SameFiles`, `OutOfScope`).
* What a session writes into its outbox after the end of its task.
* Controller commands of one session at a time (`ControllerLease` has two).
* The dispatch of read-only tasks, which takes no reservation.

In the context requests: routing by intent, budgets, redaction, the packet, the
metrics table, `call_first_available` (the command does not use it).  Expiry and
cooldown are events; a cooldown below one second, which `int` would round to
none, is outside the model (no configured provider has one).

## 3. Runs

| Run | Bounds | What it shows |
|---|---|---|
| `record` | 1 callback, 2 processes, 2 bindings, 1 crash, 3 final statuses, exact transport | types, at most one copy per crash, only pending callbacks are sent, the refinement of `OneShotCallback` |
| `record_loose` | the same with a loose transport, at most 2 copies followed | lock discipline, handoff fidelity, archive proof, relay retirement: independent of the transport |
| `blind_resend` (violated) | as above, no crash | an error answer after the POST is retried and the origin gets the message twice |
| `reconcile_stale` (violated) | as `record`, no crash | the reconciler of an unbound completion consumes a handoff it did not validate |
| `broker` | 1 callback, 1 client, drain thread, 1 HTTP thread, 1 crash or restart; completions sent directly and no launchd relay (`PlainSends`) | the broker follows the record under stale reads and lapsing leases, and after crashes at every point |
| `broker_liveness` | 1 callback with or without a target, 1 client, drain thread, 1 crash, fair; with staged handoffs and relays | committed callbacks with a target settle, rows catch up, and the broker is never ahead |
| `drain_loop` (violated) | as `broker_liveness` | the drain thread dies when the TTL of a claimed callback passes |
| `task` | 2 controllers (symmetric), worker and reviewer; 3 contracts: a stepwise implementer of 1 step, a continuous explorer of 2 steps, a stepwise audit of 2 steps without checkpoints and with a hasty worker; 2 worktree states beside the baseline, 15, 12 or 9 events, 1 piece of trouble | what completions, cancellations, callbacks, reviews and recorded artifacts rest on, under every interleaving of commands |
| `task_promise` | the same processes, the first two contracts with 13 and 12 events | the refinement of `TaskPromise`, for a task that is reviewed and one that is not |
| `lease` | 2 commands of one session, 1 of another, 3 lock files, 4 tokens | exclusion and ownership, but for the three named reasons; no deadlock |
| `writer` | 2 tasks (symmetric) | who holds the reservation through raises, kills, takeovers, cancels and completions; it is never stuck |
| `context` | 2 requests (symmetric), 2 providers with thresholds 2 and 1, 3 worktrees (clean, a file edited, edited again) of 2 fingerprints, 1 cache entry | the cache keeps answers under their fingerprint; circuits open at the threshold and hold |

Why the bounds are enough.  Callbacks share nothing but the drain loop: locks,
files and rows are per callback, so one callback shows every interleaving that
concerns it, and the proofs hold for any number.  Two processes give every
interference of one operation with another; a third adds only another operation
before or after.  Two bindings separate a handoff staged before a binding from
one staged after it; zero stands for an unbound callback.  One crash shows the
loss of a transmission and the recovery from it.  The broker runs take one final
status and no bindings: the broker does not look at either.  An HTTP thread is in
`broker`, a launchd relay in `broker_liveness`; that they may run at once, with any
number of crashes, is what the theorems of `CallbackBroker_proofs` cover.

Tasks share nothing but the reservation.  In `task` the event bounds are those of
a whole undisturbed behaviour, one event more but for the audit, and for the
implementer a second end of the task.  In `task_promise`, where every step is mapped, the reviewed
task has an undisturbed behaviour and the other one a second end.  One piece of
trouble lets each crash, expiry, late edit, rejection, warning or repeated event
happen, and an overlap of two controllers (which takes an expiry) run to its end.
The theorems hold for any bound, any contract, any number of controllers and
combined trouble, so that the runs are there to show that the cases occur and
that the proved statements are not empty.
In `lease` one command releases, one waits, one comes new: what it takes to
lock two files at once; 3 files and 4 tokens are what the assumptions on recycled
identities need.  In `writer` two tasks give every takeover.  In `context` one
entry suffices as entries do not interact; the worktrees have one commit, so that
a fingerprint torn between two commits occurs in the theorem only; thresholds 1 and 2 give a circuit that
opens at once and one that has to count.

The runs of the record and the broker, `task`, `task_promise`, `writer` and
`context` disable the deadlock check: a settled callback, a completed task and a
full log (or cache) may stop.  `lease` keeps it: some command can always go on.

### Fairness

Only `FairBrokerSpec` assumes any.  The drain loop is weakly fair
(`while not stop.wait(interval)`, a thread that is always scheduled), and
strongly fair where it waits for a file lock that others take and free
(`RelayStep`, `RelayAwaits`): it blocks in `flock` until it gets it.  A process
that is inside an operation goes on, because every call made under a lock has a
timeout (transports 15 to 90 s, `terminal send` 30 s, SQLite's busy timeout).
Time passes: TTLs run out, leases lapse, deferred rows become due.  Clients need
not start anything: no receipt is ever assumed.  After a crash the service is
restarted (`KeepAlive` in `callback_cli.py:167`, `Restart=always` in line 187).
Both liveness properties are conditional on `alive`, because of the finding
below.

## 4. What is proved

The theorems hold for any number of callbacks and processes and any bounds,
from the named assumptions in `CallbackRecord` and `CallbackBroker` (the lock's
free value is no process, there is a callback, workers and clients are
different).

* `TypeCorrect`, `LockHeld`, `AtMostOnce`, `OnlyPendingTransmits`: from the
  inductive invariant `IInv`.  At-most-once is not inductive by itself.  It
  needs that a lock holder and its step agree (`LockHeldThroughout`), hence at
  most one process is between send and record (lemma `Alone`); that the record
  has not moved since that process took the lock (`FlightMatchesStatus`); that
  `delivery_state` and status agree (`DeliveryMatchesStatus`), because the check
  for an ambiguous earlier attempt reads the first and the transmission depends
  on the second; and that a pending callback nobody is transmitting has no copy
  that is not excused by a crash (`CopiesCounted`).
* `ReportsHandoff`, `AcknowledgesArchived`, `RetiresRelay`: from a per-record
  strengthening (`Consistent`) and a lemma that classifies what a step can do to
  a record.
* `Refinement`: `Spec => Implements`, where each operation maps to one abstract
  step or to none, and a crash to `Excuse` of the callbacks whose transmissions
  it interrupted.  The abstract step takes a *set* because a process may die with
  the transmissions of several threads, which the instance with one callback
  cannot show and the proof demands.
* `BrokerImplementsRecord`: every step of clients, service and environment is a
  record step or leaves the records alone, so all record theorems hold with the
  broker beside it.  `BrokerAtMostOnce` states one; `BrokerKeepsPromise` the
  refinement of `OneShotCallback`, by way of the record.
* `BrokerTypes`, `BrokerFollows`, `BrokerWatches`, `BrokerDeliversOnce`: from
  `BrokerInv`.  `BrokerNeverAhead` speaks of the rows only and is not inductive: a
  worker writes what it read some steps ago.  So `BrokerInv` says of what a worker
  knows what it says of a row, that it `Agrees` with the record's status: it may be
  out of date but not ahead, and stays so because statuses only move forward
  (`AgreesStays`).  Every transaction of the store then keeps a row that agrees,
  and one that was delivered or settled, as such (`RowMoves`, `RowMovesOK`,
  `RowsFollow`).  A watch begins with delivered rows, so its relay finds nothing
  pending to send (`Quiet`, `RelayKnows`).

* `TaskController`: all its invariants and both action properties, from
  `TaskInv == World /\ LogOK /\ JobsOK`.  The properties speak of the log alone
  and are not inductive: a command appends what it decided earlier.
  `LogOK` collects what each event rests on; `JobsOK` says of each command in
  flight that the event it is about to append is `Justified` by the log as it is
  now, or that it is stale.  The lemmas that carry the proof: what an append may
  do to the log (`AppendLog`, `WarnedLog`); that the gate gives the chain of
  verification, reviewer, review and callback (`GateBacks`); that evidence in a
  log stays evidence as it grows (`BackedGrows`); and that an append by one
  command leaves every other justified or stale (`JobsOvertaken`).  The theorems
  are `TaskTyped`, `CompletionsBacked`, `ArtifactsRecordedOnce`, `CancelledStays`,
  `ReviewersDiffer`, `EvidenceFirst`, `CancelledOnNews`, `ConfirmationsBacked`,
  `CompletionsHold` and `StepsInTurn`.
* `StepsInTurn` is about a recursively computed sequence, the steps of the events
  of one type in a log.  `TaskLog_proofs` says once how it grows with the log
  (`StepsAppend`, `StepsKept`, `StepsNone`), by induction over the length
  (`SetInduction`, from the well-foundedness of `<` on the naturals: a set of
  naturals with 0 and with all successors is `Nat`).  That checkpoints and
  approvals take turns is then a part of `LogOK`: an approval was checked against
  both sequences, a checkpoint against the approvals, and neither has moved when
  the event is appended unless the command is stale.
* `TaskKeepsPromise`: `Spec => KeepsPromise`.  Each action maps to one step of
  `TaskPromise` or to none.  One more event teaches what the promise allows or
  nothing (`EvidenceAppend`, `EventTeaches`): a verification makes its state
  verified, a reviewer makes a verified state assigned, and so on, while the same
  events in another order add nothing.  The only events that end a task are those
  a controller is about to append (`EndPromised`), so a log never has a
  `task.failed`.  That a completion is decided on evidence is the chain
  `GateBacks` finds, read as states (`BackedEvidenced`).  `GiveUp` needs that
  the log has an end wherever a command is about to write the manifest or to
  release, and wherever another task takes the reservation over; this, and that
  a waiting `cancel` or `complete` has nothing but an end to append, are in
  `TaskInv` for the sake of this theorem.
* `WriterDispatch`: `WorkerHoldsWriter` needs that a running dispatch holds the
  reservation or was taken over (`HeldThrough`, `TakenOver`), that its task file,
  log and prompt come in this order (`NotYet`, `Saved`, `PromptedLate`,
  `SpawnedLast`), that only the lock's holder writes the reservation (`LockHeld`),
  and that a task whose log has ended has no worker left that is not loose
  (`Logged`, `EndedGone`).
* `ControllerLease`: exclusion needs that, unless torn, all commands have the
  file open that has the name (`OneFile`), so that at most one is between grant
  and write (`LockInv`, `GrantedAlone`), and that the lease stays the one it was
  given to (`OwnedStays`), however inodes and tokens are recycled.
* `ConfirmationsBacked`: `Confirm` goes on only if the manifest's worktree state is
  that of now and the one seen before passes the gate (`ConfirmsByGate`), which
  `GateBacks` turns into evidence for it.
* `ContextRequest`: a soundness statement per request (`Sound`) and one about the
  two stores (`Stores`), for any worktrees, commits and statuses, however many
  share a fingerprint.

The proofs rest on the named assumptions of the constants only.

Only model-checked: the two liveness properties of `broker_liveness` (fairness
needs ENABLED, which the prover does not handle).  Every invariant, action
property and refinement of the passing runs is a theorem as well.

## 5. Findings

1. *The drain thread dies* (`drain_loop`, `callback_broker_service.py:153`).  A
   callback expires while its row is claimed; expiry mirrors itself to the row
   and takes the lease away; `finish_attempt` raises, the exception handler calls
   it again, and the second exception ends the thread.  The HTTP server goes on,
   so nothing restarts the service.
2. *Blind resend* (`blind_resend`, `web_callbacks.py:1768`,
   `callback_transports.py:129`): an error answer after the send boundary is
   taken as "not accepted".
3. *Stale reconciliation* (`reconcile_stale`, `web_callbacks.py:2245`): the
   handoff marked consumed need not be the one that was reported.

What the task models show holds only with exceptions, which the properties name:

* "Serialize every state-changing controller command per task" (`cli.py:85`)
  holds but for three reasons: an expiry under a slow command (nothing renews
  the lease), the lock file unlinked while in use, two commands of one session.
* "Only one editing task may hold the repository writer reservation at a time"
  holds of the file; a worker may still edit without it in the cases `loose`
  collects.  A prompt file that cannot be written leaves the reservation to a
  task nobody works on, until that task is cancelled.
* A committed callback without an exact target is outside the broker: no row, no
  watch, and no drain loop that expires it.  It is settled when somebody comes back
  to it: a receipt, a launchd relay, another send.
* "Preventing stale evidence from being reused across materially different states"
  (`docs/ARCHITECTURE.md:40`) is true of fingerprints, not of worktrees.  A second
  edit of a changed file leaves the fingerprint as it is; a failing git gives one
  constant for all worktrees, a failing `git status` makes each look clean.  And an
  answer is kept under an earlier fingerprint if the worktree moves between the
  two questions to git, or between the key and the answer.
* A manifest may bind a worktree state that was never verified, if the worktree
  moves between the gate and the manifest.  A later `complete` confirms it only if
  the worktree moves again between its two looks: from a verified state, which
  passes the gate, to that of the manifest.  This takes three late edits, more than
  `MaxTrouble` of the run `task`; the property states it and the theorem covers it.
* One diff has one reviewer until another diff was reviewed or two reviews
  overlap; it may then be assigned again.  The gate wants exactly one
  `reviewer.spawned` and one `review.completed` in the log (`ReviewOK`), so that
  a task is not completed any more once a review was rejected or a second
  reviewer was assigned, for whichever reason.
* A librarian's task without checkpoints cannot pass the gate: it is not among
  the roles that may omit them.

## 6. What is left

Worth doing next: abstract specifications of the writer reservation (one editing
task at a time, but for the reasons `loose` names) and of the controller lease (a
mutex, but for its three), which their invariants imply step by step but no
refinement states yet; the promise of a task with the reservation taken from
`WriterDispatch` instead of `owns`.

### Not modelled

* *Argument parsing, installation, rendering*: callback CLI, scripts, hooks,
  research, citation, capability and review context.  No state that two steps
  could disagree about.
* *Token stack*: `sync` installs pinned tools under one non-blocking lock, and
  every command checks commit, lock file and version again before it uses them:
  a killed sync is found and repeated.  What remains is the installers' work.
* *Memory gateway*: clients of external services.  `MemoryStore` writes whole
  files by rename; its shared log is read and appended under one lock.
* *Context cache library*: nothing in the repository stores an entry through it
  when it runs.
* *Simone bridge*: runs after the command has given its lease back, and an update
  is keyed by what it sends; no task state depends on it.
* *Backoff*: a pure function of floats and a hash.  The broker takes from it only
  that a row becomes due.
* *Old mailbox*: dead code.

Several hazards are excused, not caught: the code does not prevent them, and a
property names them as its exception (`torn`, `lapsed`, `shared`, `loose`,
`overtaken`, `early`, `astray`).  What such a property shows is that nothing else
breaks it.  The note of each hazard in `PROJECT.json` says which.

Hazards without a property: worktrees that share a fingerprint
(`bin/sin-context:187`); `cancel_callback` leaves an installed relay behind
(`web_callbacks.py:2658`) and `launchctl bootout` may end the job it runs in
(line 1388), for neither of which the code states a rule; the torn last line of
an event log (`state.py:218`), for which there is no recovery to check; cooldowns
below one second (`provider_runtime.py:202`).
