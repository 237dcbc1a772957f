--------------------------- MODULE CallbackBroker ---------------------------
(***************************************************************************)
(* The callback broker beside the canonical records: a transport-only row  *)
(* per committed callback in SQLite (src/lib/sin_orca/callback_broker.py)  *)
(* and the service whose drain loop and HTTP handlers run it               *)
(* (callback_broker_service.py).                                           *)
(*                                                                         *)
(* The operations on the record are those of CallbackRecord.  Clients run  *)
(* all of them; the service runs relay_callback only, and otherwise reads  *)
(* the record without its lock.  One SQLite transaction is one action, and *)
(* so is one lock-free read; a read is acted upon in a later action.       *)
(* Times are abstracted to what is compared with the clock: a row is due   *)
(* or not, a lease has lapsed or not.                                      *)
(***************************************************************************)
EXTENDS CallbackRecord

CONSTANTS
    Clients,    \* the processes of the CLI, the origin and the relays
    Drainer,    \* the service's drain thread
    Handlers    \* the threads that serve its HTTP requests

Workers == {Drainer} \union Handlers

ASSUME AgentsAssumption == Agents = Clients \union Workers
ASSUME RolesAssumption == Clients \intersect Workers = {}
                          /\ Drainer \notin Handlers

VARIABLES
    row,        \* the broker's row of each callback
    task,       \* what each worker of the service is in the middle of
    alive,      \* whether the drain thread runs
    targeted    \* the callbacks classify_callback_transport knows a target for

brokerVars == <<row, task, alive, targeted>>
allVars == <<vars, brokerVars>>

Claimable == {"queued", "retry_wait"}
Watched == {"sent", "indeterminate"}
NoRow == [state |-> "none", lease |-> Free, lapsed |-> FALSE, due |-> FALSE]
Rows == [state : {"none", "delivering"} \union Claimable \union Watched
                 \union Terminal,
         lease : Workers \union {Free}, lapsed : BOOLEAN, due : BOOLEAN]

(***************************************************************************)
(* A worker works off the callbacks of todo one at a time: the files of a  *)
(* sync, the claims of a drain, or the receipts of a watch (phase).  seen  *)
(* is the status it read without the lock, result how an attempt ended.    *)
(* The lease token of a claim is fresh; as no worker claims twice before   *)
(* it drops its first claims, the worker's name stands for the token.      *)
(***************************************************************************)
Kinds == {"cycle", "sync", "reconcile"}
Phases == {"sync", "deliver", "watch"}
TaskSteps == {"rest", "next", "enqueue", "mirror", "claim", "check", "relay",
              "finish", "reread", "defer"}
Resting == [at |-> "rest", kind |-> "cycle", phase |-> "sync",
            cb |-> Idle.cb, todo |-> {}, seen |-> "absent",
            result |-> "retry_wait"]
Tasks == [at : TaskSteps, kind : Kinds, phase : Phases, cb : Callbacks,
          todo : SUBSET Callbacks, seen : Statuses,
          result : {"retry_wait", "expired"} \union Watched]

BrokerTypeOK ==
    /\ TypeOK
    /\ row \in [Callbacks -> Rows]
    /\ task \in [Workers -> Tasks]
    /\ alive \in BOOLEAN
    /\ targeted \in SUBSET Callbacks

\* A record names its origin when it is created, and for good.  Of an OpenCode
\* origin the session may be unknown; its terminal still takes the callback.
BrokerInit ==
    /\ targeted \in SUBSET Callbacks
    /\ Init
    /\ row = [c \in Callbacks |-> NoRow]
    /\ task = [w \in Workers |-> Resting]
    /\ alive = TRUE

-----------------------------------------------------------------------------
(***************************************************************************)
(* The store's transactions, as functions from a row to the new row.       *)
(***************************************************************************)
Enqueued(r) ==
    IF r.state = "none"
    THEN [NoRow EXCEPT !.state = "queued", !.due = TRUE] ELSE r

Lapse(r) ==
    IF r.state = "delivering" /\ r.lapsed
    THEN [r EXCEPT !.state = "retry_wait", !.lease = Free, !.lapsed = FALSE]
    ELSE r

\* A claim first returns lapsed leases, then takes what is due.
CanClaim(r) == Lapse(r).state \in Claimable /\ r.due

ClaimedBy(w, r) ==
    IF CanClaim(r)
    THEN [Lapse(r) EXCEPT !.state = "delivering", !.lease = w] ELSE Lapse(r)

\* Mutant: the mapping lacks the settled states.
MirroredDelivery(r, status) ==
    LET state == IF status = "delivery-indeterminate" THEN "indeterminate"
                 ELSE status
    IN  IF r.state = "none" \/ state \notin Watched THEN r
        ELSE [r EXCEPT !.state = state, !.lease = Free, !.lapsed = FALSE]

Mirrored(r, status) ==
    LET state == IF status = "delivery-indeterminate" THEN "indeterminate"
                 ELSE status
    IN  IF r.state = "none" \/ state \notin Watched \union Terminal THEN r
        ELSE [r EXCEPT !.state = state, !.lease = Free, !.lapsed = FALSE]

\* available_at moves into the future for a retry only.
Finished(r, result) ==
    [r EXCEPT !.state = result, !.lease = Free, !.lapsed = FALSE,
              !.due = result # "retry_wait"]

\* Mutant: a deferred watch is queued for another attempt under a state the
\* store does not have.
DeferredUnknown(r) ==
    IF r.state \in Watched THEN [r EXCEPT !.state = "deferred"] ELSE r

Deferred(r) == IF r.state \in Watched THEN [r EXCEPT !.due = FALSE] ELSE r

SetRow(c, r) == row' = [row EXCEPT ![c] = r]

-----------------------------------------------------------------------------
(***************************************************************************)
(* Operations on the record and what they do to the row.  Enqueue and      *)
(* mirror are best effort: an error of the store, or of a record without   *)
(* an exact target, is swallowed.                                          *)
(***************************************************************************)
RowEffect(a, c) ==
    CASE proc[a].at = "enqueue" ->
            \/ row' = row
            \/ c \in targeted /\ SetRow(c, Enqueued(row[c]))
      [] proc[a].at = "mirror" ->
            row' = row \/ SetRow(c, Mirrored(row[c], Status(c)))
      [] OTHER -> row' = row

\* A scheduled relay that stays pending yields only to a broker that has the
\* row (_broker_owns_delivery; when it cannot tell, it does not).
YieldsToBroker(a, c) ==
    proc[a].at = "deliver" /\ record'[c].relay = "inert" =>
        row[c].state # "none" \/ record[c].relay = "inert"

ClientStep(a, c) ==
    /\ Operation(a, c)
    /\ RowEffect(a, c)
    /\ YieldsToBroker(a, c)
    /\ UNCHANGED <<task, alive, targeted>>

-----------------------------------------------------------------------------
(***************************************************************************)
(* The workers of the service.                                             *)
(***************************************************************************)
Does(w, at) == task[w].at = at /\ (w = Drainer => alive)

SetTask(w, t) == task' = [task EXCEPT ![w] = t]

\* The worker is done with its current callback, and drops what it knew of it.
NextJob(w) == [Resting EXCEPT !.at = "next", !.kind = task[w].kind,
                              !.phase = task[w].phase,
                              !.todo = task[w].todo \ {task[w].cb}]

StartCycle(w) ==
    /\ Does(w, "rest")
    /\ \E kind \in IF w = Drainer THEN {"cycle"} ELSE {"cycle", "sync"} :
           SetTask(w, [Resting EXCEPT !.at = "next", !.kind = kind,
                                      !.todo = Callbacks])
    /\ UNCHANGED <<row, alive, targeted, vars>>

\* sync_repository reads one record; only the active ones with a target go on.
SyncRead(w, c) ==
    /\ Does(w, "next") /\ task[w].phase = "sync" /\ c \in task[w].todo
    /\ SetTask(w,
         IF /\ Status(c) \in {"pending-delivery", "delivery-indeterminate", "sent"}
            /\ c \in targeted
         THEN [task[w] EXCEPT !.at = "enqueue", !.cb = c, !.seen = Status(c)]
         ELSE [task[w] EXCEPT !.todo = @ \ {c}])
    /\ UNCHANGED <<row, alive, targeted, vars>>

SyncEnqueue(w) ==
    /\ Does(w, "enqueue")
    /\ SetRow(task[w].cb, Enqueued(row[task[w].cb]))
    /\ SetTask(w, [task[w] EXCEPT !.at = "mirror"])
    /\ UNCHANGED <<alive, targeted, vars>>

SyncMirror(w) ==
    /\ Does(w, "mirror")
    /\ SetRow(task[w].cb, Mirrored(row[task[w].cb], task[w].seen))
    /\ SetTask(w, NextJob(w))
    /\ UNCHANGED <<alive, targeted, vars>>

\* Mutants: the watch takes every due row; it forgets the indeterminate ones.
DueRows == {c \in Callbacks : row[c].state # "none" /\ row[c].due}
DueSentWatches == {c \in Callbacks : row[c].state = "sent" /\ row[c].due}

DueWatches == {c \in Callbacks : row[c].state \in Watched /\ row[c].due}

\* The end of a phase: a cycle syncs, drains and watches, in this order.
EndPhase(w) ==
    /\ Does(w, "next") /\ task[w].todo = {}
    /\ SetTask(w,
         IF task[w].kind # "cycle" \/ task[w].phase = "watch" THEN Resting
         ELSE IF task[w].phase = "sync" THEN [task[w] EXCEPT !.at = "claim"]
         ELSE [task[w] EXCEPT !.phase = "watch",
                 !.todo = DueWatches])
    /\ UNCHANGED <<row, alive, targeted, vars>>

ClaimDue(w) ==
    /\ Does(w, "claim")
    /\ row' = [c \in Callbacks |-> ClaimedBy(w, row[c])]
    /\ SetTask(w, [task[w] EXCEPT !.at = "next", !.phase = "deliver",
                     !.todo = {c \in Callbacks : CanClaim(row[c])}])
    /\ UNCHANGED <<alive, targeted, vars>>

\* POST /callbacks/<id>/reconcile: watch a delivered row, else make exactly
\* this row due and claim it.
ReconcileDelivery(w, c) ==
    LET r == IF row[c].state = "retry_wait" THEN [row[c] EXCEPT !.due = TRUE]
             ELSE row[c]
        job == [Resting EXCEPT !.at = "next", !.kind = "reconcile",
                               !.todo = {c}]
    IN  /\ w \in Handlers /\ Does(w, "rest")
        /\ row[c].state \notin {"none"} \union Terminal
        /\ IF row[c].state \in Watched
           THEN SetTask(w, [job EXCEPT !.phase = "watch"]) /\ row' = row
           ELSE /\ SetRow(c, ClaimedBy(w, r))
                /\ SetTask(w, IF CanClaim(r) THEN [job EXCEPT !.phase = "deliver"]
                              ELSE Resting)
        /\ UNCHANGED <<alive, targeted, vars>>

\* deliver_claim and _watch_receipt begin with a lock-free status read ...
ReadStatus(w, c) ==
    /\ Does(w, "next") /\ task[w].phase # "sync" /\ c \in task[w].todo
    /\ SetTask(w, [task[w] EXCEPT !.at = "check", !.cb = c, !.seen = Status(c)])
    /\ UNCHANGED <<row, alive, targeted, vars>>

\* ... mirror it, and look at the row: settled rows need no relay.
CheckRow(w) ==
    LET c == task[w].cb
        r == Mirrored(row[c], task[w].seen)
    IN  /\ Does(w, "check")
        /\ SetRow(c, r)
        /\ SetTask(w, IF \/ r.state \in Terminal
                         \/ task[w].phase = "deliver" /\ r.state \in Watched
                      THEN NextJob(w)
                      ELSE [task[w] EXCEPT !.at = "relay", !.seen = "absent"])
        /\ UNCHANGED <<alive, targeted, vars>>

\* Where the relay's result takes the worker.
Relayed(w, result) ==
    IF task[w].phase = "watch" THEN [task[w] EXCEPT !.at = "reread"]
    ELSE [task[w] EXCEPT !.at = "finish", !.result = result]

\* Mutant: a relay that returned counts as a delivery.
ResultOptimistic(status) ==
    CASE status = "delivery-indeterminate" -> "indeterminate"
      [] status = "expired" -> "expired"
      [] OTHER -> "sent"

ResultOf(status) ==
    CASE status = "delivery-indeterminate" -> "indeterminate"
      [] status \in {"sent", "expired"} -> status
      [] OTHER -> "retry_wait"

\* relay_callback as the service calls it, from its lock to its return.
RelayStep(w, c) ==
    /\ Does(w, "relay") /\ task[w].cb = c
    /\ \/ Status(c) = "pending-delivery" /\ Redeliver(w, c)
       \/ ExpireIfNeeded(w, c)
       \/ EnqueueWithBroker(w, c)
       \/ Refuse(w, c)
       \/ RefuseAfterAccept(w, c)
       \/ FallBackToTerminal(w, c)
       \/ Transmit(w, c)
       \/ RecordResult(w, c)
       \/ MirrorBrokerState(w, c)
    /\ RowEffect(w, c)
    /\ IF proc'[w].at = "idle"
       THEN SetTask(w, Relayed(w, ResultOf(record'[c].status)))
       ELSE UNCHANGED task
    /\ UNCHANGED <<alive, targeted>>

\* The relay finds a delivered callback and leaves it to its receipt.
RelayAwaits(w, c) ==
    /\ Does(w, "relay") /\ task[w].cb = c /\ Enters(w, c)
    /\ Status(c) \in {"sent", "delivery-indeterminate"} /\ ~over[c]
    /\ SetTask(w, Relayed(w, "indeterminate"))
    /\ UNCHANGED <<row, alive, targeted, vars>>

\* The relay raises: a drain returns the row for retry, a watch defers it (the
\* mirror of "absent" is nothing), and a reconcile request just fails.
RelayRaises(w, c) ==
    /\ Does(w, "relay") /\ task[w].cb = c /\ Enters(w, c)
    /\ Status(c) \in {"absent", "open"} \union Terminal
    /\ Status(c) = "open" => ~over[c]
    /\ SetTask(w, CASE task[w].phase = "watch" ->
                         [task[w] EXCEPT !.at = "defer", !.seen = "absent"]
                    [] task[w].kind = "reconcile" -> Resting
                    [] OTHER -> Relayed(w, "retry_wait"))
    /\ UNCHANGED <<row, alive, targeted, vars>>

\* Mutant: the lease token is not compared.
OwnsAnyLease(w) == TRUE

OwnsLease(w) ==
    row[task[w].cb].state = "delivering" /\ row[task[w].cb].lease = w

\* finish_attempt under the worker's own lease.
FinishAttempt(w) ==
    LET c == task[w].cb
    IN  /\ Does(w, "finish")
        /\ OwnsLease(w)
        /\ SetRow(c, Finished(row[c], task[w].result))
        /\ SetTask(w, NextJob(w))
        /\ UNCHANGED <<alive, targeted, vars>>

\* finish_attempt raises, and so does the one in drain_once's handler: a
\* request fails, the drain thread ends.
LeaseLost(w) ==
    /\ Does(w, "finish")
    /\ ~OwnsLease(w)
    /\ SetTask(w, Resting)
    /\ alive' = (alive /\ w # Drainer)
    /\ UNCHANGED <<row, targeted, vars>>

Reread(w) ==
    /\ Does(w, "reread")
    /\ SetTask(w, [task[w] EXCEPT !.at = "defer", !.seen = Status(task[w].cb)])
    /\ UNCHANGED <<row, alive, targeted, vars>>

DeferWatch(w) ==
    LET c == task[w].cb
    IN  /\ Does(w, "defer")
        /\ SetRow(c, Deferred(Mirrored(row[c], task[w].seen)))
        /\ SetTask(w, NextJob(w))
        /\ UNCHANGED <<alive, targeted, vars>>

WorkerStep(w) ==
    \/ StartCycle(w)
    \/ SyncEnqueue(w)
    \/ SyncMirror(w)
    \/ EndPhase(w)
    \/ ClaimDue(w)
    \/ CheckRow(w)
    \/ FinishAttempt(w)
    \/ LeaseLost(w)
    \/ Reread(w)
    \/ DeferWatch(w)
    \/ \E c \in Callbacks : \/ SyncRead(w, c)
                            \/ ReconcileDelivery(w, c)
                            \/ ReadStatus(w, c)
                            \/ RelayStep(w, c)
                            \/ RelayAwaits(w, c)
                            \/ RelayRaises(w, c)

-----------------------------------------------------------------------------
(***************************************************************************)
(* The environment.                                                        *)
(***************************************************************************)
LeaseLapses(c) ==
    /\ row[c].state = "delivering" /\ ~row[c].lapsed
    /\ SetRow(c, [row[c] EXCEPT !.lapsed = TRUE])
    /\ UNCHANGED <<task, alive, targeted, vars>>

BecomesDue(c) ==
    /\ row[c].state \in Claimable \union Watched /\ ~row[c].due
    /\ SetRow(c, [row[c] EXCEPT !.due = TRUE])
    /\ UNCHANGED <<task, alive, targeted, vars>>

ClientCrash(a) == Crash({a}) /\ UNCHANGED brokerVars

\* The service dies with all its threads; launchd or systemd restarts it.
ServiceRestart ==
    /\ Crash(Workers)
    /\ task' = [w \in Workers |-> Resting]
    /\ alive' = TRUE
    /\ UNCHANGED <<row, targeted>>

BrokerNext ==
    \/ \E a \in Clients : ClientCrash(a) \/ \E c \in Callbacks : ClientStep(a, c)
    \/ \E w \in Workers : WorkerStep(w)
    \/ \E c \in Callbacks : \/ TtlPasses(c) /\ UNCHANGED brokerVars
                            \/ LeaseLapses(c)
                            \/ BecomesDue(c)
    \/ ServiceRestart

BrokerSpec == BrokerInit /\ [][BrokerNext]_allVars

-----------------------------------------------------------------------------
(***************************************************************************)
(* Fairness.  The drain loop keeps running while its thread lives, and     *)
(* gets a file lock it keeps waiting for; whoever holds a lock goes on,    *)
(* because every call made under it has a timeout; and time passes.        *)
(***************************************************************************)
Busy(a) == proc[a].at \notin {"idle", "validated"}

Fairness ==
    /\ WF_allVars(WorkerStep(Drainer))
    /\ \A c \in Callbacks :
          /\ SF_allVars(RelayStep(Drainer, c))
          /\ SF_allVars(RelayAwaits(Drainer, c))
          /\ WF_allVars(TtlPasses(c) /\ UNCHANGED brokerVars)
          /\ WF_allVars(LeaseLapses(c))
          /\ WF_allVars(BecomesDue(c))
          /\ \A w \in Handlers : WF_allVars(Busy(w) /\ RelayStep(w, c))
          /\ \A a \in Clients : WF_allVars(Busy(a) /\ ClientStep(a, c))

FairBrokerSpec == BrokerSpec /\ Fairness

-----------------------------------------------------------------------------
(***************************************************************************)
(* Properties.                                                             *)
(***************************************************************************)
\* The broker is never a second authority: it holds a callback settled only
\* as the record does, and delivered only once the record is, whatever stale
\* status a sync, a claim or a watch carries into its mirror.
BrokerNeverAhead ==
    \A c \in Callbacks :
        /\ row[c].state \in Terminal => Status(c) = row[c].state
        /\ row[c].state \in Watched =>
              Status(c) \in {"sent", "delivery-indeterminate"} \union Terminal

\* Watching a receipt enforces the TTL and nothing else: the relay a watch
\* calls never gets as far as a transport.
WatchOnlyObserves ==
    \A w \in Workers :
        task[w].phase = "watch" => proc[w].at \in {"idle", "mirror"}

\* No finish, lapse, sync or claim puts a delivered or settled row back in the
\* queue, also not a worker whose lease was lost meanwhile.
NeverRequeued ==
    [][\A c \in Callbacks :
          row[c].state \in Watched \union Terminal =>
              row'[c].state \in Watched \union Terminal]_allVars

\* The drain loop, once started, keeps running.
DrainLoopSurvives == alive

\* While the drain loop runs, every committed callback with an exact target is
\* settled in the end, by its receipt or by its TTL, whoever else is working on
\* it ...  (One without is skipped by every sync: no row is ever claimed or
\* watched for it, and only a client that comes back to it applies the TTL.)
CommittedSettles ==
    \A c \in Callbacks :
        c \in targeted /\ Status(c) \in Expirable \ {"open"} ~>
            Status(c) \in Terminal \/ ~alive

\* ... and the broker comes to agree with the record, also after it missed a
\* mirror or applied a stale one.
RowCatchesUp ==
    \A c \in Callbacks :
        Status(c) \in Terminal /\ row[c].state # "none" ~>
            row[c].state = Status(c) \/ ~alive
=============================================================================
