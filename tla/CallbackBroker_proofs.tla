------------------------ MODULE CallbackBroker_proofs ------------------------
(***************************************************************************)
(* Proofs about CallbackBroker: the broker and its service change the      *)
(* records only through operations of CallbackRecord, so that all that is  *)
(* proved of CallbackRecord holds beside a running broker; and what the    *)
(* broker's rows and the service's workers know follows the records.       *)
(***************************************************************************)
EXTENDS CallbackBroker, CallbackRecord_proofs

\* A worker changes the records by a relay, or not at all.
LEMMA WorkerOperates ==
    ASSUME NEW w \in Workers, WorkerStep(w)
    PROVE  [Next]_vars
<1>1. w \in Agents
  BY AgentsAssumption
<1>2. ASSUME NEW c \in Callbacks, RelayStep(w, c)
      PROVE  Next
  BY <1>1, <1>2 DEF RelayStep, Next, Operation
<1>3. CASE StartCycle(w) \/ SyncEnqueue(w) \/ SyncMirror(w) \/ EndPhase(w)
           \/ ClaimDue(w) \/ CheckRow(w) \/ FinishAttempt(w) \/ LeaseLost(w)
           \/ Reread(w) \/ DeferWatch(w)
  <2>1. UNCHANGED vars
    BY <1>3
    DEF StartCycle, SyncEnqueue, SyncMirror, EndPhase, ClaimDue, CheckRow,
        FinishAttempt, LeaseLost, Reread, DeferWatch
  <2>2. QED
    BY <2>1
<1>4. ASSUME NEW c \in Callbacks,
             \/ SyncRead(w, c)
             \/ ReconcileDelivery(w, c)
             \/ ReadStatus(w, c)
             \/ RelayAwaits(w, c)
             \/ RelayRaises(w, c)
      PROVE  UNCHANGED vars
  BY <1>4
  DEF SyncRead, ReconcileDelivery, ReadStatus, RelayAwaits, RelayRaises
<1>5. QED
  BY <1>2, <1>3, <1>4 DEF WorkerStep

\* Every step of the broker, its service and its clients is one of the records,
\* or leaves them alone.
LEMMA BrokerSteps == [BrokerNext]_allVars => [Next]_vars
<1> SUFFICES ASSUME [BrokerNext]_allVars PROVE [Next]_vars
  OBVIOUS
<1>1. ASSUME NEW a \in Clients, NEW c \in Callbacks, ClientStep(a, c)
      PROVE  Next
  BY <1>1, AgentsAssumption DEF ClientStep, Next
<1>2. ASSUME NEW a \in Clients, ClientCrash(a)
      PROVE  Next
  <2>1. {a} \in SUBSET Agents
    BY AgentsAssumption
  <2>2. QED
    BY <1>2, <2>1 DEF ClientCrash, Next
<1>3. CASE ServiceRestart
  <2>1. Workers \in SUBSET Agents
    BY AgentsAssumption
  <2>2. QED
    BY <1>3, <2>1 DEF ServiceRestart, Next
<1>4. ASSUME NEW c \in Callbacks,
             \/ TtlPasses(c) /\ UNCHANGED brokerVars
             \/ LeaseLapses(c)
             \/ BecomesDue(c)
      PROVE  [Next]_vars
  BY <1>4 DEF LeaseLapses, BecomesDue, Next
<1>5. CASE UNCHANGED allVars
  BY <1>5 DEF allVars
<1>6. QED
  BY <1>1, <1>2, <1>3, <1>4, <1>5, WorkerOperates DEF BrokerNext

\* The broker is an environment the records allow for.
THEOREM BrokerImplementsRecord == BrokerSpec => Spec
<1>1. BrokerInit => Init
  BY DEF BrokerInit
<1>2. QED
  BY <1>1, BrokerSteps, PTL DEF BrokerSpec, Spec

\* No drain, claim, watch, reconcile request or restart of the service sends a
\* second copy of a message, beyond one for each crash that lost its record.
THEOREM BrokerAtMostOnce == BrokerSpec => []AtMostOncePerCrash
BY BrokerImplementsRecord, AtMostOnce

\* Beside a running broker, and whichever of its workers die, a callback still
\* keeps the promise of OneShotCallback: one outcome, and one copy of the message
\* beside the excused ones.
THEOREM BrokerKeepsPromise == BrokerSpec => Implements
BY BrokerImplementsRecord, Refinement, PTL

-----------------------------------------------------------------------------
(***************************************************************************)
(* What a row, or what a worker has read, says of a status that only moves *)
(* forward: it may be out of date, never ahead.                            *)
(***************************************************************************)
Agrees(known, status) ==
    /\ known \in Terminal => status = known
    /\ known \in Watched \union {"delivery-indeterminate"} =>
          status \in {"sent", "delivery-indeterminate"} \union Terminal

LEMMA AgreesStays ==
    ASSUME IInv, NEW a \in Agents, NEW c \in Callbacks, Operation(a, c),
           NEW d \in Callbacks, NEW known, Agrees(known, Status(d))
    PROVE  Agrees(known, Status(d)')
<1>1. RecordStep(c) /\ TypeOK
  BY OperationRecords DEF IInv
<1>2. CASE d = c
  BY <1>1, <1>2, StatusMoves DEF Agrees, Terminal, Expirable
<1>3. CASE d # c
  BY <1>1, <1>3, StatusMoves DEF Status
<1>4. QED
  BY <1>2, <1>3

\* The message of row r was delivered, or its callback is settled.
Passed(r) == r.state \in Watched \union Terminal

\* What a transaction of the store may make of row r, which is about a callback
\* in this status.
RowMoves(r, s, status) ==
    \/ s = r
    \/ s = Enqueued(r)
    \/ \E seen \in Statuses :
          Agrees(seen, status) /\ s \in {Mirrored(r, seen), Deferred(Mirrored(r, seen))}
    \/ \E w \in Workers : s \in {ClaimedBy(w, r), ClaimedBy(w, [r EXCEPT !.due = TRUE])}
    \/ \E result \in {"retry_wait", "expired"} \union Watched :
          r.state = "delivering" /\ Agrees(result, status) /\ s = Finished(r, result)
    \/ r.state = "delivering" /\ s = [r EXCEPT !.lapsed = TRUE]
    \/ s = [r EXCEPT !.due = TRUE]

\* Row s is a row, still not ahead of the status, and not back in the queue.
Follows(r, s, status) ==
    s \in Rows /\ Agrees(s.state, status) /\ (Passed(r) => Passed(s))

LEMMA RowMovesOK ==
    ASSUME NEW r \in Rows, NEW s, NEW status \in Statuses,
           Agrees(r.state, status), RowMoves(r, s, status)
    PROVE  Follows(r, s, status)
<1>0. Follows(r, r, status)
  BY DEF Follows
<1>1. Follows(r, Enqueued(r), status)
  BY DEF Follows, Rows, Agrees, Passed, Watched, Claimable, Terminal, Enqueued, NoRow
<1>2. ASSUME NEW m, Follows(r, m, status)
      PROVE  Follows(r, Deferred(m), status)
  BY <1>2 DEF Follows, Rows, Passed, Deferred
<1>3. ASSUME NEW seen \in Statuses, Agrees(seen, status)
      PROVE  Follows(r, Mirrored(r, seen), status)
  BY <1>3 DEF Follows, Rows, Agrees, Passed, Watched, Claimable, Terminal, Mirrored
<1>4. ASSUME NEW due \in BOOLEAN
      PROVE  Follows(r, [r EXCEPT !.due = due], status)
  BY DEF Follows, Rows, Passed
<1>5. ASSUME NEW w \in Workers, NEW m, Follows(r, m, status), m.state = r.state
      PROVE  Follows(r, ClaimedBy(w, m), status)
  BY <1>5
  DEF Follows, Rows, Agrees, Passed, Watched, Claimable, Terminal, ClaimedBy,
      CanClaim, Lapse
<1>6. ASSUME NEW result \in {"retry_wait", "expired"} \union Watched,
             r.state = "delivering", Agrees(result, status)
      PROVE  Follows(r, Finished(r, result), status)
  BY <1>6
  DEF Follows, Rows, Agrees, Passed, Watched, Claimable, Terminal, Finished
<1>7. Follows(r, [r EXCEPT !.lapsed = TRUE], status)
  BY DEF Follows, Rows, Passed
<1>8. [r EXCEPT !.due = TRUE].state = r.state
  BY DEF Rows
<1>9. CASE \E w \in Workers :
              s \in {ClaimedBy(w, r), ClaimedBy(w, [r EXCEPT !.due = TRUE])}
  BY <1>0, <1>4, <1>5, <1>8, <1>9
<1>10. CASE \E seen \in Statuses :
              /\ Agrees(seen, status)
              /\ s \in {Mirrored(r, seen), Deferred(Mirrored(r, seen))}
  BY <1>2, <1>3, <1>10
<1>11. QED
  BY <1>0, <1>1, <1>4, <1>6, <1>7, <1>9, <1>10 DEF RowMoves

-----------------------------------------------------------------------------
(***************************************************************************)
(* Every step moves each row as RowMoves says.                             *)
(***************************************************************************)
\* What worker t knows is not ahead of the records rec; what it watches was
\* delivered, by the rows rw.
Beyond == {"check", "relay", "reread", "defer"}
Knows(t, rec, rw) ==
    /\ Agrees(t.seen, rec[t.cb].status)
    /\ Agrees(t.result, rec[t.cb].status)
    /\ t.at # "finish" => t.result = "retry_wait"
    /\ t.phase = "watch" => /\ \A c \in t.todo : Passed(rw[c])
                            /\ t.at \in Beyond => Passed(rw[t.cb])

\* A watch has nothing in flight; no worker holds a lock but in a relay.
Quiet(w) ==
    /\ task[w].phase = "watch" => proc[w].at \in {"idle", "mirror"}
    /\ task[w].at # "relay" => proc[w].at = "idle"

\* The inductive invariant of records, rows and workers.
BrokerInv ==
    /\ IInv
    /\ BrokerTypeOK
    /\ \A c \in Callbacks : Agrees(row[c].state, Status(c))
    /\ \A w \in Workers : Knows(task[w], record, row) /\ Quiet(w)

LEMMA BrokerTyped ==
    ASSUME BrokerInv
    PROVE  /\ row \in [Callbacks -> Rows] /\ task \in [Workers -> Tasks]
           /\ \A c \in Callbacks : Status(c) \in Statuses /\ Agrees(Status(c), Status(c))
           /\ \A w \in Workers : w \in Agents
<1>1. \A status \in Statuses : Agrees(status, status)
  BY DEF Agrees, Statuses, Expirable, Terminal, Watched
<1>2. QED
  BY <1>1, AgentsAssumption DEF BrokerInv, BrokerTypeOK, TypeOK, Status, Records

\* The step moves every row as RowMoves allows.
Moves == \A c \in Callbacks : RowMoves(row[c], row'[c], Status(c))

LEMMA OneRowMoves ==
    ASSUME BrokerInv, NEW c \in Callbacks, NEW s, SetRow(c, s),
           RowMoves(row[c], s, Status(c))
    PROVE  Moves
BY BrokerTyped DEF SetRow, Moves, RowMoves

LEMMA EffectMoves ==
    ASSUME BrokerInv, NEW a \in Agents, NEW c \in Callbacks, RowEffect(a, c)
    PROVE  Moves
<1>1. CASE row' = row
  BY <1>1 DEF Moves, RowMoves
<1>2. CASE SetRow(c, Enqueued(row[c]))
  BY <1>2, OneRowMoves DEF RowMoves
<1>3. CASE SetRow(c, Mirrored(row[c], Status(c)))
  BY <1>3, OneRowMoves, BrokerTyped DEF RowMoves
<1>4. QED
  BY <1>1, <1>2, <1>3 DEF RowEffect

LEMMA WorkerMoves ==
    ASSUME BrokerInv, NEW w \in Workers, WorkerStep(w)
    PROVE  Moves
<1>0. /\ task[w] \in Tasks /\ Knows(task[w], record, row) /\ w \in Agents
      /\ task[w].cb \in Callbacks /\ task[w].seen \in Statuses
      /\ Agrees(task[w].seen, Status(task[w].cb))
      /\ Agrees(task[w].result, Status(task[w].cb))
      /\ task[w].result \in {"retry_wait", "expired"} \union Watched
  BY BrokerTyped DEF BrokerInv, Knows, Tasks, Status
<1>1. CASE row' = row
  BY <1>1 DEF Moves, RowMoves
<1>2. CASE SyncEnqueue(w)
  BY <1>0, <1>2, OneRowMoves DEF SyncEnqueue, RowMoves
<1>3. CASE SyncMirror(w) \/ CheckRow(w)
  BY <1>0, <1>3, OneRowMoves DEF SyncMirror, CheckRow, RowMoves
<1>4. CASE DeferWatch(w)
  BY <1>0, <1>4, OneRowMoves DEF DeferWatch, RowMoves
<1>5. CASE FinishAttempt(w)
  BY <1>0, <1>5, OneRowMoves DEF FinishAttempt, OwnsLease, RowMoves
<1>6. CASE ClaimDue(w)
  BY <1>6 DEF ClaimDue, Moves, RowMoves
<1>7. ASSUME NEW c \in Callbacks, ReconcileDelivery(w, c), row' # row
      PROVE  Moves
  <2>1. \/ SetRow(c, ClaimedBy(w, row[c]))
        \/ SetRow(c, ClaimedBy(w, [row[c] EXCEPT !.due = TRUE]))
    BY <1>7 DEF ReconcileDelivery
  <2>2. QED
    BY <2>1, OneRowMoves DEF RowMoves
<1>8. ASSUME NEW c \in Callbacks, RelayStep(w, c) PROVE Moves
  BY <1>0, <1>8, EffectMoves DEF RelayStep
<1>9. QED
  BY <1>1, <1>2, <1>3, <1>4, <1>5, <1>6, <1>7, <1>8
  DEF WorkerStep, StartCycle, EndPhase, LeaseLost, Reread, SyncRead, ReadStatus,
      RelayAwaits, RelayRaises

LEMMA BrokerMoves == BrokerInv /\ [BrokerNext]_allVars => Moves
<1> SUFFICES ASSUME BrokerInv, [BrokerNext]_allVars PROVE Moves
  OBVIOUS
<1>1. CASE row' = row
  BY <1>1 DEF Moves, RowMoves
<1>2. ASSUME NEW a \in Clients, NEW c \in Callbacks, ClientStep(a, c)
      PROVE  Moves
  BY <1>2, EffectMoves, AgentsAssumption DEF ClientStep
<1>3. ASSUME NEW c \in Callbacks, LeaseLapses(c) PROVE Moves
  BY <1>3, OneRowMoves DEF LeaseLapses, RowMoves
<1>4. ASSUME NEW c \in Callbacks, BecomesDue(c) PROVE Moves
  BY <1>4, OneRowMoves DEF BecomesDue, RowMoves
<1>5. QED
  BY <1>1, <1>2, <1>3, <1>4, WorkerMoves
  DEF BrokerNext, allVars, brokerVars, ClientCrash, ServiceRestart

\* So the rows stay rows, and none goes back in the queue.
LEMMA RowsFollow ==
    ASSUME BrokerInv, [BrokerNext]_allVars, NEW c \in Callbacks
    PROVE  Follows(row[c], row'[c], Status(c))
BY BrokerMoves, BrokerTyped, RowMovesOK DEF Moves, BrokerInv

-----------------------------------------------------------------------------
(***************************************************************************)
(* What the workers know stays true, and a watch has nothing to send.      *)
(***************************************************************************)
LEMMA RestingKnows ==
    /\ Resting \in Tasks
    /\ \A rec, rw : Knows(Resting, rec, rw)
<1>1. Idle.cb \in Callbacks
  BY IdleTyped DEF Processes
<1>2. QED
  BY <1>1
  DEF Resting, Tasks, TaskSteps, Kinds, Phases, Statuses, Knows, Agrees,
      Watched, Terminal

\* A worker may go on from u: what u says agrees with the records and rows.
Good(u) == u \in Tasks /\ Knows(u, record, row)

\* A worker that turns to its next callback knows nothing of it yet.
LEMMA FreshGood ==
    ASSUME NEW u \in Tasks, u.seen = "absent", u.result = "retry_wait",
           u.phase = "watch" => u.at \notin Beyond /\ \A c \in u.todo : Passed(row[c])
    PROVE  Good(u)
BY DEF Good, Knows, Agrees, Watched, Terminal

\* A worker goes on with a callback whose status it has read, or is to read.
LEMMA GoesGood ==
    ASSUME NEW t \in Tasks, Knows(t, record, row), NEW u \in Tasks,
           u.todo \in SUBSET t.todo, u.phase = t.phase,
           Agrees(u.seen, Status(u.cb)), u.result = "retry_wait",
           u.phase = "watch" /\ u.at \in Beyond => Passed(row[u.cb])
    PROVE  Good(u)
BY DEF Good, Knows, Status, Agrees, Terminal, Watched

LEMMA NextJobGood ==
    ASSUME BrokerInv, NEW w \in Workers
    PROVE  Good(NextJob(w))
<1>1. task[w] \in Tasks /\ Knows(task[w], record, row)
  BY BrokerTyped DEF BrokerInv
<1>2. /\ NextJob(w) \in Tasks /\ NextJob(w).at = "next"
      /\ NextJob(w).seen = "absent" /\ NextJob(w).result = "retry_wait"
      /\ NextJob(w).phase = task[w].phase
      /\ NextJob(w).todo \in SUBSET task[w].todo
  BY <1>1, RestingKnows DEF NextJob, Tasks, TaskSteps, Resting
<1>3. QED
  BY <1>1, <1>2, FreshGood DEF Knows, Beyond

\* A worker that leaves the records to the others is outside any relay.
LEMMA WorkerKnows ==
    ASSUME BrokerInv, NEW w \in Workers, WorkerStep(w),
           \A c \in Callbacks : ~RelayStep(w, c)
    PROVE  /\ proc[w].at = "idle" /\ UNCHANGED vars
           /\ \E u : Good(u) /\ SetTask(w, u)
<1> DEFINE t == task[w]
<1>0. /\ t \in Tasks /\ Knows(t, record, row)
      /\ t.cb \in Callbacks /\ t.todo \in SUBSET Callbacks
      /\ Agrees(t.seen, Status(t.cb)) /\ Agrees(t.result, Status(t.cb))
      /\ t.at # "finish" => t.result = "retry_wait"
      /\ t.phase = "watch" => /\ \A c \in t.todo : Passed(row[c])
                              /\ t.at \in Beyond => Passed(row[t.cb])
  BY BrokerTyped DEF BrokerInv, Tasks, Knows, Status
<1>1. proc[w].at = "idle" /\ UNCHANGED vars
  <2>1. Quiet(w)
    BY DEF BrokerInv
  <2>2. QED
    BY <2>1
    DEF WorkerStep, StartCycle, SyncEnqueue, SyncMirror, EndPhase, ClaimDue,
        CheckRow, FinishAttempt, LeaseLost, Reread, DeferWatch, SyncRead,
        ReconcileDelivery, ReadStatus, RelayAwaits, RelayRaises, Does, Enters, Quiet
<1>2. Good(NextJob(w)) /\ Good(Resting)
  BY RestingKnows, NextJobGood DEF Good
<1> SUFFICES \E u : Good(u) /\ SetTask(w, u)
  BY <1>1
<1> USE DEF TaskSteps, Kinds, Phases
<1>3. CASE StartCycle(w)
  <2>1. PICK kind \in {"cycle", "sync"} :
           SetTask(w, [Resting EXCEPT !.at = "next", !.kind = kind, !.todo = Callbacks])
    BY <1>3 DEF StartCycle
  <2> DEFINE u == [Resting EXCEPT !.at = "next", !.kind = kind, !.todo = Callbacks]
  <2>2. u \in Tasks /\ u.seen = "absent" /\ u.result = "retry_wait" /\ u.phase = "sync"
    BY RestingKnows DEF Tasks, Resting
  <2> HIDE DEF u
  <2>3. Good(u)
    BY <2>2, FreshGood
  <2>4. QED
    BY <2>1, <2>3 DEF u
<1>4. CASE \/ SyncMirror(w) \/ FinishAttempt(w) \/ LeaseLost(w) \/ DeferWatch(w)
  BY <1>2, <1>4 DEF SyncMirror, FinishAttempt, LeaseLost, DeferWatch
<1>5. CASE SyncEnqueue(w)
  <2> DEFINE u == [t EXCEPT !.at = "mirror"]
  <2>1. /\ u \in Tasks /\ u.at = "mirror" /\ u.phase = t.phase /\ u.cb = t.cb
        /\ u.seen = t.seen /\ u.result = t.result /\ u.todo = t.todo
    BY <1>0 DEF Tasks
  <2>2. t.at = "enqueue" /\ SetTask(w, u)
    BY <1>5 DEF SyncEnqueue, Does
  <2> HIDE DEF u
  <2>3. Good(u)
    BY <1>0, <2>1, <2>2, GoesGood DEF Beyond
  <2>4. QED
    BY <2>2, <2>3
<1>6. CASE EndPhase(w)
  <2> DEFINE u == [t EXCEPT !.at = "claim"]
             v == [t EXCEPT !.phase = "watch", !.todo = DueWatches]
  <2>0. t.at = "next" /\ (SetTask(w, Resting) \/ SetTask(w, u) \/ SetTask(w, v))
    BY <1>6 DEF EndPhase, Does
  <2>1. /\ u \in Tasks /\ u.at = "claim" /\ u.phase = t.phase /\ u.cb = t.cb
        /\ u.seen = t.seen /\ u.result = t.result /\ u.todo = t.todo
    BY <1>0 DEF Tasks
  <2>2. DueWatches \in SUBSET Callbacks /\ \A c \in DueWatches : Passed(row[c])
    BY DEF DueWatches, Passed
  <2>3. /\ v \in Tasks /\ v.at = t.at /\ v.phase = "watch" /\ v.cb = t.cb
        /\ v.seen = t.seen /\ v.result = t.result /\ v.todo = DueWatches
    BY <1>0, <2>2 DEF Tasks
  <2> HIDE DEF u, v
  <2>4. Good(u)
    BY <1>0, <2>0, <2>1, GoesGood DEF Beyond
  <2>5. t.at = "next" => Good(v)
    BY <1>0, <2>2, <2>3 DEF Good, Knows, Beyond, Status
  <2>6. QED
    BY <1>2, <2>0, <2>4, <2>5
<1>7. CASE ClaimDue(w)
  <2> DEFINE S == {c \in Callbacks : CanClaim(row[c])}
             u == [t EXCEPT !.at = "next", !.phase = "deliver", !.todo = S]
  <2>1. /\ u \in Tasks /\ u.phase = "deliver" /\ u.cb = t.cb
        /\ u.seen = t.seen /\ u.result = t.result
    BY <1>0 DEF Tasks
  <2>2. t.at = "claim" /\ SetTask(w, u)
    BY <1>7 DEF ClaimDue, Does
  <2> HIDE DEF u
  <2>3. Good(u)
    BY <1>0, <2>1, <2>2 DEF Good, Knows, Status
  <2>4. QED
    BY <2>2, <2>3
<1>8. CASE CheckRow(w)
  <2> DEFINE u == [t EXCEPT !.at = "relay", !.seen = "absent"]
  <2>1. /\ u \in Tasks /\ u.at = "relay" /\ u.phase = t.phase /\ u.cb = t.cb
        /\ u.seen = "absent" /\ u.result = t.result /\ u.todo = t.todo
    BY <1>0 DEF Tasks, Statuses
  <2>2. t.at = "check" /\ (SetTask(w, NextJob(w)) \/ SetTask(w, u))
    BY <1>8 DEF CheckRow, Does
  <2> HIDE DEF u
  <2>3. Agrees(u.seen, Status(u.cb))
    BY <2>1 DEF Agrees, Terminal, Watched
  <2>4. t.at = "check" => Good(u)
    BY <1>0, <2>1, <2>3, GoesGood DEF Beyond
  <2>5. QED
    BY <1>2, <2>2, <2>4
<1>9. CASE Reread(w)
  <2> DEFINE u == [t EXCEPT !.at = "defer", !.seen = Status(t.cb)]
  <2>1. /\ u \in Tasks /\ u.at = "defer" /\ u.phase = t.phase /\ u.cb = t.cb
        /\ u.seen = Status(t.cb) /\ u.result = t.result /\ u.todo = t.todo
    BY <1>0, BrokerTyped DEF Tasks
  <2>2. t.at = "reread" /\ SetTask(w, u)
    BY <1>9 DEF Reread, Does
  <2> HIDE DEF u
  <2>3. Good(u)
    BY <1>0, <2>1, <2>2, BrokerTyped, GoesGood DEF Beyond
  <2>4. QED
    BY <2>2, <2>3
<1>10. ASSUME NEW c \in Callbacks, SyncRead(w, c) \/ ReadStatus(w, c)
       PROVE  \E u : Good(u) /\ SetTask(w, u)
  <2>1. CASE \E at \in {"enqueue", "check"} :
                /\ SetTask(w, [t EXCEPT !.at = at, !.cb = c, !.seen = Status(c)])
                /\ c \in t.todo
                /\ t.at = "next"
    <3>1. PICK at \in {"enqueue", "check"} :
             SetTask(w, [t EXCEPT !.at = at, !.cb = c, !.seen = Status(c)])
      BY <2>1
    <3> DEFINE u == [t EXCEPT !.at = at, !.cb = c, !.seen = Status(c)]
    <3>2. /\ u \in Tasks /\ u.at = at /\ u.phase = t.phase /\ u.cb = c
          /\ u.seen = Status(c) /\ u.result = t.result /\ u.todo = t.todo
      BY <1>0, BrokerTyped DEF Tasks
    <3> HIDE DEF u
    <3>3. Good(u)
      BY <1>0, <2>1, <3>2, BrokerTyped, GoesGood
    <3>4. QED
      BY <3>1, <3>3 DEF u
  <2>2. CASE t.at = "next" /\ SetTask(w, [t EXCEPT !.todo = @ \ {c}])
    <3> DEFINE u == [t EXCEPT !.todo = @ \ {c}]
    <3>1. /\ u \in Tasks /\ u.at = t.at /\ u.phase = t.phase /\ u.cb = t.cb
          /\ u.seen = t.seen /\ u.result = t.result /\ u.todo = t.todo \ {c}
      BY <1>0 DEF Tasks
    <3> HIDE DEF u
    <3>2. Good(u)
      BY <1>0, <2>2, <3>1, GoesGood DEF Beyond
    <3>3. QED
      BY <2>2, <3>2 DEF u
  <2>3. QED
    BY <1>10, <2>1, <2>2 DEF SyncRead, ReadStatus, Does
<1>11. ASSUME NEW c \in Callbacks, ReconcileDelivery(w, c)
       PROVE  \E u : Good(u) /\ SetTask(w, u)
  <2> DEFINE job == [Resting EXCEPT !.at = "next", !.kind = "reconcile", !.todo = {c}]
             u == [job EXCEPT !.phase = "watch"]
             v == [job EXCEPT !.phase = "deliver"]
  <2>1. \/ SetTask(w, u) /\ row[c].state \in Watched
        \/ SetTask(w, v)
        \/ SetTask(w, Resting)
    BY <1>11 DEF ReconcileDelivery
  <2>2. job \in Tasks /\ job.at = "next" /\ job.todo = {c}
        /\ job.seen = "absent" /\ job.result = "retry_wait"
    BY RestingKnows DEF Tasks, Resting
  <2> HIDE DEF job
  <2>3. /\ u \in Tasks /\ u.at = "next" /\ u.todo = {c}
        /\ u.seen = "absent" /\ u.result = "retry_wait"
    BY <2>2 DEF Tasks
  <2>4. /\ v \in Tasks /\ v.seen = "absent" /\ v.result = "retry_wait"
        /\ v.phase = "deliver"
    BY <2>2 DEF Tasks
  <2> HIDE DEF u, v
  <2>5. row[c].state \in Watched => Good(u)
    BY <2>3, FreshGood DEF Beyond, Passed
  <2>6. Good(v)
    BY <2>4, FreshGood
  <2>7. QED
    BY <1>2, <2>1, <2>5, <2>6
<1>12. ASSUME NEW c \in Callbacks, NEW result \in {"retry_wait", "indeterminate"},
              t.at = "relay", t.cb = c, Agrees(result, Status(c))
       PROVE  Good(Relayed(w, result))
  <2> DEFINE u == [t EXCEPT !.at = "reread"]
             v == [t EXCEPT !.at = "finish", !.result = result]
  <2>1. /\ u \in Tasks /\ u.at = "reread" /\ u.phase = t.phase /\ u.cb = t.cb
        /\ u.seen = t.seen /\ u.result = t.result /\ u.todo = t.todo
    BY <1>0 DEF Tasks
  <2>2. /\ v \in Tasks /\ v.at = "finish" /\ v.phase = t.phase /\ v.cb = t.cb
        /\ v.seen = t.seen /\ v.result = result
    BY <1>0 DEF Tasks, Watched
  <2>3. Relayed(w, result) = IF t.phase = "watch" THEN u ELSE v
    BY DEF Relayed
  <2> HIDE DEF u, v
  <2>4. Good(u)
    BY <1>0, <1>12, <2>1, GoesGood DEF Beyond
  <2>5. t.phase # "watch" => Good(v)
    BY <1>0, <1>12, <2>2 DEF Good, Knows, Status
  <2>6. QED
    BY <2>3, <2>4, <2>5
<1>13. ASSUME NEW c \in Callbacks, RelayAwaits(w, c)
       PROVE  \E u : Good(u) /\ SetTask(w, u)
  <2>1. /\ t.at = "relay" /\ t.cb = c /\ Agrees("indeterminate", Status(c))
        /\ SetTask(w, Relayed(w, "indeterminate"))
    BY <1>13 DEF RelayAwaits, Does, Agrees, Terminal
  <2>2. QED
    BY <1>12, <2>1
<1>14. ASSUME NEW c \in Callbacks, RelayRaises(w, c)
       PROVE  \E u : Good(u) /\ SetTask(w, u)
  <2> DEFINE u == [t EXCEPT !.at = "defer", !.seen = "absent"]
  <2>1. /\ u \in Tasks /\ u.at = "defer" /\ u.phase = t.phase /\ u.cb = t.cb
        /\ u.seen = "absent" /\ u.result = t.result /\ u.todo = t.todo
    BY <1>0 DEF Tasks, Statuses
  <2>2. /\ t.at = "relay" /\ t.cb = c /\ Agrees("retry_wait", Status(c))
        /\ Agrees("absent", Status(c))
        /\ \/ SetTask(w, u)
           \/ SetTask(w, Resting)
           \/ SetTask(w, Relayed(w, "retry_wait"))
    BY <1>14 DEF RelayRaises, Does, Agrees, Terminal, Watched
  <2> HIDE DEF u
  <2>3. Good(u)
    BY <1>0, <2>1, <2>2, GoesGood DEF Beyond
  <2>4. QED
    BY <1>2, <1>12, <2>2, <2>3
<1>15. QED
  BY <1>3, <1>4, <1>5, <1>6, <1>7, <1>8, <1>9, <1>10, <1>11, <1>13, <1>14
  DEF WorkerStep

LEMMA KnowsStays ==
    ASSUME BrokerInv, [BrokerNext]_allVars
    PROVE  /\ \A known : \A d \in Callbacks :
                 Agrees(known, Status(d)) => Agrees(known, Status(d)')
           /\ \A u \in Tasks : Knows(u, record, row) => Knows(u, record', row')
<1>1. [Next]_vars /\ IInv
  BY BrokerSteps DEF BrokerInv
<1>2. \/ \E a \in Agents, c \in Callbacks : Operation(a, c)
      \/ UNCHANGED record
  BY <1>1 DEF Next, vars, TtlPasses, Crash
<1>3. ASSUME NEW known, NEW d \in Callbacks, Agrees(known, Status(d))
      PROVE  Agrees(known, Status(d)')
  <2>1. CASE UNCHANGED record
    BY <1>3, <2>1 DEF Status
  <2>2. QED
    BY <1>1, <1>2, <1>3, <2>1, AgreesStays
<1>4. \A d \in Callbacks : Passed(row[d]) => Passed(row'[d])
  BY RowsFollow DEF Follows
<1>5. ASSUME NEW u \in Tasks, Knows(u, record, row)
      PROVE  Knows(u, record', row')
  <2>1. u.cb \in Callbacks /\ u.todo \in SUBSET Callbacks
    BY DEF Tasks
  <2>2. /\ Agrees(u.seen, record'[u.cb].status)
        /\ Agrees(u.result, record'[u.cb].status)
    BY <1>3, <1>5, <2>1 DEF Knows, Status
  <2>3. QED
    BY <1>4, <1>5, <2>1, <2>2 DEF Knows
<1>6. QED
  BY <1>3, <1>5

\* A relay of the service: what it returns is what the record says by then, and
\* in a watch it finds nothing to send.
LEMMA RelayKnows ==
    ASSUME BrokerInv, [BrokerNext]_allVars, NEW w \in Workers, NEW c \in Callbacks,
           RelayStep(w, c)
    PROVE  /\ Operation(w, c)
           /\ task'[w] \in Tasks /\ Knows(task'[w], record', row') /\ Quiet(w)'
           /\ \A v \in Workers \ {w} : task'[v] = task[v]
<1> DEFINE t == task[w]
<1>0. /\ t \in Tasks /\ Knows(t, record, row) /\ Quiet(w)
      /\ t.at = "relay" /\ t.cb = c
      /\ task \in [Workers -> Tasks] /\ w \in Agents
  BY BrokerTyped DEF BrokerInv, RelayStep, Does
<1>1. Operation(w, c)
  BY DEF RelayStep, Operation
<1>2. Knows(t, record', row')
  BY <1>0, KnowsStays
<1>3. Status(c)' \in Statuses
  <2>1. TypeOK'
    BY BrokerSteps, NextTyped DEF BrokerInv, IInv
  <2>2. QED
    BY <2>1 DEF TypeOK, Status, Records
<1>4. ASSUME t.phase = "watch"
      PROVE  proc'[w].at \in {"idle", "mirror"}
  <2>1. Status(c) \in {"sent", "delivery-indeterminate"} \union Terminal
    <3>1. Passed(row[c]) /\ Agrees(row[c].state, Status(c))
      BY <1>0, <1>4 DEF Knows, Beyond, BrokerInv
    <3>2. QED
      BY <3>1 DEF Passed, Agrees
  <2>2. proc[w].at \in {"idle", "mirror"}
    BY <1>0, <1>4 DEF Quiet
  <2>3. ExpireIfNeeded(w, c) \/ MirrorBrokerState(w, c)
    BY <2>1, <2>2
    DEF RelayStep, Terminal, EnqueueWithBroker, Refuse, RefuseAfterAccept,
        StaysPending, FallBackToTerminal, Transmit, RecordResult, At
  <2>4. CASE ExpireIfNeeded(w, c)
    BY <1>0, <2>4, HoldLands DEF ExpireIfNeeded, Settle, BrokerInv, IInv
  <2>5. CASE MirrorBrokerState(w, c)
    BY <1>0, <2>5, ReturnLands DEF MirrorBrokerState, BrokerInv, IInv
  <2>6. QED
    BY <2>3, <2>4, <2>5
<1>5. CASE proc'[w].at # "idle"
  <2>1. UNCHANGED task
    BY <1>5 DEF RelayStep
  <2>2. QED
    BY <1>0, <1>1, <1>2, <1>4, <2>1 DEF Quiet
<1>6. CASE proc'[w].at = "idle"
  <2> DEFINE result == ResultOf(Status(c)')
             u == [t EXCEPT !.at = "reread"]
             v == [t EXCEPT !.at = "finish", !.result = result]
  <2>1. task' = [task EXCEPT ![w] = IF t.phase = "watch" THEN u ELSE v]
    BY <1>6 DEF RelayStep, SetTask, Relayed, Status
  <2>2. /\ result \in {"retry_wait", "expired"} \union Watched
        /\ Agrees(result, Status(c)')
    BY <1>3 DEF ResultOf, Agrees, Watched, Terminal, Statuses, Expirable
  <2> HIDE DEF result
  <2>3. /\ u \in Tasks /\ u.at = "reread" /\ u.phase = t.phase /\ u.cb = t.cb
        /\ u.seen = t.seen /\ u.result = t.result /\ u.todo = t.todo
    BY <1>0 DEF Tasks, TaskSteps
  <2>4. /\ v \in Tasks /\ v.at = "finish" /\ v.phase = t.phase /\ v.cb = t.cb
        /\ v.seen = t.seen /\ v.result = result
    BY <1>0, <2>2 DEF Tasks, TaskSteps
  <2> HIDE DEF u, v
  <2>5. Knows(u, record', row')
    BY <1>0, <1>2, <2>3 DEF Knows, Beyond
  <2>6. t.phase # "watch" => Knows(v, record', row')
    BY <1>0, <1>2, <2>2, <2>4 DEF Knows, Status
  <2>7. task'[w] = (IF t.phase = "watch" THEN u ELSE v)
        /\ \A x \in Workers \ {w} : task'[x] = task[x]
    BY <1>0, <2>1
  <2>8. QED
    BY <1>1, <1>6, <2>3, <2>4, <2>5, <2>6, <2>7 DEF Quiet
<1>7. QED
  BY <1>5, <1>6

-----------------------------------------------------------------------------
LEMMA BrokerInvInit == BrokerInit => BrokerInv
<1> SUFFICES ASSUME BrokerInit PROVE BrokerInv
  OBVIOUS
<1>1. IInv
  BY IInvInit DEF BrokerInit
<1>2. NoRow \in Rows /\ \A status : Agrees(NoRow.state, status)
  BY DEF NoRow, Rows, Agrees, Terminal, Watched
<1>3. \A w \in Workers : proc[w] = Idle /\ Idle.at = "idle"
  BY AgentsAssumption DEF BrokerInit, Init, Idle
<1>4. Resting.at = "rest" /\ Resting.phase = "sync"
  BY DEF Resting
<1>5. \A w \in Workers : Knows(task[w], record, row) /\ Quiet(w)
  BY <1>3, <1>4, RestingKnows DEF BrokerInit, Quiet
<1>6. QED
  BY <1>1, <1>2, <1>5, RestingKnows DEF BrokerInit, BrokerInv, BrokerTypeOK, IInv

\* The workers that a step is not about keep what they know.
LEMMA OthersKnow ==
    ASSUME BrokerInv, [BrokerNext]_allVars, NEW w \in Workers,
           task'[w] = task[w], proc'[w] = proc[w]
    PROVE  task'[w] \in Tasks /\ Knows(task'[w], record', row') /\ Quiet(w)'
BY KnowsStays, BrokerTyped DEF BrokerInv, Quiet

LEMMA WorkersStay ==
    ASSUME BrokerInv, [BrokerNext]_allVars, NEW w \in Workers
    PROVE  task'[w] \in Tasks /\ Knows(task'[w], record', row') /\ Quiet(w)'
<1> DEFINE P == task'[w] \in Tasks /\ Knows(task'[w], record', row') /\ Quiet(w)'
<1>0. w \in Agents /\ task \in [Workers -> Tasks] /\ TypeOK
      /\ Clients \intersect Workers = {} /\ \A a \in Clients : a \in Agents
  BY BrokerTyped, AgentsAssumption, RolesAssumption DEF BrokerInv, IInv
<1>1. CASE task' = task /\ proc' = proc
  BY <1>1, OthersKnow
<1>2. ASSUME NEW a \in Clients,
             ClientCrash(a) \/ \E c \in Callbacks : ClientStep(a, c)
      PROVE  P
  <2>1. task' = task /\ a # w
    BY <1>0, <1>2 DEF ClientCrash, ClientStep, brokerVars
  <2>2. proc'[w] = proc[w]
    BY <1>0, <1>2, <2>1, OperationActs DEF ClientCrash, ClientStep, Crash, Acts
  <2>3. QED
    BY <2>1, <2>2, OthersKnow
<1>3. CASE ServiceRestart
  <2>1. task'[w] = Resting /\ proc'[w] = Idle
    BY <1>0, <1>3 DEF ServiceRestart, Crash
  <2>2. Resting.phase = "sync" /\ Idle.at = "idle"
    BY DEF Resting, Idle
  <2>3. QED
    BY <2>1, <2>2, RestingKnows DEF Quiet
<1>4. ASSUME NEW v \in Workers, NEW c \in Callbacks, RelayStep(v, c)
      PROVE  P
  <2>1. CASE v = w
    BY <1>4, <2>1, RelayKnows
  <2>2. CASE v # w
    <3>1. task'[w] = task[w] /\ Operation(v, c) /\ v \in Agents
      BY <1>4, <2>2, RelayKnows, BrokerTyped
    <3>2. proc'[w] = proc[w]
      BY <1>0, <2>2, <3>1, OperationActs DEF Acts
    <3>3. QED
      BY <3>1, <3>2, OthersKnow
  <2>3. QED
    BY <2>1, <2>2
<1>5. ASSUME NEW v \in Workers, WorkerStep(v), \A c \in Callbacks : ~RelayStep(v, c)
      PROVE  P
  <2>1. /\ proc[v].at = "idle" /\ proc' = proc
        /\ \E u : Good(u) /\ SetTask(v, u)
    BY <1>5, WorkerKnows DEF vars
  <2>2. PICK u : Good(u) /\ SetTask(v, u)
    BY <2>1
  <2>3. CASE v = w
    <3>1. task'[w] = u
      BY <1>0, <2>2, <2>3 DEF SetTask
    <3>2. Knows(u, record', row') /\ u \in Tasks
      BY <2>2, KnowsStays DEF Good
    <3>3. QED
      BY <2>1, <2>3, <3>1, <3>2 DEF Quiet
  <2>4. CASE v # w
    BY <1>0, <2>1, <2>2, <2>4, OthersKnow DEF SetTask
  <2>5. QED
    BY <2>3, <2>4
<1>6. ASSUME NEW c \in Callbacks,
             \/ TtlPasses(c) /\ UNCHANGED brokerVars
             \/ LeaseLapses(c)
             \/ BecomesDue(c)
      PROVE  task' = task /\ proc' = proc
  BY <1>6 DEF TtlPasses, LeaseLapses, BecomesDue, brokerVars, vars
<1>7. CASE UNCHANGED allVars
  BY <1>1, <1>7 DEF allVars, brokerVars, vars
<1>8. QED
  BY <1>1, <1>2, <1>3, <1>4, <1>5, <1>6, <1>7 DEF BrokerNext

\* A step changes the rows, the workers and alive in one of a few forms, and no
\* callback's target.
LEMMA BrokerShape ==
    ASSUME alive \in BOOLEAN, [BrokerNext]_allVars,
           \A w \in Workers : task[w].cb \in Callbacks
    PROVE  /\ \/ row' = row
              \/ \E c \in Callbacks : \E s : SetRow(c, s)
              \/ \E w \in Workers : row' = [c \in Callbacks |-> ClaimedBy(w, row[c])]
           /\ \/ task' = task
              \/ \E w \in Workers : \E u : SetTask(w, u)
              \/ task' = [w \in Workers |-> Resting]
           /\ alive' \in BOOLEAN /\ targeted' = targeted
<1>1. ASSUME NEW a, NEW c \in Callbacks, RowEffect(a, c)
      PROVE  row' = row \/ \E s : SetRow(c, s)
  BY <1>1 DEF RowEffect
<1>2. ASSUME NEW w \in Workers, WorkerStep(w), task[w].cb \in Callbacks
      PROVE  /\ \/ row' = row
                \/ \E c \in Callbacks : \E s : SetRow(c, s)
                \/ row' = [c \in Callbacks |-> ClaimedBy(w, row[c])]
             /\ task' = task \/ \E u : SetTask(w, u)
             /\ alive' \in BOOLEAN /\ targeted' = targeted
  <2>1. CASE StartCycle(w) \/ EndPhase(w) \/ Reread(w)
    BY <2>1 DEF StartCycle, EndPhase, Reread
  <2>2. CASE SyncEnqueue(w) \/ SyncMirror(w) \/ CheckRow(w) \/ FinishAttempt(w)
             \/ DeferWatch(w)
    BY <1>2, <2>2 DEF SyncEnqueue, SyncMirror, CheckRow, FinishAttempt, DeferWatch
  <2>3. CASE ClaimDue(w)
    BY <2>3 DEF ClaimDue
  <2>4. CASE LeaseLost(w)
    BY <2>4 DEF LeaseLost
  <2>5. ASSUME NEW c \in Callbacks, SyncRead(w, c) \/ ReadStatus(w, c)
                                    \/ RelayAwaits(w, c) \/ RelayRaises(w, c)
        PROVE  row' = row /\ (\E u : SetTask(w, u)) /\ alive' = alive /\ targeted' = targeted
    BY <2>5 DEF SyncRead, ReadStatus, RelayAwaits, RelayRaises
  <2>6. ASSUME NEW c \in Callbacks, ReconcileDelivery(w, c)
        PROVE  /\ row' = row \/ \E s : SetRow(c, s)
               /\ (\E u : SetTask(w, u)) /\ alive' = alive /\ targeted' = targeted
    BY <2>6 DEF ReconcileDelivery
  <2>7. ASSUME NEW c \in Callbacks, RelayStep(w, c)
        PROVE  /\ row' = row \/ \E s : SetRow(c, s)
               /\ task' = task \/ \E u : SetTask(w, u)
               /\ alive' = alive /\ targeted' = targeted
    BY <1>1, <2>7 DEF RelayStep
  <2>8. QED
    BY <1>2, <2>1, <2>2, <2>3, <2>4, <2>5, <2>6, <2>7 DEF WorkerStep
<1>3. QED
  BY <1>1, <1>2
  DEF BrokerNext, ClientCrash, ClientStep, ServiceRestart, LeaseLapses, BecomesDue,
      brokerVars, allVars

LEMMA BrokerInvStep == BrokerInv /\ [BrokerNext]_allVars => BrokerInv'
<1> SUFFICES ASSUME BrokerInv, [BrokerNext]_allVars PROVE BrokerInv'
  OBVIOUS
<1>0. /\ alive \in BOOLEAN /\ \A w \in Workers : task[w].cb \in Callbacks
      /\ row \in [Callbacks -> Rows] /\ task \in [Workers -> Tasks]
  BY BrokerTyped DEF BrokerInv, BrokerTypeOK, Tasks
<1>1. IInv'
  BY BrokerSteps, IInvNext DEF BrokerInv
<1>2. \A c \in Callbacks : row'[c] \in Rows /\ Agrees(row'[c].state, Status(c)')
  BY RowsFollow, KnowsStays DEF Follows
<1>3. \A w \in Workers :
         task'[w] \in Tasks /\ Knows(task'[w], record', row') /\ Quiet(w)'
  BY WorkersStay
<1>4. alive' \in BOOLEAN /\ targeted' = targeted
  BY <1>0, BrokerShape
<1>5. row' = [c \in Callbacks |-> row'[c]] /\ task' = [w \in Workers |-> task'[w]]
  BY <1>0, BrokerShape DEF SetRow, SetTask
<1>6. QED
  BY <1>1, <1>2, <1>3, <1>4, <1>5 DEF BrokerInv, BrokerTypeOK, IInv

\* The inductive invariant: rows and what workers have read are never ahead of
\* the records, and a watch has nothing left to send.
THEOREM BrokerSafe == BrokerSpec => []BrokerInv
BY BrokerInvInit, BrokerInvStep, PTL DEF BrokerSpec

\* Records, rows and workers stay well typed.
THEOREM BrokerTypes == BrokerSpec => []BrokerTypeOK
<1>1. BrokerInv => BrokerTypeOK
  BY DEF BrokerInv
<1>2. QED
  BY <1>1, BrokerSafe, PTL

\* A row says settled, or delivered, only once its record does, whatever stale
\* status a sync, a claim or a watch carries into its mirror, and however leases
\* lapse and the service restarts.
THEOREM BrokerFollows == BrokerSpec => []BrokerNeverAhead
<1>1. BrokerInv => BrokerNeverAhead
  BY DEF BrokerInv, BrokerNeverAhead, Agrees
<1>2. QED
  BY <1>1, BrokerSafe, PTL

\* The relay a watch calls enforces the TTL and never gets to a transport.
THEOREM BrokerWatches == BrokerSpec => []WatchOnlyObserves
<1>1. BrokerInv => WatchOnlyObserves
  BY DEF BrokerInv, Quiet, WatchOnlyObserves
<1>2. QED
  BY <1>1, BrokerSafe, PTL

\* No step puts a delivered or settled row back in the queue.
THEOREM BrokerDeliversOnce == BrokerSpec => NeverRequeued
<1>1. BrokerInv /\ [BrokerNext]_allVars =>
         [\A c \in Callbacks :
             row[c].state \in Watched \union Terminal =>
                 row'[c].state \in Watched \union Terminal]_allVars
  BY RowsFollow DEF Follows, Passed
<1>2. QED
  BY <1>1, BrokerSafe, PTL DEF BrokerSpec, NeverRequeued
=============================================================================
