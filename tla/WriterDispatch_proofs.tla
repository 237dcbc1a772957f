------------------------- MODULE WriterDispatch_proofs -------------------------
(***************************************************************************)
(* Proofs about WriterDispatch, for any number of tasks.                   *)
(***************************************************************************)
EXTENDS WriterDispatch, TLAPS

\* The reservation is no longer what keeps the worker of t from editing.
Gone(t) == t \in loose \/ worker[t] = "stopped"

\* The dispatch has taken the reservation and not yet given it back.
Holding == {"baseline", "save", "create", "terminal", "prompt", "send",
            "record", "fail", "rollback", "giveback"}

\* The lock is held by the dispatch between its look and its write.
LockHeld == \A t \in Tasks : holder = t <=> dispatch[t] = "reserve"

\* A dispatch that has not reserved, or has given back, owns nothing.
NotYet == \A t \in Tasks :
    dispatch[t] \in {"none", "acquire", "reserve", "undone"} => reservation # t

\* A log and a command begin after task.json is there.
Saved == \A t \in Tasks :
    \/ dispatch[t] \in {"create", "terminal", "prompt", "send", "record", "fail", "done"}
    \/ status[t] # "unknown"
    \/ command[t] # "none"
    => t \in file

\* worker.spawned is the last event of a dispatch, and a worker stops after it.
SpawnedLast == \A t \in Tasks :
    /\ t \in spawned => dispatch[t] = "done"
    /\ worker[t] = "stopped" => t \in spawned

\* No worker before its prompt, and no failure with one that is accounted for.
PromptedLate == \A t \in Tasks :
    /\ dispatch[t] \in {"none", "acquire", "reserve", "baseline", "save", "create",
                        "terminal", "prompt", "send"} => worker[t] = "none"
    /\ dispatch[t] \in {"fail", "rollback", "giveback"} =>
          worker[t] = "none" \/ t \in loose

\* A log without events is one of a dispatch that created no worker.
Logged == \A t \in Tasks :
    /\ dispatch[t] \in {"terminal", "prompt", "send", "record", "fail", "done"} =>
          status[t] # "unknown"
    /\ status[t] = "unknown" => worker[t] = "none"

\* A task that has ended has no worker that the reservation still covers.
EndedGone == \A t \in Tasks :
    /\ status[t] \in {"completed", "cancelled"} => Gone(t)
    /\ status[t] = "failed" =>
          \/ Gone(t)
          \/ /\ worker[t] = "none"
             /\ dispatch[t] \in {"rollback", "giveback", "undone", "died"}
    /\ command[t] # "none" => Gone(t)

\* What a dispatch is about to overwrite covers no worker.
TakenOver == \A t \in Tasks :
    reservation = t /\ holder # None =>
        \/ t \in loose
        \/ worker[t] # "prompted" /\ dispatch[t] \notin Running

\* A dispatch at work holds the reservation, unless it was overtaken.
HeldThrough == \A t \in Tasks :
    dispatch[t] \in Holding /\ t \notin loose => reservation = t

WriterInv ==
    /\ WriterTypeOK
    /\ LockHeld /\ NotYet /\ Saved /\ SpawnedLast /\ PromptedLate /\ Logged
    /\ EndedGone /\ TakenOver /\ HeldThrough
    /\ WorkerHoldsWriter

\* Every leaf below needs the parts of the invariant and the frames.
USE NoneAssumption DEF WriterInv, WriterTypeOK, LockHeld, NotYet, Saved, SpawnedLast,
    PromptedLate, Logged, EndedGone, TakenOver, HeldThrough, WorkerHoldsWriter,
    Gone, Holding, Running, Statuses, Ended, OwnerIsTerminal, At, Goes, Commands,
    Says, Loosens, Starts, Releases, log

\* No task has been dispatched.
LEMMA WriterInvInit == Init => WriterInv
BY DEF Init

\* Every step of a dispatch and of a command keeps the invariant.
LEMMA WriterInvStep == WriterInv /\ [Next]_vars => WriterInv'
<1> SUFFICES ASSUME WriterInv, [Next]_vars PROVE WriterInv'
    OBVIOUS
<1>1. ASSUME NEW t \in Tasks, Dispatch(t) PROVE WriterInv'
    BY <1>1 DEF Dispatch
<1>2. ASSUME NEW t \in Tasks, Grant(t) PROVE WriterInv'
    BY <1>2 DEF Grant
<1>3. ASSUME NEW t \in Tasks, Conflict(t) PROVE WriterInv'
    BY <1>3 DEF Conflict
<1>4. ASSUME NEW t \in Tasks, Reserve(t) PROVE WriterInv'
    BY <1>4 DEF Reserve
<1>5. ASSUME NEW t \in Tasks, CreateBaseline(t) PROVE WriterInv'
    BY <1>5 DEF CreateBaseline
<1>6. ASSUME NEW t \in Tasks, SaveTask(t) PROVE WriterInv'
    BY <1>6 DEF SaveTask
<1>7. ASSUME NEW t \in Tasks, RecordCreated(t) PROVE WriterInv'
    BY <1>7 DEF RecordCreated
<1>8. ASSUME NEW t \in Tasks, CreateTerminal(t) PROVE WriterInv'
    BY <1>8 DEF CreateTerminal
<1>9. ASSUME NEW t \in Tasks, WritePrompt(t) PROVE WriterInv'
    BY <1>9 DEF WritePrompt
<1>10. ASSUME NEW t \in Tasks, SendPrompt(t) PROVE WriterInv'
    BY <1>10 DEF SendPrompt
<1>11. ASSUME NEW t \in Tasks, RecordSpawned(t) PROVE WriterInv'
    BY <1>11 DEF RecordSpawned
<1>12. ASSUME NEW t \in Tasks, Raise(t) PROVE WriterInv'
    BY <1>12 DEF Raise
<1>13. ASSUME NEW t \in Tasks, RecordFailed(t) PROVE WriterInv'
    BY <1>13 DEF RecordFailed
<1>14. ASSUME NEW t \in Tasks, RollbackBaseline(t) PROVE WriterInv'
    BY <1>14 DEF RollbackBaseline
<1>15. ASSUME NEW t \in Tasks, RollbackWriter(t) PROVE WriterInv'
    BY <1>15 DEF RollbackWriter
<1>16. ASSUME NEW t \in Tasks, Kill(t) PROVE WriterInv'
    BY <1>16 DEF Kill
<1>17. ASSUME NEW t \in Tasks, Cancel(t) PROVE WriterInv'
    BY <1>17 DEF Cancel
<1>18. ASSUME NEW t \in Tasks, RecordCancelled(t) PROVE WriterInv'
    BY <1>18 DEF RecordCancelled
<1>19. ASSUME NEW t \in Tasks, Complete(t) PROVE WriterInv'
    BY <1>19 DEF Complete
<1>20. ASSUME NEW t \in Tasks, RecordCompleted(t) PROVE WriterInv'
    BY <1>20 DEF RecordCompleted
<1>21. ASSUME NEW t \in Tasks, CheckWriter(t) PROVE WriterInv'
    BY <1>21 DEF CheckWriter
<1>22. ASSUME NEW t \in Tasks, Release(t) PROVE WriterInv'
    BY <1>22 DEF Release
<1>23. ASSUME NEW t \in Tasks, Abort(t) PROVE WriterInv'
    BY <1>23 DEF Abort
<1>24. ASSUME NEW t \in Tasks, News(t) PROVE WriterInv'
    BY <1>24 DEF News
<1>25. CASE UNCHANGED vars
    BY <1>25 DEF vars
<1> QED
    BY <1>1, <1>2, <1>3, <1>4, <1>5, <1>6, <1>7, <1>8, <1>9, <1>10, <1>11, <1>12, <1>13, <1>14, <1>15, <1>16, <1>17, <1>18, <1>19, <1>20, <1>21, <1>22, <1>23, <1>24, <1>25 DEF Next

\* The inductive invariant holds of every behaviour of dispatches and commands.
THEOREM WriterInvariant == Spec => []WriterInv
<1> QED
    BY WriterInvInit, WriterInvStep, PTL DEF Spec

-----------------------------------------------------------------------------
\* WriterTypeOK, for any number of tasks: what dispatch.py and
\* writer_reservation.py keep stays of its type.
THEOREM WriterTyped == Spec => []WriterTypeOK
<1>1. WriterInv => WriterTypeOK
    OBVIOUS
<1> QED
    BY <1>1, WriterInvariant, PTL

\* A worker that may edit holds the reservation, unless its dispatch was
\* overtaken, its prompt timed out or a cancel could not reach it.
THEOREM WriterHeld == Spec => []WorkerHoldsWriter
<1>1. WriterInv => WorkerHoldsWriter
    OBVIOUS
<1> QED
    BY <1>1, WriterInvariant, PTL

\* Wherever a dispatch dies, its reservation can be taken over or cancelled: a
\* task with a log has a task.json, and one without counts as ended.
THEOREM WriterFree == Spec => []WriterRecoverable
<1>1. WriterInv => WriterRecoverable
    BY DEF WriterRecoverable
<1> QED
    BY <1>1, WriterInvariant, PTL

\* A dispatch that was refused or rolled back holds no reservation.
THEOREM WriterUndone == Spec => []UndoneHoldsNothing
<1>1. WriterInv => UndoneHoldsNothing
    BY DEF UndoneHoldsNothing
<1> QED
    BY <1>1, WriterInvariant, PTL
=============================================================================
