---------------------------- MODULE WriterDispatch ----------------------------
(***************************************************************************)
(* Dispatching editing tasks to workers in one worktree                    *)
(* (src/lib/sin_orca/dispatch.py) under the repository's writer            *)
(* reservation (writer_reservation.py), and the commands that give the     *)
(* reservation back (cancel and complete of cli.py).                       *)
(*                                                                         *)
(* dispatch_task takes no lease and holds the reservation's lock only      *)
(* while it takes the reservation: everything else runs alongside the      *)
(* dispatch of other tasks, and alongside a cancel of its own.  Each of    *)
(* its calls may raise, and the process may be killed between any two.     *)
(* A task's log is reduced to its status and to the worker.spawned event;  *)
(* what the gates of complete say is TaskController's subject.             *)
(***************************************************************************)
EXTENDS Naturals, FiniteSets

CONSTANTS
    Tasks,          \* the ids of the tasks, one dispatch each
    None            \* no task

ASSUME NoneAssumption == None \notin Tasks

VARIABLES
    reservation,    \* the task in writer-reservation.json, or None
    holder,         \* the dispatch that holds the reservation's lock, or None
    file,           \* the tasks that have a task.json
    baseline,       \* the tasks that have a baseline ref
    status,         \* reduce_events of each task's log
    spawned,        \* the tasks whose log has worker.spawned
    ended,          \* the tasks whose log has task.failed or task.cancelled
    worker,         \* the terminal of each task's worker
    dispatch,       \* where each dispatch is
    command,        \* where the controller's command on each task is
    loose           \* ghost: the tasks whose worker may outlive their reservation

vars == <<reservation, holder, file, baseline, status, spawned, ended, worker,
          dispatch, command, loose>>
log == <<status, spawned, ended>>

Statuses == {"unknown", "created", "running", "completed", "cancelled", "failed"}
Ended == {"completed", "cancelled", "failed", "unknown"}
Running == {"acquire", "reserve", "baseline", "save", "create", "terminal",
            "prompt", "send", "record", "fail", "rollback", "giveback"}

WriterTypeOK ==
    /\ reservation \in Tasks \union {None}
    /\ holder \in Tasks \union {None}
    /\ file \subseteq Tasks /\ baseline \subseteq Tasks
    /\ status \in [Tasks -> Statuses]
    /\ spawned \subseteq Tasks /\ ended \subseteq Tasks
    /\ worker \in [Tasks -> {"none", "prompted", "stopped"}]
    /\ dispatch \in [Tasks -> Running \union {"none", "done", "died", "undone"}]
    /\ command \in [Tasks -> {"none", "cancel", "complete", "check", "release"}]
    /\ loose \subseteq Tasks

Init ==
    /\ reservation = None /\ holder = None
    /\ file = {} /\ baseline = {}
    /\ status = [t \in Tasks |-> "unknown"]
    /\ spawned = {} /\ ended = {}
    /\ worker = [t \in Tasks |-> "none"]
    /\ dispatch = [t \in Tasks |-> "none"]
    /\ command = [t \in Tasks |-> "none"]
    /\ loose = {}

-----------------------------------------------------------------------------
At(t, here) == dispatch[t] = here
Goes(t, there) == dispatch' = [dispatch EXCEPT ![t] = there]
Commands(t, there) == command' = [command EXCEPT ![t] = there]
Says(t, s) == status' = [status EXCEPT ![t] = s]
Loosens(S) == loose' = loose \union S

(***************************************************************************)
(* acquire_writer, in the lock: what the log of the owner says is read     *)
(* before the reservation is written, and no lock keeps the log as it is.  *)
(***************************************************************************)
\* Mutant: the reservation of any owner is taken over.
OwnerIsDone(t) == TRUE

\* _owner_is_terminal.  A task without a log counts as one that has ended.
OwnerIsTerminal(t) == status[t] \in Ended

Dispatch(t) ==
    /\ At(t, "none")
    /\ Goes(t, "acquire")
    /\ UNCHANGED <<reservation, holder, file, baseline, log, worker, command, loose>>

\* The reservation is free, or its owner has ended: its dispatch may yet run.
Grant(t) ==
    /\ At(t, "acquire") /\ holder = None
    /\ reservation # None => OwnerIsTerminal(reservation)
    /\ holder' = t
    /\ Loosens({u \in Tasks : u = reservation /\ dispatch[u] \in Running})
    /\ Goes(t, "reserve")
    /\ UNCHANGED <<reservation, file, baseline, log, worker, command>>

\* WriterReservationConflict: nothing was created.
Conflict(t) ==
    /\ At(t, "acquire") /\ holder = None
    /\ reservation # None /\ ~OwnerIsTerminal(reservation)
    /\ Goes(t, "undone")
    /\ UNCHANGED <<reservation, holder, file, baseline, log, worker, command, loose>>

Reserve(t) ==
    /\ At(t, "reserve")
    /\ reservation' = t
    /\ holder' = None
    /\ Goes(t, "baseline")
    /\ UNCHANGED <<file, baseline, log, worker, command, loose>>

-----------------------------------------------------------------------------
(***************************************************************************)
(* dispatch_task, once the reservation is taken.                           *)
(***************************************************************************)
\* create_baseline_commit snapshots the worktree and names the snapshot.
CreateBaseline(t) ==
    /\ At(t, "baseline")
    /\ baseline' = baseline \union {t}
    /\ Goes(t, "save")
    /\ UNCHANGED <<reservation, holder, file, log, worker, command, loose>>

\* Mutant: the log begins before the task is saved.
CreateUnsaved(t) ==
    /\ At(t, "save")
    /\ Says(t, "created")
    /\ Goes(t, "terminal")
    /\ UNCHANGED <<reservation, holder, file, baseline, spawned, ended, worker,
                   command, loose>>

SaveTask(t) ==
    /\ At(t, "save")
    /\ file' = file \union {t}
    /\ Goes(t, "create")
    /\ UNCHANGED <<reservation, holder, baseline, log, worker, command, loose>>

RecordCreated(t) ==
    /\ At(t, "create")
    /\ Says(t, "created")
    /\ Goes(t, "terminal")
    /\ UNCHANGED <<reservation, holder, file, baseline, spawned, ended, worker,
                   command, loose>>

\* A new terminal in the worktree, not one that was there before.
CreateTerminal(t) ==
    /\ At(t, "terminal")
    /\ Goes(t, "prompt")
    /\ UNCHANGED <<reservation, holder, file, baseline, log, worker, command, loose>>

\* The prompt is a file the worker is sent a pointer to.
WritePrompt(t) ==
    /\ At(t, "prompt")
    /\ Goes(t, "send")
    /\ UNCHANGED <<reservation, holder, file, baseline, log, worker, command, loose>>

\* The send may time out with the pointer delivered.
SendPrompt(t) ==
    /\ At(t, "send")
    /\ worker' = [worker EXCEPT ![t] = "prompted"]
    /\ \/ Goes(t, "record") /\ UNCHANGED loose
       \/ Goes(t, "fail") /\ Loosens({t})
    /\ UNCHANGED <<reservation, holder, file, baseline, log, command>>

RecordSpawned(t) ==
    /\ At(t, "record")
    /\ spawned' = spawned \union {t}
    /\ Says(t, "running")
    /\ Goes(t, "done")
    /\ UNCHANGED <<reservation, holder, file, baseline, ended, worker, command, loose>>

-----------------------------------------------------------------------------
(***************************************************************************)
(* What a failure leaves behind.                                           *)
(***************************************************************************)
\* A reservation that cannot be written is not the dispatch's to roll back.
\* Until the task is created a call that raises is rolled back, with the
\* terminal and the send it is first recorded, and a prompt file that cannot be
\* written, or an event that cannot be appended after that, is neither.
Raise(t) ==
    /\ \/ At(t, "reserve") /\ Goes(t, "undone")
       \/ dispatch[t] \in {"baseline", "save", "create"} /\ Goes(t, "rollback")
       \/ dispatch[t] \in {"terminal", "send"} /\ Goes(t, "fail")
       \/ dispatch[t] \in {"prompt", "record", "fail"} /\ Goes(t, "died")
    /\ holder' = IF holder = t THEN None ELSE holder
    /\ UNCHANGED <<reservation, file, baseline, log, worker, command, loose>>

\* Mutant: the failure is logged under the stage it happened in.
RecordStage(t) ==
    /\ At(t, "fail")
    /\ Says(t, "worker-prompt-send")
    /\ ended' = ended \union {t}
    /\ Goes(t, "rollback")
    /\ UNCHANGED <<reservation, holder, file, baseline, spawned, worker, command, loose>>

RecordFailed(t) ==
    /\ At(t, "fail")
    /\ Says(t, "failed")
    /\ ended' = ended \union {t}
    /\ Goes(t, "rollback")
    /\ UNCHANGED <<reservation, holder, file, baseline, spawned, worker, command, loose>>

\* release_writer, in the lock: only the reservation of the task itself.
Releases(t) ==
    /\ holder = None
    /\ reservation' = IF reservation = t THEN None ELSE reservation

\* Mutant: a dispatch whose baseline stays keeps its reservation too.
RollbackOrKeep(t) ==
    /\ At(t, "rollback")
    /\ \/ baseline' = baseline \ {t} /\ Goes(t, "giveback")
       \/ UNCHANGED baseline /\ Goes(t, "undone")
    /\ UNCHANGED <<reservation, holder, file, log, worker, command, loose>>

\* rollback_dispatch_resources.  A ref that git does not delete stays, unnoticed.
RollbackBaseline(t) ==
    /\ At(t, "rollback")
    /\ baseline' \in {baseline, baseline \ {t}}
    /\ Goes(t, "giveback")
    /\ UNCHANGED <<reservation, holder, file, log, worker, command, loose>>

RollbackWriter(t) ==
    /\ At(t, "giveback")
    /\ Releases(t)
    /\ Goes(t, "undone")
    /\ UNCHANGED <<holder, file, baseline, log, worker, command, loose>>

\* The process is killed: a lock it holds is free.
Kill(t) ==
    /\ dispatch[t] \in Running
    /\ holder' = IF holder = t THEN None ELSE holder
    /\ Goes(t, "died")
    /\ UNCHANGED <<reservation, file, baseline, log, worker, command, loose>>

-----------------------------------------------------------------------------
(***************************************************************************)
(* cancel and complete, one command at a time on each task.                *)
(***************************************************************************)
Starts(t) == command[t] = "none" /\ t \in file

\* A worker is told to stop if worker.spawned has its terminal and it answers.
Cancel(t) ==
    /\ Starts(t)
    /\ status[t] # "completed"
    /\ IF status[t] = "cancelled" THEN Commands(t, "check") /\ UNCHANGED <<worker, loose>>
       ELSE /\ Commands(t, "cancel")
            /\ \/ /\ t \in spawned
                  /\ worker' = [worker EXCEPT ![t] = "stopped"]
                  /\ UNCHANGED loose
               \/ UNCHANGED worker /\ Loosens({t})
    /\ UNCHANGED <<reservation, holder, file, baseline, log, dispatch>>

RecordCancelled(t) ==
    /\ command[t] = "cancel"
    /\ Says(t, "cancelled")
    /\ ended' = ended \union {t}
    /\ Commands(t, "check")
    /\ UNCHANGED <<reservation, holder, file, baseline, spawned, worker, dispatch, loose>>

\* The gates want a worker that has reported, and so works no more, a
\* reservation, a baseline, and a log without an end.
Complete(t) ==
    /\ Starts(t)
    /\ t \in spawned \ ended /\ t \in baseline
    /\ reservation = t /\ holder = None
    /\ worker' = [worker EXCEPT ![t] = "stopped"]
    /\ Commands(t, "complete")
    /\ UNCHANGED <<reservation, holder, file, baseline, log, dispatch, loose>>

RecordCompleted(t) ==
    /\ command[t] = "complete"
    /\ Says(t, "completed")
    /\ Commands(t, "check")
    /\ UNCHANGED <<reservation, holder, file, baseline, spawned, ended, worker,
                   dispatch, loose>>

\* _release_task_writer looks before it releases, each time in the lock.
CheckWriter(t) ==
    /\ command[t] = "check" /\ holder = None
    /\ Commands(t, IF reservation = t THEN "release" ELSE "none")
    /\ UNCHANGED <<reservation, holder, file, baseline, log, worker, dispatch, loose>>

Release(t) ==
    /\ command[t] = "release"
    /\ Releases(t)
    /\ Commands(t, "none")
    /\ UNCHANGED <<holder, file, baseline, log, worker, dispatch, loose>>

\* The command is killed, or a call of it raises.
Abort(t) ==
    /\ command[t] # "none"
    /\ Commands(t, "none")
    /\ UNCHANGED <<reservation, holder, file, baseline, log, worker, dispatch, loose>>

\* Any later event about the worker moves the status on, from an end too.
News(t) ==
    /\ t \in spawned
    /\ Says(t, "running")
    /\ UNCHANGED <<reservation, holder, file, baseline, spawned, ended, worker,
                   dispatch, command, loose>>

Next == \E t \in Tasks :
    \/ Dispatch(t) \/ Grant(t) \/ Conflict(t) \/ Reserve(t)
    \/ CreateBaseline(t) \/ SaveTask(t) \/ RecordCreated(t) \/ CreateTerminal(t)
    \/ WritePrompt(t) \/ SendPrompt(t) \/ RecordSpawned(t)
    \/ Raise(t) \/ RecordFailed(t) \/ RollbackBaseline(t) \/ RollbackWriter(t) \/ Kill(t)
    \/ Cancel(t) \/ RecordCancelled(t) \/ Complete(t) \/ RecordCompleted(t)
    \/ CheckWriter(t) \/ Release(t) \/ Abort(t) \/ News(t)

Spec == Init /\ [][Next]_vars

-----------------------------------------------------------------------------
(***************************************************************************)
(* Properties.                                                             *)
(***************************************************************************)
\* "Only one editing task may hold the repository writer reservation at a time"
\* is of use if a worker that may edit holds it.  It does, but for the worker of
\* a task whose dispatch was overtaken: another dispatch or a cancel saw it
\* before its log did, its prompt timed out, or a cancel could not reach it.
WorkerHoldsWriter ==
    \A t \in Tasks : worker[t] = "prompted" /\ t \notin loose => reservation = t

\* No reservation is stuck: its task has ended for the next dispatch, or it can
\* be cancelled, or its dispatch still runs, wherever that one was killed.
WriterRecoverable ==
    reservation # None =>
        \/ OwnerIsTerminal(reservation)
        \/ reservation \in file
        \/ dispatch[reservation] \in Running

\* A dispatch that was refused or rolled back holds no reservation, though it may
\* leave a baseline ref and a terminal nobody was told of.
UndoneHoldsNothing == \A t \in Tasks : dispatch[t] = "undone" => reservation # t
=============================================================================
