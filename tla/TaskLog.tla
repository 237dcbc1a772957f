------------------------------- MODULE TaskLog -------------------------------
(***************************************************************************)
(* What the controller reads out of a task's event log: the reduction of   *)
(* src/lib/sin_orca/state.py and the merge gates of                        *)
(* src/lib/sin_orca/gates.py, as operators on a sequence of events.        *)
(*                                                                         *)
(* An event is reduced to what a gate tells apart.  kind is the type of a  *)
(* callback, step the number of the step it is about (0 for none), diff    *)
(* the state of the worktree it speaks of, ok what it claims: a green      *)
(* verification, an accepting review, a complete report.  The hash chain   *)
(* of the log, identities, timestamps and texts are left out.              *)
(***************************************************************************)
EXTENDS Naturals, Sequences, FiniteSets

CONSTANTS
    MaxSteps,       \* the longest list of steps of a task
    MaxDiff,        \* worktree states are 0 (the baseline) .. MaxDiff
    OutOfScope,     \* the worktree states that touch a path outside the task's
    TalkKinds       \* the callbacks that only report progress

ASSUME LogBounds == MaxSteps \in Nat /\ MaxDiff \in Nat
ASSUME ScopeAssumption == OutOfScope \subseteq 1..MaxDiff
ASSUME TalkAssumption ==
    TalkKinds \subseteq {"discovery", "question", "blocked", "child-dispatched"}

Diffs == 0..MaxDiff
Steps == 0..MaxSteps
Kinds == {"none", "ack", "checkpoint", "done"} \union TalkKinds
Actors == {"worker", "reviewer", "codex", "controller"}
EventTypes ==
    {"task.created", "worker.spawned", "reviewer.spawned", "callback",
     "checkpoint.received", "worker.report.received", "review.completed",
     "codex.sent", "codex.interrupted", "codex.approved", "codex.followup",
     "task.suspended", "task.resumed", "verification.completed",
     "worker.blocked", "worker.stalled", "worker.recovered",
     "task.completed", "task.cancelled", "task.failed"}

Events == [type : EventTypes, actor : Actors, kind : Kinds, step : Steps,
           diff : Diffs, ok : BOOLEAN]

Event(t, a) == [type |-> t, actor |-> a, kind |-> "none", step |-> 0,
                diff |-> 0, ok |-> TRUE]

\* The immutable task.json.  An implementer has one checkpoint per step.
Tasks == [role : {"explorer", "librarian", "implementer", "reviewer"},
          mode : {"stepwise", "continuous-preauthorized"}, edits : BOOLEAN,
          steps : Steps, checkpoints : Steps]

-----------------------------------------------------------------------------
(***************************************************************************)
(* reduce_events.                                                          *)
(***************************************************************************)
\* A checkpoint or child-dispatched callback leaves the status alone.
SetsStatus(e) ==
    ~(e.type = "callback" /\ e.kind \in {"checkpoint", "child-dispatched"})

CallbackStatus(e) ==
    CASE e.kind = "ack" -> "worker-acknowledged"
      [] e.kind = "done" /\ e.actor = "reviewer" -> "review-callback-received"
      [] e.kind = "done" -> "worker-callback-received"
      [] e.kind = "blocked" -> "worker-blocked"
      [] e.kind = "question" -> "worker-question-received"
      [] OTHER -> "worker-discovery-received"

StatusAfter(e) ==
    CASE e.type = "callback" -> CallbackStatus(e)
      [] e.type = "task.created" -> "created"
      [] e.type = "worker.spawned" -> "awaiting-ack"
      [] e.type = "reviewer.spawned" -> "review-running"
      [] e.type = "checkpoint.received" -> "checkpoint"
      [] e.type = "task.suspended" -> "suspended"
      [] e.type = "worker.report.received" -> "report-received"
      [] e.type = "verification.completed" -> "verification-complete"
      [] e.type = "review.completed" -> "review-complete"
      [] e.type = "worker.blocked" -> "worker-blocked"
      [] e.type = "worker.stalled" -> "worker-stalled"
      [] e.type = "task.completed" -> "completed"
      [] e.type = "task.cancelled" -> "cancelled"
      [] e.type = "task.failed" -> "failed"
      [] OTHER -> "worker-running"

Latest(S) == CHOOSE i \in S : \A j \in S : j <= i
Earliest(S) == CHOOSE i \in S : \A j \in S : i <= j

\* The status of the task is what its latest event says.
Status(log) ==
    LET telling == {i \in DOMAIN log : SetsStatus(log[i])}
    IN  IF telling = {} THEN "unknown" ELSE StatusAfter(log[Latest(telling)])

-----------------------------------------------------------------------------
(***************************************************************************)
(* The places of the events a gate looks for.                              *)
(***************************************************************************)
Of(log, t, a) == {i \in DOMAIN log : log[i].type = t /\ log[i].actor = a}
AnyOf(log, t) == {i \in DOMAIN log : log[i].type = t}
Callbacks(log, a, k) == {i \in Of(log, "callback", a) : log[i].kind = k}
StepCallbacks(log, s) ==
    {i \in Callbacks(log, "worker", "checkpoint") : log[i].step = s}
Checkpoints(log, s) ==
    {i \in Of(log, "checkpoint.received", "worker") : log[i].step = s}
Approvals(log, s) ==
    {i \in Of(log, "codex.approved", "codex") : log[i].step = s}
Reports(log) == Of(log, "worker.report.received", "worker")
Verifications(log) == Of(log, "verification.completed", "controller")
Spawns(log) == Of(log, "reviewer.spawned", "reviewer")
Reviews(log) == Of(log, "review.completed", "reviewer")
Completions(log) == Of(log, "task.completed", "controller")

\* The steps of the events of one type, in the order they were recorded.
StepsOf(log, t) ==
    LET upto[n \in 0..Len(log)] ==
            IF n = 0 THEN <<>>
            ELSE IF log[n].type = t THEN Append(upto[n - 1], log[n].step)
            ELSE upto[n - 1]
    IN  upto[Len(log)]

Received(log) == StepsOf(log, "checkpoint.received")
Approved(log) == StepsOf(log, "codex.approved")
FirstSteps(n) == [i \in 1..n |-> i]

HasActor(log, a) ==
    IF a = "worker" THEN AnyOf(log, "worker.spawned") # {} ELSE Spawns(log) # {}

\* The payload the ledger keeps is the latest one.
Current(log, S) == log[Latest(S)]

Single(S) == \E i \in S : S = {i}
The(S) == CHOOSE i \in S : TRUE

\* Every place of S comes before every place of T.
Before(S, T) == \A i \in S, j \in T : i < j

-----------------------------------------------------------------------------
(***************************************************************************)
(* execution_protocol_errors: the worker followed its protocol.            *)
(***************************************************************************)
Stepwise(task) == task.mode = "stepwise"

\* A read-only audit may omit checkpoints.
Unchecked(task) ==
    /\ task.checkpoints = 0
    /\ task.role \in {"explorer", "reviewer"}
    /\ ~task.edits

\* Where step s ends, and where step 1 may begin.
Boundary(task, log, s) ==
    IF s = 0 THEN Callbacks(log, "worker", "ack")
    ELSE IF Stepwise(task) THEN Approvals(log, s) ELSE StepCallbacks(log, s)

StepInOrder(task, log, s) ==
    /\ s <= task.checkpoints
    /\ Single(Checkpoints(log, s))
    /\ Single(StepCallbacks(log, s))
    /\ Before(Boundary(task, log, s - 1), Checkpoints(log, s))
    /\ Before(Checkpoints(log, s), StepCallbacks(log, s))
    /\ Stepwise(task) => /\ Single(Approvals(log, s))
                         /\ Before(StepCallbacks(log, s), Approvals(log, s))

AuditStepInOrder(task, log, s) ==
    Stepwise(task) =>
        /\ Single(Approvals(log, s))
        /\ Before(Boundary(task, log, s - 1), Approvals(log, s))

StepsInOrder(task, log) ==
    \A s \in 1..task.steps :
        IF Unchecked(task) THEN AuditStepInOrder(task, log, s)
                           ELSE StepInOrder(task, log, s)

\* The end of the last step; a continuous audit has only its ack.
LastBoundary(task, log) ==
    Boundary(task, log,
             IF Unchecked(task) /\ ~Stepwise(task) THEN 0 ELSE task.steps)

ReportInOrder(task, log) ==
    LET done == Callbacks(log, "worker", "done")
    IN  IF Reports(log) = {} THEN done = {}
        ELSE /\ Single(Reports(log))
             /\ Single(done)
             /\ Before(LastBoundary(task, log), Reports(log))
             /\ Before(Reports(log), done)
             /\ Before(done, Verifications(log))

\* Mutant: a cancelled task passes.
NotFailed(log) == AnyOf(log, "task.failed") = {}

NotEnded(log) == AnyOf(log, "task.failed") = {} /\ AnyOf(log, "task.cancelled") = {}

ExecutionProtocolOK(task, log) ==
    /\ NotEnded(log)
    /\ Received(log) = FirstSteps(task.checkpoints)
    /\ Approved(log) = IF Stepwise(task) THEN FirstSteps(task.steps) ELSE <<>>
    /\ Single(Callbacks(log, "worker", "ack"))
    /\ StepsInOrder(task, log)
    /\ ReportInOrder(task, log)

-----------------------------------------------------------------------------
(***************************************************************************)
(* completion_errors: the merge gate, for worktree state d.  Changed files *)
(* are a function of the state: an empty diff touches none.                *)
(***************************************************************************)
SameFiles(d, e) == (d = 0) <=> (e = 0)

ReportOK(log, d) ==
    /\ Reports(log) # {}
    /\ LET report == Current(log, Reports(log))
       IN  report.ok /\ SameFiles(report.diff, d)

\* Mutant: the verification may be of another state.
VerificationAnyDiff(log, d) ==
    Verifications(log) # {} /\ Current(log, Verifications(log)).ok

VerificationOK(log, d) ==
    /\ Verifications(log) # {}
    /\ LET verification == Current(log, Verifications(log))
       IN  verification.ok /\ verification.diff = d

ReviewOK(log, d) ==
    LET done == Callbacks(log, "reviewer", "done")
    IN  /\ Single(Spawns(log))
        /\ Single(Reviews(log))
        /\ Single(done)
        /\ Before(Verifications(log), Spawns(log))
        /\ Before(Spawns(log), Reviews(log))
        /\ Before(Reviews(log), done)
        /\ Completions(log) # {} => Before(done, {Earliest(Completions(log))})
        /\ log[The(Spawns(log))].diff = d
        /\ log[The(Reviews(log))].diff = d
        /\ log[The(Reviews(log))].ok
        /\ log[The(done)].ok

\* validate_scope.
InScope(task, d) == d \notin OutOfScope /\ (~task.edits => d = 0)

CompletionOK(task, log, d) ==
    /\ ReportOK(log, d)
    /\ d \notin OutOfScope
    /\ VerificationOK(log, d)
    /\ task.role = "implementer" => ReviewOK(log, d)
    /\ ExecutionProtocolOK(task, log)
=============================================================================
