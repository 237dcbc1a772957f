---------------------------- MODULE TaskController ----------------------------
(***************************************************************************)
(* One dispatched task and the processes that work on it: the controllers' *)
(* commands (src/lib/sin_orca/cli.py, review.py), the callbacks of the     *)
(* worker and of the reviewer (sin-orca notify), and the ingestion of the  *)
(* artifacts they leave in the outbox (artifacts.py).                      *)
(*                                                                         *)
(* Every command reads the event log, decides, calls out (a terminal, the  *)
(* test commands, git) and appends.  The log's own lock covers one append, *)
(* not the decision, so a command is one action per stretch between two    *)
(* calls.  A controller's command runs under the task's lease, which its   *)
(* holder may outlive; notify takes no lease.  A process may die anywhere. *)
(***************************************************************************)
EXTENDS TaskLog

CONSTANTS
    Controllers,    \* the controller sessions, each one a lease owner
    Nobody,         \* the owner of a free lease
    InitialTasks,   \* the task contracts a behaviour may start with
    HastyTasks,     \* those whose worker does not keep the order of its prompt
    Missing,        \* no artifact
    Unwritten,      \* no manifest
    Warnings,       \* the conditions of the worker a mailbox may find
    Messages,       \* the controller messages of a behaviour
    MaxEvents,      \* bound on the length of the log, for each task
    MaxTrouble      \* bound on what is out of the ordinary in a behaviour

ASSUME NobodyAssumption == Nobody \notin Controllers
ASSUME ControllersAssumption ==
    Controllers # {} /\ Controllers \intersect {"worker", "reviewer"} = {}
ASSUME TasksAssumption == InitialTasks \subseteq Tasks /\ HastyTasks \subseteq Tasks
ASSUME AbsentAssumption ==
    Missing \notin Events /\ Unwritten \notin [diff : Diffs, upto : Nat]
ASSUME WarningsAssumption == Warnings \subseteq {"worker.blocked", "worker.stalled"}
ASSUME MessagesAssumption ==
    Messages \subseteq {"codex.sent", "codex.interrupted", "codex.followup",
                        "task.resumed", "task.suspended"}
ASSUME BoundAssumption ==
    MaxEvents \in [InitialTasks -> Nat \ {0, 1}] /\ MaxTrouble \in Nat

Sessions == {"worker", "reviewer"}
Procs == Sessions \union Controllers
Files == {"checkpoint.json", "report.json", "review.json"}

VARIABLES
    task,       \* task.json
    log,        \* events.jsonl
    tree,       \* the state of the worktree
    outbox,     \* the artifact in each file of the outbox, or Missing
    prompted,   \* the worktree states a reviewer terminal was prompted with
    job,        \* the command each process is in
    lease,      \* the owner in controller-lease.json, or Nobody
    owns,       \* the task holds the repository's writer reservation
    manifest,   \* completion-manifest.json, or Unwritten
    overtaken,  \* ghost: the events appended on a view another one had passed
    trouble

vars == <<task, log, tree, outbox, prompted, job, lease, owns, manifest,
          overtaken, trouble>>

\* The artifact of a file is the event it becomes.
TypeOf(f) == CASE f = "checkpoint.json" -> "checkpoint.received"
               [] f = "report.json" -> "worker.report.received"
               [] f = "review.json" -> "review.completed"
ArtifactTypes ==
    {"checkpoint.received", "worker.report.received", "review.completed"}
ActorOf(f) == IF f = "review.json" THEN "reviewer" ELSE "worker"

Commands == {"none", "notify", "mailbox", "message", "review", "verify",
             "cancel", "complete"}
Points == {"idle", "read", "checked", "recorded", "rest", "append",
           "confirm", "release", "manifest"}

\* event is what the command is about to append, stale says whether the log
\* has grown or the reservation was given back since it decided, files is what
\* a mailbox has still to ingest, art the bytes of the file it is ingesting.  A
\* complete that looks at an earlier completion keeps the worktree state it found
\* for its gate (seen), and the one the manifest is of (held).
Jobs == [at : Points, cmd : Commands, event : Events, stale : BOOLEAN,
         files : SUBSET Files, file : Files, art : Events \union {Missing},
         seen : Diffs, held : Diffs]

NoEvent == Event("task.created", "codex")
Idle == [at |-> "idle", cmd |-> "none", event |-> NoEvent, stale |-> FALSE,
         files |-> {}, file |-> "report.json", art |-> Missing,
         seen |-> 0, held |-> 0]

TaskTypeOK ==
    /\ task \in InitialTasks
    /\ log \in Seq(Events) /\ Len(log) <= MaxEvents[task]
    /\ tree \in Diffs
    /\ outbox \in [Files -> Events \union {Missing}]
    /\ prompted \subseteq Diffs
    /\ job \in [Procs -> Jobs]
    /\ lease \in Controllers \union {Nobody}
    /\ owns \in BOOLEAN
    /\ manifest \in [diff : Diffs, upto : DOMAIN log] \union {Unwritten}
    /\ overtaken \subseteq DOMAIN log
    /\ trouble \in 0..MaxTrouble

\* dispatch_task has returned: the worker has its prompt.
Init ==
    /\ task \in InitialTasks
    /\ log = <<Event("task.created", "codex"), Event("worker.spawned", "worker")>>
    /\ tree = 0
    /\ outbox = [f \in Files |-> Missing]
    /\ prompted = {}
    /\ job = [p \in Procs |-> Idle]
    /\ lease = Nobody
    /\ owns = task.edits
    /\ manifest = Unwritten
    /\ overtaken = {}
    /\ trouble = 0

-----------------------------------------------------------------------------
(***************************************************************************)
(* Frames.  A controller's command acquires the lease as it starts and     *)
(* releases it as it ends; the same owner acquires a lease it still has.   *)
(***************************************************************************)
Starts(p) ==
    /\ job[p].at = "idle"
    /\ p \in Controllers => lease \in {Nobody, p}

Acquire(p) == lease' = IF p \in Controllers THEN p ELSE lease
Release(p) == lease' = IF lease = p THEN Nobody ELSE lease

Goes(p, j) == job' = [job EXCEPT ![p] = j]
Ends(p) == Goes(p, Idle) /\ Release(p)

\* Process p starts a command that has decided on the log as it is.
Begins(p, j) == Acquire(p) /\ Goes(p, j)

Ending == {"task.completed", "task.cancelled"}
Endings(l) == {i \in DOMAIN l : l[i].type \in Ending}
Recorded(e) == \E i \in DOMAIN log : log[i] = e

\* What is out of the ordinary: a message, a warning, talk, a red verification
\* or a rejecting review, an event that repeats one or follows the end of the
\* task; and among the other steps a late edit, a crash and an expiry.
Odd(e) ==
    \/ e.type \in Messages \union Warnings \union {"worker.recovered"}
    \/ e.type = "callback" /\ e.kind \in TalkKinds
    \/ ~e.ok
    \/ e.type \notin Ending /\ (Recorded(e) \/ Endings(log) # {})

Ordinary == UNCHANGED trouble
Faulty == trouble < MaxTrouble /\ trouble' = trouble + 1

\* Where a command stands between its decision and its append.
Decided == {"checked", "append"}

\* p goes on as j.  What the others have decided by now, they decided on a log
\* that has grown since.
Overtakes(p, j) ==
    job' = [q \in Procs |-> IF q = p THEN j
                           ELSE [job[q] EXCEPT !.stale = @ \/ job[q].at \in Decided]]

\* append_event under the log's lock.
AppendEvent(p, e, j) ==
    /\ Len(log) < MaxEvents[task]
    /\ IF Odd(e) THEN Faulty ELSE Ordinary
    /\ log' = Append(log, e)
    /\ Overtakes(p, j)
    /\ overtaken' = IF job[p].stale /\ e.type # "callback"
                    THEN overtaken \union {Len(log) + 1} ELSE overtaken

NoAppend == UNCHANGED <<log, overtaken, trouble>>
Elsewhere == UNCHANGED <<task, tree, prompted>>

\* _release_task_writer: only the reservation of this task.
ReleaseWriter == owns' = FALSE

-----------------------------------------------------------------------------
(***************************************************************************)
(* The worker and the reviewer, as their prompts tell them to act: they    *)
(* edit and write artifacts, whatever the controller has recorded.         *)
(***************************************************************************)
Orderly == task \notin HastyTasks

\* The worker makes its edit, once and in its step; any other edit is trouble,
\* and may bring back a state that was there before.
InStep == tree = 0 /\ StepCallbacks(log, task.steps) = {} /\ Reports(log) = {}
          /\ \A f \in Files : outbox[f] = Missing

Edit ==
    /\ IF InStep THEN Ordinary ELSE Faulty
    /\ tree' \in Diffs \ {tree}
    /\ InStep => tree' = 1
    /\ UNCHANGED <<task, log, outbox, prompted, job, lease, owns, manifest,
                   overtaken>>

\* The worker goes on once it has told of step s and that step has ended.
StepOver(s) == /\ Boundary(task, log, s) # {}
               /\ s > 0 => StepCallbacks(log, s) # {}

\* Between two of its own commands a session writes an artifact, atomically;
\* what it writes after the end of the task is left out.
Write(f, e) ==
    /\ job[ActorOf(f)].at = "idle"
    /\ Endings(log) = {}
    /\ outbox[f] # e
    /\ Orderly => outbox[f] = Missing
    /\ outbox' = [outbox EXCEPT ![f] = e]
    /\ UNCHANGED <<job, lease, owns, manifest>> /\ NoAppend /\ Elsewhere

WriteCheckpoint ==
    \E s \in 1..task.checkpoints :
        /\ Checkpoints(log, s) = {}
        /\ Orderly => StepOver(s - 1)
        /\ Write("checkpoint.json",
                 [Event("checkpoint.received", "worker") EXCEPT !.step = s])

WriteReport ==
    /\ Reports(log) = {}
    /\ Orderly => StepOver(task.steps)
    /\ Write("report.json",
             [Event("worker.report.received", "worker") EXCEPT !.diff = tree])

\* The reviewer may reject, and reviews the state it was prompted with.
WriteReview ==
    \E d \in prompted, verdict \in BOOLEAN :
        LET e == [Event("review.completed", "reviewer") EXCEPT !.diff = d,
                                                               !.ok = verdict]
        IN  ~Recorded(e) /\ Write("review.json", e)

-----------------------------------------------------------------------------
(***************************************************************************)
(* ingest_artifact.  Reading the bytes, the duplicate check with the       *)
(* validation, the append and the unlink by name are four steps, and no    *)
(* lock spans them.                                                        *)
(***************************************************************************)
\* _validate_checkpoint_order: the next checkpoint, after the approval of the
\* step before it.
CheckpointInTurn(e) ==
    LET n == Len(Received(log))
    IN  /\ n < task.checkpoints
        /\ Len(Approved(log)) = IF Stepwise(task) THEN n ELSE 0
        /\ e.step = n + 1

\* _validate_report_protocol.
ReportInTurn ==
    /\ Received(log) = FirstSteps(task.checkpoints)
    /\ Approved(log) = IF Stepwise(task) THEN FirstSteps(task.steps) ELSE <<>>

\* _validate_review_protocol: the state the latest reviewer was assigned.
ReviewInTurn(e) ==
    /\ Spawns(log) # {}
    /\ e.diff = Current(log, Spawns(log)).diff

Valid(f, e) ==
    CASE f = "checkpoint.json" -> CheckpointInTurn(e)
      [] f = "report.json" -> ReportInTurn
      [] f = "review.json" -> ReviewInTurn(e)

\* _read_artifact_bytes of file f, as the next step of the command in j.
Reads(p, j, f) ==
    Goes(p, [j EXCEPT !.at = "read", !.file = f, !.art = outbox[f]])

\* The command goes on with its next file.  When a file is refused, a mailbox
\* notes the error and goes on; a notify raises.
Onward(j) == [j EXCEPT !.at = "rest", !.art = Missing, !.stale = FALSE,
                         !.file = "report.json"]
Refused(p) ==
    IF job[p].cmd = "mailbox" THEN Goes(p, Onward(job[p])) /\ UNCHANGED lease
    ELSE Ends(p)

\* Mutant: an artifact is validated without looking for it in the log.
CheckArtifactUnseen(p) ==
    /\ job[p].at = "read"
    /\ IF job[p].art # Missing /\ Valid(job[p].file, job[p].art)
       THEN Goes(p, [job[p] EXCEPT !.at = "checked", !.stale = FALSE])
            /\ UNCHANGED lease
       ELSE Refused(p)
    /\ UNCHANGED <<outbox, owns, manifest>> /\ NoAppend /\ Elsewhere

\* A duplicate is unlinked; anything else is validated against the log.
CheckArtifact(p) ==
    /\ job[p].at = "read"
    /\ IF Recorded(job[p].art)
       THEN /\ outbox' = [outbox EXCEPT ![job[p].file] = Missing]
            /\ Goes(p, Onward(job[p])) /\ UNCHANGED lease
       ELSE IF job[p].art # Missing /\ Valid(job[p].file, job[p].art)
       THEN /\ Goes(p, [job[p] EXCEPT !.at = "checked", !.stale = FALSE])
            /\ UNCHANGED <<outbox, lease>>
       ELSE Refused(p) /\ UNCHANGED outbox
    /\ UNCHANGED <<owns, manifest>> /\ NoAppend /\ Elsewhere

RecordArtifact(p) ==
    /\ job[p].at = "checked"
    /\ AppendEvent(p, job[p].art, [job[p] EXCEPT !.at = "recorded", !.stale = FALSE])
    /\ UNCHANGED <<outbox, lease, owns, manifest>> /\ Elsewhere

\* The unlink takes whatever has the name by now, and raises if nothing has.
UnlinkArtifact(p) ==
    /\ job[p].at = "recorded"
    /\ outbox' = [outbox EXCEPT ![job[p].file] = Missing]
    /\ IF outbox[job[p].file] = Missing THEN Ends(p)
       ELSE Goes(p, Onward(job[p])) /\ UNCHANGED lease
    /\ UNCHANGED <<owns, manifest>> /\ NoAppend /\ Elsewhere

-----------------------------------------------------------------------------
(***************************************************************************)
(* sin-orca notify, by the worker or the reviewer: no lease.               *)
(***************************************************************************)
Callback(a, k, s, v) == [Event("callback", a) EXCEPT !.kind = k, !.step = s,
                                                     !.ok = v]

ArtifactOf(a, k) == IF k = "checkpoint" THEN "checkpoint.json"
                    ELSE IF a = "worker" THEN "report.json" ELSE "review.json"

\* Mutant: the callback is sent without looking for the artifact.
ArchivedUnchecked(a, k, s) == TRUE

\* Without the file in the outbox, its artifact must be in the ledger.
Archived(a, k, s) ==
    IF k = "checkpoint" THEN Checkpoints(log, s) # {}
    ELSE IF a = "worker" THEN Reports(log) # {} ELSE Reviews(log) # {}

\* A callback that was already sent is not repeated, a talk may be.
NotifySeen(a, k, s) ==
    k \notin TalkKinds =>
        {i \in Callbacks(log, a, k) : log[i].step = s} = {}

\* A checkpoint names a step; v is the verdict a reviewer reports, a careful
\* one that of its review.
Notify(a, k, s, v) ==
    /\ Starts(a)
    /\ k = "checkpoint" => a = "worker" /\ s > 0
    /\ k # "checkpoint" => s = 0
    /\ (a = "worker" \/ k # "done") => v
    /\ Orderly /\ a = "reviewer" /\ outbox["review.json"] # Missing =>
           v = outbox["review.json"].ok
    /\ NotifySeen(a, k, s)
    /\ HasActor(log, a)
    /\ LET f == ArtifactOf(a, k)
           j == [Idle EXCEPT !.cmd = "notify", !.event = Callback(a, k, s, v)]
       IN  IF k \in {"checkpoint", "done"} /\ outbox[f] # Missing
           THEN Reads(a, j, f)
           ELSE /\ k \in {"checkpoint", "done"} => Archived(a, k, s)
                /\ Goes(a, Onward(j))
    /\ UNCHANGED <<outbox, lease, owns, manifest>> /\ NoAppend /\ Elsewhere

\* The message is sent to the parent's terminal and then recorded.
Tell(a) ==
    /\ job[a].at = "rest" /\ job[a].cmd = "notify"
    /\ AppendEvent(a, job[a].event, Idle)
    /\ UNCHANGED <<outbox, lease, owns, manifest>> /\ Elsewhere

-----------------------------------------------------------------------------
(***************************************************************************)
(* sin-orca mailbox: ingest what lies in the outbox, then record what the  *)
(* worker's activity says.                                                 *)
(***************************************************************************)
Mailbox(c, a) ==
    /\ Starts(c)
    /\ HasActor(log, a)
    /\ Begins(c, [Idle EXCEPT !.at = "rest", !.cmd = "mailbox",
                  !.files = {f \in Files : ActorOf(f) = a /\ outbox[f] # Missing}])
    /\ UNCHANGED <<outbox, owns, manifest>> /\ NoAppend /\ Elsewhere

\* The files are taken in alphabetical order.
MailboxNext(c) ==
    /\ job[c].at = "rest" /\ job[c].cmd = "mailbox"
    /\ \E f \in job[c].files :
          /\ "checkpoint.json" \in job[c].files => f = "checkpoint.json"
          /\ Reads(c, [job[c] EXCEPT !.files = @ \ {f}], f)
    /\ UNCHANGED <<outbox, lease, owns, manifest>> /\ NoAppend /\ Elsewhere

\* The ledger's worker_blocked or worker_stalled, until a recovery clears it.
Warned(t) ==
    \E i \in AnyOf(log, t) : \A j \in AnyOf(log, "worker.recovered") : j < i

\* A worker that repeats a failure, or is idle, is recorded once; so is its
\* recovery, when it is active and neither.
Warning(blocked, stalled, active) ==
    LET new(t, on) == IF on /\ ~Warned(t) THEN <<Event(t, "controller")>> ELSE <<>>
        recovered == active /\ ~blocked /\ ~stalled
                     /\ (Warned("worker.blocked") \/ Warned("worker.stalled"))
    IN  new("worker.blocked", blocked) \o new("worker.stalled", stalled)
        \o IF recovered THEN <<Event("worker.recovered", "controller")>> ELSE <<>>

MailboxWarn(c) ==
    /\ job[c].at = "rest" /\ job[c].cmd = "mailbox" /\ job[c].files = {}
    /\ \E found \in SUBSET Warnings, active \in BOOLEAN :
          LET es == Warning("worker.blocked" \in found, "worker.stalled" \in found,
                            active)
              odd == Cardinality({i \in DOMAIN es : Odd(es[i])})
          IN  /\ trouble + odd <= MaxTrouble
              /\ Len(log) + Len(es) <= MaxEvents[task]
              /\ trouble' = trouble + odd
              /\ log' = log \o es
              /\ IF es = <<>> THEN Goes(c, Idle) ELSE Overtakes(c, Idle)
    /\ Release(c)
    /\ UNCHANGED overtaken
    /\ UNCHANGED <<outbox, owns, manifest>> /\ Elsewhere

-----------------------------------------------------------------------------
(***************************************************************************)
(* The commands that send or run something and then append one event.      *)
(***************************************************************************)
\* Mutant: the reservation is not looked at.
WriterUnchecked == TRUE

\* _task_writer_status: an editing task must hold the reservation.
OwnsWriter == task.edits => owns

\* Controller c appends e once what it calls out for has returned.
Appends(c, cmd, e) ==
    /\ Begins(c, [Idle EXCEPT !.at = "append", !.cmd = cmd, !.event = e])
    /\ UNCHANGED <<task, tree, outbox, owns, manifest>> /\ NoAppend

\* A task is suspended at a safe point only.
SafePoint == Status(log) \in {"checkpoint", "report-received", "review-complete",
                              "verification-complete"}

Message(c, t) ==
    /\ Starts(c)
    /\ t = "task.suspended" => SafePoint
    /\ Appends(c, "message", Event(t, "codex"))
    /\ UNCHANGED prompted

\* Mutant: approval does not wait for the checkpoint of the step.
ApproveUnchecked(c, s) ==
    /\ Starts(c)
    /\ Stepwise(task)
    /\ s = Len(Approved(log)) + 1
    /\ Appends(c, "message", [Event("codex.approved", "codex") EXCEPT !.step = s])
    /\ UNCHANGED prompted

\* The next step in order, once its checkpoint is there.
Approve(c, s) ==
    /\ Starts(c)
    /\ Stepwise(task)
    /\ s = Len(Approved(log)) + 1
    /\ \A i \in DOMAIN Approved(log) : Approved(log)[i] # s
    /\ task.checkpoints > 0 => Len(Received(log)) > Len(Approved(log))
    /\ Appends(c, "message", [Event("codex.approved", "codex") EXCEPT !.step = s])
    /\ UNCHANGED prompted

\* The protocol gate of verify and of review.
WorkReported == Reports(log) # {} /\ ExecutionProtocolOK(task, log)

\* The diff is taken before the commands run on whatever is there by then;
\* a moved HEAD, a lost baseline or a path out of scope fails without one.
Verify(c) ==
    /\ Starts(c)
    /\ OwnsWriter
    /\ WorkReported
    /\ \E green \in BOOLEAN :
          Appends(c, "verify",
                  [Event("verification.completed", "controller") EXCEPT
                      !.diff = tree, !.ok = green /\ InScope(task, tree)])
    /\ UNCHANGED prompted

\* Mutant: every review spawns a reviewer.
AssignedNever(d) == FALSE

Assigned(d) == Spawns(log) # {} /\ Current(log, Spawns(log)).diff = d

\* The gates of start_blind_review: what is reviewed was verified as it is now.
Reviewable == OwnsWriter /\ VerificationOK(log, tree) /\ WorkReported

\* start_blind_review: a reviewer that was assigned the same diff is reused,
\* otherwise a new terminal is created and prompted.
Review(c) ==
    /\ Starts(c)
    /\ Reviewable
    /\ ~Assigned(tree)
    /\ prompted' = prompted \union {tree}
    /\ Appends(c, "review",
               [Event("reviewer.spawned", "reviewer") EXCEPT !.diff = tree])

-----------------------------------------------------------------------------
(***************************************************************************)
(* cancel and complete.                                                    *)
(***************************************************************************)
\* Where a controller's command goes without a call in between.
Continues(c, cmd, at) ==
    /\ Begins(c, [Idle EXCEPT !.at = at, !.cmd = cmd])
    /\ UNCHANGED <<outbox, owns, manifest>> /\ NoAppend /\ Elsewhere

\* Mutant: a completed task is cancelled as any other.
CancelUngated(c) ==
    /\ Starts(c)
    /\ Appends(c, "cancel", Event("task.cancelled", "codex"))
    /\ UNCHANGED prompted

\* Mutant: the reservation is given back before the cancellation is recorded.
CancelUnrecorded(c) ==
    /\ Starts(c)
    /\ Status(log) # "completed"
    /\ Continues(c, "cancel", "release")

\* Actors are interrupted, if their terminals answer; a task that is already
\* cancelled only gives its reservation back.
Cancel(c) ==
    /\ Starts(c)
    /\ Status(log) # "completed"
    /\ IF Status(log) = "cancelled" THEN Continues(c, "cancel", "release")
       ELSE /\ Appends(c, "cancel", Event("task.cancelled", "codex"))
            /\ UNCHANGED prompted

Completed == Status(log) = "completed"

\* A completion that was recorded before is checked again: the worktree is taken
\* for the gate, and the log must be the one the manifest was written on ...
CompleteAgain(c) ==
    /\ Starts(c)
    /\ Completed /\ manifest # Unwritten
    /\ manifest.upto = Len(log)
    /\ Begins(c, [Idle EXCEPT !.at = "confirm", !.cmd = "complete",
                              !.seen = tree, !.held = manifest.diff])
    /\ UNCHANGED <<outbox, owns, manifest>> /\ NoAppend /\ Elsewhere

\* Mutant: a completion with a valid manifest passes no gate.
ConfirmUngated(c) ==
    /\ job[c].at = "confirm"
    /\ IF job[c].held = tree
       THEN Goes(c, [Idle EXCEPT !.at = "release", !.cmd = "complete"])
            /\ UNCHANGED lease
       ELSE Ends(c)
    /\ UNCHANGED <<outbox, owns, manifest>> /\ NoAppend /\ Elsewhere

\* ... then git is asked again: verify_manifest wants the worktree of now to be
\* the manifest's, completion_errors the one taken before to pass the gate.
Confirm(c) ==
    /\ job[c].at = "confirm"
    /\ IF job[c].held = tree /\ CompletionOK(task, log, job[c].seen)
       THEN Goes(c, [Idle EXCEPT !.at = "release", !.cmd = "complete"])
            /\ UNCHANGED lease
       ELSE Ends(c)
    /\ UNCHANGED <<outbox, owns, manifest>> /\ NoAppend /\ Elsewhere

\* The gate; a completion without its manifest only lacks the manifest.
Complete(c) ==
    /\ Starts(c)
    /\ ~(Completed /\ manifest # Unwritten)
    /\ Completed \/ OwnsWriter
    /\ CompletionOK(task, log, tree)
    /\ IF Completed THEN Continues(c, "complete", "manifest")
       ELSE /\ Appends(c, "complete", Event("task.completed", "controller"))
            /\ UNCHANGED prompted

\* The event a command called out for: the last step of most, the first
\* effect of cancel and complete.
After(cmd) == CASE cmd = "cancel" -> "release"
                [] cmd = "complete" -> "manifest"
                [] OTHER -> "idle"

Record(c) ==
    /\ job[c].at = "append"
    /\ LET at == After(job[c].cmd)
       IN  IF at = "idle"
           THEN AppendEvent(c, job[c].event, Idle) /\ Release(c)
           ELSE /\ AppendEvent(c, job[c].event,
                               [Idle EXCEPT !.at = at, !.cmd = job[c].cmd])
                /\ UNCHANGED lease
    /\ UNCHANGED <<outbox, owns, manifest>> /\ Elsewhere

\* Mutant: the manifest counts an event too many.
WriteManifestAhead(c) ==
    /\ job[c].at = "manifest"
    /\ manifest' = [diff |-> tree, upto |-> Len(log) + 1]
    /\ Goes(c, [job[c] EXCEPT !.at = "release"])
    /\ UNCHANGED <<outbox, lease, owns>> /\ NoAppend /\ Elsewhere

\* build_manifest looks at the log and at the worktree once more.
WriteManifest(c) ==
    /\ job[c].at = "manifest"
    /\ manifest' = [diff |-> tree, upto |-> Len(log)]
    /\ Goes(c, [job[c] EXCEPT !.at = "release"])
    /\ UNCHANGED <<outbox, lease, owns>> /\ NoAppend /\ Elsewhere

\* Whoever is about to record an event has decided with the reservation there.
GiveBack(c) ==
    /\ job[c].at = "release"
    /\ ReleaseWriter
    /\ Release(c)
    /\ job' = [q \in Procs |-> IF q = c THEN Idle
                  ELSE [job[q] EXCEPT !.stale = @ \/ job[q].at = "append"]]
    /\ UNCHANGED <<outbox, manifest>> /\ NoAppend /\ Elsewhere

-----------------------------------------------------------------------------
(***************************************************************************)
(* The rest of the world.                                                  *)
(***************************************************************************)
\* Another task takes the reservation of an owner that is done
\* (_owner_is_terminal); this one never takes it again.
OtherTask ==
    /\ owns
    /\ Status(log) \in {"completed", "cancelled", "failed", "unknown"}
    /\ owns' = FALSE
    /\ UNCHANGED <<outbox, job, lease, manifest>> /\ NoAppend /\ Elsewhere

\* What a command calls out for raises, a send to the reviewer's terminal also
\* once it is delivered: the command ends, and its lease with it.
Fail(p) ==
    /\ job[p].at \in {"append", "manifest", "confirm"}
    /\ Ends(p)
    /\ UNCHANGED <<outbox, owns, manifest>> /\ NoAppend /\ Elsewhere

\* A process dies; a controller's lease stays until it expires.
Crash(p) ==
    /\ Faulty
    /\ job[p].at # "idle"
    /\ Goes(p, Idle)
    /\ UNCHANGED <<task, tree, prompted, outbox, lease, owns, manifest>>
    /\ UNCHANGED <<log, overtaken>>

\* A command outlives its lease (180 s): nothing renews it.
Expire ==
    /\ Faulty
    /\ lease # Nobody
    /\ lease' = Nobody
    /\ UNCHANGED <<task, tree, prompted, outbox, job, owns, manifest>>
    /\ UNCHANGED <<log, overtaken>>

Environment == Edit \/ WriteCheckpoint \/ WriteReport \/ WriteReview
               \/ OtherTask \/ Expire

\* The callbacks a session is told to send; a hasty one tries every other.
Prompted(a) ==
    IF Orderly /\ a = "reviewer" THEN {"done"} ELSE Kinds \ {"none"}

SessionStep(a) ==
    \/ \E k \in Prompted(a), s \in Steps, v \in BOOLEAN : Notify(a, k, s, v)
    \/ Tell(a)

ControllerStep(c) ==
    \/ \E a \in Sessions : Mailbox(c, a)
    \/ MailboxNext(c) \/ MailboxWarn(c)
    \/ \E t \in Messages : Message(c, t)
    \/ \E s \in 1..MaxSteps : s <= task.steps /\ Approve(c, s)
    \/ Verify(c) \/ Review(c) \/ Cancel(c) \/ Complete(c) \/ CompleteAgain(c)
    \/ Confirm(c) \/ Record(c) \/ WriteManifest(c) \/ GiveBack(c)

AnyStep(p) == CheckArtifact(p) \/ RecordArtifact(p) \/ UnlinkArtifact(p)
              \/ Fail(p) \/ Crash(p)

Next ==
    \/ Environment
    \/ \E a \in Sessions : SessionStep(a)
    \/ \E c \in Controllers : ControllerStep(c)
    \/ \E p \in Procs : AnyStep(p)

Spec == Init /\ [][Next]_vars

-----------------------------------------------------------------------------
(***************************************************************************)
(* Properties.                                                             *)
(***************************************************************************)
\* Worktree state d went through a green verification, and for an implementer
\* then a reviewer spawned on it, that reviewer's acceptance and its callback,
\* in this order, in the first n events.
Backed(t, l, n, d) ==
    \E v \in Verifications(l) :
        /\ v <= n /\ l[v].ok /\ l[v].diff = d
        /\ t.role = "implementer" =>
              \E s \in Spawns(l), r \in Reviews(l), k \in Callbacks(l, "reviewer", "done") :
                  /\ v < s /\ s < r /\ r < k /\ k <= n
                  /\ l[s].diff = d /\ l[r].diff = d /\ l[r].ok /\ l[k].ok

\* A task is completed on evidence that was in the log before: one worktree
\* state was verified, reviewed blind and accepted, in this order, however the
\* worker, the reviewer and the controllers interleave, edit and crash.
CompletionBacked ==
    \A i \in Completions(log) : \E d \in Diffs : Backed(task, log, i - 1, d)

\* A command that confirms an earlier completion has seen a worktree state that
\* was verified and accepted by then, and holds a manifest of that state unless
\* the worktree has moved since it looked: the manifest of another state is
\* confirmed only by an edit between its two looks, even if one slipped between
\* the gate and the manifest of the command that completed the task.
ConfirmedOnlyIfBacked ==
    [][\A c \in Controllers :
          job[c].at = "confirm" /\ job'[c].at = "release" =>
              /\ Backed(task, log, Len(log), job[c].seen)
              /\ tree = job[c].seen => job[c].held = job[c].seen]_vars

\* Bytes of the outbox become one event, whatever dies between the append and
\* the unlink; only two ingestions that overlap record them twice.
RecordedOnce ==
    LET recorded == {i \in DOMAIN log : log[i].type \in ArtifactTypes}
    IN  \A i, j \in recorded : i < j /\ log[i] = log[j] => j \in overtaken

\* Unless commands overlap, the worker is never more than one checkpoint ahead
\* of the approvals of a stepwise task, nor the approvals ahead of the
\* checkpoints, and both follow the order of the steps.
StepsAlternate ==
    overtaken = {} =>
        LET r == Received(log)
            a == Approved(log)
        IN  /\ r = FirstSteps(Len(r)) /\ a = FirstSteps(Len(a))
            /\ Stepwise(task) /\ task.checkpoints > 0 =>
                  Len(r) - Len(a) \in {0, 1}

\* A cancelled task is not completed, unless by a command that had passed the
\* gate when the cancellation was recorded.
CancelExcludesCompletion ==
    \A i \in AnyOf(log, "task.cancelled"), j \in Completions(log) :
        i < j => j \in overtaken

\* No two reviewers in a row are assigned the same diff, unless two reviews
\* overlap; the diff may come back after a reviewer of another one.
OneReviewerPerDiff ==
    \A i, j \in Spawns(log) :
        i < j /\ log[i].diff = log[j].diff =>
            \/ j \in overtaken
            \/ \E k \in Spawns(log) : i < k /\ k < j /\ log[k].diff # log[i].diff

\* A task that edits is completed while it holds the writer reservation,
\* unless by a command another one has overtaken.
CompletedWhileHolding ==
    [][/\ Len(log') > Len(log) /\ task.edits
       /\ log'[Len(log')].type = "task.completed"
       => owns \/ Len(log') \in overtaken']_vars

\* A callback that claims an artifact comes after one of that kind in the log,
\* whoever ingested it, and whatever was lost in between.
CallbacksHaveEvidence ==
    \A j \in AnyOf(log, "callback") :
        log[j].kind \in {"checkpoint", "done"} =>
            LET f == ArtifactOf(log[j].actor, log[j].kind)
            IN  \E i \in Of(log, TypeOf(f), log[j].actor) : i < j

\* "completed task cannot be cancelled" (cli.py:1429) holds while the completion
\* is the latest news: a task is cancelled after its completion only once some
\* other event has moved the status on, or by an overtaken command.
CancelledOnlyOnNews ==
    \A i \in Completions(log), j \in AnyOf(log, "task.cancelled") :
        i < j => \/ j \in overtaken
                 \/ \E k \in (i + 1)..(j - 1) :
                       SetsStatus(log[k]) /\ log[k].type # "task.completed"
-----------------------------------------------------------------------------
(***************************************************************************)
(* What the log says of the evidence for a worktree state, and of the end  *)
(* of the task, in the terms of TaskPromise.                               *)
(***************************************************************************)
\* The green verifications, the reviewers assigned to what one of them is about,
\* their acceptances, and those that were reported.
Green(l) == {v \in Verifications(l) : l[v].ok}
Assignments(l) ==
    {s \in Spawns(l) : \E v \in Green(l) : v < s /\ l[v].diff = l[s].diff}
Acceptances(l) ==
    {r \in Reviews(l) :
        l[r].ok /\ \E s \in Assignments(l) : s < r /\ l[s].diff = l[r].diff}
ReportedAcceptances(l) ==
    {r \in Acceptances(l) :
        \E k \in Callbacks(l, "reviewer", "done") : r < k /\ l[k].ok}

DiffsAt(l, S) == {l[i].diff : i \in S}

EndOf(t) == CASE t = "task.completed" -> "completed"
              [] t = "task.cancelled" -> "cancelled"
              [] OTHER -> "none"

\* The end of the task that is its latest news.
Stands(l, t) ==
    \E i \in AnyOf(l, t) : \A j \in (i + 1)..Len(l) : ~SetsStatus(l[j])
Standing(l) == IF Stands(l, "task.completed") THEN "completed"
               ELSE IF Stands(l, "task.cancelled") THEN "cancelled" ELSE "open"

verified == DiffsAt(log, Green(log))
assigned == DiffsAt(log, Assignments(log))
judged == DiffsAt(log, Acceptances(log))
accepted == DiffsAt(log, ReportedAcceptances(log))
decision == [c \in Controllers |->
                IF job[c].at = "append" THEN EndOf(job[c].event.type) ELSE "none"]
outcomes == {EndOf(log[i].type) : i \in Endings(log)}
standing == Standing(log)

Promise == INSTANCE TaskPromise WITH
    States <- Diffs, reviewed <- task.role = "implementer", edits <- task.edits,
    reserved <- owns

\* However commands, callbacks and artifacts interleave, and whatever dies, a
\* task ends by a decision that was taken on evidence for one worktree state,
\* while the task was not cancelled, and gives its reservation up after that.
KeepsPromise == Promise!Spec
=============================================================================
