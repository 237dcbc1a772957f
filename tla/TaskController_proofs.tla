------------------------ MODULE TaskController_proofs ------------------------
(***************************************************************************)
(* Proofs about TaskController, for any number of controllers, any task    *)
(* and any length of its log.                                              *)
(*                                                                         *)
(* A step either leaves the log alone or extends it.  What the properties  *)
(* say of earlier events stays true of a longer log, so that all there is  *)
(* to show is what the event at its end rests on: a command's promise.     *)
(***************************************************************************)
EXTENDS TaskController, TaskLog_proofs, FiniteSetTheorems

-----------------------------------------------------------------------------
(***************************************************************************)
(* What backs a completion.                                                *)
(***************************************************************************)
\* A worktree state that is backed by a log is backed by a longer one.
LEMMA BackedGrows ==
    ASSUME NEW t, NEW l \in Seq(Events), NEW m \in Seq(Events), Grows(l, m),
           NEW n \in Nat, NEW k \in Nat, n <= k, NEW d \in Diffs, Backed(t, l, n, d)
    PROVE  Backed(t, m, k, d)
<1>1. /\ DOMAIN l = 1..Len(l) /\ DOMAIN m = 1..Len(m)
      /\ Len(l) \in Nat /\ Len(m) \in Nat
    OBVIOUS
<1>2. \A y, a : Of(l, y, a) \subseteq Of(m, y, a)
    BY <1>1 DEF Of, Grows
<1>3. \A i \in DOMAIN l : m[i] = l[i]
    BY <1>1 DEF Grows
<1>4. PICK v \in Verifications(l) :
        /\ v <= n /\ l[v].ok /\ l[v].diff = d
        /\ t.role = "implementer" =>
              \E s \in Spawns(l), r \in Reviews(l), c \in Callbacks(l, "reviewer", "done") :
                  /\ v < s /\ s < r /\ r < c /\ c <= n
                  /\ l[s].diff = d /\ l[r].diff = d /\ l[r].ok /\ l[c].ok
    BY DEF Backed
<1>5. v \in Verifications(m) /\ m[v] = l[v] /\ v \in Nat
    BY <1>1, <1>2, <1>3, <1>4 DEF Verifications, Of
<1>6. CASE t.role = "implementer"
    <2>1. PICK s \in Spawns(l), r \in Reviews(l), c \in Callbacks(l, "reviewer", "done") :
                  /\ v < s /\ s < r /\ r < c /\ c <= n
                  /\ l[s].diff = d /\ l[r].diff = d /\ l[r].ok /\ l[c].ok
        BY <1>4, <1>6
    <2>2. /\ s \in Spawns(m) /\ m[s] = l[s]
          /\ r \in Reviews(m) /\ m[r] = l[r]
        BY <1>2, <1>3, <2>1 DEF Spawns, Reviews, Of
    <2>3. c \in Callbacks(m, "reviewer", "done") /\ m[c] = l[c] /\ c \in Nat
        BY <1>1, <1>2, <1>3, <2>1 DEF Callbacks, Of
    <2>4. /\ v < s /\ s < r /\ r < c /\ c <= k /\ v <= k
          /\ m[s].diff = d /\ m[r].diff = d /\ m[r].ok /\ m[c].ok
          /\ m[v].ok /\ m[v].diff = d
        BY <1>4, <1>5, <2>1, <2>2, <2>3
    <2> QED
        BY <1>5, <2>2, <2>3, <2>4 DEF Backed
<1>7. CASE t.role # "implementer"
    <2>1. v <= k /\ m[v].ok /\ m[v].diff = d
        BY <1>4, <1>5
    <2> QED
        BY <1>5, <1>7, <2>1 DEF Backed
<1> QED
    BY <1>6, <1>7

\* The merge gate passes on a worktree state only if the log backs it, and only
\* while the task has neither failed nor been cancelled.
LEMMA GateBacks ==
    ASSUME NEW t, NEW l \in Seq(Events), NEW d \in Diffs, LastThere(Verifications(l)),
           CompletionOK(t, l, d)
    PROVE  Backed(t, l, Len(l), d) /\ NotEnded(l)
<1>1. /\ VerificationOK(l, d) /\ NotEnded(l)
      /\ t.role = "implementer" => ReviewOK(l, d)
    BY DEF CompletionOK, ExecutionProtocolOK
<1>2. DOMAIN l = 1..Len(l) /\ Len(l) \in Nat
    OBVIOUS
<1> DEFINE v == Latest(Verifications(l))
<1>3. v \in Verifications(l) /\ l[v].ok /\ l[v].diff = d
    <2>1. Verifications(l) \subseteq Nat /\ Verifications(l) # {}
        BY <1>1, <1>2 DEF Verifications, Of, VerificationOK
    <2>2. v \in Verifications(l)
        BY <2>1, LatestIn
    <2> QED
        BY <1>1, <2>2 DEF VerificationOK, Current
<1>4. v <= Len(l) /\ v \in Nat
    BY <1>2, <1>3 DEF Verifications, Of
<1> HIDE DEF v
<1>5. CASE t.role = "implementer"
    <2> DEFINE s == The(Spawns(l))
               r == The(Reviews(l))
               c == The(Callbacks(l, "reviewer", "done"))
    <2>1. /\ s \in Spawns(l) /\ r \in Reviews(l)
          /\ c \in Callbacks(l, "reviewer", "done")
        BY <1>1, <1>5, TheIn DEF ReviewOK
    <2>2. /\ l[s].diff = d /\ l[r].diff = d /\ l[r].ok /\ l[c].ok
          /\ Before(Verifications(l), Spawns(l)) /\ Before(Spawns(l), Reviews(l))
          /\ Before(Reviews(l), Callbacks(l, "reviewer", "done"))
        BY <1>1, <1>5 DEF ReviewOK
    <2> HIDE DEF s, r, c
    <2>3. v < s /\ s < r /\ r < c
        BY <1>3, <2>1, <2>2 DEF Before
    <2>4. c <= Len(l)
        BY <1>2, <2>1 DEF Callbacks, Of
    <2> QED
        BY <1>1, <1>3, <1>4, <2>1, <2>2, <2>3, <2>4 DEF Backed
<1> QED
    BY <1>1, <1>3, <1>4, <1>5 DEF Backed

-----------------------------------------------------------------------------
(***************************************************************************)
(* The inductive invariant.                                                *)
(***************************************************************************)
Fits(f, e) == e.type = TypeOf(f) /\ e.actor = ActorOf(f)

\* The log has an artifact for a callback of kind k by session a.
Evidence(l, a, k) == Of(l, TypeOf(ArtifactOf(a, k)), a) # {}

Artful == {"checkpoint", "done"}
Over == {"completed", "cancelled", "failed", "unknown"}

\* Another status has followed every completion.
MovedOn(l) == \A i \in Completions(l) : \E k \in (i + 1)..Len(l) :
                  SetsStatus(l[k]) /\ l[k].type # "task.completed"

\* The latest reviewer has another diff.
Fresh(l, d) == \A i \in Spawns(l) : (\A j \in Spawns(l) : j <= i) => l[i].diff # d

\* What an event e rests on as it is appended to l, by a command that is stale
\* or not.
Justified(t, e, stale, l) ==
    /\ e.type # "task.failed"
    /\ e.type = "task.completed" => \E d \in Diffs : Backed(t, l, Len(l), d)
    /\ e.type = "callback" /\ e.kind \in Artful => Evidence(l, e.actor, e.kind)
    /\ ~stale =>
          /\ e.type = "task.completed" => AnyOf(l, "task.cancelled") = {}
          /\ e.type = "task.cancelled" => MovedOn(l)
          /\ e.type = "reviewer.spawned" => Fresh(l, e.diff)
          /\ e.type \in ArtifactTypes => \A i \in DOMAIN l : l[i] # e
          /\ Turn(t, l, e)

\* A command at each of its points.
JobForm(p, j) ==
    /\ j.art # Missing => Fits(j.file, j.art)
    /\ j.at \in {"read", "checked", "recorded", "rest"} => j.cmd \in {"notify", "mailbox"}
    /\ j.at \in {"checked", "recorded"} => j.art # Missing
    /\ j.at = "append" =>
          /\ j.event.type \notin ArtifactTypes \union {"callback"}
          /\ j.cmd \in {"cancel", "complete"} => j.event.type \in Ending
    /\ j.cmd = "notify" =>
          /\ p \in Sessions /\ j.event.type = "callback" /\ j.event.actor = p
          /\ j.event.kind = "checkpoint" => p = "worker"
          /\ j.at \in {"read", "checked", "recorded"} =>
                j.event.kind \in Artful /\ j.file = ArtifactOf(p, j.event.kind)

\* What it is about to append is justified, what it has recorded is there, and the
\* task has ended if that is all there is left to do.
Rests(t, j, l) ==
    /\ j.at = "append" => Justified(t, j.event, j.stale, l)
    /\ j.at = "checked" => Justified(t, j.art, j.stale, l)
    /\ j.at = "recorded" => \E i \in DOMAIN l : l[i] = j.art
    /\ j.at = "rest" /\ j.cmd = "notify" => Justified(t, j.event, FALSE, l)
    /\ j.at \in {"manifest", "confirm", "release"} => Endings(l) # {}

\* A command that is about to complete the task has found it alive, and with the
\* reservation if it edits.
Holds(t, j, l, reserved) ==
    j.at = "append" /\ j.event.type = "task.completed" /\ ~j.stale =>
        /\ Status(l) \notin Over
        /\ t.edits => reserved

World ==
    /\ task \in InitialTasks
    /\ Len(log) <= MaxEvents[task]
    /\ tree \in Diffs
    /\ outbox \in [Files -> Events \union {Missing}]
    /\ \A f \in Files : outbox[f] # Missing => Fits(f, outbox[f])
    /\ prompted \subseteq Diffs
    /\ lease \in Controllers \union {Nobody}
    /\ owns \in BOOLEAN
    /\ manifest \in [diff : Diffs, upto : DOMAIN log] \union {Unwritten}
    /\ overtaken \subseteq DOMAIN log
    /\ trouble \in 0..MaxTrouble

LogOK ==
    /\ log \in Seq(Events)
    /\ AnyOf(log, "task.failed") = {}
    /\ News(log) # {} /\ LastThere(News(log))
    /\ LastThere(Verifications(log)) /\ LastThere(Spawns(log))
    /\ CompletionBacked /\ RecordedOnce /\ StepsAlternate /\ CancelExcludesCompletion
    /\ OneReviewerPerDiff /\ CallbacksHaveEvidence /\ CancelledOnlyOnNews

JobsOK ==
    /\ job \in [Procs -> Jobs]
    /\ \A p \in Procs : JobForm(p, job[p]) /\ Rests(task, job[p], log)
                         /\ Holds(task, job[p], log, owns)

TaskInv == World /\ LogOK /\ JobsOK

-----------------------------------------------------------------------------
(***************************************************************************)
(* A log with one more event, and one with more warnings.                  *)
(***************************************************************************)
\* Whatever is justified, a log stays what it was with it at its end.
LEMMA AppendLog ==
    ASSUME LogOK, NEW e \in Events, NEW stale \in BOOLEAN,
           overtaken \subseteq DOMAIN log,
           log' = Append(log, e), task' = task,
           overtaken' = IF stale /\ e.type # "callback"
                        THEN overtaken \union {Len(log) + 1} ELSE overtaken,
           Justified(task, e, stale, log)
    PROVE  LogOK'
<1>1. PICK m, n, o : m = log' /\ n = Len(log) + 1 /\ o = overtaken'
    OBVIOUS
<1>2. /\ m \in Seq(Events) /\ DOMAIN m = (DOMAIN log) \union {n}
      /\ DOMAIN log = 1..Len(log) /\ Len(log) \in Nat /\ Len(m) = n
      /\ m[n] = e /\ \A i \in DOMAIN log : m[i] = log[i]
      /\ log \in Seq(Events) /\ Grows(log, m)
    <2>1. log \in Seq(Events) /\ m = Append(log, e)
        BY <1>1 DEF LogOK
    <2>2. /\ m \in Seq(Events) /\ DOMAIN m = (DOMAIN log) \union {Len(log) + 1}
          /\ DOMAIN log = 1..Len(log) /\ Len(log) \in Nat /\ Len(m) = Len(log) + 1
          /\ m[Len(log) + 1] = e /\ \A i \in DOMAIN log : m[i] = log[i]
          /\ Grows(log, m)
        BY <2>1 DEF Grows
    <2> QED
        BY <1>1, <2>1, <2>2
<1>3. /\ n \notin DOMAIN log /\ n \in Nat /\ \A i \in DOMAIN log : i < n /\ i \in Nat
      /\ overtaken \subseteq o
      /\ stale /\ e.type # "callback" => n \in o
    BY <1>1, <1>2
<1>4. /\ News(m) = News(log) \union (IF SetsStatus(e) THEN {n} ELSE {})
      /\ \A t : AnyOf(m, t) = AnyOf(log, t) \union (IF e.type = t THEN {n} ELSE {})
      /\ \A t, a : Of(m, t, a) =
             Of(log, t, a) \union (IF e.type = t /\ e.actor = a THEN {n} ELSE {})
    BY <1>2, <1>3 DEF News, AnyOf, Of
<1>5. /\ LastThere(News(m)) /\ News(m) # {}
      /\ LastThere(Verifications(m)) /\ LastThere(Spawns(m))
    <2>1. /\ News(log) \subseteq 1..Len(log) /\ Verifications(log) \subseteq 1..Len(log)
          /\ Spawns(log) \subseteq 1..Len(log)
        BY <1>2 DEF News, Verifications, Spawns, Of
    <2>2. /\ News(m) = News(log) \/ News(m) = News(log) \union {Len(log) + 1}
          /\ Verifications(m) = Verifications(log)
                \/ Verifications(m) = Verifications(log) \union {Len(log) + 1}
          /\ Spawns(m) = Spawns(log) \/ Spawns(m) = Spawns(log) \union {Len(log) + 1}
        <3>1. News(m) = News(log) \/ News(m) = News(log) \union {Len(log) + 1}
            BY <1>1, <1>4
        <3>2. \A t, a : Of(m, t, a) = Of(log, t, a)
                        \/ Of(m, t, a) = Of(log, t, a) \union {Len(log) + 1}
            <4> SUFFICES ASSUME NEW t, NEW a
                         PROVE  \/ Of(m, t, a) = Of(log, t, a)
                                \/ Of(m, t, a) = Of(log, t, a) \union {Len(log) + 1}
                OBVIOUS
            <4>1. CASE e.type = t /\ e.actor = a
                BY <1>1, <1>4, <4>1
            <4>2. CASE ~(e.type = t /\ e.actor = a)
                <5>1. Of(m, t, a) = Of(log, t, a) \union {}
                    BY <1>4, <4>2
                <5> QED
                    BY <5>1
            <4> QED
                BY <4>1, <4>2
        <3> QED
            BY <3>1, <3>2 DEF Verifications, Spawns
    <2>3. LastThere(News(log)) /\ LastThere(Verifications(log)) /\ LastThere(Spawns(log))
        BY DEF LogOK
    <2> QED
        BY <1>2, <1>4, <2>1, <2>2, <2>3, LastKept DEF LogOK
<1>6. \A i \in Completions(m) : \E d \in Diffs : Backed(task, m, i - 1, d)
    <2> SUFFICES ASSUME NEW i \in Completions(m)
                 PROVE  \E d \in Diffs : Backed(task, m, i - 1, d)
        OBVIOUS
    <2>1. PICK d \in Diffs : i - 1 \in Nat /\ i - 1 <= Len(log) /\ Backed(task, log, i - 1, d)
        <3>1. CASE i \in Completions(log)
            <4>1. \E d \in Diffs : Backed(task, log, i - 1, d)
                BY <3>1 DEF LogOK, CompletionBacked
            <4>2. i - 1 \in Nat /\ i - 1 <= Len(log)
                BY <1>2, <3>1 DEF Completions, Of
            <4> QED
                BY <4>1, <4>2
        <3>2. CASE i = n /\ e.type = "task.completed"
            BY <1>1, <1>2, <3>2 DEF Justified
        <3> QED
            BY <1>4, <3>1, <3>2 DEF Completions
    <2> QED
        BY <1>2, <2>1, BackedGrows
<1>7. \A i, j \in DOMAIN m :
          m[i].type \in ArtifactTypes /\ i < j /\ m[i] = m[j] => j \in o
    <2>1. \A i, j \in DOMAIN log :
              log[i].type \in ArtifactTypes /\ i < j /\ log[i] = log[j] => j \in overtaken
        BY DEF LogOK, RecordedOnce
    <2> QED
        BY <1>2, <1>3, <2>1 DEF Justified, ArtifactTypes
<1>8. \A i \in AnyOf(m, "task.cancelled"), j \in Completions(m) : i < j => j \in o
    BY <1>2, <1>3, <1>4 DEF LogOK, CancelExcludesCompletion, Justified, Completions, AnyOf, Of
<1>9. \A i, j \in Spawns(m) : i < j /\ m[i].diff = m[j].diff /\ j \notin o =>
          \E k \in Spawns(m) : i < k /\ k < j /\ m[k].diff # m[i].diff
    <2> SUFFICES ASSUME NEW i \in Spawns(m), NEW j \in Spawns(m), i < j,
                        m[i].diff = m[j].diff, j \notin o
                 PROVE  \E k \in Spawns(m) : i < k /\ k < j /\ m[k].diff # m[i].diff
        OBVIOUS
    <2>1. CASE j \in Spawns(log)
        <3>1. i \in Spawns(log) /\ j \notin overtaken
            BY <1>2, <1>3, <1>4, <2>1 DEF Spawns, Of
        <3>2. log[i].diff = log[j].diff
            BY <1>2, <2>1, <3>1 DEF Spawns, Of
        <3>3. PICK k \in Spawns(log) : i < k /\ k < j /\ log[k].diff # log[i].diff
            BY <2>1, <3>1, <3>2 DEF LogOK, OneReviewerPerDiff
        <3> QED
            BY <1>2, <1>4, <3>1, <3>3 DEF Spawns, Of
    <2>2. CASE j = n /\ e.type = "reviewer.spawned"
        <3>1. i \in Spawns(log) /\ ~stale /\ Fresh(log, e.diff)
            BY <1>2, <1>3, <1>4, <2>2 DEF Spawns, Justified
        <3>2. PICK k \in Spawns(log) : \A h \in Spawns(log) : h <= k
            BY <3>1 DEF LogOK, LastThere
        <3>3. log[k].diff # e.diff /\ i <= k
            BY <3>1, <3>2 DEF Fresh
        <3>4. k \in DOMAIN log /\ i \in DOMAIN log
            BY <3>1 DEF Spawns, Of
        <3>5. m[k] = log[k] /\ m[i].diff = e.diff /\ k < n
            BY <1>2, <1>3, <2>2, <3>4
        <3>6. i < k /\ k \in Spawns(m)
            BY <1>2, <1>3, <1>4, <3>3, <3>4, <3>5 DEF Spawns
        <3> QED
            BY <2>2, <3>3, <3>5, <3>6
    <2> QED
        BY <1>4, <2>1, <2>2 DEF Spawns
<1>10. \A j \in AnyOf(m, "callback") : m[j].kind \in Artful =>
          \E i \in Of(m, TypeOf(ArtifactOf(m[j].actor, m[j].kind)), m[j].actor) : i < j
    <2> SUFFICES ASSUME NEW j \in AnyOf(m, "callback"), m[j].kind \in Artful
                 PROVE  \E i \in Of(m, TypeOf(ArtifactOf(m[j].actor, m[j].kind)),
                                    m[j].actor) : i < j
        OBVIOUS
    <2>1. CASE j \in AnyOf(log, "callback")
        <3>1. m[j] = log[j]
            BY <1>2, <2>1 DEF AnyOf
        <3> QED
            BY <1>4, <2>1, <3>1 DEF LogOK, CallbacksHaveEvidence, Artful
    <2>2. CASE j = n /\ e.type = "callback"
        <3>1. m[j] = e /\ Evidence(log, e.actor, e.kind)
            BY <1>2, <2>2 DEF Justified
        <3> QED
            BY <1>2, <1>3, <1>4, <2>2, <3>1 DEF Evidence, Of
    <2> QED
        BY <1>4, <2>1, <2>2
<1>11. \A i \in Completions(m), j \in AnyOf(m, "task.cancelled") : i < j /\ j \notin o =>
           \E k \in (i + 1)..(j - 1) : SetsStatus(m[k]) /\ m[k].type # "task.completed"
    <2> SUFFICES ASSUME NEW i \in Completions(m), NEW j \in AnyOf(m, "task.cancelled"),
                        i < j, j \notin o
                 PROVE  \E k \in (i + 1)..(j - 1) :
                            SetsStatus(m[k]) /\ m[k].type # "task.completed"
        OBVIOUS
    <2>1. i \in Completions(log) /\ i \in Nat
        BY <1>2, <1>3, <1>4 DEF Completions, AnyOf, Of
    <2>2. \E k \in (i + 1)..(j - 1) : /\ k \in DOMAIN log
                                      /\ SetsStatus(log[k]) /\ log[k].type # "task.completed"
        <3>1. CASE j \in AnyOf(log, "task.cancelled")
            <4>1. j \notin overtaken /\ j \in DOMAIN log
                BY <1>3, <3>1 DEF AnyOf
            <4>2. PICK k \in (i + 1)..(j - 1) :
                      SetsStatus(log[k]) /\ log[k].type # "task.completed"
                BY <2>1, <3>1, <4>1 DEF LogOK, CancelledOnlyOnNews
            <4>3. k \in DOMAIN log
                BY <1>2, <2>1, <4>1, <4>2
            <4> QED
                BY <4>2, <4>3
        <3>2. CASE j = n /\ e.type = "task.cancelled"
            <4>1. MovedOn(log)
                BY <1>3, <3>2 DEF Justified
            <4> QED
                BY <1>1, <1>2, <2>1, <3>2, <4>1 DEF MovedOn
        <3> QED
            BY <1>4, <3>1, <3>2
    <2> QED
        BY <1>2, <2>2
<1>12. CompletionBacked'
    BY <1>1, <1>6 DEF CompletionBacked, Backed, Completions, Verifications, Spawns,
       Reviews, Callbacks, Of
<1>13. RecordedOnce' /\ CancelExcludesCompletion'
    BY <1>1, <1>7, <1>8 DEF RecordedOnce, CancelExcludesCompletion, Completions, AnyOf, Of
<1>14. OneReviewerPerDiff'
    BY <1>1, <1>9 DEF OneReviewerPerDiff, Spawns, Of
<1>15. CallbacksHaveEvidence' /\ CancelledOnlyOnNews'
    <2>1. CallbacksHaveEvidence'
        BY <1>1, <1>10 DEF CallbacksHaveEvidence, AnyOf, Of, Artful, TypeOf, ArtifactOf
    <2>2. CancelledOnlyOnNews'
        BY <1>1, <1>11 DEF CancelledOnlyOnNews, Completions, AnyOf, Of, SetsStatus
    <2> QED
        BY <2>1, <2>2
<1>16. /\ LastThere(News(log))' /\ (News(log) # {})'
       /\ LastThere(Verifications(log))' /\ LastThere(Spawns(log))'
    <2>1. LastThere(News(log))' /\ (News(log) # {})'
        BY <1>1, <1>5 DEF LastThere, News, SetsStatus
    <2>2. LastThere(Verifications(log))'
        BY <1>1, <1>5 DEF LastThere, Verifications, Of
    <2>3. LastThere(Spawns(log))'
        BY <1>1, <1>5 DEF LastThere, Spawns, Of
    <2> QED
        BY <2>1, <2>2, <2>3
<1>17. StepsAlternate'
    <2> SUFFICES ASSUME o = {} PROVE InTurn(task, m)
        BY <1>1 DEF StepsAlternate, InTurn
    <2>1. overtaken = {} /\ (stale => e.type = "callback")
        BY <1>1, <1>3
    <2>2. InTurn(task, log)
        BY <2>1 DEF LogOK, StepsAlternate, InTurn
    <2>3. Turn(task, log, e)
        BY <2>1 DEF Justified, Turn
    <2> QED
        BY <1>1, <1>2, <2>2, <2>3, TurnTaken
<1>18. (AnyOf(log, "task.failed") = {})'
    <2>1. AnyOf(log, "task.failed") = {} /\ e.type # "task.failed"
        BY DEF LogOK, Justified
    <2>2. AnyOf(m, "task.failed") = {}
        BY <1>2, <2>1 DEF AnyOf
    <2> QED
        BY <1>1, <2>2 DEF AnyOf
<1> QED
    BY <1>1, <1>2, <1>12, <1>13, <1>14, <1>15, <1>16, <1>17, <1>18 DEF LogOK

Warns == {"worker.blocked", "worker.stalled", "worker.recovered"}

\* The warnings of a mailbox are nothing a property speaks of.
LEMMA WarnedLog ==
    ASSUME LogOK, log' \in Seq(Events), Grows(log, log'), task' = task,
           \A i \in DOMAIN log' : i \notin DOMAIN log => log'[i].type \in Warns,
           overtaken' = overtaken
    PROVE  LogOK'
<1>1. PICK m, o : m = log' /\ o = overtaken'
    OBVIOUS
<1>2. /\ m \in Seq(Events) /\ DOMAIN m = 1..Len(m)
      /\ Len(m) \in Nat /\ Len(log) \in Nat /\ Len(log) <= Len(m)
      /\ DOMAIN log = 1..Len(log)
      /\ \A i \in DOMAIN log : m[i] = log[i] /\ i \in DOMAIN m
      /\ \A i \in DOMAIN m : i \notin DOMAIN log => m[i].type \in Warns
      /\ log \in Seq(Events) /\ Grows(log, m)
    <2>1. log \in Seq(Events) /\ m \in Seq(Events)
        BY <1>1 DEF LogOK
    <2> QED
        BY <1>1, <2>1 DEF Grows
<1>3. /\ \A t : t \notin Warns => AnyOf(m, t) = AnyOf(log, t)
      /\ \A t, a : t \notin Warns => Of(m, t, a) = Of(log, t, a)
    BY <1>2 DEF AnyOf, Of
<1>4. /\ Verifications(m) = Verifications(log) /\ Spawns(m) = Spawns(log)
      /\ Completions(m) = Completions(log)
    BY <1>3 DEF Verifications, Spawns, Completions, Warns
<1>5. LastThere(News(m)) /\ News(m) # {}
    <2>1. PICK k \in News(log) : \A i \in News(log) : i <= k
        BY DEF LogOK, LastThere
    <2>2. k \in News(m)
        BY <1>2, <2>1 DEF News
    <2>3. CASE Len(m) = Len(log)
        <3>1. News(m) = News(log)
            BY <1>2, <2>3 DEF News
        <3> QED
            BY <3>1 DEF LogOK
    <2>4. CASE Len(m) # Len(log)
        <3>1. Len(m) \in DOMAIN m /\ Len(m) \notin DOMAIN log
            <4>1. Len(m) \in 1..Len(m) /\ Len(m) \notin 1..Len(log)
                <5>1. Len(m) \in Nat /\ Len(log) \in Nat /\ Len(log) <= Len(m)
                    BY <1>2
                <5> QED
                    BY <2>4, <5>1
            <4> QED
                BY <1>2, <4>1
        <3>2. m[Len(m)].type \in Warns
            BY <1>2, <3>1
        <3>3. Len(m) \in News(m) /\ \A i \in News(m) : i <= Len(m)
            BY <1>2, <3>1, <3>2 DEF News, SetsStatus, Warns
        <3> QED
            BY <3>3 DEF LastThere
    <2> QED
        BY <2>2, <2>3, <2>4
<1>6. \A i \in Completions(m) : \E d \in Diffs : Backed(task, m, i - 1, d)
    <2> SUFFICES ASSUME NEW i \in Completions(log)
                 PROVE  \E d \in Diffs : Backed(task, m, i - 1, d)
        BY <1>4
    <2>1. PICK d \in Diffs : Backed(task, log, i - 1, d)
        BY DEF LogOK, CompletionBacked
    <2>2. i - 1 \in Nat
        BY <1>2 DEF Completions, Of
    <2> QED
        BY <1>2, <2>1, <2>2, BackedGrows
<1>7. \A i, j \in DOMAIN m :
          m[i].type \in ArtifactTypes /\ i < j /\ m[i] = m[j] => j \in o
    <2>1. \A i, j \in DOMAIN log :
              log[i].type \in ArtifactTypes /\ i < j /\ log[i] = log[j] => j \in overtaken
        BY DEF LogOK, RecordedOnce
    <2> QED
        BY <1>1, <1>2, <2>1 DEF ArtifactTypes, Warns
<1>8. \A i \in AnyOf(m, "task.cancelled"), j \in Completions(m) : i < j => j \in o
    BY <1>1, <1>3, <1>4 DEF LogOK, CancelExcludesCompletion, Warns
<1>9. \A i, j \in Spawns(m) : i < j /\ m[i].diff = m[j].diff /\ j \notin o =>
          \E k \in Spawns(m) : i < k /\ k < j /\ m[k].diff # m[i].diff
    <2>1. \A i \in Spawns(log) : m[i] = log[i]
        BY <1>2 DEF Spawns, Of
    <2> QED
        BY <1>1, <1>4, <2>1 DEF LogOK, OneReviewerPerDiff
<1>10. \A j \in AnyOf(m, "callback") : m[j].kind \in Artful =>
          \E i \in Of(m, TypeOf(ArtifactOf(m[j].actor, m[j].kind)), m[j].actor) : i < j
    <2> SUFFICES ASSUME NEW j \in AnyOf(log, "callback"), m[j].kind \in Artful
                 PROVE  \E i \in Of(m, TypeOf(ArtifactOf(m[j].actor, m[j].kind)),
                                    m[j].actor) : i < j
        BY <1>3 DEF Warns
    <2>1. m[j] = log[j] /\ TypeOf(ArtifactOf(m[j].actor, m[j].kind)) \notin Warns
        BY <1>2 DEF AnyOf, TypeOf, ArtifactOf, Warns
    <2> QED
        BY <1>3, <2>1 DEF LogOK, CallbacksHaveEvidence, Artful
<1>11. \A i \in Completions(m), j \in AnyOf(m, "task.cancelled") : i < j /\ j \notin o =>
           \E k \in (i + 1)..(j - 1) : SetsStatus(m[k]) /\ m[k].type # "task.completed"
    <2> SUFFICES ASSUME NEW i \in Completions(log), NEW j \in AnyOf(log, "task.cancelled"),
                        i < j, j \notin overtaken
                 PROVE  \E k \in (i + 1)..(j - 1) :
                            SetsStatus(m[k]) /\ m[k].type # "task.completed"
        BY <1>1, <1>3, <1>4 DEF Warns
    <2>1. PICK k \in (i + 1)..(j - 1) : SetsStatus(log[k]) /\ log[k].type # "task.completed"
        BY DEF LogOK, CancelledOnlyOnNews
    <2>2. k \in DOMAIN log
        BY <1>2 DEF Completions, AnyOf, Of
    <2> QED
        BY <1>2, <2>1, <2>2
<1>12. CompletionBacked'
    BY <1>1, <1>6 DEF CompletionBacked, Backed, Completions, Verifications, Spawns,
       Reviews, Callbacks, Of
<1>13. RecordedOnce' /\ CancelExcludesCompletion'
    BY <1>1, <1>7, <1>8 DEF RecordedOnce, CancelExcludesCompletion, Completions, AnyOf, Of
<1>14. OneReviewerPerDiff'
    BY <1>1, <1>9 DEF OneReviewerPerDiff, Spawns, Of
<1>15. CallbacksHaveEvidence' /\ CancelledOnlyOnNews'
    <2>1. CallbacksHaveEvidence'
        BY <1>1, <1>10 DEF CallbacksHaveEvidence, AnyOf, Of, Artful, TypeOf, ArtifactOf
    <2>2. CancelledOnlyOnNews'
        BY <1>1, <1>11 DEF CancelledOnlyOnNews, Completions, AnyOf, Of, SetsStatus
    <2> QED
        BY <2>1, <2>2
<1>16. /\ LastThere(News(log))' /\ (News(log) # {})'
       /\ LastThere(Verifications(log))' /\ LastThere(Spawns(log))'
    <2>1. LastThere(News(log))' /\ (News(log) # {})'
        BY <1>1, <1>5 DEF LastThere, News, SetsStatus
    <2>2. LastThere(Verifications(m)) /\ LastThere(Spawns(m))
        BY <1>4 DEF LogOK
    <2>3. LastThere(Verifications(log))'
        BY <1>1, <2>2 DEF LastThere, Verifications, Of
    <2>4. LastThere(Spawns(log))'
        BY <1>1, <2>2 DEF LastThere, Spawns, Of
    <2> QED
        BY <2>1, <2>3, <2>4
<1>17. StepsAlternate'
    <2>1. \A i \in 1..Len(m) : i > Len(log) =>
              m[i].type \notin {"checkpoint.received", "codex.approved"}
        <3>1. \A i \in 1..Len(m) : i > Len(log) => i \notin 1..Len(log)
            BY <1>2
        <3> QED
            BY <1>2, <3>1 DEF Warns
    <2>2. Received(m) = Received(log) /\ Approved(m) = Approved(log)
        BY <1>2, <2>1, TurnKept
    <2> QED
        BY <1>1, <2>2 DEF LogOK, StepsAlternate
<1>18. (AnyOf(log, "task.failed") = {})'
    <2>1. AnyOf(m, "task.failed") = {}
        BY <1>3 DEF LogOK, Warns
    <2> QED
        BY <1>1, <2>1 DEF AnyOf
<1> QED
    BY <1>1, <1>2, <1>12, <1>13, <1>14, <1>15, <1>16, <1>17, <1>18 DEF LogOK

LEMMA WarnLog ==
    ASSUME LogOK, NEW es \in Seq(Events), log' = log \o es, task' = task,
           \A k \in DOMAIN es : es[k].type \in Warns, overtaken' = overtaken
    PROVE  LogOK' /\ Grows(log, log')
<1>1. log \in Seq(Events)
    BY DEF LogOK
<1>2. log' \in Seq(Events) /\ Grows(log, log')
    BY <1>1 DEF Grows
<1>3. \A i \in DOMAIN log' : i \notin DOMAIN log =>
          i - Len(log) \in DOMAIN es /\ log'[i] = es[i - Len(log)]
    BY <1>1
<1> QED
    BY <1>2, <1>3, WarnedLog

-----------------------------------------------------------------------------
(***************************************************************************)
(* The commands, as the log grows under them.                              *)
(***************************************************************************)
\* What is justified stays so on a longer log, if only as a stale decision.
LEMMA JustifiedGrows ==
    ASSUME NEW t, NEW e, NEW stale, NEW l \in Seq(Events), NEW m \in Seq(Events),
           Grows(l, m), Justified(t, e, stale, l)
    PROVE  Justified(t, e, TRUE, m)
<1>1. \A d \in Diffs : Backed(t, l, Len(l), d) => Backed(t, m, Len(m), d)
    <2>1. Len(l) \in Nat /\ Len(m) \in Nat /\ Len(l) <= Len(m)
        BY DEF Grows
    <2> QED
        BY <2>1, BackedGrows
<1>2. \A y, a : Of(l, y, a) \subseteq Of(m, y, a)
    BY DEF Grows, Of
<1>3. \A a, k : Evidence(l, a, k) => Evidence(m, a, k)
    BY <1>2 DEF Evidence
<1> QED
    BY <1>1, <1>3 DEF Justified

\* A decision may always be called stale; for a callback it makes no difference.
LEMMA JustifiedStale ==
    ASSUME NEW t, NEW e, NEW l, NEW stale
    PROVE  /\ Justified(t, e, stale, l) => Justified(t, e, TRUE, l)
           /\ Justified(t, e, FALSE, l) => Justified(t, e, stale, l)
           /\ e.type = "callback" /\ Justified(t, e, stale, l) => Justified(t, e, FALSE, l)
BY DEF Justified, Turn, ArtifactTypes

LEMMA IdleRests ==
    ASSUME NEW p, NEW t, NEW l, NEW reserved
    PROVE  Idle \in Jobs /\ JobForm(p, Idle) /\ Rests(t, Idle, l)
           /\ Holds(t, Idle, l, reserved)
<1>1. NoEvent \in Events
    BY LogBounds DEF NoEvent, Event, Events, EventTypes, Actors, Kinds, Steps, Diffs
<1> QED
    BY <1>1, LogBounds DEF Idle, Jobs, Points, Commands, Files, Diffs, JobForm, Rests, Holds

\* The type of a job does not depend on how stale it is.
LEMMA StaleTyped ==
    ASSUME NEW j \in Jobs, NEW b \in BOOLEAN, NEW p, JobForm(p, j)
    PROVE  [j EXCEPT !.stale = b] \in Jobs /\ JobForm(p, [j EXCEPT !.stale = b])
BY DEF Jobs, JobForm

\* A process goes on as j, on the same log.
LEMMA JobsStep ==
    ASSUME JobsOK, NEW p \in Procs, NEW j \in Jobs, Goes(p, j), JobForm(p, j),
           Rests(task, j, log), Holds(task, j, log, owns),
           task' = task, log' = log, owns' = owns
    PROVE  JobsOK'
<1>1. job' = [job EXCEPT ![p] = j] /\ job \in [Procs -> Jobs]
    BY DEF JobsOK, Goes
<1>2. job' \in [Procs -> Jobs] /\ job'[p] = j
      /\ \A q \in Procs : q # p => job'[q] = job[q]
    BY <1>1
<1>3. ASSUME NEW q \in Procs
      PROVE  JobForm(q, job'[q]) /\ Rests(task, job'[q], log)
             /\ Holds(task, job'[q], log, owns)
    BY <1>2 DEF JobsOK
<1> QED
    BY <1>2, <1>3 DEF JobsOK

\* A process goes on as j and leaves a longer log: the others are overtaken.
LEMMA JobsOvertaken ==
    ASSUME JobsOK, log \in Seq(Events), log' \in Seq(Events), Grows(log, log'),
           NEW p \in Procs, NEW j \in Jobs, Overtakes(p, j), JobForm(p, j),
           Rests(task, j, log'), Holds(task, j, log', owns'), task' = task
    PROVE  JobsOK'
<1>1. PICK m, o : m = log' /\ o = owns'
    OBVIOUS
<1>2. ASSUME NEW q \in Procs
      PROVE  /\ job'[q] \in Jobs /\ JobForm(q, job'[q])
             /\ Rests(task, job'[q], m) /\ Holds(task, job'[q], m, o)
    <2>1. CASE q = p
        BY <1>1, <2>1 DEF Overtakes
    <2>2. CASE q # p
        <3> DEFINE b == job[q].stale \/ job[q].at \in Decided
                   k == [job[q] EXCEPT !.stale = b]
        <3>1. job[q] \in Jobs /\ JobForm(q, job[q]) /\ Rests(task, job[q], log)
            BY DEF JobsOK
        <3>2. job'[q] = k /\ b \in BOOLEAN
            BY <2>2, <3>1 DEF Overtakes, Jobs
        <3>3. k \in Jobs /\ JobForm(q, k)
            BY <3>1, <3>2, StaleTyped
        <3>4. /\ k.at = job[q].at /\ k.cmd = job[q].cmd /\ k.event = job[q].event
              /\ k.art = job[q].art /\ k.stale = b
            BY <3>1 DEF Jobs
        <3> HIDE DEF k
        <3>5. k.at \in Decided => k.stale = TRUE
            BY <3>4, <3>2
        <3>6. k.at = "append" => Justified(task, k.event, k.stale, m)
            BY <1>1, <3>1, <3>4, <3>5, JustifiedGrows DEF Rests, Decided
        <3>7. k.at = "checked" => Justified(task, k.art, k.stale, m)
            BY <1>1, <3>1, <3>4, <3>5, JustifiedGrows DEF Rests, Decided
        <3>8. k.at = "recorded" => \E i \in DOMAIN m : m[i] = k.art
            BY <1>1, <3>1, <3>4 DEF Rests, Grows
        <3>9. k.at = "rest" /\ k.cmd = "notify" => Justified(task, k.event, FALSE, m)
            BY <1>1, <3>1, <3>4, JustifiedGrows, JustifiedStale DEF Rests, JobForm
        <3>10. Holds(task, k, m, o)
            BY <3>5 DEF Holds, Decided
        <3>11. k.at \in {"manifest", "confirm", "release"} => Endings(m) # {}
            <4>1. Endings(log) \subseteq Endings(m)
                BY <1>1 DEF Endings, Grows
            <4> QED
                BY <3>1, <3>4, <4>1 DEF Rests
        <3> QED
            BY <3>2, <3>3, <3>6, <3>7, <3>8, <3>9, <3>10, <3>11 DEF Rests
    <2> QED
        BY <2>1, <2>2
<1>3. job' \in [Procs -> Jobs]
    BY <1>2 DEF Overtakes
<1> QED
    BY <1>1, <1>2, <1>3 DEF JobsOK

\* The log and what is known of it are as they were.
LEMMA LogSame ==
    ASSUME LogOK, task' = task, log' = log, overtaken' = overtaken
    PROVE  LogOK'
BY DEF LogOK, CompletionBacked, RecordedOnce, StepsAlternate, CancelExcludesCompletion,
   OneReviewerPerDiff, CallbacksHaveEvidence, CancelledOnlyOnNews

\* A process appends what it has decided and goes on as j.
LEMMA AppendStep ==
    ASSUME TaskInv, NEW p \in Procs, NEW e \in Events, NEW j \in Jobs,
           AppendEvent(p, e, j), Justified(task, e, job[p].stale, log), JobForm(p, j),
           j.at \in {"idle", "recorded", "release", "manifest"},
           j.at = "recorded" => j.art = e,
           j.at \in {"release", "manifest"} => e.type \in Ending,
           UNCHANGED <<task, tree, prompted, outbox, owns, manifest>>,
           lease' \in Controllers \union {Nobody}
    PROVE  TaskInv'
<1>1. /\ log \in Seq(Events) /\ log' = Append(log, e) /\ job[p].stale \in BOOLEAN
      /\ overtaken \subseteq DOMAIN log /\ trouble \in 0..MaxTrouble /\ trouble \in Nat
      /\ MaxTrouble \in Nat /\ MaxEvents[task] \in Nat /\ task' = task
    BY BoundAssumption DEF TaskInv, LogOK, AppendEvent, World, JobsOK, Jobs
<1>2. /\ log' \in Seq(Events) /\ Len(log') = Len(log) + 1 /\ Grows(log, log')
      /\ log'[Len(log) + 1] = e
      /\ DOMAIN log' = (DOMAIN log) \union {Len(log) + 1} /\ Len(log) \in Nat
    BY <1>1, AppendPlaces
<1>3. LogOK'
    BY <1>1, AppendLog DEF TaskInv, AppendEvent
<1>4. JobsOK'
    <2>1. Rests(task, j, log')
        <3>1. e.type \in Ending => Endings(log') # {}
            BY <1>2 DEF Endings
        <3> QED
            BY <1>2, <3>1 DEF Rests
    <2>2. Holds(task, j, log', owns')
        BY DEF Holds
    <2> QED
        BY <1>1, <1>2, <2>1, <2>2, JobsOvertaken DEF TaskInv, AppendEvent
<1>5. /\ Len(log') <= MaxEvents[task]
      /\ overtaken' \subseteq DOMAIN log' /\ trouble' \in 0..MaxTrouble
    <2>1. Len(log') <= MaxEvents[task]
        BY <1>1, <1>2 DEF AppendEvent
    <2>2. overtaken' \subseteq DOMAIN log'
        BY <1>1, <1>2 DEF AppendEvent
    <2>3. trouble' \in 0..MaxTrouble
        BY <1>1 DEF AppendEvent, Faulty, Ordinary
    <2> QED
        BY <2>1, <2>2, <2>3
<1>6. World'
    <2>1. manifest \in [diff : Diffs, upto : DOMAIN log'] \union {Unwritten}
        BY <1>2 DEF TaskInv, World
    <2> QED
        BY <1>1, <1>5, <2>1 DEF TaskInv, World
<1> QED
    BY <1>3, <1>4, <1>6 DEF TaskInv

\* A process goes on as j and leaves the log, the task and the reservation alone.
LEMMA QuietStep ==
    ASSUME TaskInv, NEW p \in Procs, NEW j \in Jobs, Goes(p, j), JobForm(p, j),
           Rests(task, j, log), Holds(task, j, log, owns), World',
           UNCHANGED <<task, log, owns, overtaken>>
    PROVE  TaskInv'
BY JobsStep, LogSame DEF TaskInv

\* No process moves, and the log, the task and the reservation stay.
LEMMA JobsSame ==
    ASSUME TaskInv, World', UNCHANGED <<task, log, job, overtaken>>,
           owns' = owns \/ \A q \in Procs : Holds(task, job[q], log, owns')
    PROVE  TaskInv'
<1>1. LogOK'
    BY LogSame DEF TaskInv
<1>2. JobsOK'
    BY DEF TaskInv, JobsOK
<1> QED
    BY <1>1, <1>2 DEF TaskInv

\* Which session writes which file, and what becomes of it.
LEMMA FileFacts ==
    /\ \A f \in Files : /\ TypeOf(f) \in ArtifactTypes /\ ActorOf(f) \in Sessions
                        /\ f = ArtifactOf(ActorOf(f), IF f = "checkpoint.json"
                                                      THEN "checkpoint" ELSE "done")
    /\ \A a \in Sessions, k \in Artful : (k = "checkpoint" => a = "worker") =>
          ArtifactOf(a, k) \in Files /\ ActorOf(ArtifactOf(a, k)) = a
BY DEF Files, TypeOf, ActorOf, ArtifactOf, ArtifactTypes, Sessions, Artful

LEMMA EventTyped ==
    ASSUME NEW t \in EventTypes, NEW a \in Actors
    PROVE  Event(t, a) \in Events
BY LogBounds DEF Event, Events, Kinds, Steps, Diffs

-----------------------------------------------------------------------------
(***************************************************************************)
(* The steps of the environment.                                           *)
(***************************************************************************)
LEMMA InitInv == Init => TaskInv
<1> SUFFICES ASSUME Init PROVE TaskInv
    OBVIOUS
<1> DEFINE a == Event("task.created", "codex")
           b == Event("worker.spawned", "worker")
<1>1. a \in Events /\ b \in Events
    BY EventTyped DEF EventTypes, Actors
<1>2. /\ a.type = "task.created" /\ b.type = "worker.spawned"
    BY DEF Event
<1> HIDE DEF a, b
<1>3. /\ log \in Seq(Events) /\ Len(log) = 2 /\ DOMAIN log = 1..2
      /\ log[1].type = "task.created" /\ log[2].type = "worker.spawned"
    BY <1>1, <1>2 DEF Init, a, b
<1>4. \A i \in DOMAIN log : log[i].type \in {"task.created", "worker.spawned"}
    BY <1>3
<1>5. \A t, y : t \notin {"task.created", "worker.spawned"} =>
          Of(log, t, y) = {} /\ AnyOf(log, t) = {}
    BY <1>4 DEF Of, AnyOf
<1>6. /\ Spawns(log) = {} /\ Verifications(log) = {} /\ Completions(log) = {}
      /\ AnyOf(log, "callback") = {} /\ AnyOf(log, "task.failed") = {}
    BY <1>5 DEF Spawns, Verifications, Completions
<1>7. 2 \in News(log) /\ \A i \in News(log) : i <= 2
    BY <1>3 DEF News, SetsStatus
<1>8. RecordedOnce
    BY <1>4 DEF RecordedOnce, ArtifactTypes
<1>9. StepsAlternate
    <2>1. InTurn(task, log)
        BY <1>3, <1>4, TurnNone
    <2> QED
        BY <2>1 DEF InTurn, StepsAlternate
<1>10. LogOK
    BY <1>3, <1>6, <1>7, <1>8, <1>9 DEF LogOK, LastThere, CompletionBacked,
       CancelExcludesCompletion, OneReviewerPerDiff, CallbacksHaveEvidence,
       CancelledOnlyOnNews
<1>11. JobsOK
    BY IdleRests DEF Init, JobsOK
<1>12. World
    <2>1. task \in InitialTasks /\ task.edits \in BOOLEAN
        BY TasksAssumption DEF Init, Tasks
    <2>2. Len(log) <= MaxEvents[task]
        BY <1>3, <2>1, BoundAssumption
    <2> QED
        BY <2>1, <2>2, LogBounds, BoundAssumption DEF Init, World, Diffs
<1> QED
    BY <1>10, <1>11, <1>12 DEF TaskInv

LEMMA EditInv == TaskInv /\ Edit => TaskInv'
<1> SUFFICES ASSUME TaskInv, Edit PROVE TaskInv'
    OBVIOUS
<1>1. World'
    BY BoundAssumption DEF TaskInv, World, Edit, Faulty, Ordinary
<1> QED
    BY <1>1, JobsSame DEF Edit

\* A written artifact is of its file.
LEMMA WriteInv ==
    ASSUME TaskInv, NEW f \in Files, NEW e \in Events, Fits(f, e), Write(f, e)
    PROVE  TaskInv'
<1>1. World'
    BY DEF TaskInv, World, Write, NoAppend, Elsewhere
<1> QED
    BY <1>1, JobsSame DEF Write, NoAppend, Elsewhere

LEMMA WorkerWritesInv == TaskInv /\ (WriteCheckpoint \/ WriteReport) => TaskInv'
<1> SUFFICES ASSUME TaskInv, WriteCheckpoint \/ WriteReport PROVE TaskInv'
    OBVIOUS
<1>1. CASE WriteCheckpoint
    <2>1. PICK s \in 1..task.checkpoints :
             Write("checkpoint.json",
                   [Event("checkpoint.received", "worker") EXCEPT !.step = s])
        BY <1>1 DEF WriteCheckpoint
    <2>2. s \in Steps
        BY TasksAssumption, LogBounds DEF TaskInv, World, Tasks, Steps
    <2> DEFINE e == [Event("checkpoint.received", "worker") EXCEPT !.step = s]
    <2>3. e \in Events /\ Fits("checkpoint.json", e)
        <3>1. /\ "checkpoint.received" \in EventTypes /\ "worker" \in Actors
            BY DEF EventTypes, Actors
        <3>2. /\ Event("checkpoint.received", "worker") \in Events
              /\ Event("checkpoint.received", "worker").type = "checkpoint.received"
              /\ Event("checkpoint.received", "worker").actor = "worker"
            BY <3>1, EventTyped DEF Event
        <3>3. e \in Events /\ e.type = "checkpoint.received" /\ e.actor = "worker"
            BY <2>2, <3>1, <3>2 DEF Events
        <3> HIDE DEF e
        <3> QED
            BY <3>3 DEF Fits, TypeOf, ActorOf
    <2> QED
        BY <2>1, <2>3, WriteInv DEF Files
<1>2. CASE WriteReport
    <2> DEFINE e == [Event("worker.report.received", "worker") EXCEPT !.diff = tree]
    <2>1. e \in Events /\ Fits("report.json", e)
        <3>1. /\ "worker.report.received" \in EventTypes /\ "worker" \in Actors
              /\ tree \in Diffs
            BY DEF TaskInv, World, EventTypes, Actors
        <3>2. /\ Event("worker.report.received", "worker") \in Events
              /\ Event("worker.report.received", "worker").type = "worker.report.received"
              /\ Event("worker.report.received", "worker").actor = "worker"
            BY <3>1, EventTyped DEF Event
        <3>3. e \in Events /\ e.type = "worker.report.received" /\ e.actor = "worker"
            BY <3>1, <3>2 DEF Events
        <3> HIDE DEF e
        <3> QED
            BY <3>3 DEF Fits, TypeOf, ActorOf
    <2> QED
        BY <1>2, <2>1, WriteInv DEF Files, WriteReport
<1> QED
    BY <1>1, <1>2

LEMMA ReviewWrittenInv == TaskInv /\ WriteReview => TaskInv'
<1> SUFFICES ASSUME TaskInv, WriteReview PROVE TaskInv'
    OBVIOUS
<1>1. PICK d \in prompted, verdict \in BOOLEAN :
         Write("review.json", [Event("review.completed", "reviewer") EXCEPT
                                  !.diff = d, !.ok = verdict])
    BY DEF WriteReview
<1> DEFINE e == [Event("review.completed", "reviewer") EXCEPT !.diff = d, !.ok = verdict]
<1>2. d \in Diffs
    BY DEF TaskInv, World
<1>3. e \in Events /\ Fits("review.json", e)
    <2>1. /\ "review.completed" \in EventTypes /\ "reviewer" \in Actors
        BY DEF EventTypes, Actors
    <2>2. /\ Event("review.completed", "reviewer") \in Events
          /\ Event("review.completed", "reviewer").type = "review.completed"
          /\ Event("review.completed", "reviewer").actor = "reviewer"
        BY <2>1, EventTyped DEF Event
    <2>3. e \in Events /\ e.type = "review.completed" /\ e.actor = "reviewer"
        BY <1>2, <2>2 DEF Events
    <2> HIDE DEF e
    <2> QED
        BY <2>3 DEF Fits, TypeOf, ActorOf
<1> QED
    BY <1>1, <1>3, WriteInv DEF Files

\* Nobody is about to complete a task that another one takes the writer from.
LEMMA OtherTaskInv == TaskInv /\ OtherTask => TaskInv'
<1> SUFFICES ASSUME TaskInv, OtherTask PROVE TaskInv'
    OBVIOUS
<1>1. World'
    BY DEF TaskInv, World, OtherTask, NoAppend, Elsewhere
<1>2. \A q \in Procs : Holds(task, job[q], log, FALSE)
    BY DEF TaskInv, JobsOK, OtherTask, Holds, Over
<1> QED
    BY <1>1, <1>2, JobsSame DEF OtherTask, NoAppend, Elsewhere

LEMMA ExpireInv == TaskInv /\ Expire => TaskInv'
<1> SUFFICES ASSUME TaskInv, Expire PROVE TaskInv'
    OBVIOUS
<1>1. World'
    BY BoundAssumption DEF TaskInv, World, Expire, Faulty
<1> QED
    BY <1>1, JobsSame DEF Expire

LEMMA EnvironmentInv == TaskInv /\ Environment => TaskInv'
BY EditInv, WorkerWritesInv, ReviewWrittenInv, OtherTaskInv, ExpireInv DEF Environment

\* A command that fails, or a process that dies, leaves nothing to rest on.
LEMMA StopInv == ASSUME NEW p \in Procs PROVE TaskInv /\ (Fail(p) \/ Crash(p)) => TaskInv'
<1> SUFFICES ASSUME TaskInv, Fail(p) \/ Crash(p) PROVE TaskInv'
    OBVIOUS
<1>1. World' /\ Goes(p, Idle) /\ UNCHANGED <<task, log, owns, overtaken>>
    BY BoundAssumption DEF TaskInv, World, Fail, Crash, Faulty, Ends, Release, NoAppend,
       Elsewhere
<1> QED
    BY <1>1, IdleRests, QuietStep

-----------------------------------------------------------------------------
(***************************************************************************)
(* The commands that append one event after what they call out for.        *)
(***************************************************************************)
\* An event that no gate and no property speaks of needs no justification.
LEMMA PlainJustified ==
    ASSUME NEW e, NEW l, NEW t,
           e.type \notin ArtifactTypes \union {"task.completed", "task.cancelled",
                             "reviewer.spawned", "codex.approved", "callback",
                             "task.failed"}
    PROVE  Justified(t, e, FALSE, l)
BY DEF Justified, Turn, ArtifactTypes

LEMMA DecideInv ==
    ASSUME TaskInv, NEW c \in Controllers, NEW cmd \in Commands \ {"notify"}, NEW e \in Events,
           e.type \notin ArtifactTypes \union {"callback"}, Justified(task, e, FALSE, log),
           cmd \in {"cancel", "complete"} => e.type \in Ending,
           e.type = "task.completed" => Status(log) \notin Over /\ (task.edits => owns),
           Appends(c, cmd, e), prompted' \subseteq Diffs
    PROVE  TaskInv'
<1> DEFINE j == [Idle EXCEPT !.at = "append", !.cmd = cmd, !.event = e]
<1>1. /\ j \in Jobs /\ j.at = "append" /\ j.cmd = cmd /\ j.event = e /\ j.stale = FALSE
      /\ j.art = Missing
    BY IdleRests DEF Idle, Jobs, Points, Commands
<1>2. Goes(c, j) /\ Acquire(c)
    BY DEF Appends, Begins
<1> HIDE DEF j
<1>3. JobForm(c, j) /\ Rests(task, j, log) /\ Holds(task, j, log, owns)
    BY <1>1 DEF JobForm, Rests, Holds
<1>4. World'
    BY <1>2 DEF TaskInv, World, Appends, NoAppend, Acquire
<1>5. c \in Procs /\ UNCHANGED <<task, log, owns, overtaken>>
    BY DEF Procs, Appends, NoAppend
<1> QED
    BY <1>1, <1>2, <1>3, <1>4, <1>5, QuietStep

LEMMA ContinueInv ==
    ASSUME TaskInv, NEW c \in Controllers, NEW cmd \in {"cancel", "complete"},
           NEW at \in {"release", "manifest"}, Continues(c, cmd, at), Endings(log) # {}
    PROVE  TaskInv'
<1> DEFINE j == [Idle EXCEPT !.at = at, !.cmd = cmd]
<1>1. Idle \in Jobs /\ Idle.art = Missing
    BY IdleRests DEF Idle
<1>2. j \in Jobs /\ j.at = at /\ j.cmd = cmd /\ j.art = Missing
    BY <1>1 DEF Jobs, Points, Commands
<1>3. Goes(c, j) /\ Acquire(c)
    BY DEF Continues, Begins
<1> HIDE DEF j
<1>4. JobForm(c, j) /\ Rests(task, j, log) /\ Holds(task, j, log, owns)
    BY <1>2 DEF JobForm, Rests, Holds
<1>5. World'
    BY <1>3 DEF TaskInv, World, Continues, NoAppend, Acquire, Elsewhere
<1>6. c \in Procs /\ UNCHANGED <<task, log, owns, overtaken>>
    BY DEF Procs, Continues, NoAppend, Elsewhere
<1> QED
    BY <1>2, <1>3, <1>4, <1>5, <1>6, QuietStep

LEMMA MessageInv ==
    ASSUME NEW c \in Controllers, NEW t \in Messages
    PROVE  TaskInv /\ Message(c, t) => TaskInv'
<1> SUFFICES ASSUME TaskInv, Message(c, t) PROVE TaskInv'
    OBVIOUS
<1>1. /\ t \in EventTypes /\ "codex" \in Actors
      /\ t \notin ArtifactTypes \union {"task.completed", "task.cancelled",
                              "reviewer.spawned", "codex.approved", "callback",
                              "task.failed"} \union Ending
    BY MessagesAssumption DEF EventTypes, Actors, ArtifactTypes, Ending
<1>2. /\ Event(t, "codex") \in Events /\ Event(t, "codex").type = t
    BY <1>1, EventTyped DEF Event
<1>3. Justified(task, Event(t, "codex"), FALSE, log)
    BY <1>1, <1>2, PlainJustified
<1>4. Appends(c, "message", Event(t, "codex")) /\ prompted' \subseteq Diffs
    BY DEF Message, TaskInv, World
<1>5. "message" \in Commands \ {"notify"}
    BY DEF Commands
<1> QED
    BY <1>1, <1>2, <1>3, <1>4, <1>5, DecideInv

LEMMA ApproveInv ==
    ASSUME NEW c \in Controllers, NEW s \in 1..MaxSteps
    PROVE  TaskInv /\ Approve(c, s) => TaskInv'
<1> SUFFICES ASSUME TaskInv, Approve(c, s) PROVE TaskInv'
    OBVIOUS
<1> DEFINE e == [Event("codex.approved", "codex") EXCEPT !.step = s]
<1>1. /\ "codex.approved" \in EventTypes /\ "codex" \in Actors /\ s \in Steps
      /\ "codex.approved" \notin ArtifactTypes \union {"callback"}
    BY LogBounds DEF EventTypes, Actors, ArtifactTypes, Steps
<1>2. /\ Event("codex.approved", "codex") \in Events
      /\ Event("codex.approved", "codex").type = "codex.approved"
    BY <1>1, EventTyped DEF Event
<1>3. e \in Events /\ e.type = "codex.approved" /\ e.step = s
    BY <1>1, <1>2 DEF Events
<1>4. Appends(c, "message", e) /\ prompted' \subseteq Diffs
    BY DEF Approve, TaskInv, World
<1> HIDE DEF e
<1>5. Justified(task, e, FALSE, log)
    BY <1>1, <1>3 DEF Approve, Justified, Turn
<1>6. "message" \in Commands \ {"notify"}
    BY DEF Commands
<1> QED
    BY <1>1, <1>3, <1>4, <1>5, <1>6, DecideInv

LEMMA VerifyInv == ASSUME NEW c \in Controllers PROVE TaskInv /\ Verify(c) => TaskInv'
<1> SUFFICES ASSUME TaskInv, Verify(c) PROVE TaskInv'
    OBVIOUS
<1>1. PICK green \in BOOLEAN :
          Appends(c, "verify",
                  [Event("verification.completed", "controller") EXCEPT
                      !.diff = tree, !.ok = green /\ InScope(task, tree)])
    BY DEF Verify
<1> DEFINE v == green /\ InScope(task, tree)
           e == [Event("verification.completed", "controller") EXCEPT
                      !.diff = tree, !.ok = v]
<1>2. /\ "verification.completed" \in EventTypes /\ "controller" \in Actors
      /\ tree \in Diffs
      /\ "verification.completed" \notin
            ArtifactTypes \union {"task.completed", "task.cancelled",
                                  "reviewer.spawned", "codex.approved", "callback",
                                  "task.failed"}
    BY DEF EventTypes, Actors, ArtifactTypes, TaskInv, World
<1>3. /\ Event("verification.completed", "controller") \in Events
      /\ Event("verification.completed", "controller").type = "verification.completed"
    BY <1>2, EventTyped DEF Event
<1>4. Appends(c, "verify", e)
    BY <1>1
<1>5. v \in BOOLEAN
    BY DEF InScope
<1> HIDE DEF v
<1>6. e \in Events /\ e.type = "verification.completed"
    BY <1>2, <1>3, <1>5 DEF Events
<1> HIDE DEF e
<1>7. Justified(task, e, FALSE, log)
    BY <1>2, <1>6, PlainJustified
<1>8. "verify" \in Commands \ {"notify"} /\ prompted' \subseteq Diffs
    BY DEF Commands, Verify, TaskInv, World
<1> QED
    BY <1>2, <1>4, <1>6, <1>7, <1>8, DecideInv

\* A reviewer is spawned on a state the latest one was not assigned.
LEMMA ReviewInv == ASSUME NEW c \in Controllers PROVE TaskInv /\ Review(c) => TaskInv'
<1> SUFFICES ASSUME TaskInv, Review(c) PROVE TaskInv'
    OBVIOUS
<1> DEFINE e == [Event("reviewer.spawned", "reviewer") EXCEPT !.diff = tree]
<1>1. /\ "reviewer.spawned" \in EventTypes /\ "reviewer" \in Actors /\ tree \in Diffs
      /\ "reviewer.spawned" \notin ArtifactTypes \union {"callback"}
    BY DEF EventTypes, Actors, ArtifactTypes, TaskInv, World
<1>2. /\ Event("reviewer.spawned", "reviewer") \in Events
      /\ Event("reviewer.spawned", "reviewer").type = "reviewer.spawned"
    BY <1>1, EventTyped DEF Event
<1>3. e \in Events /\ e.type = "reviewer.spawned" /\ e.diff = tree
    BY <1>1, <1>2 DEF Events
<1>4. Appends(c, "review", e) /\ prompted' \subseteq Diffs
    BY <1>1 DEF Review, TaskInv, World
<1> HIDE DEF e
<1>5. Fresh(log, tree)
    <2> SUFFICES ASSUME NEW i \in Spawns(log), \A j \in Spawns(log) : j <= i
                 PROVE  log[i].diff # tree
        BY DEF Fresh
    <2>1. Spawns(log) \subseteq Nat /\ LastThere(Spawns(log)) /\ Spawns(log) # {}
        BY DEF Spawns, Of, TaskInv, LogOK
    <2>2. Latest(Spawns(log)) = i
        BY <2>1, LatestIn
    <2> QED
        BY <2>1, <2>2 DEF Review, Assigned, Current
<1>6. Justified(task, e, FALSE, log)
    BY <1>3, <1>5 DEF Justified, Turn, ArtifactTypes
<1>7. "review" \in Commands \ {"notify"}
    BY DEF Commands
<1> QED
    BY <1>1, <1>3, <1>4, <1>6, <1>7, DecideInv

\* The latest news says whether a task is over.
LEMMA NewsSays ==
    ASSUME TaskInv
    PROVE  \E k \in News(log) :
              /\ \A j \in News(log) : j <= k
              /\ Status(log) = "completed" <=> log[k].type = "task.completed"
              /\ Status(log) = "cancelled" <=> log[k].type = "task.cancelled"
              /\ Status(log) = "failed" <=> log[k].type = "task.failed"
              /\ Status(log) # "unknown"
<1>1. log \in Seq(Events) /\ News(log) # {} /\ LastThere(News(log))
    BY DEF TaskInv, LogOK
<1>2. PICK k \in News(log) : /\ \A j \in News(log) : j <= k
                             /\ Status(log) = StatusAfter(log[k])
    BY <1>1, StatusIs
<1>3. log[k] \in Events
    BY <1>1, <1>2 DEF News
<1> QED
    BY <1>2, <1>3, StatusEnds

\* A task whose status is over has ended: it never fails.
LEMMA OverEnds ==
    ASSUME TaskInv, Status(log) \in Over
    PROVE  Endings(log) # {}
<1>1. PICK k \in News(log) :
         /\ Status(log) = "completed" <=> log[k].type = "task.completed"
         /\ Status(log) = "cancelled" <=> log[k].type = "task.cancelled"
         /\ Status(log) = "failed" <=> log[k].type = "task.failed"
         /\ Status(log) # "unknown"
    BY NewsSays
<1>2. k \in DOMAIN log /\ log[k].type # "task.failed"
    BY <1>1 DEF News, AnyOf, TaskInv, LogOK
<1> QED
    BY <1>1, <1>2 DEF Over, Endings, Ending

\* A cancellation finds that another status has followed every completion.
LEMMA CancelInv == ASSUME NEW c \in Controllers PROVE TaskInv /\ Cancel(c) => TaskInv'
<1> SUFFICES ASSUME TaskInv, Cancel(c) PROVE TaskInv'
    OBVIOUS
<1>1. CASE Status(log) = "cancelled" /\ Continues(c, "cancel", "release")
    <2>1. Endings(log) # {}
        BY <1>1, OverEnds DEF Over
    <2> QED
        BY <1>1, <2>1, ContinueInv
<1>2. CASE Appends(c, "cancel", Event("task.cancelled", "codex")) /\ UNCHANGED prompted
    <2>1. MovedOn(log)
        <3>1. PICK k \in News(log) :
                 /\ \A j \in News(log) : j <= k
                 /\ Status(log) = "completed" <=> log[k].type = "task.completed"
            BY NewsSays
        <3>2. log[k].type # "task.completed" /\ SetsStatus(log[k])
            BY <3>1 DEF Cancel, News
        <3>3. log \in Seq(Events) /\ DOMAIN log = 1..Len(log) /\ Len(log) \in Nat
            BY DEF TaskInv, LogOK
        <3>4. ASSUME NEW i \in Completions(log) PROVE k \in (i + 1)..Len(log)
            <4>1. i \in News(log) /\ log[i].type = "task.completed"
                BY DEF Completions, Of, News, SetsStatus
            <4>2. i <= k /\ i # k
                BY <3>1, <3>2, <4>1
            <4>3. i \in 1..Len(log) /\ k \in 1..Len(log)
                BY <3>3, <4>1, <3>1 DEF News
            <4> QED
                BY <3>3, <4>2, <4>3
        <3> QED
            BY <3>2, <3>4 DEF MovedOn
    <2>2. "task.cancelled" \in EventTypes /\ "codex" \in Actors
        BY DEF EventTypes, Actors
    <2>3. /\ Event("task.cancelled", "codex") \in Events
          /\ Event("task.cancelled", "codex").type = "task.cancelled"
        BY <2>2, EventTyped DEF Event
    <2>4. Justified(task, Event("task.cancelled", "codex"), FALSE, log)
        BY <2>1, <2>3 DEF Justified, Turn, ArtifactTypes
    <2>5. "cancel" \in Commands \ {"notify"} /\ prompted' \subseteq Diffs
        BY <1>2 DEF Commands, TaskInv, World
    <2> QED
        BY <1>2, <2>3, <2>4, <2>5, DecideInv DEF ArtifactTypes, Ending
<1> QED
    BY <1>1, <1>2 DEF Cancel

\* The gate finds the task alive, its evidence in order and its writer there.
LEMMA CompleteInv == ASSUME NEW c \in Controllers PROVE TaskInv /\ Complete(c) => TaskInv'
<1> SUFFICES ASSUME TaskInv, Complete(c) PROVE TaskInv'
    OBVIOUS
<1>1. CASE Completed /\ Continues(c, "complete", "manifest")
    <2>1. Endings(log) # {}
        BY <1>1, OverEnds DEF Over, Completed
    <2> QED
        BY <1>1, <2>1, ContinueInv
<1>2. CASE /\ ~Completed /\ Appends(c, "complete", Event("task.completed", "controller"))
           /\ UNCHANGED prompted
    <2> DEFINE e == Event("task.completed", "controller")
    <2>1. "task.completed" \in EventTypes /\ "controller" \in Actors
        BY DEF EventTypes, Actors
    <2>2. e \in Events /\ e.type = "task.completed"
        BY <2>1, EventTyped DEF Event
    <2> HIDE DEF e
    <2>3. tree \in Diffs /\ log \in Seq(Events) /\ LastThere(Verifications(log))
        BY DEF TaskInv, World, LogOK
    <2>4. Backed(task, log, Len(log), tree) /\ NotEnded(log)
        BY <2>3, GateBacks DEF Complete
    <2>5. AnyOf(log, "task.cancelled") = {} /\ AnyOf(log, "task.failed") = {}
        BY <2>4 DEF NotEnded
    <2>6. Justified(task, e, FALSE, log)
        BY <2>2, <2>3, <2>4, <2>5 DEF Justified, Turn, ArtifactTypes
    <2>7. Status(log) \notin Over
        <3>1. PICK k \in News(log) :
                 /\ Status(log) = "cancelled" <=> log[k].type = "task.cancelled"
                 /\ Status(log) = "failed" <=> log[k].type = "task.failed"
                 /\ Status(log) # "unknown"
            BY NewsSays
        <3>2. log[k].type # "task.cancelled" /\ log[k].type # "task.failed"
            BY <2>5, <3>1 DEF AnyOf, News
        <3> QED
            BY <1>2, <3>1, <3>2 DEF Over, Completed
    <2>8. task.edits => owns
        BY <1>2 DEF Complete, OwnsWriter
    <2>9. "complete" \in Commands \ {"notify"} /\ prompted' \subseteq Diffs
        BY <1>2 DEF Commands, TaskInv, World
    <2>10. Appends(c, "complete", e)
        BY <1>2 DEF e
    <2> QED
        BY <2>2, <2>6, <2>7, <2>8, <2>9, <2>10, DecideInv DEF ArtifactTypes, Ending
<1> QED
    BY <1>1, <1>2 DEF Complete

\* A completion that is looked at again has ended the task.
LEMMA CompleteAgainInv ==
    ASSUME NEW c \in Controllers PROVE TaskInv /\ CompleteAgain(c) => TaskInv'
<1> SUFFICES ASSUME TaskInv, CompleteAgain(c) PROVE TaskInv'
    OBVIOUS
<1> DEFINE j == [Idle EXCEPT !.at = "confirm", !.cmd = "complete", !.seen = tree,
                             !.held = manifest.diff]
<1>1. Idle \in Jobs /\ Idle.art = Missing
    BY IdleRests DEF Idle
<1>2. tree \in Diffs /\ manifest.diff \in Diffs
    BY DEF TaskInv, World, CompleteAgain
<1>3. j \in Jobs /\ j.at = "confirm" /\ j.cmd = "complete" /\ j.art = Missing
    BY <1>1, <1>2 DEF Jobs, Points, Commands
<1>4. Goes(c, j) /\ Acquire(c)
    BY DEF CompleteAgain, Begins
<1> HIDE DEF j
<1>5. Endings(log) # {}
    BY OverEnds DEF CompleteAgain, Completed, Over
<1>6. JobForm(c, j) /\ Rests(task, j, log) /\ Holds(task, j, log, owns)
    BY <1>3, <1>5 DEF JobForm, Rests, Holds
<1>7. World'
    BY <1>4 DEF TaskInv, World, CompleteAgain, NoAppend, Acquire, Elsewhere
<1>8. c \in Procs /\ UNCHANGED <<task, log, owns, overtaken>>
    BY DEF Procs, CompleteAgain, NoAppend, Elsewhere
<1> QED
    BY <1>3, <1>4, <1>6, <1>7, <1>8, QuietStep

\* It is confirmed, or the command ends.
LEMMA ConfirmInv == ASSUME NEW c \in Controllers PROVE TaskInv /\ Confirm(c) => TaskInv'
<1> SUFFICES ASSUME TaskInv, Confirm(c) PROVE TaskInv'
    OBVIOUS
<1> DEFINE j == [Idle EXCEPT !.at = "release", !.cmd = "complete"]
<1>1. Idle \in Jobs /\ Idle.art = Missing
    BY IdleRests DEF Idle
<1>2. j \in Jobs /\ j.at = "release" /\ j.cmd = "complete" /\ j.art = Missing
    BY <1>1 DEF Jobs, Points, Commands
<1>3. Goes(c, j) \/ Goes(c, Idle)
    BY DEF Confirm, Ends
<1> HIDE DEF j
<1>4. c \in Procs /\ Endings(log) # {}
    BY DEF Procs, TaskInv, JobsOK, Rests, Confirm
<1>5. JobForm(c, j) /\ Rests(task, j, log) /\ Holds(task, j, log, owns)
    BY <1>2, <1>4 DEF JobForm, Rests, Holds
<1>6. World'
    BY DEF TaskInv, World, Confirm, Ends, Release, NoAppend, Elsewhere
<1>7. UNCHANGED <<task, log, owns, overtaken>>
    BY DEF Confirm, NoAppend, Elsewhere
<1> QED
    BY <1>2, <1>3, <1>4, <1>5, <1>6, <1>7, IdleRests, QuietStep

LEMMA RecordInv == ASSUME NEW c \in Controllers PROVE TaskInv /\ Record(c) => TaskInv'
<1> SUFFICES ASSUME TaskInv, Record(c) PROVE TaskInv'
    OBVIOUS
<1>1. /\ c \in Procs /\ job[c].event \in Events /\ job[c].cmd \in Commands
      /\ Justified(task, job[c].event, job[c].stale, log)
      /\ job[c].cmd \in {"cancel", "complete"} => job[c].event.type \in Ending
    BY DEF Procs, TaskInv, JobsOK, Jobs, Rests, JobForm, Record
<1> DEFINE at == After(job[c].cmd)
           j == IF at = "idle" THEN Idle ELSE [Idle EXCEPT !.at = at, !.cmd = job[c].cmd]
<1>2. /\ at \in {"idle", "release", "manifest"} /\ (job[c].cmd = "notify" => at = "idle")
      /\ at # "idle" => job[c].cmd \in {"cancel", "complete"}
    BY DEF After
<1>3. AppendEvent(c, job[c].event, j) /\ lease' \in Controllers \union {Nobody}
    BY DEF Record, Release, TaskInv, World
<1> HIDE DEF at
<1>4. Idle \in Jobs /\ Idle.at = "idle" /\ Idle.art = Missing /\ JobForm(c, Idle)
    BY IdleRests DEF Idle
<1>5. /\ j \in Jobs /\ j.at = at /\ JobForm(c, j)
    <2>1. CASE at = "idle"
        BY <1>4, <2>1
    <2>2. CASE at # "idle"
        <3>1. j = [Idle EXCEPT !.at = at, !.cmd = job[c].cmd]
            BY <2>2
        <3>2. j \in Jobs /\ j.at = at /\ j.cmd = job[c].cmd /\ j.art = Missing
            BY <1>1, <1>2, <1>4, <3>1 DEF Jobs, Points
        <3> QED
            BY <1>2, <2>2, <3>2 DEF JobForm
    <2> QED
        BY <2>1, <2>2
<1> HIDE DEF j
<1>6. UNCHANGED <<task, tree, prompted, outbox, owns, manifest>>
    BY DEF Record, Elsewhere
<1> QED
    BY <1>1, <1>2, <1>3, <1>5, <1>6, AppendStep

\* The log is never empty.
LEMMA WriteManifestInv ==
    ASSUME NEW c \in Controllers PROVE TaskInv /\ WriteManifest(c) => TaskInv'
<1> SUFFICES ASSUME TaskInv, WriteManifest(c) PROVE TaskInv'
    OBVIOUS
<1> DEFINE j == [job[c] EXCEPT !.at = "release"]
<1>1. /\ c \in Procs /\ job[c] \in Jobs /\ JobForm(c, job[c])
      /\ Endings(log) # {}
    BY DEF Procs, TaskInv, JobsOK, Rests, WriteManifest
<1>2. /\ j \in Jobs /\ j.at = "release" /\ j.cmd = job[c].cmd /\ j.art = job[c].art
      /\ j.event = job[c].event /\ j.file = job[c].file
    BY <1>1 DEF Jobs, Points
<1>3. Goes(c, j)
    BY DEF WriteManifest
<1> HIDE DEF j
<1>4. JobForm(c, j) /\ Rests(task, j, log) /\ Holds(task, j, log, owns)
    BY <1>1, <1>2 DEF JobForm, Rests, Holds
<1>5. Len(log) \in DOMAIN log
    BY DEF TaskInv, LogOK, News
<1>6. World'
    BY <1>5 DEF TaskInv, World, WriteManifest, NoAppend, Elsewhere
<1>7. UNCHANGED <<task, log, owns, overtaken>>
    BY DEF WriteManifest, NoAppend, Elsewhere
<1> QED
    BY <1>1, <1>2, <1>3, <1>4, <1>6, <1>7, QuietStep

\* Nobody who is about to complete the task still counts on the writer.
LEMMA GiveBackInv == ASSUME NEW c \in Controllers PROVE TaskInv /\ GiveBack(c) => TaskInv'
<1> SUFFICES ASSUME TaskInv, GiveBack(c) PROVE TaskInv'
    OBVIOUS
<1>1. World'
    BY DEF TaskInv, World, GiveBack, ReleaseWriter, Release, NoAppend, Elsewhere
<1>2. LogOK'
    BY LogSame DEF TaskInv, GiveBack, NoAppend, Elsewhere
<1>3. ASSUME NEW q \in Procs
      PROVE  /\ job'[q] \in Jobs /\ JobForm(q, job'[q])
             /\ Rests(task, job'[q], log) /\ Holds(task, job'[q], log, owns')
    <2>1. CASE q = c
        BY <2>1, IdleRests DEF GiveBack
    <2>2. CASE q # c
        <3> DEFINE b == job[q].stale \/ job[q].at = "append"
                   k == [job[q] EXCEPT !.stale = b]
        <3>1. job[q] \in Jobs /\ JobForm(q, job[q]) /\ Rests(task, job[q], log)
            BY DEF TaskInv, JobsOK
        <3>2. job'[q] = k /\ b \in BOOLEAN
            BY <2>2, <3>1 DEF GiveBack, Jobs
        <3>3. k \in Jobs /\ JobForm(q, k)
            BY <3>1, <3>2, StaleTyped
        <3>4. /\ k.at = job[q].at /\ k.cmd = job[q].cmd /\ k.event = job[q].event
              /\ k.art = job[q].art /\ k.stale = b
            BY <3>1 DEF Jobs
        <3> HIDE DEF k
        <3>5. k.at = "append" => k.stale = TRUE
            BY <3>4, <3>2
        <3>6. k.at = "checked" => k.stale = job[q].stale
            BY <3>1, <3>4 DEF Jobs
        <3>7. Rests(task, k, log)
            BY <3>1, <3>4, <3>5, <3>6, JustifiedStale DEF Rests
        <3>8. Holds(task, k, log, owns')
            BY <3>5 DEF Holds
        <3> QED
            BY <3>2, <3>3, <3>7, <3>8
    <2> QED
        BY <2>1, <2>2
<1>4. job' \in [Procs -> Jobs]
    BY <1>3 DEF GiveBack
<1>5. task' = task /\ log' = log
    BY DEF GiveBack, NoAppend, Elsewhere
<1>6. JobsOK'
    BY <1>3, <1>4, <1>5 DEF JobsOK
<1> QED
    BY <1>1, <1>2, <1>6 DEF TaskInv

-----------------------------------------------------------------------------
(***************************************************************************)
(* Ingestion and callbacks.                                                *)
(***************************************************************************)
\* The command of p goes on in the same ledger.
LEMMA GoOnInv ==
    ASSUME TaskInv, NEW p \in Procs, NEW j \in Jobs, Goes(p, j), JobForm(p, j),
           Rests(task, j, log), j.at # "append",
           lease' \in Controllers \union {Nobody},
           \A f \in Files : outbox'[f] \in {outbox[f], Missing},
           outbox' \in [Files -> Events \union {Missing}],
           UNCHANGED <<task, log, tree, prompted, owns, manifest, overtaken, trouble>>
    PROVE  TaskInv'
<1>1. World'
    BY DEF TaskInv, World
<1>2. Holds(task, j, log, owns)
    BY DEF Holds
<1> QED
    BY <1>1, <1>2, QuietStep

\* A file that is read is one of those its command is about.
LEMMA ReadsOK ==
    ASSUME TaskInv, NEW p \in Procs, NEW j \in Jobs, JobForm(p, j), NEW f \in Files,
           j.cmd \in {"notify", "mailbox"},
           j.cmd = "notify" => j.event.kind \in Artful /\ f = ArtifactOf(p, j.event.kind)
    PROVE  LET k == [j EXCEPT !.at = "read", !.file = f, !.art = outbox[f]]
           IN  k \in Jobs /\ JobForm(p, k) /\ Rests(task, k, log) /\ k.at # "append"
<1> DEFINE k == [j EXCEPT !.at = "read", !.file = f, !.art = outbox[f]]
<1>1. outbox[f] \in Events \union {Missing} /\ (outbox[f] # Missing => Fits(f, outbox[f]))
    BY DEF TaskInv, World
<1>2. /\ k \in Jobs /\ k.at = "read" /\ k.file = f /\ k.art = outbox[f]
      /\ k.cmd = j.cmd /\ k.event = j.event
    BY <1>1 DEF Jobs, Points
<1> HIDE DEF k
<1>3. JobForm(p, k) /\ Rests(task, k, log)
    BY <1>1, <1>2 DEF JobForm, Rests
<1> QED
    BY <1>2, <1>3 DEF k

\* The session's artifact of kind k is in the log once its file has been seen there.
LEMMA SeenIsEvidence ==
    ASSUME NEW l, NEW a \in Sessions, NEW k \in Artful, k = "checkpoint" => a = "worker",
           NEW e, Fits(ArtifactOf(a, k), e), \E i \in DOMAIN l : l[i] = e
    PROVE  Evidence(l, a, k)
BY FileFacts DEF Fits, Evidence, Of

\* A command that is done with a file goes on, with its callback's evidence.
LEMMA OnwardOK ==
    ASSUME TaskInv, NEW p \in Procs, NEW j \in Jobs, JobForm(p, j),
           j.cmd \in {"notify", "mailbox"},
           j.cmd = "notify" /\ j.event.kind \in Artful =>
               Evidence(log, p, j.event.kind)
    PROVE  /\ Onward(j) \in Jobs /\ JobForm(p, Onward(j)) /\ Rests(task, Onward(j), log)
           /\ Onward(j).at # "append"
<1> DEFINE k == Onward(j)
<1>1. /\ k \in Jobs /\ k.at = "rest" /\ k.art = Missing /\ k.cmd = j.cmd
      /\ k.event = j.event
    BY DEF Onward, Jobs, Points, Files
<1> HIDE DEF k
<1>2. JobForm(p, k)
    BY <1>1 DEF JobForm
<1>3. Rests(task, k, log)
    BY <1>1 DEF Rests, Justified, Turn, JobForm, ArtifactTypes
<1> QED
    BY <1>1, <1>2, <1>3 DEF k

LEMMA IdleInv ==
    ASSUME TaskInv, NEW p \in Procs, Goes(p, Idle),
           lease' \in Controllers \union {Nobody},
           \A f \in Files : outbox'[f] \in {outbox[f], Missing},
           outbox' \in [Files -> Events \union {Missing}],
           UNCHANGED <<task, log, tree, prompted, owns, manifest, overtaken, trouble>>
    PROVE  TaskInv'
<1>1. Idle.at # "append"
    BY DEF Idle
<1> QED
    BY <1>1, IdleRests, GoOnInv

LEMMA CheckArtifactInv ==
    ASSUME NEW p \in Procs PROVE TaskInv /\ CheckArtifact(p) => TaskInv'
<1> SUFFICES ASSUME TaskInv, CheckArtifact(p) PROVE TaskInv'
    OBVIOUS
<1>1. /\ job[p] \in Jobs /\ JobForm(p, job[p]) /\ job[p].at = "read"
      /\ job[p].cmd \in {"notify", "mailbox"} /\ log \in Seq(Events)
      /\ lease \in Controllers \union {Nobody}
      /\ outbox \in [Files -> Events \union {Missing}]
    BY DEF TaskInv, JobsOK, LogOK, World, CheckArtifact, JobForm
<1>2. UNCHANGED <<task, log, tree, prompted, owns, manifest, overtaken, trouble>>
    BY DEF CheckArtifact, NoAppend, Elsewhere
<1>3. job[p].file \in Files
    BY <1>1 DEF Jobs
<1>4. CASE Recorded(job[p].art)
    <2>1. /\ outbox' = [outbox EXCEPT ![job[p].file] = Missing]
          /\ Goes(p, Onward(job[p])) /\ UNCHANGED lease
        BY <1>4 DEF CheckArtifact
    <2>2. PICK i \in DOMAIN log : log[i] = job[p].art
        BY <1>4 DEF Recorded
    <2>3. job[p].art # Missing
        BY <1>1, <2>2, AbsentAssumption
    <2>4. job[p].cmd = "notify" /\ job[p].event.kind \in Artful =>
              Evidence(log, p, job[p].event.kind)
        BY <1>1, <2>2, <2>3, SeenIsEvidence DEF JobForm
    <2>5. /\ Onward(job[p]) \in Jobs /\ JobForm(p, Onward(job[p]))
          /\ Rests(task, Onward(job[p]), log) /\ Onward(job[p]).at # "append"
        BY <1>1, <2>4, OnwardOK
    <2>6. /\ \A f \in Files : outbox'[f] \in {outbox[f], Missing}
          /\ outbox' \in [Files -> Events \union {Missing}]
        BY <1>1, <1>3, <2>1
    <2> QED
        BY <1>1, <1>2, <2>1, <2>5, <2>6, GoOnInv
<1>5. CASE ~Recorded(job[p].art) /\ job[p].art # Missing
           /\ Valid(job[p].file, job[p].art)
    <2> DEFINE j == [job[p] EXCEPT !.at = "checked", !.stale = FALSE]
    <2>1. Goes(p, j) /\ UNCHANGED <<outbox, lease>>
        BY <1>5 DEF CheckArtifact
    <2>2. /\ j \in Jobs /\ j.at = "checked" /\ j.stale = FALSE /\ j.art = job[p].art
          /\ j.file = job[p].file /\ j.cmd = job[p].cmd /\ j.event = job[p].event
        BY <1>1 DEF Jobs, Points
    <2> HIDE DEF j
    <2>3. JobForm(p, j)
        BY <1>1, <1>5, <2>2 DEF JobForm
    <2>4. j.art.type \in ArtifactTypes
        BY <1>1, <1>3, <1>5, <2>2, FileFacts DEF JobForm, Fits
    <2>5. Turn(task, log, j.art)
        <3> SUFFICES ASSUME j.art.type = "checkpoint.received" PROVE Turn(task, log, j.art)
            BY <2>4 DEF Turn, ArtifactTypes
        <3>1. job[p].file = "checkpoint.json"
            BY <1>1, <1>3, <1>5, <2>2 DEF JobForm, Fits, TypeOf, Files
        <3>2. CheckpointInTurn(j.art)
            BY <1>5, <2>2, <3>1 DEF Valid
        <3> QED
            BY <3>2 DEF CheckpointInTurn, Turn
    <2>6. Justified(task, j.art, FALSE, log)
        BY <1>5, <2>2, <2>4, <2>5 DEF Justified, Recorded, ArtifactTypes
    <2>7. Rests(task, j, log)
        BY <2>2, <2>6 DEF Rests
    <2> QED
        BY <1>1, <1>2, <2>1, <2>2, <2>3, <2>7, GoOnInv
<1>6. CASE Refused(p) /\ UNCHANGED outbox
    <2>1. CASE job[p].cmd = "mailbox"
        <3>1. Goes(p, Onward(job[p])) /\ UNCHANGED lease
            BY <1>6, <2>1 DEF Refused
        <3> QED
            BY <1>1, <1>2, <1>6, <2>1, <3>1, OnwardOK, GoOnInv
    <2>2. CASE job[p].cmd # "mailbox"
        <3>1. Goes(p, Idle) /\ lease' \in Controllers \union {Nobody}
            BY <1>1, <1>6, <2>2 DEF Refused, Ends, Release
        <3> QED
            BY <1>1, <1>2, <1>6, <3>1, IdleInv
    <2> QED
        BY <2>1, <2>2
<1> QED
    BY <1>4, <1>5, <1>6 DEF CheckArtifact

LEMMA RecordArtifactInv ==
    ASSUME NEW p \in Procs PROVE TaskInv /\ RecordArtifact(p) => TaskInv'
<1> SUFFICES ASSUME TaskInv, RecordArtifact(p) PROVE TaskInv'
    OBVIOUS
<1> DEFINE j == [job[p] EXCEPT !.at = "recorded", !.stale = FALSE]
<1>1. /\ job[p] \in Jobs /\ JobForm(p, job[p]) /\ job[p].at = "checked"
      /\ Justified(task, job[p].art, job[p].stale, log)
      /\ lease \in Controllers \union {Nobody}
    BY DEF TaskInv, JobsOK, World, RecordArtifact, Rests
<1>2. job[p].art \in Events
    BY <1>1 DEF JobForm, Jobs
<1>3. /\ j \in Jobs /\ j.at = "recorded" /\ j.art = job[p].art
      /\ j.file = job[p].file /\ j.cmd = job[p].cmd /\ j.event = job[p].event
    BY <1>1 DEF Jobs, Points
<1>4. AppendEvent(p, job[p].art, j)
    BY DEF RecordArtifact
<1> HIDE DEF j
<1>5. JobForm(p, j)
    BY <1>1, <1>3 DEF JobForm
<1>6. /\ UNCHANGED <<task, tree, prompted, outbox, owns, manifest>>
      /\ lease' \in Controllers \union {Nobody}
    BY <1>1 DEF RecordArtifact, Elsewhere
<1> QED
    BY <1>1, <1>2, <1>3, <1>4, <1>5, <1>6, AppendStep

LEMMA UnlinkArtifactInv ==
    ASSUME NEW p \in Procs PROVE TaskInv /\ UnlinkArtifact(p) => TaskInv'
<1> SUFFICES ASSUME TaskInv, UnlinkArtifact(p) PROVE TaskInv'
    OBVIOUS
<1>1. /\ job[p] \in Jobs /\ JobForm(p, job[p]) /\ job[p].at = "recorded"
      /\ Rests(task, job[p], log) /\ job[p].file \in Files
      /\ lease \in Controllers \union {Nobody}
      /\ outbox \in [Files -> Events \union {Missing}]
    BY DEF TaskInv, JobsOK, World, UnlinkArtifact, Jobs
<1>2. UNCHANGED <<task, log, tree, prompted, owns, manifest, overtaken, trouble>>
    BY DEF UnlinkArtifact, NoAppend, Elsewhere
<1>3. /\ \A f \in Files : outbox'[f] \in {outbox[f], Missing}
      /\ outbox' \in [Files -> Events \union {Missing}]
    BY <1>1 DEF UnlinkArtifact
<1>4. job[p].cmd = "notify" /\ job[p].event.kind \in Artful =>
          Evidence(log, p, job[p].event.kind)
    BY <1>1, SeenIsEvidence DEF JobForm, Rests
<1>5. CASE Ends(p)
    <2>1. Goes(p, Idle) /\ lease' \in Controllers \union {Nobody}
        BY <1>1, <1>5 DEF Ends, Release
    <2> QED
        BY <1>2, <1>3, <2>1, IdleInv
<1>6. CASE Goes(p, Onward(job[p])) /\ UNCHANGED lease
    <2>1. job[p].cmd \in {"notify", "mailbox"}
        BY <1>1 DEF JobForm
    <2>2. /\ Onward(job[p]) \in Jobs /\ JobForm(p, Onward(job[p]))
          /\ Rests(task, Onward(job[p]), log) /\ Onward(job[p]).at # "append"
        BY <1>1, <1>4, <2>1, OnwardOK
    <2> QED
        BY <1>1, <1>2, <1>3, <1>6, <2>2, GoOnInv
<1> QED
    BY <1>5, <1>6 DEF UnlinkArtifact

\* A callback waits for its artifact, in the outbox or in the log.
LEMMA NotifyInv ==
    ASSUME NEW a \in Sessions, NEW k \in Kinds \ {"none"}, NEW s \in Steps, NEW v \in BOOLEAN
    PROVE  TaskInv /\ Notify(a, k, s, v) => TaskInv'
<1> SUFFICES ASSUME TaskInv, Notify(a, k, s, v) PROVE TaskInv'
    OBVIOUS
<1> DEFINE e == Callback(a, k, s, v)
           j == [Idle EXCEPT !.cmd = "notify", !.event = e]
           f == ArtifactOf(a, k)
<1>1. /\ a \in Procs /\ a \in Actors /\ "callback" \in EventTypes
      /\ "notify" \in Commands
    BY DEF Sessions, Procs, Actors, EventTypes, Commands
<1>2. /\ Event("callback", a) \in Events /\ Event("callback", a).type = "callback"
      /\ Event("callback", a).actor = a
    BY <1>1, EventTyped DEF Event
<1>3. e \in Events /\ e.type = "callback" /\ e.actor = a /\ e.kind = k
    BY <1>2 DEF Callback, Events
<1> HIDE DEF e
<1>4. Idle \in Jobs /\ Idle.at = "idle" /\ Idle.art = Missing
    BY IdleRests DEF Idle
<1>5. /\ j \in Jobs /\ j.cmd = "notify" /\ j.event = e /\ j.art = Missing /\ j.at = "idle"
    BY <1>1, <1>3, <1>4 DEF Jobs
<1>6. k = "checkpoint" => a = "worker"
    BY DEF Notify
<1>7. /\ UNCHANGED <<task, log, tree, prompted, owns, manifest, overtaken, trouble>>
      /\ UNCHANGED <<outbox, lease>>
      /\ lease \in Controllers \union {Nobody}
      /\ outbox \in [Files -> Events \union {Missing}]
    BY DEF Notify, NoAppend, Elsewhere, TaskInv, World
<1>8. \/ /\ k \in Artful /\ outbox[f] # Missing
         /\ Goes(a, [j EXCEPT !.at = "read", !.file = f, !.art = outbox[f]])
      \/ /\ k \in Artful => Archived(a, k, s)
         /\ Goes(a, Onward(j))
    BY DEF Notify, Reads, Artful, e
<1> HIDE DEF j
<1>9. JobForm(a, j)
    BY <1>3, <1>5, <1>6 DEF JobForm
<1>10. CASE k \in Artful /\ Goes(a, [j EXCEPT !.at = "read", !.file = f, !.art = outbox[f]])
    <2> DEFINE r == [j EXCEPT !.at = "read", !.file = f, !.art = outbox[f]]
    <2>1. f \in Files
        BY <1>6, <1>10, FileFacts
    <2>2. j.cmd \in {"notify", "mailbox"} /\ j.event.kind = k
        BY <1>3, <1>5
    <2> HIDE DEF f
    <2>3. j.event.kind \in Artful /\ f = ArtifactOf(a, j.event.kind)
        BY <1>10, <2>2 DEF f
    <2>4. r \in Jobs /\ JobForm(a, r) /\ Rests(task, r, log) /\ r.at # "append"
        BY <1>1, <1>5, <1>9, <2>1, <2>2, <2>3, ReadsOK
    <2> QED
        BY <1>1, <1>7, <1>10, <2>4, GoOnInv
<1>11. CASE (k \in Artful => Archived(a, k, s)) /\ Goes(a, Onward(j))
    <2>1. k \in Artful => Evidence(log, a, k)
        <3>1. CASE k = "checkpoint"
            BY <1>6, <1>11, <3>1 DEF Archived, Evidence, Checkpoints, TypeOf, ArtifactOf,
               Artful
        <3>2. CASE k = "done" /\ a = "worker"
            BY <1>11, <3>2 DEF Archived, Evidence, Reports, TypeOf, ArtifactOf, Artful
        <3>3. CASE k = "done" /\ a = "reviewer"
            BY <1>11, <3>3 DEF Archived, Evidence, Reviews, TypeOf, ArtifactOf, Artful
        <3> QED
            BY <3>1, <3>2, <3>3 DEF Sessions, Artful
    <2>2. /\ Onward(j) \in Jobs /\ JobForm(a, Onward(j)) /\ Rests(task, Onward(j), log)
          /\ Onward(j).at # "append"
        BY <1>1, <1>3, <1>5, <1>9, <2>1, OnwardOK
    <2> QED
        BY <1>1, <1>7, <1>11, <2>2, GoOnInv
<1> QED
    BY <1>8, <1>10, <1>11

LEMMA TellInv == ASSUME NEW a \in Sessions PROVE TaskInv /\ Tell(a) => TaskInv'
<1> SUFFICES ASSUME TaskInv, Tell(a) PROVE TaskInv'
    OBVIOUS
<1>1. /\ a \in Procs /\ job[a] \in Jobs /\ JobForm(a, job[a]) /\ Rests(task, job[a], log)
      /\ job[a].at = "rest" /\ job[a].cmd = "notify" /\ lease \in Controllers \union {Nobody}
    BY DEF Procs, TaskInv, JobsOK, World, Tell
<1>2. job[a].event \in Events /\ job[a].event.type = "callback"
    BY <1>1 DEF Jobs, JobForm
<1>3. Justified(task, job[a].event, job[a].stale, log)
    <2>1. Justified(task, job[a].event, FALSE, log)
        BY <1>1 DEF Rests
    <2> QED
        BY <2>1, <1>1, JustifiedStale DEF Jobs
<1>4. Idle \in Jobs /\ JobForm(a, Idle) /\ Idle.at = "idle"
    BY IdleRests DEF Idle
<1>5. /\ AppendEvent(a, job[a].event, Idle)
      /\ UNCHANGED <<task, tree, prompted, outbox, owns, manifest>>
      /\ lease' \in Controllers \union {Nobody}
    BY <1>1 DEF Tell, Elsewhere
<1> QED
    BY <1>1, <1>2, <1>3, <1>4, <1>5, AppendStep

LEMMA MailboxInv ==
    ASSUME NEW c \in Controllers, NEW a \in Sessions PROVE TaskInv /\ Mailbox(c, a) => TaskInv'
<1> SUFFICES ASSUME TaskInv, Mailbox(c, a) PROVE TaskInv'
    OBVIOUS
<1> DEFINE fs == {f \in Files : ActorOf(f) = a /\ outbox[f] # Missing}
           j == [Idle EXCEPT !.at = "rest", !.cmd = "mailbox", !.files = fs]
<1>1. Idle \in Jobs /\ Idle.art = Missing /\ c \in Procs
    BY IdleRests DEF Idle, Procs
<1>2. Goes(c, j) /\ Acquire(c)
    BY DEF Mailbox, Begins
<1>3. fs \in SUBSET Files
    OBVIOUS
<1> HIDE DEF fs
<1>4. j \in Jobs /\ j.at = "rest" /\ j.cmd = "mailbox" /\ j.art = Missing
    BY <1>1, <1>3 DEF Jobs, Points, Commands
<1> HIDE DEF j
<1>5. JobForm(c, j) /\ Rests(task, j, log) /\ j.at # "append"
    BY <1>4 DEF JobForm, Rests
<1>6. /\ UNCHANGED <<task, log, tree, prompted, owns, manifest, overtaken, trouble>>
      /\ lease' \in Controllers \union {Nobody} /\ UNCHANGED outbox
      /\ outbox \in [Files -> Events \union {Missing}]
    BY <1>2 DEF Mailbox, Acquire, NoAppend, Elsewhere, TaskInv, World
<1> QED
    BY <1>1, <1>2, <1>4, <1>5, <1>6, GoOnInv

LEMMA MailboxNextInv ==
    ASSUME NEW c \in Controllers PROVE TaskInv /\ MailboxNext(c) => TaskInv'
<1> SUFFICES ASSUME TaskInv, MailboxNext(c) PROVE TaskInv'
    OBVIOUS
<1>1. PICK f \in job[c].files : Reads(c, [job[c] EXCEPT !.files = @ \ {f}], f)
    BY DEF MailboxNext
<1>2. /\ c \in Procs /\ job[c] \in Jobs /\ JobForm(c, job[c]) /\ job[c].cmd = "mailbox"
    BY DEF Procs, TaskInv, JobsOK, MailboxNext
<1> DEFINE j == [job[c] EXCEPT !.files = @ \ {f}]
           k == [j EXCEPT !.at = "read", !.file = f, !.art = outbox[f]]
<1>3. f \in Files
    BY <1>1, <1>2 DEF Jobs
<1>4. /\ j \in Jobs /\ j.cmd = "mailbox" /\ j.at = job[c].at /\ j.art = job[c].art
      /\ j.event = job[c].event /\ j.file = job[c].file
    BY <1>2 DEF Jobs
<1>5. Goes(c, k)
    BY <1>1 DEF Reads
<1> HIDE DEF j
<1>6. JobForm(c, j)
    BY <1>2, <1>4 DEF JobForm
<1>7. k \in Jobs /\ JobForm(c, k) /\ Rests(task, k, log) /\ k.at # "append"
    BY <1>2, <1>3, <1>4, <1>6, ReadsOK
<1>8. /\ UNCHANGED <<task, log, tree, prompted, owns, manifest, overtaken, trouble>>
      /\ UNCHANGED <<outbox, lease>> /\ lease \in Controllers \union {Nobody}
      /\ outbox \in [Files -> Events \union {Missing}]
    BY DEF MailboxNext, NoAppend, Elsewhere, TaskInv, World
<1> QED
    BY <1>2, <1>5, <1>7, <1>8, GoOnInv

\* What a mailbox finds of the worker is a sequence of warnings.
LEMMA WarningTyped ==
    ASSUME NEW b, NEW s, NEW a
    PROVE  /\ Warning(b, s, a) \in Seq(Events)
           /\ \A k \in DOMAIN Warning(b, s, a) : Warning(b, s, a)[k].type \in Warns
<1>1. \A t \in Warns : Event(t, "controller") \in Events /\ Event(t, "controller").type = t
    BY EventTyped DEF Warns, EventTypes, Actors, Event
<1> DEFINE Fine(x) == x \in Seq(Events) /\ \A k \in DOMAIN x : x[k].type \in Warns
           new(t, on) == IF on /\ ~Warned(t) THEN <<Event(t, "controller")>> ELSE <<>>
           recovered == a /\ ~b /\ ~s /\ (Warned("worker.blocked") \/ Warned("worker.stalled"))
           last == IF recovered THEN <<Event("worker.recovered", "controller")>> ELSE <<>>
<1>2. Fine(<<>>) /\ \A t \in Warns : Fine(<<Event(t, "controller")>>)
    BY <1>1
<1>3. \A x, y : Fine(x) /\ Fine(y) => Fine(x \o y)
    <2> SUFFICES ASSUME NEW x, NEW y, Fine(x), Fine(y) PROVE Fine(x \o y)
        OBVIOUS
    <2>1. x \in Seq(Events) /\ y \in Seq(Events)
        OBVIOUS
    <2>2. x \o y \in Seq(Events)
        BY <2>1
    <2>3. ASSUME NEW k \in DOMAIN (x \o y) PROVE (x \o y)[k].type \in Warns
        <3>1. CASE k \in DOMAIN x
            BY <2>1, <3>1
        <3>2. CASE k \notin DOMAIN x
            <4>1. k - Len(x) \in DOMAIN y /\ (x \o y)[k] = y[k - Len(x)]
                BY <2>1, <2>3, <3>2
            <4> QED
                BY <4>1
        <3> QED
            BY <3>1, <3>2
    <2> QED
        BY <2>2, <2>3
<1>4. Fine(new("worker.blocked", b)) /\ Fine(new("worker.stalled", s)) /\ Fine(last)
    BY <1>2 DEF Warns
<1>5. Warning(b, s, a) = new("worker.blocked", b) \o new("worker.stalled", s) \o last
    BY DEF Warning
<1> HIDE DEF Fine, new, last
<1>6. Fine(Warning(b, s, a))
    BY <1>3, <1>4, <1>5
<1> QED
    BY <1>6 DEF Fine

LEMMA MailboxWarnInv ==
    ASSUME NEW c \in Controllers PROVE TaskInv /\ MailboxWarn(c) => TaskInv'
<1> SUFFICES ASSUME TaskInv, MailboxWarn(c) PROVE TaskInv'
    OBVIOUS
<1>1. PICK found \in SUBSET Warnings, active \in BOOLEAN :
         LET es == Warning("worker.blocked" \in found, "worker.stalled" \in found, active)
             odd == Cardinality({i \in DOMAIN es : Odd(es[i])})
         IN  /\ trouble + odd <= MaxTrouble
             /\ Len(log) + Len(es) <= MaxEvents[task]
             /\ trouble' = trouble + odd
             /\ log' = log \o es
             /\ IF es = <<>> THEN Goes(c, Idle) ELSE Overtakes(c, Idle)
    BY DEF MailboxWarn
<1> DEFINE es == Warning("worker.blocked" \in found, "worker.stalled" \in found, active)
           odd == Cardinality({i \in DOMAIN es : Odd(es[i])})
<1>2. es \in Seq(Events) /\ \A k \in DOMAIN es : es[k].type \in Warns
    BY WarningTyped
<1>3. /\ trouble + odd <= MaxTrouble /\ Len(log) + Len(es) <= MaxEvents[task]
      /\ trouble' = trouble + odd /\ log' = log \o es
      /\ IF es = <<>> THEN Goes(c, Idle) ELSE Overtakes(c, Idle)
    BY <1>1
<1> HIDE DEF es
<1>4. odd \in Nat
    <2>1. DOMAIN es = 1..Len(es) /\ Len(es) \in Nat
        BY <1>2
    <2>2. IsFiniteSet(1..Len(es))
        BY <2>1, FS_Interval
    <2>3. {i \in DOMAIN es : Odd(es[i])} \subseteq 1..Len(es)
        BY <2>1
    <2>4. IsFiniteSet({i \in DOMAIN es : Odd(es[i])})
        BY <2>2, <2>3, FS_Subset
    <2> QED
        BY <2>4, FS_CardinalityType
<1> HIDE DEF odd
<1>5. /\ log \in Seq(Events) /\ trouble \in Nat /\ MaxTrouble \in Nat
      /\ lease \in Controllers \union {Nobody} /\ c \in Procs
      /\ overtaken \subseteq DOMAIN log
    BY BoundAssumption DEF TaskInv, LogOK, World, Procs
<1>6. /\ UNCHANGED <<task, tree, prompted, outbox, owns, manifest, overtaken>>
      /\ lease' \in Controllers \union {Nobody}
    BY <1>5 DEF MailboxWarn, Release, Elsewhere
<1>7. LogOK' /\ Grows(log, log')
    BY <1>2, <1>3, <1>6, WarnLog DEF TaskInv
<1>8. /\ log' \in Seq(Events) /\ Len(log') = Len(log) + Len(es)
      /\ DOMAIN log \subseteq DOMAIN log'
    BY <1>2, <1>3, <1>5
<1>9. World'
    <2>1. manifest \in [diff : Diffs, upto : DOMAIN log'] \union {Unwritten}
        BY <1>8 DEF TaskInv, World
    <2>2. trouble' \in 0..MaxTrouble
        BY <1>3, <1>4, <1>5
    <2> QED
        BY <1>3, <1>5, <1>6, <1>8, <2>1, <2>2 DEF TaskInv, World
<1>10. CASE es = <<>> /\ Goes(c, Idle)
    <2>1. log' = log
        BY <1>3, <1>5, <1>10
    <2> QED
        BY <1>5, <1>6, <1>9, <1>10, <2>1, IdleRests, QuietStep
<1>11. CASE Overtakes(c, Idle)
    <2>1. Rests(task, Idle, log') /\ Holds(task, Idle, log', owns')
        BY DEF Rests, Holds, Idle
    <2>2. JobsOK'
        BY <1>5, <1>6, <1>7, <1>8, <1>11, <2>1, IdleRests, JobsOvertaken DEF TaskInv
    <2> QED
        BY <1>7, <1>9, <2>2 DEF TaskInv
<1> QED
    BY <1>3, <1>10, <1>11

-----------------------------------------------------------------------------
(***************************************************************************)
(* The invariant.                                                          *)
(***************************************************************************)
LEMMA SessionInv ==
    ASSUME NEW a \in Sessions PROVE TaskInv /\ SessionStep(a) => TaskInv'
<1> SUFFICES ASSUME TaskInv, SessionStep(a) PROVE TaskInv'
    OBVIOUS
<1>1. CASE Tell(a)
    BY <1>1, TellInv
<1>2. CASE \E k \in Prompted(a), s \in Steps, v \in BOOLEAN : Notify(a, k, s, v)
    <2>1. Prompted(a) \subseteq Kinds \ {"none"}
        BY DEF Prompted, Kinds
    <2> QED
        BY <1>2, <2>1, NotifyInv
<1> QED
    BY <1>1, <1>2 DEF SessionStep

LEMMA ControllerInv ==
    ASSUME NEW c \in Controllers PROVE TaskInv /\ ControllerStep(c) => TaskInv'
<1> SUFFICES ASSUME TaskInv, ControllerStep(c) PROVE TaskInv'
    OBVIOUS
<1>1. CASE \E a \in Sessions : Mailbox(c, a)
    BY <1>1, MailboxInv
<1>2. CASE MailboxNext(c) \/ MailboxWarn(c)
    BY <1>2, MailboxNextInv, MailboxWarnInv
<1>3. CASE \E t \in Messages : Message(c, t)
    BY <1>3, MessageInv
<1>4. CASE \E s \in 1..MaxSteps : s <= task.steps /\ Approve(c, s)
    BY <1>4, ApproveInv
<1>5. CASE Verify(c) \/ Review(c)
    BY <1>5, VerifyInv, ReviewInv
<1>6. CASE Cancel(c) \/ Complete(c) \/ CompleteAgain(c) \/ Confirm(c)
    BY <1>6, CancelInv, CompleteInv, CompleteAgainInv, ConfirmInv
<1>7. CASE Record(c) \/ WriteManifest(c) \/ GiveBack(c)
    BY <1>7, RecordInv, WriteManifestInv, GiveBackInv
<1> QED
    BY <1>1, <1>2, <1>3, <1>4, <1>5, <1>6, <1>7 DEF ControllerStep

LEMMA NextInv == TaskInv /\ [Next]_vars => TaskInv'
<1> SUFFICES ASSUME TaskInv, [Next]_vars PROVE TaskInv'
    OBVIOUS
<1>1. CASE Environment
    BY <1>1, EnvironmentInv
<1>2. CASE \E a \in Sessions : SessionStep(a)
    BY <1>2, SessionInv
<1>3. CASE \E c \in Controllers : ControllerStep(c)
    BY <1>3, ControllerInv
<1>4. CASE \E p \in Procs : AnyStep(p)
    BY <1>4, CheckArtifactInv, RecordArtifactInv, UnlinkArtifactInv, StopInv DEF AnyStep
<1>5. CASE UNCHANGED vars
    <2>1. World'
        BY <1>5 DEF TaskInv, World, vars
    <2> QED
        BY <1>5, <2>1, JobsSame DEF vars
<1> QED
    BY <1>1, <1>2, <1>3, <1>4, <1>5 DEF Next

\* What is known of the log, of every command and of the world around them.
THEOREM TaskSafe == Spec => []TaskInv
<1>1. TaskInv /\ [Next]_vars => TaskInv'
    BY NextInv
<1> QED
    BY InitInv, <1>1, PTL DEF Spec

-----------------------------------------------------------------------------
(***************************************************************************)
(* What follows from it.                                                   *)
(***************************************************************************)
\* Every variable has its type.
THEOREM TaskTyped == Spec => []TaskTypeOK
<1>1. TaskInv => TaskTypeOK
    BY DEF TaskInv, TaskTypeOK, World, LogOK, JobsOK
<1> QED
    BY <1>1, TaskSafe, PTL

\* A completed task was verified, reviewed and accepted in one worktree state,
\* for any number of controllers and a log of any length.
THEOREM CompletionsBacked == Spec => []CompletionBacked
<1>1. TaskInv => CompletionBacked
    BY DEF TaskInv, LogOK
<1> QED
    BY <1>1, TaskSafe, PTL

\* The bytes of the outbox become one event, unless two ingestions overlap.
THEOREM ArtifactsRecordedOnce == Spec => []RecordedOnce
<1>1. TaskInv => RecordedOnce
    BY DEF TaskInv, LogOK
<1> QED
    BY <1>1, TaskSafe, PTL

\* The worker is at most one checkpoint ahead of the approvals, and both follow
\* the order of the steps, for a task of any number of steps.
THEOREM StepsInTurn == Spec => []StepsAlternate
<1>1. TaskInv => StepsAlternate
    BY DEF TaskInv, LogOK
<1> QED
    BY <1>1, TaskSafe, PTL

\* A cancelled task is completed only by a command that had passed the gate.
THEOREM CancelledStays == Spec => []CancelExcludesCompletion
<1>1. TaskInv => CancelExcludesCompletion
    BY DEF TaskInv, LogOK
<1> QED
    BY <1>1, TaskSafe, PTL

\* No two reviewers in a row have the same diff, unless two reviews overlap.
THEOREM ReviewersDiffer == Spec => []OneReviewerPerDiff
<1>1. TaskInv => OneReviewerPerDiff
    BY DEF TaskInv, LogOK
<1> QED
    BY <1>1, TaskSafe, PTL

\* A callback that claims an artifact comes after one of that kind.
THEOREM EvidenceFirst == Spec => []CallbacksHaveEvidence
<1>1. TaskInv => CallbacksHaveEvidence
    BY DEF TaskInv, LogOK
<1> QED
    BY <1>1, TaskSafe, PTL

\* A completed task is cancelled only once other news has followed.
THEOREM CancelledOnNews == Spec => []CancelledOnlyOnNews
<1>1. TaskInv => CancelledOnlyOnNews
    BY DEF TaskInv, LogOK
<1> QED
    BY <1>1, TaskSafe, PTL

\* A process goes on alone, overtakes the others, or gives the writer back.
Moves(p) == \/ \E j : Goes(p, j)
            \/ \E j : Overtakes(p, j)
            \/ GiveBack(p)

\* Nobody else's command moves on when p moves.
LEMMA OthersStand ==
    ASSUME JobsOK, NEW p \in Procs, NEW c \in Procs, c # p, Moves(p)
    PROVE  job'[c].at = job[c].at
<1>1. job \in [Procs -> Jobs] /\ job[c] \in Jobs
    BY DEF JobsOK
<1> QED
    BY <1>1 DEF Moves, Goes, Overtakes, GiveBack, Jobs

\* Every step is one of a process that moves, or one of the environment.
LEMMA SomeoneMoves ==
    ASSUME Next
    PROVE  \/ UNCHANGED job
           \/ \E a \in Sessions : SessionStep(a) /\ Moves(a)
           \/ \E c \in Controllers : ControllerStep(c) /\ Moves(c)
           \/ \E p \in Procs : AnyStep(p) /\ Moves(p)
<1>1. CASE Environment
    BY <1>1 DEF Environment, Edit, WriteCheckpoint, WriteReport, WriteReview, Write,
       OtherTask, Expire
<1>2. ASSUME NEW a \in Sessions, SessionStep(a) PROVE Moves(a)
    BY <1>2 DEF SessionStep, Notify, Reads, Tell, AppendEvent, Moves
<1>3. ASSUME NEW c \in Controllers, ControllerStep(c) PROVE Moves(c)
    <2>1. CASE \E a \in Sessions : Mailbox(c, a)
        BY <2>1 DEF Mailbox, Begins, Moves
    <2>2. CASE MailboxNext(c)
        BY <2>2 DEF MailboxNext, Reads, Moves
    <2>3. CASE MailboxWarn(c)
        BY <2>3 DEF MailboxWarn, Moves
    <2>4. CASE \/ \E t \in Messages : Message(c, t)
               \/ \E s \in 1..MaxSteps : s <= task.steps /\ Approve(c, s)
               \/ Verify(c) \/ Review(c)
        BY <2>4 DEF Message, Approve, Verify, Review, Appends, Begins, Moves
    <2>5. CASE Cancel(c) \/ Complete(c) \/ CompleteAgain(c) \/ Confirm(c)
        BY <2>5 DEF Cancel, Complete, CompleteAgain, Confirm, Appends, Continues, Begins,
           Ends, Moves
    <2>6. CASE Record(c)
        BY <2>6 DEF Record, AppendEvent, Moves
    <2>7. CASE WriteManifest(c) \/ GiveBack(c)
        BY <2>7 DEF WriteManifest, Moves
    <2> QED
        BY <1>3, <2>1, <2>2, <2>3, <2>4, <2>5, <2>6, <2>7 DEF ControllerStep
<1>4. ASSUME NEW p \in Procs, AnyStep(p) PROVE Moves(p)
    BY <1>4 DEF AnyStep, CheckArtifact, RecordArtifact, UnlinkArtifact, Fail, Crash,
       Refused, Ends, AppendEvent, Moves
<1> QED
    BY <1>1, <1>2, <1>3, <1>4 DEF Next

\* Only the gate that is passed again leads from there to the end of the command.
LEMMA ConfirmsByGate ==
    ASSUME TaskInv, [Next]_vars, NEW c \in Controllers, job[c].at = "confirm",
           job'[c].at = "release"
    PROVE  Confirm(c) /\ job[c].held = tree /\ CompletionOK(task, log, job[c].seen)
<1>1. JobsOK /\ job \in [Procs -> Jobs] /\ c \in Procs /\ c \notin Sessions
    BY ControllersAssumption DEF TaskInv, JobsOK, Procs, Sessions
<1>2. \A p \in Procs : Moves(p) => p = c
    BY <1>1, OthersStand
<1>3. Next /\ job' # job
    BY DEF vars
<1>4. ControllerStep(c) \/ AnyStep(c)
    BY <1>1, <1>2, <1>3, SomeoneMoves DEF Procs
<1>5. ~Goes(c, Idle)
    BY <1>1 DEF Goes, Idle
<1>6. ~AnyStep(c)
    BY <1>5 DEF AnyStep, CheckArtifact, RecordArtifact, UnlinkArtifact, Fail, Crash, Ends
<1>7. ~Starts(c)
    BY DEF Starts
<1>8. Confirm(c)
    BY <1>4, <1>6, <1>7 DEF ControllerStep, Mailbox, MailboxNext, MailboxWarn, Message,
       Approve, Verify, Review, Cancel, Complete, CompleteAgain, Record, WriteManifest,
       GiveBack
<1> QED
    BY <1>5, <1>8 DEF Confirm, Ends

\* A completion is confirmed only on a worktree state that was verified and
\* accepted, and on a manifest of it unless the worktree moved meanwhile.
THEOREM ConfirmationsBacked == Spec => ConfirmedOnlyIfBacked
<1> DEFINE A == \A c \in Controllers :
                   job[c].at = "confirm" /\ job'[c].at = "release" =>
                       /\ Backed(task, log, Len(log), job[c].seen)
                       /\ tree = job[c].seen => job[c].held = job[c].seen
<1>1. TaskInv /\ [Next]_vars => [A]_vars
    <2> SUFFICES ASSUME TaskInv, [Next]_vars, NEW c \in Controllers,
                        job[c].at = "confirm", job'[c].at = "release"
                 PROVE  /\ Backed(task, log, Len(log), job[c].seen)
                        /\ tree = job[c].seen => job[c].held = job[c].seen
        OBVIOUS
    <2>1. job[c].held = tree /\ CompletionOK(task, log, job[c].seen)
        BY ConfirmsByGate
    <2>2. /\ job[c].seen \in Diffs /\ log \in Seq(Events)
          /\ LastThere(Verifications(log))
        BY DEF TaskInv, JobsOK, Jobs, LogOK, Procs
    <2> QED
        BY <2>1, <2>2, GateBacks
<1> QED
    BY <1>1, TaskSafe, PTL DEF Spec, ConfirmedOnlyIfBacked

\* Only the record of a completion appends one.
LEMMA CompletesByRecord ==
    ASSUME TaskInv, [Next]_vars, Len(log') > Len(log),
           log'[Len(log')].type = "task.completed"
    PROVE  \E c \in Controllers : Record(c) /\ job[c].event.type = "task.completed"
<1>1. /\ log \in Seq(Events) /\ job \in [Procs -> Jobs] /\ Sessions \subseteq Procs
      /\ Controllers \subseteq Procs
    BY DEF TaskInv, LogOK, JobsOK, Procs
<1>2. ASSUME NEW p, NEW e, NEW j, AppendEvent(p, e, j) PROVE e.type = "task.completed"
    <2>1. log' = Append(log, e)
        BY <1>2 DEF AppendEvent
    <2>2. log'[Len(log')] = e
        BY <1>1, <2>1
    <2> QED
        BY <2>2
<1>3. log' # log
    OBVIOUS
<1>4. ~Environment
    BY <1>3 DEF Environment, Edit, WriteCheckpoint, WriteReport, WriteReview, Write,
       OtherTask, Expire, NoAppend
<1>5. ASSUME NEW a \in Sessions, SessionStep(a) PROVE FALSE
    <2>1. Tell(a)
        BY <1>3, <1>5 DEF SessionStep, Notify, NoAppend
    <2>2. job[a].event.type = "callback"
        BY <1>1, <2>1 DEF TaskInv, JobsOK, JobForm, Tell
    <2> QED
        BY <1>2, <2>1, <2>2 DEF Tell
<1>6. ASSUME NEW p \in Procs, AnyStep(p) PROVE FALSE
    <2>1. RecordArtifact(p)
        BY <1>3, <1>6 DEF AnyStep, CheckArtifact, UnlinkArtifact, Fail, Crash, NoAppend
    <2>2. Fits(job[p].file, job[p].art) /\ job[p].file \in Files
        BY <1>1, <2>1 DEF TaskInv, JobsOK, JobForm, RecordArtifact, Jobs
    <2>3. job[p].art.type \in ArtifactTypes
        BY <2>2, FileFacts DEF Fits
    <2> QED
        BY <1>2, <2>1, <2>3 DEF RecordArtifact, ArtifactTypes
<1>7. ASSUME NEW c \in Controllers, MailboxWarn(c) PROVE FALSE
    <2>1. PICK b, s, a : log' = log \o Warning(b, s, a)
        BY <1>7 DEF MailboxWarn
    <2> DEFINE es == Warning(b, s, a)
    <2>2. es \in Seq(Events) /\ \A k \in DOMAIN es : es[k].type \in Warns
        BY WarningTyped
    <2>3. log' = log \o es
        BY <2>1
    <2> HIDE DEF es
    <2>4. Len(log') = Len(log) + Len(es) /\ Len(log) \in Nat /\ Len(es) \in Nat
        BY <1>1, <2>2, <2>3
    <2>5. Len(es) \in DOMAIN es /\ log'[Len(log')] = es[Len(es)]
        BY <1>1, <2>2, <2>3, <2>4
    <2> QED
        BY <2>2, <2>5 DEF Warns
<1>8. PICK c \in Controllers : ControllerStep(c)
    BY <1>3, <1>4, <1>5, <1>6 DEF Next, vars
<1>9. Record(c)
    BY <1>3, <1>7, <1>8 DEF ControllerStep, Mailbox, MailboxNext, Message, Approve, Verify,
       Review, Cancel, Complete, CompleteAgain, Confirm, WriteManifest, GiveBack, Appends,
       Continues, NoAppend
<1> QED
    BY <1>2, <1>9 DEF Record

\* A task that edits is completed while it holds the writer, or by a command
\* that another one has overtaken.
THEOREM CompletionsHold == Spec => CompletedWhileHolding
<1> DEFINE A == /\ Len(log') > Len(log) /\ task.edits
                /\ log'[Len(log')].type = "task.completed"
                => owns \/ Len(log') \in overtaken'
<1>1. TaskInv /\ [Next]_vars => [A]_vars
    <2> SUFFICES ASSUME TaskInv, [Next]_vars, Len(log') > Len(log), task.edits,
                        log'[Len(log')].type = "task.completed", ~owns
                 PROVE  Len(log') \in overtaken'
        OBVIOUS
    <2>1. PICK c \in Controllers : Record(c) /\ job[c].event.type = "task.completed"
        BY CompletesByRecord
    <2>2. PICK j : AppendEvent(c, job[c].event, j) /\ job[c].at = "append"
        BY <2>1 DEF Record
    <2>3. job[c].stale
        BY <2>1, <2>2 DEF TaskInv, JobsOK, Holds, Procs
    <2>4. log \in Seq(Events)
        BY DEF TaskInv, LogOK
    <2>5. log' = Append(log, job[c].event) /\ Len(log) + 1 \in overtaken'
        BY <2>1, <2>2, <2>3 DEF AppendEvent
    <2>6. Len(log') = Len(log) + 1
        BY <2>4, <2>5
    <2> QED
        BY <2>5, <2>6
<1> QED
    BY <1>1, TaskSafe, PTL DEF Spec, CompletedWhileHolding

=============================================================================
