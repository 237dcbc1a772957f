-------------------------- MODULE TaskPromise_proofs --------------------------
(***************************************************************************)
(* TaskController implements TaskPromise, for any number of controllers,   *)
(* any task and any length of its log.                                     *)
(*                                                                         *)
(* An event adds to the evidence what the promise allows, or nothing; the  *)
(* only events that move a task to its end are those a controller has      *)
(* decided on.  What the promise asks of a decision is what the commands'  *)
(* gates see, by the invariant of TaskController_proofs.                   *)
(***************************************************************************)
EXTENDS TaskController_proofs

-----------------------------------------------------------------------------
(***************************************************************************)
(* What one more event adds to the evidence.                               *)
(***************************************************************************)
\* The states of the promise, read off a log.
VerifiedIn(l) == DiffsAt(l, Green(l))
AssignedIn(l) == DiffsAt(l, Assignments(l))
JudgedIn(l) == DiffsAt(l, Acceptances(l))
AcceptedIn(l) == DiffsAt(l, ReportedAcceptances(l))
OutcomesIn(l) == {EndOf(l[i].type) : i \in Endings(l)}

\* Log m shows what log l shows of some evidence.
SameVerified(l, m) == VerifiedIn(m) = VerifiedIn(l)
SameAssigned(l, m) == AssignedIn(m) = AssignedIn(l)
SameJudged(l, m) == JudgedIn(m) = JudgedIn(l)
SameAccepted(l, m) == AcceptedIn(m) = AcceptedIn(l)
SameEvidence(l, m) == SameVerified(l, m) /\ SameAssigned(l, m)
                      /\ SameJudged(l, m) /\ SameAccepted(l, m)

\* It shows what a piece of news about worktree state d may add.
Learns(l, m, d) ==
    \/ SameEvidence(l, m)
    \/ /\ VerifiedIn(m) = VerifiedIn(l) \union {d}
       /\ SameAssigned(l, m) /\ SameJudged(l, m) /\ SameAccepted(l, m)
    \/ /\ d \in VerifiedIn(l) /\ AssignedIn(m) = AssignedIn(l) \union {d}
       /\ SameVerified(l, m) /\ SameJudged(l, m) /\ SameAccepted(l, m)
    \/ /\ d \in AssignedIn(l) /\ JudgedIn(m) = JudgedIn(l) \union {d}
       /\ SameVerified(l, m) /\ SameAssigned(l, m) /\ SameAccepted(l, m)
    \/ /\ AcceptedIn(m) = JudgedIn(l)
       /\ SameVerified(l, m) /\ SameAssigned(l, m) /\ SameJudged(l, m)

\* An event of the reviewer or of a verification that counts as evidence.
IsGreen(e) == e.type = "verification.completed" /\ e.actor = "controller" /\ e.ok
IsSpawn(e) == e.type = "reviewer.spawned" /\ e.actor = "reviewer"
IsAccept(e) == e.type = "review.completed" /\ e.actor = "reviewer" /\ e.ok
IsDone(e) == e.type = "callback" /\ e.actor = "reviewer" /\ e.kind = "done" /\ e.ok

\* What is in a set of places of a log does not change as the log grows.
LEMMA DiffsKept ==
    ASSUME NEW l \in Seq(Events), NEW m \in Seq(Events), Grows(l, m),
           NEW S, S \subseteq DOMAIN l
    PROVE  DiffsAt(m, S) = DiffsAt(l, S)
<1>1. \A i \in S : m[i] = l[i]
    BY DEF Grows
<1> QED
    BY <1>1 DEF DiffsAt

\* Where the evidence of a log lies.
LEMMA EvidencePlaces ==
    ASSUME NEW l
    PROVE  /\ Green(l) \subseteq DOMAIN l /\ Assignments(l) \subseteq DOMAIN l
           /\ Acceptances(l) \subseteq DOMAIN l
           /\ ReportedAcceptances(l) \subseteq Acceptances(l)
BY DEF Green, Assignments, Acceptances, ReportedAcceptances, Verifications, Spawns,
   Reviews, Of

\* The places of the evidence, with one more event.
LEMMA EvidenceAppend ==
    ASSUME NEW l \in Seq(Events), NEW e \in Events, NEW m, m = Append(l, e)
    PROVE  /\ Green(m) = Green(l) \union (IF IsGreen(e) THEN {Len(m)} ELSE {})
           /\ Assignments(m) = Assignments(l)
                  \union (IF IsSpawn(e) /\ e.diff \in VerifiedIn(l) THEN {Len(m)} ELSE {})
           /\ Acceptances(m) = Acceptances(l)
                  \union (IF IsAccept(e) /\ e.diff \in AssignedIn(l) THEN {Len(m)} ELSE {})
           /\ ReportedAcceptances(m) = IF IsDone(e) THEN Acceptances(l)
                                       ELSE ReportedAcceptances(l)
<1> DEFINE n == Len(l) + 1
<1>1. /\ m \in Seq(Events) /\ Len(m) = n /\ m[n] = e
      /\ DOMAIN m = (DOMAIN l) \union {n} /\ DOMAIN l = 1..Len(l) /\ Len(l) \in Nat
      /\ \A i \in DOMAIN l : m[i] = l[i]
    BY AppendPlaces
<1>2. n \notin DOMAIN l /\ n \in Nat /\ \A i \in DOMAIN l : i < n /\ i \in Nat /\ ~(n < i)
    BY <1>1
<1>3. ~(n < n)
    BY <1>2
<1> HIDE DEF n
<1>4. \A t, a : Of(m, t, a) =
          Of(l, t, a) \union (IF e.type = t /\ e.actor = a THEN {n} ELSE {})
    BY <1>1, <1>2 DEF Of
<1>5. \A t, a : Of(l, t, a) \subseteq DOMAIN l
    BY DEF Of
<1>6. Green(m) = Green(l) \union (IF IsGreen(e) THEN {Len(m)} ELSE {})
    BY <1>1, <1>2 DEF Green, Verifications, Of, IsGreen
<1>7. \A v \in Green(m) : v \in Green(l) \/ v = n
    BY <1>1, <1>6
<1>8. \A v \in Green(l) : v \in Green(m) /\ v \in DOMAIN l
    BY <1>6, EvidencePlaces
<1>9. Assignments(m) = Assignments(l) \union (IF IsSpawn(e) /\ e.diff \in VerifiedIn(l) THEN {Len(m)} ELSE {})
    <2>1. ASSUME NEW s \in Assignments(m)
          PROVE  s \in Assignments(l) \/ (s = n /\ IsSpawn(e) /\ e.diff \in VerifiedIn(l))
        <3>1. PICK v \in Green(m) : v < s /\ m[v].diff = m[s].diff
            BY DEF Assignments
        <3>2. s \in DOMAIN m /\ IsSpawn(m[s])
            BY DEF Assignments, Spawns, Of, IsSpawn
        <3>3. v \in Green(l) /\ m[v] = l[v]
            BY <1>1, <1>2, <1>3, <1>7, <1>8, <3>1, <3>2
        <3>4. CASE s = n
            BY <1>1, <3>1, <3>2, <3>3, <3>4 DEF VerifiedIn, DiffsAt
        <3>5. CASE s # n
            BY <1>1, <3>1, <3>2, <3>3, <3>5 DEF Assignments, Spawns, Of, IsSpawn
        <3> QED
            BY <3>4, <3>5
    <2>2. ASSUME NEW s \in Assignments(l) PROVE s \in Assignments(m)
        <3>1. PICK v \in Green(l) : v < s /\ l[v].diff = l[s].diff
            BY DEF Assignments
        <3>2. s \in Spawns(l) /\ s \in DOMAIN l
            BY DEF Assignments, Spawns, Of
        <3>3. s \in Spawns(m) /\ m[s] = l[s] /\ m[v] = l[v] /\ v \in Green(m)
            BY <1>1, <1>4, <1>8, <3>2 DEF Spawns
        <3> QED
            BY <3>1, <3>3 DEF Assignments
    <2>3. ASSUME IsSpawn(e), e.diff \in VerifiedIn(l) PROVE n \in Assignments(m)
        <3>1. PICK v \in Green(l) : l[v].diff = e.diff
            BY <2>3 DEF VerifiedIn, DiffsAt
        <3>2. v \in Green(m) /\ v < n /\ m[v] = l[v] /\ m[n] = e /\ n \in DOMAIN m
            BY <1>1, <1>2, <1>8
        <3> QED
            BY <2>3, <3>1, <3>2 DEF Assignments, Spawns, Of, IsSpawn
    <2> QED
        BY <1>1, <2>1, <2>2, <2>3
<1>10. \A s \in Assignments(m) : s \in Assignments(l) \/ s = n
    BY <1>1, <1>9
<1>11. \A s \in Assignments(l) : s \in Assignments(m) /\ s \in DOMAIN l
    BY <1>9, EvidencePlaces
<1>12. Acceptances(m) = Acceptances(l)
           \union (IF IsAccept(e) /\ e.diff \in AssignedIn(l) THEN {Len(m)} ELSE {})
    <2>1. ASSUME NEW r \in Acceptances(m)
          PROVE  r \in Acceptances(l) \/ (r = n /\ IsAccept(e) /\ e.diff \in AssignedIn(l))
        <3>1. PICK s \in Assignments(m) : s < r /\ m[s].diff = m[r].diff
            BY DEF Acceptances
        <3>2. r \in DOMAIN m /\ IsAccept(m[r])
            BY DEF Acceptances, Reviews, Of, IsAccept
        <3>3. s \in Assignments(l) /\ m[s] = l[s]
            BY <1>1, <1>2, <1>3, <1>10, <1>11, <3>1, <3>2
        <3>4. CASE r = n
            BY <1>1, <3>1, <3>2, <3>3, <3>4 DEF AssignedIn, DiffsAt
        <3>5. CASE r # n
            BY <1>1, <3>1, <3>2, <3>3, <3>5 DEF Acceptances, Reviews, Of, IsAccept
        <3> QED
            BY <3>4, <3>5
    <2>2. ASSUME NEW r \in Acceptances(l) PROVE r \in Acceptances(m)
        <3>1. PICK s \in Assignments(l) : s < r /\ l[s].diff = l[r].diff
            BY DEF Acceptances
        <3>2. r \in Reviews(l) /\ r \in DOMAIN l /\ l[r].ok
            BY DEF Acceptances, Reviews, Of
        <3>3. r \in Reviews(m) /\ m[r] = l[r] /\ m[s] = l[s] /\ s \in Assignments(m)
            BY <1>1, <1>4, <1>11, <3>2 DEF Reviews
        <3> QED
            BY <3>1, <3>2, <3>3 DEF Acceptances
    <2>3. ASSUME IsAccept(e), e.diff \in AssignedIn(l) PROVE n \in Acceptances(m)
        <3>1. PICK s \in Assignments(l) : l[s].diff = e.diff
            BY <2>3 DEF AssignedIn, DiffsAt
        <3>2. s \in Assignments(m) /\ s < n /\ m[s] = l[s] /\ m[n] = e /\ n \in DOMAIN m
            BY <1>1, <1>2, <1>11
        <3> QED
            BY <2>3, <3>1, <3>2 DEF Acceptances, Reviews, Of, IsAccept
    <2> QED
        BY <1>1, <2>1, <2>2, <2>3
<1>13. \A r \in Acceptances(m) : r \in Acceptances(l) \/ (r = n /\ IsAccept(e))
    BY <1>1, <1>12
<1>14. \A r \in Acceptances(l) : r \in Acceptances(m) /\ r \in DOMAIN l
    BY <1>12, EvidencePlaces
<1>15. \A k \in Callbacks(m, "reviewer", "done") :
           m[k].ok => (k \in Callbacks(l, "reviewer", "done") /\ l[k].ok)
                      \/ (k = n /\ IsDone(e))
    BY <1>1 DEF Callbacks, Of, IsDone
<1>16. \A k \in Callbacks(l, "reviewer", "done") :
           k \in Callbacks(m, "reviewer", "done") /\ m[k] = l[k] /\ k \in DOMAIN l
    BY <1>1 DEF Callbacks, Of
<1>17. CASE IsDone(e)
    <2>1. n \in Callbacks(m, "reviewer", "done") /\ m[n].ok
        BY <1>1, <1>17 DEF IsDone, Callbacks, Of
    <2>2. Acceptances(m) = Acceptances(l)
        BY <1>13, <1>14, <1>17 DEF IsDone, IsAccept
    <2>3. \A r \in Acceptances(l) : r < n
        BY <1>2, <1>14
    <2>4. ReportedAcceptances(m) = Acceptances(l)
        BY <2>1, <2>2, <2>3 DEF ReportedAcceptances
    <2> QED
        BY <1>6, <1>9, <1>12, <1>17, <2>4
<1>18. CASE ~IsDone(e)
    <2>1. ASSUME NEW r \in ReportedAcceptances(m) PROVE r \in ReportedAcceptances(l)
        <3>1. PICK k \in Callbacks(m, "reviewer", "done") : r < k /\ m[k].ok
            BY DEF ReportedAcceptances
        <3>2. k \in Callbacks(l, "reviewer", "done") /\ l[k].ok /\ k \in DOMAIN l
            BY <1>15, <1>16, <1>18, <3>1
        <3>3. r \in Acceptances(l)
            BY <1>2, <1>13, <3>1, <3>2 DEF ReportedAcceptances
        <3> QED
            BY <3>1, <3>2, <3>3 DEF ReportedAcceptances
    <2>2. ASSUME NEW r \in ReportedAcceptances(l) PROVE r \in ReportedAcceptances(m)
        BY <1>14, <1>16 DEF ReportedAcceptances
    <2> QED
        BY <1>6, <1>9, <1>12, <1>18, <2>1, <2>2
<1> QED
    BY <1>17, <1>18

\* An event adds to the evidence what a piece of news may add.
LEMMA EventTeaches ==
    ASSUME NEW l \in Seq(Events), NEW e \in Events, NEW m, m = Append(l, e)
    PROVE  /\ Learns(l, m, e.diff)
           /\ e.type \in Ending \/ ~SetsStatus(e) => SameEvidence(l, m)
<1>1. m \in Seq(Events) /\ Grows(l, m) /\ m[Len(m)] = e
    <2>1. m \in Seq(Events) /\ Grows(l, m) /\ Len(m) = Len(l) + 1 /\ m[Len(l) + 1] = e
        BY AppendPlaces
    <2> QED
        BY <2>1
<1> DEFINE g == IsGreen(e)
           s == IsSpawn(e) /\ e.diff \in VerifiedIn(l)
           r == IsAccept(e) /\ e.diff \in AssignedIn(l)
<1>2. /\ Green(m) = Green(l) \union (IF g THEN {Len(m)} ELSE {})
      /\ Assignments(m) = Assignments(l) \union (IF s THEN {Len(m)} ELSE {})
      /\ Acceptances(m) = Acceptances(l) \union (IF r THEN {Len(m)} ELSE {})
      /\ ReportedAcceptances(m) = IF IsDone(e) THEN Acceptances(l)
                                  ELSE ReportedAcceptances(l)
    BY EvidenceAppend
<1>3. /\ Green(l) \subseteq DOMAIN l /\ Assignments(l) \subseteq DOMAIN l
      /\ Acceptances(l) \subseteq DOMAIN l /\ ReportedAcceptances(l) \subseteq DOMAIN l
    BY EvidencePlaces
<1>4. ASSUME NEW S, S \subseteq DOMAIN l PROVE DiffsAt(m, S) = DiffsAt(l, S)
    BY <1>1, <1>4, DiffsKept
<1>5. ASSUME NEW S, S \subseteq DOMAIN l, NEW b, NEW T,
             T = S \union (IF b THEN {Len(m)} ELSE {})
      PROVE  DiffsAt(m, T) = DiffsAt(l, S) \union (IF b THEN {e.diff} ELSE {})
    <2>1. CASE b
        <3>1. T = S \union {Len(m)} /\ S \subseteq DOMAIN l
            BY <1>5, <2>1
        <3>2. DiffsAt(m, T) = DiffsAt(m, S) \union {m[Len(m)].diff}
            BY <3>1 DEF DiffsAt
        <3>3. DiffsAt(m, S) = DiffsAt(l, S)
            BY <1>4, <3>1
        <3> QED
            BY <1>1, <2>1, <3>2, <3>3
    <2>2. CASE ~b
        <3>1. T = S
            BY <1>5, <2>2
        <3>2. DiffsAt(m, T) = DiffsAt(l, S)
            BY <1>4, <1>5, <3>1
        <3> QED
            BY <2>2, <3>2
    <2> QED
        BY <2>1, <2>2
<1>6. /\ VerifiedIn(m) = VerifiedIn(l) \union (IF g THEN {e.diff} ELSE {})
      /\ AssignedIn(m) = AssignedIn(l) \union (IF s THEN {e.diff} ELSE {})
      /\ JudgedIn(m) = JudgedIn(l) \union (IF r THEN {e.diff} ELSE {})
    <2> HIDE DEF g, s, r
    <2>1. VerifiedIn(m) = VerifiedIn(l) \union (IF g THEN {e.diff} ELSE {})
        BY <1>2, <1>3, <1>5 DEF VerifiedIn
    <2>2. AssignedIn(m) = AssignedIn(l) \union (IF s THEN {e.diff} ELSE {})
        BY <1>2, <1>3, <1>5 DEF AssignedIn
    <2>3. JudgedIn(m) = JudgedIn(l) \union (IF r THEN {e.diff} ELSE {})
        BY <1>2, <1>3, <1>5 DEF JudgedIn
    <2> QED
        BY <2>1, <2>2, <2>3
<1>7. AcceptedIn(m) = IF IsDone(e) THEN JudgedIn(l) ELSE AcceptedIn(l)
    BY <1>2, <1>3, <1>4 DEF AcceptedIn, JudgedIn
<1>8. e.type \in Ending \/ ~SetsStatus(e) => ~g /\ ~s /\ ~r /\ ~IsDone(e)
    BY DEF Ending, SetsStatus, IsGreen, IsSpawn, IsAccept, IsDone
<1>9. \/ ~g /\ ~s /\ ~r /\ ~IsDone(e)
      \/ g /\ ~s /\ ~r /\ ~IsDone(e)
      \/ s /\ e.diff \in VerifiedIn(l) /\ ~g /\ ~r /\ ~IsDone(e)
      \/ r /\ e.diff \in AssignedIn(l) /\ ~g /\ ~s /\ ~IsDone(e)
      \/ IsDone(e) /\ ~g /\ ~s /\ ~r
    BY DEF IsGreen, IsSpawn, IsAccept, IsDone
<1> HIDE DEF g, s, r
<1>10. e.type \in Ending \/ ~SetsStatus(e) => SameEvidence(l, m)
    BY <1>6, <1>7, <1>8 DEF SameEvidence, SameVerified, SameAssigned, SameJudged,
       SameAccepted
<1>11. Learns(l, m, e.diff)
    BY <1>6, <1>7, <1>9 DEF Learns, SameEvidence, SameVerified, SameAssigned, SameJudged,
       SameAccepted
<1> QED
    BY <1>10, <1>11

\* An end stands until the next news.
LEMMA StandingAppend ==
    ASSUME NEW l \in Seq(Events), NEW e \in Events, NEW m, m = Append(l, e)
    PROVE  /\ e.type \in Ending => Standing(m) = EndOf(e.type)
           /\ e.type \notin Ending /\ SetsStatus(e) => Standing(m) = "open"
           /\ ~SetsStatus(e) => Standing(m) = Standing(l)
<1> DEFINE n == Len(l) + 1
<1>1. /\ m \in Seq(Events) /\ Len(m) = n /\ m[n] = e
      /\ DOMAIN m = (DOMAIN l) \union {n} /\ DOMAIN l = 1..Len(l) /\ Len(l) \in Nat
      /\ \A i \in DOMAIN l : m[i] = l[i]
    BY AppendPlaces
<1>2. n \notin DOMAIN l /\ n \in Nat /\ \A j \in (n + 1)..n : FALSE
    BY <1>1
<1>3. \A i \in DOMAIN l : /\ n \in (i + 1)..n
                          /\ \A j \in (i + 1)..n : j = n \/ j \in (i + 1)..Len(l)
                          /\ \A j \in (i + 1)..Len(l) : j \in (i + 1)..n /\ j \in DOMAIN l
    BY <1>1
<1> HIDE DEF n
<1>4. ASSUME NEW t \in Ending
      PROVE  Stands(m, t) <=> e.type = t \/ (~SetsStatus(e) /\ Stands(l, t))
    <2>1. CASE e.type = t
        <3>1. n \in AnyOf(m, t)
            BY <1>1, <2>1 DEF AnyOf
        <3> QED
            BY <1>1, <1>2, <2>1, <3>1 DEF Stands
    <2>2. CASE e.type # t
        <3>1. AnyOf(m, t) = AnyOf(l, t)
            BY <1>1, <1>2, <2>2 DEF AnyOf
        <3>2. ASSUME NEW i \in AnyOf(l, t)
              PROVE  (\A j \in (i + 1)..Len(m) : ~SetsStatus(m[j]))
                     <=> ~SetsStatus(e) /\ \A j \in (i + 1)..Len(l) : ~SetsStatus(l[j])
            <4>1. i \in DOMAIN l
                BY DEF AnyOf
            <4> QED
                BY <1>1, <1>3, <4>1
        <3> QED
            BY <2>2, <3>1, <3>2 DEF Stands
    <2> QED
        BY <2>1, <2>2
<1>5. /\ Stands(m, "task.completed") <=>
             e.type = "task.completed" \/ (~SetsStatus(e) /\ Stands(l, "task.completed"))
      /\ Stands(m, "task.cancelled") <=>
             e.type = "task.cancelled" \/ (~SetsStatus(e) /\ Stands(l, "task.cancelled"))
    BY <1>4 DEF Ending
<1>6. e.type \in Ending => SetsStatus(e)
    BY DEF Ending, SetsStatus
<1> QED
    BY <1>5, <1>6 DEF Standing, EndOf, Ending

\* The ends that were recorded.
LEMMA OutcomesAppend ==
    ASSUME NEW l \in Seq(Events), NEW e \in Events, NEW m, m = Append(l, e)
    PROVE  OutcomesIn(m) = IF e.type \in Ending THEN OutcomesIn(l) \union {EndOf(e.type)}
                           ELSE OutcomesIn(l)
<1> DEFINE n == Len(l) + 1
<1>1. /\ m[n] = e /\ DOMAIN m = (DOMAIN l) \union {n} /\ DOMAIN l = 1..Len(l)
      /\ Len(l) \in Nat /\ \A i \in DOMAIN l : m[i] = l[i]
    BY AppendPlaces
<1>2. n \notin DOMAIN l
    BY <1>1
<1> HIDE DEF n
<1>3. Endings(m) = IF e.type \in Ending THEN Endings(l) \union {n} ELSE Endings(l)
    BY <1>1, <1>2 DEF Endings
<1>4. \A i \in Endings(l) : m[i] = l[i]
    BY <1>1 DEF Endings
<1> QED
    BY <1>1, <1>3, <1>4 DEF OutcomesIn

\* The warnings of a mailbox say nothing of the evidence or the end.
LEMMA WarningsTeachNothing ==
    ASSUME NEW l \in Seq(Events), NEW m \in Seq(Events), Grows(l, m),
           \A i \in DOMAIN m : i \notin DOMAIN l => m[i].type \in Warns
    PROVE  /\ SameEvidence(l, m) /\ OutcomesIn(m) = OutcomesIn(l)
           /\ Len(m) > Len(l) => Standing(m) = "open"
<1>1. /\ DOMAIN l = 1..Len(l) /\ DOMAIN m = 1..Len(m) /\ Len(l) \in Nat
      /\ Len(m) \in Nat /\ Len(l) <= Len(m)
      /\ \A i \in DOMAIN l : m[i] = l[i] /\ i \in DOMAIN m
    BY DEF Grows
<1>2. /\ \A t : t \notin Warns => AnyOf(m, t) = AnyOf(l, t)
      /\ \A t, a : t \notin Warns => Of(m, t, a) = Of(l, t, a)
    BY <1>1 DEF AnyOf, Of
<1>3. /\ Verifications(m) = Verifications(l) /\ Spawns(m) = Spawns(l)
      /\ Reviews(m) = Reviews(l) /\ Of(m, "callback", "reviewer") = Of(l, "callback", "reviewer")
    BY <1>2 DEF Verifications, Spawns, Reviews, Warns
<1>4. /\ \A i \in Verifications(l) : m[i] = l[i]
      /\ \A i \in Spawns(l) : m[i] = l[i]
      /\ \A i \in Reviews(l) : m[i] = l[i]
      /\ \A i \in Of(l, "callback", "reviewer") : m[i] = l[i]
    BY <1>1 DEF Verifications, Spawns, Reviews, Of
<1>5. Green(m) = Green(l)
    BY <1>3, <1>4 DEF Green
<1>6. Assignments(m) = Assignments(l)
    BY <1>3, <1>4, <1>5 DEF Assignments, Green
<1>7. Acceptances(m) = Acceptances(l)
    <2>1. \A s \in Assignments(l) : m[s] = l[s]
        BY <1>4 DEF Assignments
    <2>2. \A r \in Reviews(l) : m[r] = l[r]
        BY <1>4
    <2> QED
        BY <1>3, <1>6, <2>1, <2>2 DEF Acceptances
<1>8. ReportedAcceptances(m) = ReportedAcceptances(l)
    BY <1>3, <1>4, <1>7 DEF ReportedAcceptances, Callbacks
<1>9. SameEvidence(l, m)
    <2>1. /\ Green(l) \subseteq DOMAIN l /\ Assignments(l) \subseteq DOMAIN l
          /\ Acceptances(l) \subseteq DOMAIN l /\ ReportedAcceptances(l) \subseteq DOMAIN l
        BY EvidencePlaces
    <2>2. /\ DiffsAt(m, Green(l)) = DiffsAt(l, Green(l))
          /\ DiffsAt(m, Assignments(l)) = DiffsAt(l, Assignments(l))
          /\ DiffsAt(m, Acceptances(l)) = DiffsAt(l, Acceptances(l))
          /\ DiffsAt(m, ReportedAcceptances(l)) = DiffsAt(l, ReportedAcceptances(l))
        BY <2>1, DiffsKept
    <2> QED
        BY <1>5, <1>6, <1>7, <1>8, <2>2 DEF SameEvidence, SameVerified, SameAssigned,
           SameJudged, SameAccepted, VerifiedIn, AssignedIn, JudgedIn, AcceptedIn
<1>10. OutcomesIn(m) = OutcomesIn(l)
    <2>1. Endings(m) = Endings(l) /\ \A i \in Endings(l) : m[i] = l[i]
        BY <1>1 DEF Endings, Ending, Warns
    <2> QED
        BY <2>1 DEF OutcomesIn
<1>11. Len(m) > Len(l) => Standing(m) = "open"
    <2> SUFFICES ASSUME Len(m) > Len(l), NEW t \in Ending PROVE ~Stands(m, t)
        BY DEF Standing, Ending
    <2>1. Len(m) \in DOMAIN m /\ Len(m) \notin DOMAIN l
        BY <1>1
    <2>2. SetsStatus(m[Len(m)])
        BY <2>1 DEF Warns, SetsStatus
    <2>3. AnyOf(m, t) = AnyOf(l, t)
        BY <1>2 DEF Ending, Warns
    <2>4. \A i \in AnyOf(l, t) : Len(m) \in (i + 1)..Len(m)
        BY <1>1, <2>1 DEF AnyOf
    <2> QED
        BY <2>2, <2>3, <2>4 DEF Stands
<1> QED
    BY <1>9, <1>10, <1>11

-----------------------------------------------------------------------------
(***************************************************************************)
(* The state of the promise as the log and the commands move.              *)
(***************************************************************************)
\* The end of the task that command j is about to record.
Wills(j) == IF j.at = "append" THEN EndOf(j.event.type) ELSE "none"

LEMMA PromiseNow ==
    /\ verified = VerifiedIn(log) /\ assigned = AssignedIn(log)
    /\ judged = JudgedIn(log) /\ accepted = AcceptedIn(log)
    /\ outcomes = OutcomesIn(log) /\ standing = Standing(log)
    /\ decision = [c \in Controllers |-> Wills(job[c])]
BY DEF verified, assigned, judged, accepted, outcomes, standing, decision, VerifiedIn,
   AssignedIn, JudgedIn, AcceptedIn, OutcomesIn, Wills

LEMMA PromiseThen ==
    ASSUME NEW m, log' = m
    PROVE  /\ verified' = VerifiedIn(m) /\ assigned' = AssignedIn(m)
           /\ judged' = JudgedIn(m) /\ accepted' = AcceptedIn(m)
           /\ outcomes' = OutcomesIn(m) /\ standing' = Standing(m)
           /\ decision' = [c \in Controllers |-> Wills(job'[c])]
<1>1. verified' = VerifiedIn(m)
    BY DEF verified, VerifiedIn, DiffsAt, Green, Verifications, Of
<1>2. assigned' = AssignedIn(m)
    BY DEF assigned, AssignedIn, DiffsAt, Assignments, Spawns, Green, Verifications, Of
<1>3. judged' = JudgedIn(m)
    BY DEF judged, JudgedIn, DiffsAt, Acceptances, Reviews, Assignments, Spawns, Green,
       Verifications, Of
<1>4. accepted' = AcceptedIn(m)
    BY DEF accepted, AcceptedIn, DiffsAt, ReportedAcceptances, Callbacks, Acceptances,
       Reviews, Assignments, Spawns, Green, Verifications, Of
<1>5. outcomes' = OutcomesIn(m)
    BY DEF outcomes, OutcomesIn, Endings, EndOf, Ending
<1>6. standing' = Standing(m)
    BY DEF standing, Standing, Stands, AnyOf, SetsStatus
<1>7. decision' = [c \in Controllers |-> Wills(job'[c])]
    BY DEF decision, Wills, EndOf
<1> QED
    BY <1>1, <1>2, <1>3, <1>4, <1>5, <1>6, <1>7

\* Only the process that moves may change its decision.
LEMMA DecisionMoves ==
    ASSUME JobsOK, NEW p \in Procs, Moves(p)
    PROVE  /\ p \notin Controllers \/ Wills(job'[p]) = Wills(job[p]) =>
                  decision' = decision
           /\ p \in Controllers =>
                  decision' = [decision EXCEPT ![p] = Wills(job'[p])]
<1>1. \A c \in Procs : c # p => job'[c].at = job[c].at /\ job'[c].event = job[c].event
    <2> SUFFICES ASSUME NEW c \in Procs, c # p
                 PROVE  job'[c].at = job[c].at /\ job'[c].event = job[c].event
        OBVIOUS
    <2>1. job \in [Procs -> Jobs] /\ job[c] \in Jobs
        BY DEF JobsOK
    <2> QED
        BY <2>1 DEF Moves, Goes, Overtakes, GiveBack, Jobs
<1>2. \A c \in Controllers : c # p => Wills(job'[c]) = Wills(job[c])
    BY <1>1 DEF Procs, Wills
<1>3. /\ decision = [c \in Controllers |-> Wills(job[c])]
      /\ decision' = [c \in Controllers |-> Wills(job'[c])]
    BY PromiseNow, PromiseThen
<1> QED
    BY <1>2, <1>3

\* A step that leaves the log, the writer and the decisions alone is none of the
\* promise.
LEMMA NothingPromised ==
    ASSUME UNCHANGED <<task, log, owns>>, decision' = decision
    PROVE  UNCHANGED Promise!vars
<1>1. /\ verified' = verified /\ assigned' = assigned /\ judged' = judged
      /\ accepted' = accepted /\ outcomes' = outcomes /\ standing' = standing
    BY PromiseNow, PromiseThen
<1> QED
    BY <1>1 DEF Promise!vars

\* An event that ends nothing is news, or nothing at all.
LEMMA EventPromised ==
    ASSUME log \in Seq(Events), NEW e \in Events, e.type \notin Ending,
           log' = Append(log, e), UNCHANGED <<task, owns>>, decision' = decision
    PROVE  [Promise!News]_(Promise!vars)
<1>1. PICK m : m = log'
    OBVIOUS
<1>2. /\ Learns(log, m, e.diff) /\ (~SetsStatus(e) => SameEvidence(log, m))
      /\ OutcomesIn(m) = OutcomesIn(log)
      /\ SetsStatus(e) => Standing(m) = "open"
      /\ ~SetsStatus(e) => Standing(m) = Standing(log)
    BY <1>1, EventTeaches, OutcomesAppend, StandingAppend
<1>3. /\ verified = VerifiedIn(log) /\ assigned = AssignedIn(log)
      /\ judged = JudgedIn(log) /\ accepted = AcceptedIn(log)
      /\ outcomes = OutcomesIn(log) /\ standing = Standing(log)
      /\ verified' = VerifiedIn(m) /\ assigned' = AssignedIn(m)
      /\ judged' = JudgedIn(m) /\ accepted' = AcceptedIn(m)
      /\ outcomes' = OutcomesIn(m) /\ standing' = Standing(m)
    BY <1>1, PromiseNow, PromiseThen
<1>4. CASE ~SetsStatus(e)
    <2>1. UNCHANGED <<verified, assigned, judged, accepted, outcomes, standing>>
        BY <1>2, <1>3, <1>4 DEF SameEvidence, SameVerified, SameAssigned, SameJudged,
           SameAccepted
    <2> QED
        BY <2>1 DEF Promise!vars
<1>5. CASE SetsStatus(e)
    <2>1. e.diff \in Diffs
        BY DEF Events
    <2>2. \/ UNCHANGED Promise!evidence
          \/ Promise!Verify(e.diff) \/ Promise!Assign(e.diff) \/ Promise!Judge(e.diff)
          \/ Promise!Accept
        BY <1>2, <1>3 DEF Learns, SameEvidence, SameVerified, SameAssigned, SameJudged,
           SameAccepted, Promise!evidence, Promise!Verify, Promise!Assign, Promise!Judge,
           Promise!Accept
    <2>3. standing' = "open" /\ outcomes' = outcomes
        BY <1>2, <1>3, <1>5
    <2> QED
        BY <2>1, <2>2, <2>3 DEF Promise!News
<1> QED
    BY <1>4, <1>5

\* An event that ends the task is the record of the decision of the one who appends
\* it.
LEMMA EndPromised ==
    ASSUME log \in Seq(Events), NEW e \in Events, e.type \in Ending,
           log' = Append(log, e), UNCHANGED <<task, owns>>, NEW c \in Controllers,
           decision[c] = EndOf(e.type), decision' = [decision EXCEPT ![c] = "none"]
    PROVE  Promise!Record(c)
<1>1. PICK m : m = log'
    OBVIOUS
<1>2. /\ SameEvidence(log, m) /\ Standing(m) = EndOf(e.type)
      /\ OutcomesIn(m) = OutcomesIn(log) \union {EndOf(e.type)}
    BY <1>1, EventTeaches, OutcomesAppend, StandingAppend
<1>3. /\ verified = VerifiedIn(log) /\ assigned = AssignedIn(log)
      /\ judged = JudgedIn(log) /\ accepted = AcceptedIn(log)
      /\ outcomes = OutcomesIn(log)
      /\ verified' = VerifiedIn(m) /\ assigned' = AssignedIn(m)
      /\ judged' = JudgedIn(m) /\ accepted' = AcceptedIn(m)
      /\ outcomes' = OutcomesIn(m) /\ standing' = Standing(m)
    BY <1>1, PromiseNow, PromiseThen
<1>4. UNCHANGED <<verified, assigned, judged, accepted>>
    BY <1>2, <1>3 DEF SameEvidence, SameVerified, SameAssigned, SameJudged, SameAccepted
<1>5. EndOf(e.type) # "none"
    BY DEF Ending, EndOf
<1> QED
    BY <1>2, <1>3, <1>4, <1>5 DEF Promise!Record, Promise!evidence

-----------------------------------------------------------------------------
(***************************************************************************)
(* The steps of TaskController.                                            *)
(***************************************************************************)
Allowed == [Promise!Next]_(Promise!vars)

\* Where a process is after its step.
LEMMA GoneTo ==
    ASSUME JobsOK, NEW p \in Procs, NEW j, Goes(p, j) \/ Overtakes(p, j)
    PROVE  job'[p] = j /\ Moves(p)
<1>1. job \in [Procs -> Jobs]
    BY DEF JobsOK
<1> QED
    BY <1>1 DEF Goes, Overtakes, Moves

\* A command that decides nothing and appends nothing.
LEMMA QuietPromised ==
    ASSUME TaskInv, NEW p \in Procs, NEW j, Goes(p, j),
           p \in Controllers => Wills(j) = Wills(job[p]),
           UNCHANGED <<task, log, owns>>
    PROVE  Allowed
<1>1. job'[p] = j /\ Moves(p) /\ JobsOK
    BY GoneTo DEF TaskInv
<1>2. decision' = decision
    BY <1>1, DecisionMoves
<1> QED
    BY <1>2, NothingPromised DEF Allowed

\* A command that appends an event that ends nothing.
LEMMA AppendPromised ==
    ASSUME TaskInv, NEW p \in Procs, NEW j, NEW e \in Events, e.type \notin Ending,
           AppendEvent(p, e, j), Wills(j) = "none",
           p \in Controllers => Wills(job[p]) = "none", UNCHANGED <<task, owns>>
    PROVE  Allowed
<1>1. job'[p] = j /\ Moves(p) /\ JobsOK /\ log \in Seq(Events) /\ log' = Append(log, e)
    BY GoneTo DEF TaskInv, LogOK, AppendEvent
<1>2. decision' = decision
    BY <1>1, DecisionMoves
<1>3. [Promise!News]_(Promise!vars)
    BY <1>1, <1>2, EventPromised
<1> QED
    BY <1>3 DEF Allowed, Promise!Next

\* Ingestion: an artifact is news.
LEMMA IngestPromised ==
    ASSUME TaskInv, NEW p \in Procs,
           CheckArtifact(p) \/ RecordArtifact(p) \/ UnlinkArtifact(p)
    PROVE  Allowed
<1>1. /\ job[p] \in Jobs /\ JobForm(p, job[p])
      /\ Wills(job[p]) = "none" /\ UNCHANGED <<task, owns>>
    BY DEF TaskInv, JobsOK, CheckArtifact, RecordArtifact, UnlinkArtifact, Elsewhere, Wills
<1>2. Wills(Idle) = "none" /\ Wills(Onward(job[p])) = "none"
    BY <1>1 DEF Wills, Idle, Onward, Jobs
<1>3. \A a \in Points \ {"append"} : Wills([job[p] EXCEPT !.at = a, !.stale = FALSE]) = "none"
    BY <1>1 DEF Wills, Jobs
<1>4. CASE CheckArtifact(p) \/ UnlinkArtifact(p)
    <2>1. UNCHANGED <<task, log, owns>>
        BY <1>1, <1>4 DEF CheckArtifact, UnlinkArtifact, NoAppend
    <2>2. PICK j : Goes(p, j) /\ Wills(j) = "none"
        <3>1. \/ Goes(p, Idle) \/ Goes(p, Onward(job[p]))
              \/ Goes(p, [job[p] EXCEPT !.at = "checked", !.stale = FALSE])
            BY <1>4 DEF CheckArtifact, UnlinkArtifact, Refused, Ends
        <3> QED
            BY <1>2, <1>3, <3>1 DEF Points
    <2> QED
        BY <1>1, <2>1, <2>2, QuietPromised
<1>5. CASE RecordArtifact(p)
    <2> DEFINE j == [job[p] EXCEPT !.at = "recorded", !.stale = FALSE]
    <2>1. AppendEvent(p, job[p].art, j) /\ Wills(j) = "none"
        BY <1>3, <1>5 DEF RecordArtifact, Points
    <2>2. job[p].art \in Events /\ Fits(job[p].file, job[p].art) /\ job[p].file \in Files
        BY <1>1, <1>5 DEF JobForm, Jobs, RecordArtifact
    <2>3. job[p].art.type \notin Ending
        BY <2>2, FileFacts DEF Fits, ArtifactTypes, Ending
    <2> HIDE DEF j
    <2> QED
        BY <1>1, <2>1, <2>2, <2>3, AppendPromised
<1> QED
    BY <1>4, <1>5

\* A callback is news, or nothing to the promise.
LEMMA SessionPromised ==
    ASSUME TaskInv, NEW a \in Sessions, SessionStep(a)
    PROVE  Allowed
<1>1. a \in Procs /\ a \notin Controllers /\ JobForm(a, job[a]) /\ job[a] \in Jobs
    BY ControllersAssumption DEF Procs, Sessions, TaskInv, JobsOK
<1>2. ASSUME NEW k, NEW s, NEW v, Notify(a, k, s, v) PROVE Allowed
    <2>1. PICK j : Goes(a, j)
        BY <1>2 DEF Notify, Reads
    <2>2. UNCHANGED <<task, log, owns>>
        BY <1>2 DEF Notify, NoAppend, Elsewhere
    <2> QED
        BY <1>1, <2>1, <2>2, QuietPromised
<1>3. ASSUME Tell(a) PROVE Allowed
    <2>1. /\ AppendEvent(a, job[a].event, Idle) /\ job[a].cmd = "notify"
          /\ UNCHANGED <<task, owns>>
        BY <1>3 DEF Tell, Elsewhere
    <2>2. job[a].event \in Events /\ job[a].event.type \notin Ending
        BY <1>1, <2>1 DEF JobForm, Jobs, Ending
    <2>3. Wills(Idle) = "none"
        BY DEF Wills, Idle
    <2> QED
        BY <1>1, <2>1, <2>2, <2>3, AppendPromised
<1> QED
    BY <1>2, <1>3 DEF SessionStep

\* A mailbox adds warnings, which are news without evidence.
LEMMA MailboxPromised ==
    ASSUME TaskInv, NEW c \in Controllers,
           (\E a \in Sessions : Mailbox(c, a)) \/ MailboxNext(c) \/ MailboxWarn(c)
    PROVE  Allowed
<1>1. /\ c \in Procs /\ JobsOK /\ job[c] \in Jobs /\ log \in Seq(Events)
      /\ Wills(job[c]) = "none" /\ UNCHANGED <<task, owns>>
    BY DEF Procs, TaskInv, JobsOK, LogOK, Mailbox, Starts, MailboxNext, MailboxWarn,
       Elsewhere, Wills
<1>2. CASE \E a \in Sessions : Mailbox(c, a)
    <2>1. PICK a \in Sessions : Mailbox(c, a)
        BY <1>2
    <2> DEFINE j == [Idle EXCEPT !.at = "rest", !.cmd = "mailbox",
                     !.files = {f \in Files : ActorOf(f) = a /\ outbox[f] # Missing}]
    <2>2. Goes(c, j) /\ UNCHANGED log
        BY <2>1 DEF Mailbox, Begins, NoAppend
    <2>3. Wills(j) = "none"
        BY DEF Wills, Idle
    <2> HIDE DEF j
    <2> QED
        BY <1>1, <2>2, <2>3, QuietPromised
<1>3. CASE MailboxNext(c)
    <2>1. PICK f : Goes(c, [[job[c] EXCEPT !.files = @ \ {f}] EXCEPT
                               !.at = "read", !.file = f, !.art = outbox[f]])
        BY <1>3 DEF MailboxNext, Reads
    <2> DEFINE j == [[job[c] EXCEPT !.files = @ \ {f}] EXCEPT
                        !.at = "read", !.file = f, !.art = outbox[f]]
    <2>2. Wills(j) = "none" /\ UNCHANGED log
        BY <1>1, <1>3 DEF Wills, Jobs, MailboxNext, NoAppend
    <2> HIDE DEF j
    <2>3. Goes(c, j)
        BY <2>1 DEF j
    <2> QED
        BY <1>1, <2>2, <2>3, QuietPromised
<1>4. CASE MailboxWarn(c)
    <2>1. PICK found \in SUBSET Warnings, active \in BOOLEAN :
             LET es == Warning("worker.blocked" \in found, "worker.stalled" \in found, active)
             IN  /\ log' = log \o es
                 /\ IF es = <<>> THEN Goes(c, Idle) ELSE Overtakes(c, Idle)
        BY <1>4 DEF MailboxWarn
    <2> DEFINE es == Warning("worker.blocked" \in found, "worker.stalled" \in found, active)
    <2>2. es \in Seq(Events) /\ \A k \in DOMAIN es : es[k].type \in Warns
        BY WarningTyped
    <2>3. log' = log \o es /\ IF es = <<>> THEN Goes(c, Idle) ELSE Overtakes(c, Idle)
        BY <2>1
    <2> HIDE DEF es
    <2>4. decision' = decision
        <3>1. Wills(Idle) = "none"
            BY DEF Wills, Idle
        <3> QED
            BY <1>1, <2>3, <3>1, GoneTo, DecisionMoves
    <2>5. CASE es = <<>>
        <3>1. log' = log
            BY <1>1, <2>3, <2>5
        <3> QED
            BY <1>1, <2>4, <3>1, NothingPromised DEF Allowed
    <2>6. CASE es # <<>>
        <3>1. PICK m : m = log'
            OBVIOUS
        <3>2. /\ m \in Seq(Events) /\ Grows(log, m) /\ Len(m) > Len(log)
              /\ \A i \in DOMAIN m : i \notin DOMAIN log => m[i].type \in Warns
            <4>1. m = log \o es
                BY <2>3, <3>1
            <4>2. /\ m \in Seq(Events) /\ Len(m) > Len(log) /\ Grows(log, m)
                  /\ \A i \in DOMAIN m : i \notin DOMAIN log =>
                         i - Len(log) \in DOMAIN es /\ m[i] = es[i - Len(log)]
                BY <1>1, <2>2, <2>6, <4>1 DEF Grows
            <4> QED
                BY <2>2, <4>2
        <3>3. SameEvidence(log, m) /\ OutcomesIn(m) = OutcomesIn(log) /\ Standing(m) = "open"
            BY <1>1, <3>2, WarningsTeachNothing
        <3>4. /\ UNCHANGED <<verified, assigned, judged, accepted, outcomes>>
              /\ standing' = "open"
            BY <3>1, <3>3, PromiseNow, PromiseThen DEF SameEvidence, SameVerified,
               SameAssigned, SameJudged, SameAccepted
        <3>5. Promise!News
            BY <1>1, <2>4, <3>4 DEF Promise!News, Promise!evidence
        <3> QED
            BY <3>5 DEF Allowed, Promise!Next
    <2> QED
        BY <2>5, <2>6
<1> QED
    BY <1>2, <1>3, <1>4

\* A controller that decides on an event.
LEMMA Appending ==
    ASSUME TaskInv, NEW c \in Controllers, NEW cmd, NEW e, Starts(c), Appends(c, cmd, e)
    PROVE  /\ decision[c] = "none"
           /\ decision' = [decision EXCEPT ![c] = EndOf(e.type)]
           /\ EndOf(e.type) = "none" => decision' = decision
           /\ UNCHANGED <<task, log, owns>>
<1> DEFINE j == [Idle EXCEPT !.at = "append", !.cmd = cmd, !.event = e]
<1>1. c \in Procs /\ JobsOK /\ Wills(job[c]) = "none" /\ UNCHANGED <<task, log, owns>>
    BY DEF Procs, TaskInv, Starts, Wills, Appends, NoAppend
<1>2. Goes(c, j)
    BY DEF Appends, Begins
<1>3. Wills(j) = EndOf(e.type)
    BY DEF Wills, Idle
<1> HIDE DEF j
<1>4. job'[c] = j /\ Moves(c)
    BY <1>1, <1>2, GoneTo
<1>5. decision[c] = "none"
    BY <1>1, PromiseNow
<1> QED
    BY <1>1, <1>3, <1>4, <1>5, DecisionMoves

\* The commands that decide on something else than an end.
LEMMA WorkPromised ==
    ASSUME TaskInv, NEW c \in Controllers,
           \/ \E t \in Messages : Message(c, t)
           \/ \E s \in 1..MaxSteps : Approve(c, s)
           \/ Verify(c) \/ Review(c)
    PROVE  Allowed
<1>1. \E cmd, e : Appends(c, cmd, e) /\ Starts(c) /\ e.type \notin Ending
    <2>1. ASSUME NEW t \in Messages, Message(c, t)
          PROVE  Appends(c, "message", Event(t, "codex")) /\ Starts(c)
                 /\ Event(t, "codex").type \notin Ending
        BY <2>1, MessagesAssumption DEF Message, Event, Ending
    <2>2. ASSUME NEW s, Approve(c, s)
          PROVE  \E e : Appends(c, "message", e) /\ Starts(c) /\ e.type \notin Ending
        <3> DEFINE e == [Event("codex.approved", "codex") EXCEPT !.step = s]
        <3>1. Appends(c, "message", e) /\ Starts(c)
            BY <2>2 DEF Approve
        <3>2. e.type = "codex.approved"
            BY DEF Event
        <3> HIDE DEF e
        <3> QED
            BY <3>1, <3>2 DEF Ending
    <2>3. ASSUME Verify(c)
          PROVE  \E e : Appends(c, "verify", e) /\ Starts(c) /\ e.type \notin Ending
        <3>1. PICK green \in BOOLEAN :
                  Appends(c, "verify",
                          [Event("verification.completed", "controller") EXCEPT
                              !.diff = tree, !.ok = green /\ InScope(task, tree)])
            BY <2>3 DEF Verify
        <3> DEFINE e == [Event("verification.completed", "controller") EXCEPT
                            !.diff = tree, !.ok = green /\ InScope(task, tree)]
        <3>2. e.type = "verification.completed"
            BY DEF Event
        <3>3. Appends(c, "verify", e) /\ Starts(c)
            BY <2>3, <3>1 DEF Verify
        <3> HIDE DEF e
        <3> QED
            BY <3>2, <3>3 DEF Ending
    <2>4. ASSUME Review(c)
          PROVE  \E e : Appends(c, "review", e) /\ Starts(c) /\ e.type \notin Ending
        <3> DEFINE e == [Event("reviewer.spawned", "reviewer") EXCEPT !.diff = tree]
        <3>1. Appends(c, "review", e) /\ Starts(c)
            BY <2>4 DEF Review
        <3>2. e.type = "reviewer.spawned"
            BY DEF Event
        <3> HIDE DEF e
        <3> QED
            BY <3>1, <3>2 DEF Ending
    <2> QED
        BY <2>1, <2>2, <2>3, <2>4
<1>2. PICK cmd, e : Appends(c, cmd, e) /\ Starts(c) /\ e.type \notin Ending
    BY <1>1
<1>3. EndOf(e.type) = "none"
    BY <1>2 DEF EndOf, Ending
<1> QED
    BY <1>2, <1>3, Appending, NothingPromised DEF Allowed

\* A command that goes on without a call.
LEMMA ContinuePromised ==
    ASSUME TaskInv, NEW c \in Controllers, NEW cmd, NEW at, at # "append", Starts(c),
           Continues(c, cmd, at)
    PROVE  Allowed
<1> DEFINE j == [Idle EXCEPT !.at = at, !.cmd = cmd]
<1>1. c \in Procs /\ Wills(job[c]) = "none" /\ UNCHANGED <<task, log, owns>>
    BY DEF Procs, Starts, Wills, Continues, NoAppend, Elsewhere
<1>2. Goes(c, j)
    BY DEF Continues, Begins
<1>3. Wills(j) = "none"
    BY DEF Wills, Idle
<1> HIDE DEF j
<1> QED
    BY <1>1, <1>2, <1>3, QuietPromised

\* An end that does not have the status does not stand.
LEMMA OpenIfNotOver ==
    ASSUME TaskInv, Status(log) \notin {"completed", "cancelled"}
    PROVE  Standing(log) = "open"
<1>1. PICK k \in News(log) :
         /\ \A j \in News(log) : j <= k
         /\ Status(log) = "completed" <=> log[k].type = "task.completed"
         /\ Status(log) = "cancelled" <=> log[k].type = "task.cancelled"
    BY NewsSays
<1>2. /\ log \in Seq(Events) /\ DOMAIN log = 1..Len(log) /\ Len(log) \in Nat
      /\ k \in DOMAIN log /\ SetsStatus(log[k]) /\ log[k].type \notin Ending
    BY <1>1 DEF TaskInv, LogOK, News, Ending
<1>3. ASSUME NEW t \in Ending, NEW i \in AnyOf(log, t) PROVE k \in (i + 1)..Len(log)
    <2>1. i \in News(log) /\ i # k /\ i \in 1..Len(log)
        BY <1>2 DEF AnyOf, News, SetsStatus, Ending
    <2> QED
        BY <1>1, <1>2, <2>1
<1>4. \A t \in Ending : ~Stands(log, t)
    BY <1>2, <1>3 DEF Stands
<1> QED
    BY <1>4 DEF Standing, Ending

LEMMA CancelPromised ==
    ASSUME TaskInv, NEW c \in Controllers, Cancel(c)
    PROVE  Allowed
<1>1. CASE Continues(c, "cancel", "release")
    BY <1>1, ContinuePromised DEF Cancel
<1>2. CASE /\ Status(log) # "cancelled"
           /\ Appends(c, "cancel", Event("task.cancelled", "codex"))
    <2>1. EndOf(Event("task.cancelled", "codex").type) = "cancelled"
        BY DEF EndOf, Event
    <2>2. /\ decision[c] = "none" /\ decision' = [decision EXCEPT ![c] = "cancelled"]
          /\ UNCHANGED <<task, log, owns>>
        BY <1>2, <2>1, Appending DEF Cancel
    <2>3. standing = "open"
        BY <1>2, OpenIfNotOver, PromiseNow DEF Cancel
    <2>4. UNCHANGED <<verified, assigned, judged, accepted, outcomes, standing>>
        BY <2>2, PromiseNow, PromiseThen
    <2>5. Promise!Cancel(c)
        BY <2>2, <2>3, <2>4 DEF Promise!Cancel, Promise!Decides, Promise!evidence
    <2> QED
        BY <2>5 DEF Allowed, Promise!Next
<1> QED
    BY <1>1, <1>2 DEF Cancel

\* What backs a completion is there as evidence.
LEMMA BackedEvidenced ==
    ASSUME NEW t, NEW l \in Seq(Events), NEW d \in Diffs, NEW n, Backed(t, l, n, d)
    PROVE  /\ VerifiedIn(l) # {}
           /\ t.role = "implementer" => AcceptedIn(l) # {}
<1>1. PICK v \in Verifications(l) :
        /\ v <= n /\ l[v].ok /\ l[v].diff = d
        /\ t.role = "implementer" =>
              \E s \in Spawns(l), r \in Reviews(l), c \in Callbacks(l, "reviewer", "done") :
                  /\ v < s /\ s < r /\ r < c /\ c <= n
                  /\ l[s].diff = d /\ l[r].diff = d /\ l[r].ok /\ l[c].ok
    BY DEF Backed
<1>2. v \in Green(l)
    BY <1>1 DEF Green
<1>3. VerifiedIn(l) # {}
    BY <1>2 DEF VerifiedIn, DiffsAt
<1>4. ASSUME t.role = "implementer" PROVE AcceptedIn(l) # {}
    <2>1. PICK s \in Spawns(l), r \in Reviews(l), c \in Callbacks(l, "reviewer", "done") :
              /\ v < s /\ s < r /\ r < c
              /\ l[s].diff = d /\ l[r].diff = d /\ l[r].ok /\ l[c].ok
        BY <1>1, <1>4
    <2>2. s \in Assignments(l)
        BY <1>1, <1>2, <2>1 DEF Assignments
    <2>3. r \in Acceptances(l)
        BY <2>1, <2>2 DEF Acceptances
    <2>4. r \in ReportedAcceptances(l)
        BY <2>1, <2>3 DEF ReportedAcceptances
    <2> QED
        BY <2>4 DEF AcceptedIn, DiffsAt
<1> QED
    BY <1>3, <1>4

LEMMA CompletePromised ==
    ASSUME TaskInv, NEW c \in Controllers, Complete(c)
    PROVE  Allowed
<1>1. CASE Continues(c, "complete", "manifest")
    BY <1>1, ContinuePromised DEF Complete
<1>2. CASE ~Completed /\ Appends(c, "complete", Event("task.completed", "controller"))
    <2>1. EndOf(Event("task.completed", "controller").type) = "completed"
        BY DEF EndOf, Event
    <2>2. /\ decision[c] = "none" /\ decision' = [decision EXCEPT ![c] = "completed"]
          /\ UNCHANGED <<task, log, owns>>
        BY <1>2, <2>1, Appending DEF Complete
    <2>3. tree \in Diffs /\ log \in Seq(Events) /\ LastThere(Verifications(log))
        BY DEF TaskInv, World, LogOK
    <2>4. Backed(task, log, Len(log), tree) /\ NotEnded(log)
        BY <2>3, GateBacks DEF Complete
    <2>5. Promise!Evidenced # {}
        BY <2>3, <2>4, BackedEvidenced, PromiseNow DEF Promise!Evidenced
    <2>6. "cancelled" \notin outcomes
        BY <2>4 DEF NotEnded, AnyOf, outcomes, EndOf, Endings
    <2>7. task.edits => owns
        BY <1>2 DEF Complete, OwnsWriter
    <2>8. UNCHANGED <<verified, assigned, judged, accepted, outcomes, standing>>
        BY <2>2, PromiseNow, PromiseThen
    <2>9. Promise!Complete(c)
        BY <2>2, <2>5, <2>6, <2>7, <2>8
        DEF Promise!Complete, Promise!Decides, Promise!evidence
    <2> QED
        BY <2>9 DEF Allowed, Promise!Next
<1> QED
    BY <1>1, <1>2 DEF Complete

\* What a controller has decided on is recorded; anything else is news.
LEMMA RecordPromised ==
    ASSUME TaskInv, NEW c \in Controllers, Record(c)
    PROVE  Allowed
<1>1. /\ c \in Procs /\ JobsOK /\ job[c].event \in Events /\ log \in Seq(Events)
      /\ job[c].at = "append" /\ UNCHANGED <<task, owns>>
    BY DEF Procs, TaskInv, JobsOK, LogOK, Jobs, Record, Elsewhere
<1>2. PICK j : AppendEvent(c, job[c].event, j) /\ Wills(j) = "none"
    <2> DEFINE at == After(job[c].cmd)
               j == [Idle EXCEPT !.at = at, !.cmd = job[c].cmd]
    <2>1. Wills(Idle) = "none" /\ Wills(j) = "none"
        BY DEF Wills, Idle, After
    <2>2. AppendEvent(c, job[c].event, Idle) \/ AppendEvent(c, job[c].event, j)
        BY DEF Record
    <2> HIDE DEF j
    <2> QED
        BY <2>1, <2>2
<1>3. Wills(job[c]) = EndOf(job[c].event.type)
    BY <1>1 DEF Wills
<1>4. CASE job[c].event.type \notin Ending
    <2>1. Wills(job[c]) = "none"
        BY <1>3, <1>4 DEF EndOf, Ending
    <2> QED
        BY <1>1, <1>2, <1>4, <2>1, AppendPromised
<1>5. CASE job[c].event.type \in Ending
    <2>1. log' = Append(log, job[c].event) /\ job'[c] = j /\ Moves(c)
        BY <1>1, <1>2, GoneTo DEF AppendEvent
    <2>2. decision' = [decision EXCEPT ![c] = "none"]
        BY <1>1, <1>2, <2>1, DecisionMoves
    <2>3. decision[c] = EndOf(job[c].event.type)
        BY <1>3, PromiseNow
    <2>4. Promise!Record(c)
        BY <1>1, <1>5, <2>1, <2>2, <2>3, EndPromised
    <2> QED
        BY <2>4 DEF Allowed, Promise!Next
<1> QED
    BY <1>4, <1>5

\* There is an outcome once the log has an end.
LEMMA EndedHasOutcome == Endings(log) # {} => outcomes # {}
BY DEF outcomes

\* The writer is given up, and nothing else.
LEMMA GivenUp ==
    ASSUME Endings(log) # {}, owns' = FALSE, UNCHANGED <<task, log>>, decision' = decision
    PROVE  Allowed
<1>1. UNCHANGED <<verified, assigned, judged, accepted, outcomes, standing>>
    BY PromiseNow, PromiseThen
<1>2. Promise!GiveUp
    BY <1>1, EndedHasOutcome DEF Promise!GiveUp, Promise!evidence
<1> QED
    BY <1>2 DEF Allowed, Promise!Next

LEMMA FinishPromised ==
    ASSUME TaskInv, NEW c \in Controllers, WriteManifest(c) \/ GiveBack(c)
    PROVE  Allowed
<1>1. /\ c \in Procs /\ JobsOK /\ job[c] \in Jobs /\ job \in [Procs -> Jobs]
      /\ Rests(task, job[c], log) /\ Wills(job[c]) = "none"
    BY DEF Procs, TaskInv, JobsOK, WriteManifest, GiveBack, Wills
<1>2. CASE WriteManifest(c)
    <2> DEFINE j == [job[c] EXCEPT !.at = "release"]
    <2>1. Goes(c, j) /\ UNCHANGED <<task, log, owns>>
        BY <1>2 DEF WriteManifest, NoAppend, Elsewhere
    <2>2. Wills(j) = "none"
        BY <1>1 DEF Wills, Jobs
    <2> HIDE DEF j
    <2> QED
        BY <1>1, <2>1, <2>2, QuietPromised
<1>3. CASE GiveBack(c)
    <2>1. Endings(log) # {}
        BY <1>1, <1>3 DEF GiveBack, Rests
    <2>2. owns' = FALSE /\ UNCHANGED <<task, log>>
        BY <1>3 DEF GiveBack, ReleaseWriter, NoAppend, Elsewhere
    <2>3. job'[c] = Idle /\ Wills(Idle) = "none"
        BY <1>1, <1>3 DEF GiveBack, Wills, Idle
    <2>4. decision' = decision
        BY <1>1, <1>3, <2>3, DecisionMoves DEF Moves
    <2> QED
        BY <2>1, <2>2, <2>4, GivenUp
<1> QED
    BY <1>2, <1>3

\* A completion that is looked at again is decided already.
LEMMA ConfirmPromised ==
    ASSUME TaskInv, NEW c \in Controllers, CompleteAgain(c) \/ Confirm(c)
    PROVE  Allowed
<1> DEFINE i == [Idle EXCEPT !.at = "confirm", !.cmd = "complete", !.seen = tree,
                             !.held = manifest.diff]
           j == [Idle EXCEPT !.at = "release", !.cmd = "complete"]
<1>1. c \in Procs /\ Wills(job[c]) = "none" /\ UNCHANGED <<task, log, owns>>
    BY DEF Procs, Starts, Wills, CompleteAgain, Confirm, NoAppend, Elsewhere
<1>2. Goes(c, i) \/ Goes(c, j) \/ Goes(c, Idle)
    BY DEF CompleteAgain, Confirm, Begins, Ends
<1>3. Wills(i) = "none" /\ Wills(j) = "none" /\ Wills(Idle) = "none"
    BY DEF Wills, Idle
<1> HIDE DEF i, j
<1> QED
    BY <1>1, <1>2, <1>3, QuietPromised

\* A decision that is not recorded is withdrawn.
LEMMA StopPromised ==
    ASSUME TaskInv, NEW p \in Procs, Fail(p) \/ Crash(p)
    PROVE  Allowed
<1>1. Goes(p, Idle) /\ UNCHANGED <<task, log, owns>> /\ Wills(Idle) = "none" /\ JobsOK
    BY DEF Fail, Crash, Ends, NoAppend, Elsewhere, Wills, Idle, TaskInv
<1>2. CASE p \notin Controllers
    BY <1>1, <1>2, QuietPromised
<1>3. CASE p \in Controllers
    <2>1. decision' = [decision EXCEPT ![p] = "none"]
        BY <1>1, <1>3, GoneTo, DecisionMoves
    <2>2. UNCHANGED <<verified, assigned, judged, accepted, outcomes, standing>>
        BY <1>1, PromiseNow, PromiseThen
    <2>3. Promise!Withdraw(p)
        BY <1>1, <2>1, <2>2 DEF Promise!Withdraw, Promise!evidence
    <2> QED
        BY <1>3, <2>3 DEF Allowed, Promise!Next
<1> QED
    BY <1>2, <1>3

LEMMA EnvironmentPromised ==
    ASSUME TaskInv, Environment
    PROVE  Allowed
<1>1. task' = task /\ log' = log /\ job' = job
    BY DEF Environment, Edit, WriteCheckpoint, WriteReport, WriteReview, Write, OtherTask,
       Expire, NoAppend, Elsewhere
<1>2. decision' = decision
    BY <1>1, PromiseNow, PromiseThen
<1>3. CASE OtherTask
    <2>1. Endings(log) # {}
        BY <1>3, OverEnds DEF OtherTask, Over
    <2> QED
        BY <1>1, <1>2, <1>3, <2>1, GivenUp DEF OtherTask
<1>4. CASE ~OtherTask
    <2>1. owns' = owns
        BY <1>4 DEF Environment, Edit, WriteCheckpoint, WriteReport, WriteReview, Write,
           Expire
    <2> QED
        BY <1>1, <1>2, <2>1, NothingPromised DEF Allowed
<1> QED
    BY <1>3, <1>4

LEMMA ControllerPromised ==
    ASSUME TaskInv, NEW c \in Controllers, ControllerStep(c)
    PROVE  Allowed
<1>1. CASE (\E a \in Sessions : Mailbox(c, a)) \/ MailboxNext(c) \/ MailboxWarn(c)
    BY <1>1, MailboxPromised
<1>2. CASE \/ \E t \in Messages : Message(c, t)
           \/ \E s \in 1..MaxSteps : s <= task.steps /\ Approve(c, s)
           \/ Verify(c) \/ Review(c)
    BY <1>2, WorkPromised
<1>3. CASE Cancel(c) \/ Complete(c)
    BY <1>3, CancelPromised, CompletePromised
<1>4. CASE CompleteAgain(c) \/ Confirm(c)
    BY <1>4, ConfirmPromised
<1>5. CASE Record(c)
    BY <1>5, RecordPromised
<1>6. CASE WriteManifest(c) \/ GiveBack(c)
    BY <1>6, FinishPromised
<1> QED
    BY <1>1, <1>2, <1>3, <1>4, <1>5, <1>6 DEF ControllerStep

\* A task begins without evidence, decision or end, and with its reservation.
LEMMA InitPromised == Init => Promise!Init
<1> SUFFICES ASSUME Init PROVE Promise!Init
    OBVIOUS
<1> DEFINE a == Event("task.created", "codex")
           b == Event("worker.spawned", "worker")
<1>1. a.type = "task.created" /\ b.type = "worker.spawned" /\ log = <<a, b>>
    BY DEF Event, Init
<1> HIDE DEF a, b
<1>2. \A i \in DOMAIN log : log[i].type \in {"task.created", "worker.spawned"}
    BY <1>1
<1>3. \A t, y : t \notin {"task.created", "worker.spawned"} =>
          Of(log, t, y) = {} /\ AnyOf(log, t) = {}
    BY <1>2 DEF Of, AnyOf
<1>4. Verifications(log) = {} /\ Spawns(log) = {} /\ Reviews(log) = {}
    BY <1>3 DEF Verifications, Spawns, Reviews
<1>5. /\ Green(log) = {} /\ Assignments(log) = {} /\ Acceptances(log) = {}
      /\ ReportedAcceptances(log) = {}
    BY <1>4 DEF Green, Assignments, Acceptances, ReportedAcceptances
<1>6. verified = {} /\ assigned = {} /\ judged = {} /\ accepted = {}
    BY <1>5 DEF verified, assigned, judged, accepted, DiffsAt
<1>7. outcomes = {}
    BY <1>2 DEF outcomes, Endings, Ending
<1>8. standing = "open"
    <2>1. AnyOf(log, "task.completed") = {} /\ AnyOf(log, "task.cancelled") = {}
        BY <1>3
    <2>2. ~Stands(log, "task.completed") /\ ~Stands(log, "task.cancelled")
        BY <2>1 DEF Stands
    <2> QED
        BY <2>2 DEF standing, Standing
<1>9. decision = [c \in Controllers |-> "none"]
    BY DEF decision, Init, Idle, Procs
<1>10. task.edits \in BOOLEAN /\ owns = task.edits
    BY TasksAssumption DEF Init, Tasks
<1> QED
    BY <1>6, <1>7, <1>8, <1>9, <1>10 DEF Promise!Init

\* The controllers keep the promise of TaskPromise: whatever they, the worker and
\* the reviewer do at the same time, an end that is recorded was decided on the
\* evidence there was, on a task not cancelled by then, and the reservation is
\* given up after an end was recorded.
THEOREM TaskKeepsPromise == Spec => KeepsPromise
<1>1. TaskInv /\ [Next]_vars => [Promise!Next]_(Promise!vars)
    <2> SUFFICES ASSUME TaskInv, [Next]_vars PROVE Allowed
        BY DEF Allowed
    <2>1. CASE UNCHANGED vars
        <3>1. UNCHANGED <<task, log, owns, job>>
            BY <2>1 DEF vars
        <3>2. decision' = decision
            BY <3>1, PromiseNow, PromiseThen
        <3> QED
            BY <3>1, <3>2, NothingPromised DEF Allowed
    <2>2. ASSUME NEW p \in Procs, AnyStep(p) PROVE Allowed
        BY <2>2, IngestPromised, StopPromised DEF AnyStep
    <2>3. CASE Next
        BY <2>2, <2>3, EnvironmentPromised, SessionPromised, ControllerPromised DEF Next
    <2> QED
        BY <2>1, <2>3
<1> QED
    BY <1>1, InitPromised, TaskSafe, PTL DEF Spec, KeepsPromise, Promise!Spec

=============================================================================
