--------------------------- MODULE TaskLog_proofs ---------------------------
(***************************************************************************)
(* Proofs about what is read out of a log, for a log of any length: how    *)
(* the places of its events, its status and its steps change as the log    *)
(* grows, and what the merge gate rests on.                                *)
(***************************************************************************)
EXTENDS TaskLog, TLAPS, WellFoundedInduction

\* A set of naturals with 0 and with the successor of each of its members is
\* Nat: a smallest number outside it would have neither property.
LEMMA SetInduction ==
    ASSUME NEW S \in SUBSET Nat, 0 \in S, \A n \in S : n + 1 \in S
    PROVE  S = Nat
<1> SUFFICES ASSUME S # Nat PROVE FALSE
    OBVIOUS
<1> DEFINE R == OpToRel(<, Nat)
           T == Nat \ S
<1>1. IsWellFoundedOn(R, Nat)
    BY NatLessThanWellFounded
<1>2. T \subseteq Nat /\ T # {}
    OBVIOUS
<1> HIDE DEF R, T
<1>3. PICK x \in T : \A y \in T : ~ (<<y, x>> \in R)
    BY <1>1, <1>2, WFMin
<1> USE DEF T
<1>4. \A y \in T : ~ (y < x)
    BY <1>3 DEF R, OpToRel
<1>5. x # 0 /\ x - 1 \in Nat /\ x - 1 < x
    OBVIOUS
<1> QED
    BY <1>4, <1>5

-----------------------------------------------------------------------------
(***************************************************************************)
(* Logs that grow.                                                         *)
(***************************************************************************)
Grows(l, m) == Len(l) <= Len(m) /\ \A i \in 1..Len(l) : m[i] = l[i]

\* A set of places has a last one, if it has any.
LastThere(S) == S = {} \/ \E i \in S : \A j \in S : j <= i

News(l) == {i \in DOMAIN l : SetsStatus(l[i])}

\* A log with one more event.
LEMMA AppendGrows ==
    ASSUME NEW l \in Seq(Events), NEW e \in Events
    PROVE  /\ Append(l, e) \in Seq(Events)
           /\ Grows(l, Append(l, e))
           /\ Len(Append(l, e)) = Len(l) + 1
           /\ Append(l, e)[Len(l) + 1] = e
           /\ DOMAIN Append(l, e) = (DOMAIN l) \union {Len(l) + 1}
           /\ DOMAIN l = 1..Len(l)
           /\ Len(l) \in Nat
BY DEF Grows

\* The places of events in a log with one more event.
LEMMA AppendPlaces ==
    ASSUME NEW l \in Seq(Events), NEW e \in Events, NEW m, m = Append(l, e)
    PROVE  /\ m \in Seq(Events) /\ DOMAIN m = (DOMAIN l) \union {Len(l) + 1}
           /\ DOMAIN l = 1..Len(l) /\ Len(l) \in Nat /\ Len(m) = Len(l) + 1
           /\ m[Len(l) + 1] = e /\ \A i \in DOMAIN l : m[i] = l[i]
           /\ Grows(l, m)
BY AppendGrows DEF Grows

\* A set of places that gains the last place of all has that one last.
LEMMA LastKept ==
    ASSUME NEW n \in Nat, NEW S, NEW T, LastThere(S), S \subseteq 1..n,
           T = S \/ T = S \union {n + 1}
    PROVE  LastThere(T)
<1>1. CASE T = S
    BY <1>1
<1>2. CASE T = S \union {n + 1}
    <2>1. n + 1 \in T /\ \A j \in T : j <= n + 1
        BY <1>2
    <2> QED
        BY <2>1 DEF LastThere
<1> QED
    BY <1>1, <1>2

-----------------------------------------------------------------------------
(***************************************************************************)
(* The latest of some places, and what it says of the status of the task.  *)
(***************************************************************************)
\* The latest of a set of places is one of them.
LEMMA LatestIn ==
    ASSUME NEW S, S \subseteq Nat, S # {}, LastThere(S)
    PROVE  Latest(S) \in S /\ \A j \in S : j <= Latest(S)
BY DEF Latest, LastThere

\* The one place of a set that has one is that place.
LEMMA TheIn == ASSUME NEW S, Single(S) PROVE The(S) \in S
BY DEF Single, The

\* The status of a task is that of its latest news.
LEMMA StatusIs ==
    ASSUME NEW l \in Seq(Events), News(l) # {}, LastThere(News(l))
    PROVE  \E i \in News(l) : /\ \A j \in News(l) : j <= i
                              /\ Status(l) = StatusAfter(l[i])
<1>1. News(l) \subseteq Nat
    BY DEF News
<1>2. Latest(News(l)) \in News(l) /\ \A j \in News(l) : j <= Latest(News(l))
    BY <1>1, LatestIn
<1>3. Status(l) = StatusAfter(l[Latest(News(l))])
    BY DEF Status, News
<1> QED
    BY <1>2, <1>3

\* The events that end a task are those that say so.
LEMMA StatusEnds ==
    ASSUME NEW e \in Events
    PROVE  /\ StatusAfter(e) = "completed" <=> e.type = "task.completed"
           /\ StatusAfter(e) = "cancelled" <=> e.type = "task.cancelled"
           /\ StatusAfter(e) = "failed" <=> e.type = "task.failed"
           /\ StatusAfter(e) # "unknown"
BY DEF StatusAfter, CallbackStatus, Events, EventTypes

-----------------------------------------------------------------------------
(***************************************************************************)
(* The steps of the events of one type.                                    *)
(***************************************************************************)
\* What the first i events of l add to what f says of the first i - 1, and f
\* built in this way up to n.
Counted(f, l, t, i) ==
    IF i = 0 THEN <<>>
    ELSE IF l[i].type = t THEN Append(f[i - 1], l[i].step) ELSE f[i - 1]
Counts(f, l, t, n) == f = [i \in 0..n |-> Counted(f, l, t, i)]

LEMMA CountsAt ==
    ASSUME NEW l, NEW t, NEW n \in Nat, NEW f, Counts(f, l, t, n), NEW i \in 0..n
    PROVE  f[i] = Counted(f, l, t, i)
<1> DEFINE C(j) == Counted(f, l, t, j)
<1>1. f = [j \in 0..n |-> C(j)]
    BY DEF Counts
<1> HIDE DEF C
<1>2. f[i] = C(i)
    BY <1>1
<1> QED
    BY <1>2 DEF C

LEMMA CountsExist ==
    ASSUME NEW l, NEW t, NEW n \in Nat
    PROVE  \E f : Counts(f, l, t, n)
<1> DEFINE S == {k \in Nat : \E f : Counts(f, l, t, k)}
<1>1. 0 \in S
    <2> DEFINE g == [i \in 0..0 |-> <<>>]
    <2>1. \A i \in 0..0 : <<>> = Counted(g, l, t, i)
        BY DEF Counted
    <2>2. Counts(g, l, t, 0)
        BY <2>1 DEF Counts
    <2> QED
        BY <2>2
<1>2. ASSUME NEW k \in S PROVE k + 1 \in S
    <2>1. PICK f : Counts(f, l, t, k)
        OBVIOUS
    <2> DEFINE next == IF l[k + 1].type = t THEN Append(f[k], l[k + 1].step) ELSE f[k]
               g == [i \in 0..(k + 1) |-> IF i = k + 1 THEN next ELSE f[i]]
    <2>2. (\A i \in 0..k : g[i] = f[i]) /\ g[k + 1] = next
        OBVIOUS
    <2>3. g = [i \in 0..(k + 1) |-> g[i]]
        OBVIOUS
    <2> HIDE DEF g
    <2>4. ASSUME NEW i \in 0..(k + 1) PROVE g[i] = Counted(g, l, t, i)
        <3>1. CASE i = k + 1
            BY <2>2, <3>1 DEF Counted
        <3>2. CASE i # k + 1
            <4>1. i \in 0..k /\ (i # 0 => i - 1 \in 0..k)
                BY <3>2
            <4>2. f[i] = Counted(f, l, t, i)
                BY <2>1, <4>1, CountsAt
            <4> QED
                BY <2>2, <4>1, <4>2 DEF Counted
        <3> QED
            BY <3>1, <3>2
    <2>5. Counts(g, l, t, k + 1)
        BY <2>3, <2>4 DEF Counts
    <2> QED
        BY <2>5
<1> HIDE DEF S
<1>3. S \in SUBSET Nat
    BY DEF S
<1>4. S = Nat
    BY <1>1, <1>2, <1>3, SetInduction
<1> QED
    BY <1>4 DEF S

\* StepsOf is the value of such a function.
LEMMA StepsCounted ==
    ASSUME NEW l \in Seq(Events), NEW t
    PROVE  \E f : Counts(f, l, t, Len(l)) /\ StepsOf(l, t) = f[Len(l)]
<1> DEFINE f == CHOOSE f : f = [i \in 0..Len(l) |->
                    IF i = 0 THEN <<>>
                    ELSE IF l[i].type = t THEN Append(f[i - 1], l[i].step)
                    ELSE f[i - 1]]
<1>1. Len(l) \in Nat
    OBVIOUS
<1>2. PICK g : Counts(g, l, t, Len(l))
    BY <1>1, CountsExist
<1>3. g = [i \in 0..Len(l) |->
              IF i = 0 THEN <<>>
              ELSE IF l[i].type = t THEN Append(g[i - 1], l[i].step) ELSE g[i - 1]]
    BY <1>2 DEF Counts, Counted
<1>4. f = [i \in 0..Len(l) |->
              IF i = 0 THEN <<>>
              ELSE IF l[i].type = t THEN Append(f[i - 1], l[i].step) ELSE f[i - 1]]
    BY <1>3
<1>5. StepsOf(l, t) = f[Len(l)]
    BY DEF StepsOf
<1> HIDE DEF f
<1>6. Counts(f, l, t, Len(l))
    BY <1>4 DEF Counts, Counted
<1> QED
    BY <1>5, <1>6

\* Two logs that agree on their first n events have the same steps in them.
LEMMA CountsAgree ==
    ASSUME NEW l, NEW m, NEW t, NEW j \in Nat, NEW k \in Nat, NEW n \in Nat,
           n <= j, n <= k, \A i \in 1..n : l[i] = m[i],
           NEW f, Counts(f, l, t, j), NEW g, Counts(g, m, t, k)
    PROVE  f[n] = g[n]
<1> DEFINE S == {i \in Nat : i <= n => f[i] = g[i]}
<1>1. f[0] = Counted(f, l, t, 0) /\ g[0] = Counted(g, m, t, 0)
    BY CountsAt
<1>2. 0 \in S
    BY <1>1 DEF Counted
<1>3. ASSUME NEW i \in S PROVE i + 1 \in S
    <2> SUFFICES ASSUME i + 1 <= n PROVE f[i + 1] = g[i + 1]
        OBVIOUS
    <2>1. i \in Nat /\ i + 1 \in 0..n /\ i + 1 \in 1..n /\ (i + 1) - 1 = i /\ i + 1 # 0
        OBVIOUS
    <2>2. f[i] = g[i] /\ l[i + 1] = m[i + 1]
        BY <2>1
    <2>3. f[i + 1] = Counted(f, l, t, i + 1) /\ g[i + 1] = Counted(g, m, t, i + 1)
        <3>1. i + 1 \in 0..j /\ i + 1 \in 0..k
            BY <2>1
        <3> QED
            BY <3>1, CountsAt
    <2> QED
        BY <2>1, <2>2, <2>3 DEF Counted
<1> HIDE DEF S
<1>4. S \in SUBSET Nat
    BY DEF S
<1>5. S = Nat
    BY <1>2, <1>3, <1>4, SetInduction
<1> QED
    BY <1>5 DEF S

\* The steps of a log with one more event.
LEMMA StepsAppend ==
    ASSUME NEW l \in Seq(Events), NEW e \in Events, NEW t
    PROVE  StepsOf(Append(l, e), t) =
               IF e.type = t THEN Append(StepsOf(l, t), e.step) ELSE StepsOf(l, t)
<1> DEFINE m == Append(l, e)
           n == Len(l)
<1>1. /\ m \in Seq(Events) /\ n \in Nat /\ Len(m) = n + 1 /\ m[n + 1] = e
      /\ \A i \in 1..n : l[i] = m[i]
    OBVIOUS
<1> HIDE DEF m
<1>2. PICK f : Counts(f, l, t, n) /\ StepsOf(l, t) = f[n]
    BY StepsCounted
<1>3. PICK g : Counts(g, m, t, n + 1) /\ StepsOf(m, t) = g[n + 1]
    BY <1>1, StepsCounted
<1> HIDE DEF n
<1>4. f[n] = g[n]
    BY <1>1, <1>2, <1>3, CountsAgree
<1>5. g[n + 1] = Counted(g, m, t, n + 1)
    <2>1. n + 1 \in 0..(n + 1) /\ n + 1 \in Nat
        BY <1>1
    <2> QED
        BY <1>1, <1>3, <2>1, CountsAt
<1>6. (n + 1) - 1 = n /\ n + 1 # 0
    BY <1>1
<1> QED
    BY <1>1, <1>2, <1>3, <1>4, <1>5, <1>6 DEF m, Counted

\* A log keeps its steps of type t as it grows by events of other types.
LEMMA StepsKept ==
    ASSUME NEW l \in Seq(Events), NEW m \in Seq(Events), NEW t, Grows(l, m),
           \A i \in 1..Len(m) : i > Len(l) => m[i].type # t
    PROVE  StepsOf(m, t) = StepsOf(l, t)
<1> DEFINE n == Len(l)
           k == Len(m)
<1>1. n \in Nat /\ k \in Nat /\ n <= k
    BY DEF Grows
<1>2. PICK f : Counts(f, l, t, n) /\ StepsOf(l, t) = f[n]
    BY StepsCounted
<1>3. PICK g : Counts(g, m, t, k) /\ StepsOf(m, t) = g[k]
    BY StepsCounted
<1>4. \A i \in 1..k : i > n => m[i].type # t
    OBVIOUS
<1>5. \A i \in 1..n : l[i] = m[i]
    BY DEF Grows
<1> HIDE DEF n, k
<1>6. f[n] = g[n]
    BY <1>1, <1>2, <1>3, <1>5, CountsAgree
<1> DEFINE S == {i \in Nat : n + i <= k => g[n + i] = g[n]}
<1>7. 0 \in S
    BY <1>1
<1>8. ASSUME NEW i \in S PROVE i + 1 \in S
    <2> SUFFICES ASSUME n + (i + 1) <= k PROVE g[n + (i + 1)] = g[n]
        OBVIOUS
    <2>1. /\ i \in Nat /\ n + i <= k /\ n + (i + 1) \in 0..k /\ n + (i + 1) # 0
          /\ n + (i + 1) \in 1..k /\ n + (i + 1) > n /\ (n + (i + 1)) - 1 = n + i
        BY <1>1
    <2> DEFINE h == n + (i + 1)
    <2>2. h \in 0..k /\ h # 0 /\ h \in 1..k /\ h > n /\ h - 1 = n + i
        BY <2>1
    <2> HIDE DEF h
    <2>3. g[h] = g[n + i]
        <3>1. g[h] = Counted(g, m, t, h)
            BY <1>1, <1>3, <2>2, CountsAt
        <3>2. m[h].type # t
            BY <1>4, <2>2
        <3> QED
            BY <2>2, <3>1, <3>2 DEF Counted
    <2> QED
        BY <2>1, <2>3 DEF h
<1> HIDE DEF S
<1>9. S \in SUBSET Nat
    BY DEF S
<1>10. S = Nat
    BY <1>7, <1>8, <1>9, SetInduction
<1>11. k - n \in Nat /\ n + (k - n) = k
    BY <1>1
<1>12. g[n + (k - n)] = g[n]
    <2>1. \A i \in Nat : n + i <= k => g[n + i] = g[n]
        BY <1>10 DEF S
    <2> QED
        BY <1>1, <1>11, <2>1
<1> QED
    BY <1>2, <1>3, <1>6, <1>11, <1>12

\* The steps of a log are steps.
LEMMA StepsTyped ==
    ASSUME NEW l \in Seq(Events), NEW t
    PROVE  StepsOf(l, t) \in Seq(Steps)
<1>1. PICK f : Counts(f, l, t, Len(l)) /\ StepsOf(l, t) = f[Len(l)]
    BY StepsCounted
<1> DEFINE n == Len(l)
<1>2. n \in Nat /\ \A i \in 1..n : l[i] \in Events
    OBVIOUS
<1>3. Counts(f, l, t, n) /\ StepsOf(l, t) = f[n]
    BY <1>1
<1> HIDE DEF n
<1> DEFINE S == {i \in Nat : i <= n => f[i] \in Seq(Steps)}
<1>4. 0 \in S
    <2>1. f[0] = Counted(f, l, t, 0)
        BY <1>2, <1>3, CountsAt
    <2>2. <<>> \in Seq(Steps)
        OBVIOUS
    <2> QED
        BY <2>1, <2>2 DEF Counted
<1>5. ASSUME NEW i \in S PROVE i + 1 \in S
    <2> SUFFICES ASSUME i + 1 <= n PROVE f[i + 1] \in Seq(Steps)
        OBVIOUS
    <2> DEFINE h == i + 1
    <2>1. /\ i \in Nat /\ h \in 0..n /\ h \in 1..n /\ h - 1 = i /\ h # 0
          /\ f[i] \in Seq(Steps)
        BY <1>2
    <2> HIDE DEF h
    <2>2. l[h].step \in Steps
        BY <1>2, <2>1 DEF Events
    <2>3. f[h] = Counted(f, l, t, h)
        BY <1>2, <1>3, <2>1, CountsAt
    <2>4. f[h] \in Seq(Steps)
        BY <2>1, <2>2, <2>3 DEF Counted
    <2> QED
        BY <2>4 DEF h
<1> HIDE DEF S
<1>6. S \in SUBSET Nat
    BY DEF S
<1>7. S = Nat
    BY <1>4, <1>5, <1>6, SetInduction
<1> QED
    BY <1>2, <1>3, <1>7 DEF S

\* A log without events of type t has no steps of it.
LEMMA StepsNone ==
    ASSUME NEW l \in Seq(Events), NEW t, \A i \in 1..Len(l) : l[i].type # t
    PROVE  StepsOf(l, t) = <<>>
<1> DEFINE none == <<>>
<1>1. none \in Seq(Events) /\ Len(none) = 0 /\ Len(l) \in Nat
    OBVIOUS
<1> HIDE DEF none
<1>2. Grows(none, l)
    BY <1>1 DEF Grows
<1>3. \A i \in 1..Len(l) : i > Len(none) => l[i].type # t
    OBVIOUS
<1>4. StepsOf(l, t) = StepsOf(none, t)
    BY <1>1, <1>2, <1>3, StepsKept
<1>5. PICK f : Counts(f, none, t, 0) /\ StepsOf(none, t) = f[0]
    BY <1>1, StepsCounted
<1>6. f[0] = Counted(f, none, t, 0)
    BY <1>5, CountsAt
<1> QED
    BY <1>4, <1>5, <1>6 DEF Counted

-----------------------------------------------------------------------------
(***************************************************************************)
(* The checkpoints and the approvals of a task, in turn.                   *)
(***************************************************************************)
InTurn(task, l) ==
    LET r == Received(l)
        a == Approved(l)
    IN  /\ r = FirstSteps(Len(r)) /\ a = FirstSteps(Len(a))
        /\ Stepwise(task) /\ task.checkpoints > 0 => Len(r) - Len(a) \in {0, 1}

\* Event e is the next of the two, if it is one of them.
Turn(task, l, e) ==
    /\ e.type = "checkpoint.received" =>
          /\ e.step = Len(Received(l)) + 1
          /\ Stepwise(task) => Len(Received(l)) = Len(Approved(l))
    /\ e.type = "codex.approved" =>
          /\ e.step = Len(Approved(l)) + 1
          /\ task.checkpoints > 0 => Len(Received(l)) > Len(Approved(l))

LEMMA FirstStepsNext ==
    ASSUME NEW n \in Nat
    PROVE  Len(FirstSteps(n)) = n /\ Append(FirstSteps(n), n + 1) = FirstSteps(n + 1)
BY DEF FirstSteps

\* One more event in turn keeps them in turn.
LEMMA TurnTaken ==
    ASSUME NEW task, NEW l \in Seq(Events), NEW e \in Events,
           InTurn(task, l), Turn(task, l, e)
    PROVE  InTurn(task, Append(l, e))
<1> DEFINE m == Append(l, e)
           r == Len(Received(l))
           a == Len(Approved(l))
<1>1. /\ Received(m) = IF e.type = "checkpoint.received"
                       THEN Append(Received(l), e.step) ELSE Received(l)
      /\ Approved(m) = IF e.type = "codex.approved"
                       THEN Append(Approved(l), e.step) ELSE Approved(l)
    BY StepsAppend DEF Received, Approved
<1>2. r \in Nat /\ a \in Nat
    BY StepsTyped DEF Received, Approved
<1>3. Received(l) = FirstSteps(r) /\ Approved(l) = FirstSteps(a)
    BY DEF InTurn
<1>4. Stepwise(task) /\ task.checkpoints > 0 => r - a \in {0, 1}
    BY DEF InTurn
<1> HIDE DEF m
<1>5. CASE e.type = "checkpoint.received"
    <2>1. e.step = r + 1 /\ (Stepwise(task) => r = a)
        BY <1>5 DEF Turn
    <2> HIDE DEF r, a
    <2>2. Received(m) = FirstSteps(r + 1) /\ Approved(m) = FirstSteps(a)
        BY <1>1, <1>2, <1>3, <1>5, <2>1, FirstStepsNext
    <2>3. Len(Received(m)) = r + 1 /\ Len(Approved(m)) = a
        BY <1>2, <2>2, FirstStepsNext
    <2> QED
        BY <1>2, <2>1, <2>2, <2>3 DEF InTurn, m
<1>6. CASE e.type = "codex.approved"
    <2>1. e.step = a + 1 /\ (task.checkpoints > 0 => r > a)
        BY <1>6 DEF Turn
    <2> HIDE DEF r, a
    <2>2. Received(m) = FirstSteps(r) /\ Approved(m) = FirstSteps(a + 1)
        BY <1>1, <1>2, <1>3, <1>6, <2>1, FirstStepsNext
    <2>3. Len(Received(m)) = r /\ Len(Approved(m)) = a + 1
        BY <1>2, <2>2, FirstStepsNext
    <2>4. Stepwise(task) /\ task.checkpoints > 0 => r - (a + 1) \in {0, 1}
        BY <1>2, <1>4, <2>1
    <2> QED
        BY <2>2, <2>3, <2>4 DEF InTurn, m
<1>7. CASE e.type \notin {"checkpoint.received", "codex.approved"}
    BY <1>1, <1>7 DEF InTurn, m
<1> QED
    BY <1>5, <1>6, <1>7

\* A log that grows by other events leaves them as they are.
LEMMA TurnKept ==
    ASSUME NEW l \in Seq(Events), NEW m \in Seq(Events), Grows(l, m),
           \A i \in 1..Len(m) :
               i > Len(l) => m[i].type \notin {"checkpoint.received", "codex.approved"}
    PROVE  Received(m) = Received(l) /\ Approved(m) = Approved(l)
BY StepsKept DEF Received, Approved

\* A log without either has none out of turn.
LEMMA TurnNone ==
    ASSUME NEW task, NEW l \in Seq(Events),
           \A i \in 1..Len(l) :
               l[i].type \notin {"checkpoint.received", "codex.approved"}
    PROVE  InTurn(task, l)
<1>1. Received(l) = <<>> /\ Approved(l) = <<>>
    BY StepsNone DEF Received, Approved
<1> QED
    BY <1>1 DEF InTurn, FirstSteps
=============================================================================
