------------------------- MODULE ContextRequest_proofs -------------------------
(***************************************************************************)
(* Proofs about ContextRequest, for any number of requests, providers and  *)
(* worktrees, any route and any thresholds.                                *)
(***************************************************************************)
EXTENDS ContextRequest, TLAPS

\* A request r is sound for a worktree t and a health table h: it is between two
\* providers or at one of its route, it asks for the status under a commit, what
\* it has in hand is of a worktree of its key's fingerprint unless it is astray,
\* and a call that an open circuit finds under way had begun before.
Sound(r, t, h) ==
    /\ r \in Requests
    /\ IF r.at = "next" THEN r.turn < Len(Route) ELSE r.turn > 0
    /\ r.at = "status" => r.key \in GitPrints
    /\ ~r.astray => /\ r.at \in Unanswered => r.key = Fingerprint(t)
                    /\ r.at \in {"answered", "put"} => Fingerprint(r.of) = r.key
    /\ InCall(r) /\ h[Route[r.turn]].circuit = "open" => r.early

Stores ==
    /\ tree \in Trees
    /\ cache \in [Providers \X Fingerprints -> Entries \union {Absent}]
    /\ DOMAIN health = Providers /\ \A p \in Providers : health[p] \in Rows(p)
    /\ KeptUnderItsFingerprint /\ CircuitFollowsFailures

ContextInv ==
    /\ Stores
    /\ client \in [Clients -> Requests]
    /\ \A c \in Clients : Sound(client[c], tree, health)

-----------------------------------------------------------------------------
\* A request that has ended is sound, whatever the stores hold.
LEMMA IdleSound == \A t, h : Sound(Idle, t, h)
<1>1. Len(Route) \in Nat /\ Len(Route) > 0 /\ NoRepository \in Fingerprints
    BY RouteAssumption DEF Fingerprints
<1> QED
    BY <1>1 DEF Sound, Idle, Requests, Points, Unanswered, InCall

\* So is one that turns to its next provider.
LEMMA AfterSound ==
    ASSUME NEW r \in Requests
    PROVE  \A t, h : Sound(After(r), t, h)
<1>1. Len(Route) \in Nat /\ Len(Route) > 0 /\ NoRepository \in Fingerprints
    BY RouteAssumption DEF Fingerprints
<1>2. CASE r.turn = Len(Route)
    BY <1>2, IdleSound DEF After
<1>3. CASE r.turn # Len(Route)
    <2>1. r.turn \in 0..Len(Route) /\ r.turn < Len(Route)
        BY <1>1, <1>3 DEF Requests
    <2>2. After(r) = [at |-> "next", turn |-> r.turn, key |-> NoRepository,
                      of |-> NoTree, astray |-> FALSE, early |-> FALSE]
        BY <1>3 DEF After, Idle
    <2> QED
        BY <1>1, <2>1, <2>2 DEF Sound, Requests, Points, Unanswered, InCall
<1> QED
    BY <1>2, <1>3

\* The provider of a request is one of the providers.
LEMMA ProviderTyped ==
    ASSUME NEW r \in Requests, r.turn > 0
    PROVE  Route[r.turn] \in Providers
<1>1. r.turn \in 1..Len(Route)
    BY RouteAssumption DEF Requests
<1> QED
    BY <1>1, RouteAssumption

\* A failure leaves a row of the health table, and opens at the threshold.
LEMMA AfterFailureRow ==
    ASSUME Stores, NEW p \in Providers
    PROVE  /\ AfterFailure(p) \in Rows(p)
           /\ AfterFailure(p).failures >= Threshold[p] <=> AfterFailure(p).circuit # "closed"
<1>1. Threshold[p] \in Nat \ {0} /\ health[p] \in Rows(p)
    BY ThresholdAssumption DEF Stores
<1> QED
    BY <1>1 DEF AfterFailure, Rows

\* A request stays sound when circuits are closed or elapse.
LEMMA StaysSound ==
    ASSUME NEW r, NEW t, NEW g, NEW h, Sound(r, t, g),
           \A q \in Providers : h[q].circuit = "open" => g[q].circuit = "open"
    PROVE  Sound(r, t, h)
<1>1. r \in Requests
    BY DEF Sound
<1>2. InCall(r) => Route[r.turn] \in Providers
    BY <1>1, ProviderTyped DEF Sound, InCall
<1> QED
    BY <1>2 DEF Sound

\* A request that moves on alone, while the worktree and the health table stay,
\* leaves the requests sound if it is sound itself.
LEMMA OneMoves ==
    ASSUME ContextInv, NEW c \in Clients, tree' = tree, health' = health,
           \E r : Sound(r, tree, health) /\ client' = [client EXCEPT ![c] = r]
    PROVE  /\ client' \in [Clients -> Requests]
           /\ \A d \in Clients : Sound(client'[d], tree', health')
<1>1. PICK r : Sound(r, tree, health) /\ client' = [client EXCEPT ![c] = r]
    OBVIOUS
<1>2. r \in Requests
    BY <1>1 DEF Sound
<1>3. \A d \in Clients : client'[d] = IF d = c THEN r ELSE client[d]
    BY <1>1 DEF ContextInv
<1> QED
    BY <1>1, <1>2, <1>3 DEF ContextInv

\* What the stores hold stays as it was.
LEMMA StoresStay ==
    ASSUME ContextInv, tree' = tree, cache' = cache, health' = health
    PROVE  Stores'
BY DEF ContextInv, Stores, KeptUnderItsFingerprint, CircuitFollowsFailures

\* No request has been made.
LEMMA ContextInvInit == Init => ContextInv
<1> SUFFICES ASSUME Init PROVE ContextInv
    OBVIOUS
<1>1. \A p \in Providers : Threshold[p] \in Nat \ {0}
    BY ThresholdAssumption
<1>2. Stores
    BY <1>1 DEF Init, Stores, Rows, KeptUnderItsFingerprint, CircuitFollowsFailures
<1>3. Sound(Idle, tree, health) /\ Idle \in Requests
    BY IdleSound DEF Sound
<1> QED
    BY <1>2, <1>3 DEF Init, ContextInv

-----------------------------------------------------------------------------
\* The request of c before it moves.
LEMMA ClientSound ==
    ASSUME ContextInv, NEW c \in Clients
    PROVE  Sound(client[c], tree, health) /\ client[c] \in Requests
BY DEF ContextInv

\* What repository_fingerprint may return is a fingerprint.
LEMMA PrintTyped ==
    ASSUME NEW t \in Trees
    PROVE  /\ Fingerprint(t) \in GitPrints /\ Fingerprint(t) \in Fingerprints
           /\ [head |-> Commit[t], status |-> Clean] \in GitPrints
BY DEF Fingerprint, GitPrints, Fingerprints

\* A request turns to a provider, and asks for the commit.
LEMMA TurnStep ==
    ASSUME ContextInv, NEW c \in Clients, Turn(c)
    PROVE  ContextInv'
<1> DEFINE q == [Idle EXCEPT !.turn = client[c].turn + 1]
           r == [q EXCEPT !.at = "status",
                          !.key = [head |-> Commit[tree], status |-> Clean]]
           s == [q EXCEPT !.at = "lookup", !.astray = TRUE]
<1>1. client[c].turn + 1 \in 0..Len(Route) /\ client[c].turn + 1 > 0
    BY ClientSound, RouteAssumption DEF Turn, At, Sound, Requests
<1>2. /\ [head |-> Commit[tree], status |-> Clean] \in GitPrints
      /\ NoRepository \in Fingerprints /\ GitPrints \subseteq Fingerprints
    BY PrintTyped DEF ContextInv, Stores, Fingerprints
<1>3. Sound(r, tree, health)
    BY <1>1, <1>2 DEF Idle, Sound, Requests, Points, Unanswered, InCall
<1>4. Sound(s, tree, health)
    BY <1>1, <1>2 DEF Idle, Sound, Requests, Points, Unanswered, InCall
<1>5. \/ client' = [client EXCEPT ![c] = r]
      \/ client' = [client EXCEPT ![c] = s]
    BY DEF Turn
<1> HIDE DEF r, s
<1> QED
    BY <1>3, <1>4, <1>5, OneMoves, StoresStay DEF Turn, ContextInv

\* It asks for the status, and has its key.
LEMMA ReadStatusStep ==
    ASSUME ContextInv, NEW c \in Clients, ReadStatus(c)
    PROVE  ContextInv'
<1>1. PICK k \in {NoRepository} \union
                [head : {client[c].key.head}, status : {Status[tree], Clean}] :
         client' = [client EXCEPT ![c].at = "lookup", ![c].key = k,
                                  ![c].astray = k # Fingerprint(tree)]
    BY DEF ReadStatus
<1>2. client[c] \in Requests /\ client[c].at = "status" /\ client[c].turn > 0
      /\ client[c].key \in GitPrints
    BY ClientSound DEF ReadStatus, At, Sound
<1>3. k \in Fingerprints
    <2>1. CASE k = NoRepository
        BY <2>1 DEF Fingerprints
    <2>2. CASE k \in [head : {client[c].key.head}, status : {Status[tree], Clean}]
        <3>1. client[c].key.head \in {Commit[t] : t \in Trees}
            BY <1>2 DEF GitPrints
        <3>2. {Status[tree], Clean} \subseteq {Status[t] : t \in Trees} \union {Clean}
            BY DEF ContextInv, Stores
        <3> QED
            BY <2>2, <3>1, <3>2 DEF Fingerprints, GitPrints
    <2> QED
        BY <2>1, <2>2
<1> DEFINE r == [client[c] EXCEPT !.at = "lookup", !.key = k,
                                  !.astray = k # Fingerprint(tree)]
<1>4. /\ r \in Requests
      /\ r.at = "lookup" /\ r.turn = client[c].turn /\ r.key = k
      /\ r.astray = (k # Fingerprint(tree))
    BY <1>2, <1>3 DEF Requests, Points
<1>5. client' = [client EXCEPT ![c] = r]
    BY <1>1 DEF ContextInv
<1> HIDE DEF r
<1>6. Sound(r, tree, health)
    BY <1>2, <1>4 DEF Sound, Unanswered, InCall
<1> QED
    BY <1>5, <1>6, OneMoves, StoresStay DEF ReadStatus, ContextInv

\* A request that goes on to here, not in a call of an open circuit.
LEMMA GoesSound ==
    ASSUME ContextInv, NEW c \in Clients, client[c].at \in Unanswered,
           NEW there \in {"check", "expired", "running"},
           there = "running" => health[Provider(c)].circuit # "open"
    PROVE  Sound([client[c] EXCEPT !.at = there], tree, health)
<1> DEFINE r == [client[c] EXCEPT !.at = there]
<1>1. /\ r \in Requests
      /\ r.at = there /\ r.turn = client[c].turn /\ r.key = client[c].key
      /\ r.astray = client[c].astray /\ r.early = client[c].early
    BY ClientSound DEF Requests, Points
<1>2. client[c].turn > 0
    BY ClientSound DEF Sound, Unanswered
<1> HIDE DEF r
<1>3. Sound(r, tree, health)
    BY <1>1, <1>2, ClientSound DEF Sound, Unanswered, InCall, Provider
<1> QED
    BY <1>3 DEF r

\* A failed call is sound where a running one is, or none under an open circuit.
LEMMA FailsSound ==
    ASSUME ContextInv, NEW c \in Clients, client[c].turn > 0,
           InCall(client[c]) \/ health[Provider(c)].circuit # "open"
    PROVE  Sound([Idle EXCEPT !.at = "failed", !.turn = client[c].turn,
                              !.early = client[c].early], tree, health)
<1>1. NoRepository \in Fingerprints
    BY DEF Fingerprints
<1>2. client[c].turn \in 0..Len(Route) /\ client[c].early \in BOOLEAN
    BY ClientSound DEF Requests
<1>3. health[Provider(c)].circuit = "open" => client[c].early
    BY ClientSound DEF Sound, Provider
<1> QED
    BY <1>1, <1>2, <1>3
    DEF Idle, Sound, Requests, Points, Unanswered, InCall, Provider

\* The cache is asked.
LEMMA LookupStep ==
    ASSUME ContextInv, NEW c \in Clients, Lookup(c)
    PROVE  ContextInv'
<1>1. Sound(After(client[c]), tree, health) /\ Sound(Idle, tree, health)
    BY ClientSound, AfterSound, IdleSound
<1>2. client[c].at \in Unanswered
    BY DEF Lookup, At, Unanswered
<1>3. /\ Sound([client[c] EXCEPT !.at = "check"], tree, health)
      /\ Sound([client[c] EXCEPT !.at = "expired"], tree, health)
    BY <1>2, GoesSound
<1>4. \E r : Sound(r, tree, health) /\ client' = [client EXCEPT ![c] = r]
    BY <1>1, <1>3 DEF Lookup, Goes, Onward, Done
<1> QED
    BY <1>4, OneMoves, StoresStay DEF Lookup, ContextInv

\* An entry that has expired is deleted.
LEMMA DropStep ==
    ASSUME ContextInv, NEW c \in Clients, Drop(c)
    PROVE  ContextInv'
<1>1. Sound([client[c] EXCEPT !.at = "check"], tree, health)
    BY GoesSound DEF Drop, At, Unanswered
<1>2. \E r : Sound(r, tree, health) /\ client' = [client EXCEPT ![c] = r]
    BY <1>1 DEF Drop, Goes
<1>3. Stores'
    BY DEF Drop, ContextInv, Stores, KeptUnderItsFingerprint, CircuitFollowsFailures
<1> QED
    BY <1>2, <1>3, OneMoves DEF Drop, ContextInv

\* The circuit is looked at.
LEMMA CheckStep ==
    ASSUME ContextInv, NEW c \in Clients, Check(c)
    PROVE  ContextInv'
<1>1. Sound(After(client[c]), tree, health)
    BY ClientSound, AfterSound
<1>2. client[c].at \in Unanswered /\ client[c].turn > 0
    BY ClientSound DEF Check, At, Unanswered, Sound
<1>3. health[Provider(c)].circuit # "open" =>
          /\ Sound([client[c] EXCEPT !.at = "running"], tree, health)
          /\ Sound([Idle EXCEPT !.at = "failed", !.turn = client[c].turn,
                                !.early = client[c].early], tree, health)
    BY <1>2, GoesSound, FailsSound
<1>4. \E r : Sound(r, tree, health) /\ client' = [client EXCEPT ![c] = r]
    BY <1>1, <1>3 DEF Check, Goes, Onward, Fails
<1> QED
    BY <1>4, OneMoves, StoresStay DEF Check, ContextInv

\* The provider fails.
LEMMA FailStep ==
    ASSUME ContextInv, NEW c \in Clients, Fail(c)
    PROVE  ContextInv'
<1>1. InCall(client[c]) /\ client[c].turn > 0
    BY ClientSound DEF Fail, At, InCall, Sound
<1>2. \E r : Sound(r, tree, health) /\ client' = [client EXCEPT ![c] = r]
    BY <1>1, FailsSound DEF Fail, Fails
<1> QED
    BY <1>2, OneMoves, StoresStay DEF Fail, ContextInv

\* The provider answers, about the worktree of now.
LEMMA AnswerStep ==
    ASSUME ContextInv, NEW c \in Clients, Answer(c)
    PROVE  ContextInv'
<1> DEFINE r == [client[c] EXCEPT !.at = "answered",
                                  !.of = IF client[c].astray THEN @ ELSE tree]
<1>1. client' = [client EXCEPT ![c].at = "answered",
                               ![c].of = IF client[c].astray THEN @ ELSE tree]
    BY DEF Answer
<1>2. /\ r \in Requests
      /\ r.at = "answered" /\ (~client[c].astray => r.of = tree)
      /\ r.turn = client[c].turn /\ r.key = client[c].key
      /\ r.astray = client[c].astray /\ r.early = client[c].early
    BY ClientSound DEF ContextInv, Stores, Requests, Points
<1>3. client' = [client EXCEPT ![c] = r]
    BY <1>1 DEF ContextInv
<1> HIDE DEF r
<1>4. Sound(r, tree, health)
    BY <1>2, ClientSound DEF Answer, At, Sound, Unanswered, InCall
<1> QED
    BY <1>3, <1>4, OneMoves, StoresStay DEF Answer, ContextInv

\* The answer is kept under the key of the request.
LEMMA PutStep ==
    ASSUME ContextInv, NEW c \in Clients, Put(c)
    PROVE  ContextInv'
<1>1. PICK negative \in BOOLEAN :
         /\ cache' = [cache EXCEPT ![Key(c)] =
               [negative |-> negative, expired |-> FALSE,
                fits |-> \/ client[c].astray
                         \/ Fingerprint(client[c].of) = client[c].key]]
         /\ IF negative THEN Onward(c) ELSE Done(c)
    BY DEF Put
<1> DEFINE e == [negative |-> negative, expired |-> FALSE,
                 fits |-> \/ client[c].astray
                          \/ Fingerprint(client[c].of) = client[c].key]
<1>2. e \in Entries /\ e.fits
    <2>1. client[c].astray \/ Fingerprint(client[c].of) = client[c].key
        BY ClientSound DEF Put, At, Sound
    <2> QED
        BY <2>1 DEF Entries
<1>3. cache' = [cache EXCEPT ![Key(c)] = e]
    BY <1>1
<1> HIDE DEF e
<1>4. Stores'
    <2>1. cache' \in [Providers \X Fingerprints -> Entries \union {Absent}]
        BY <1>2, <1>3 DEF ContextInv, Stores
    <2>2. KeptUnderItsFingerprint'
        BY <1>2, <1>3 DEF ContextInv, Stores, KeptUnderItsFingerprint
    <2> QED
        BY <2>1, <2>2 DEF Put, ContextInv, Stores, CircuitFollowsFailures
<1>5. Sound(After(client[c]), tree, health) /\ Sound(Idle, tree, health)
    BY ClientSound, AfterSound, IdleSound
<1>6. \E r : Sound(r, tree, health) /\ client' = [client EXCEPT ![c] = r]
    BY <1>1, <1>5 DEF Onward, Done
<1> QED
    BY <1>4, <1>6, OneMoves DEF Put, ContextInv

\* The request is killed.
LEMMA KillStep ==
    ASSUME ContextInv, NEW c \in Clients, Kill(c)
    PROVE  ContextInv'
<1>1. \E r : Sound(r, tree, health) /\ client' = [client EXCEPT ![c] = r]
    BY IdleSound DEF Kill, Done
<1> QED
    BY <1>1, OneMoves, StoresStay DEF Kill, ContextInv

\* A success closes the circuit of its provider.
LEMMA RecordSuccessStep ==
    ASSUME ContextInv, NEW c \in Clients, RecordSuccess(c)
    PROVE  ContextInv'
<1> DEFINE p == Provider(c)
<1>1. p \in Providers
    BY ClientSound, ProviderTyped DEF RecordSuccess, At, Sound, Provider
<1>2. health' = [health EXCEPT ![p] = [failures |-> 0, circuit |-> "closed"]]
    BY DEF RecordSuccess
<1>3. Threshold[p] \in Nat \ {0}
    BY <1>1, ThresholdAssumption
<1>4. health'[p] = [failures |-> 0, circuit |-> "closed"]
      /\ \A q \in Providers : q # p => health'[q] = health[q]
    BY <1>1, <1>2 DEF ContextInv, Stores
<1>5. Stores'
    <2>1. DOMAIN health' = Providers
        BY <1>2 DEF ContextInv, Stores
    <2>2. \A q \in Providers : health'[q] \in Rows(q)
        BY <1>3, <1>4 DEF ContextInv, Stores, Rows
    <2>3. CircuitFollowsFailures'
        BY <1>3, <1>4 DEF ContextInv, Stores, CircuitFollowsFailures
    <2> QED
        BY <2>1, <2>2, <2>3 DEF RecordSuccess, ContextInv, Stores, KeptUnderItsFingerprint
<1>6. \A q \in Providers : health'[q].circuit = "open" => health[q].circuit = "open"
    BY <1>4
<1>7. Sound(After(client[c]), tree, health')
    BY ClientSound, AfterSound
<1>8. Sound([client[c] EXCEPT !.at = "put", !.early = FALSE], tree, health')
    BY ClientSound DEF RecordSuccess, At, Sound, Requests, Points, Unanswered, InCall
<1>9. PICK r : Sound(r, tree, health') /\ client' = [client EXCEPT ![c] = r]
    BY <1>7, <1>8 DEF RecordSuccess, Onward, ContextInv
<1>10. \A d \in Clients : client'[d] = IF d = c THEN r ELSE client[d]
    BY <1>9 DEF ContextInv
<1>11. \A d \in Clients : Sound(client'[d], tree, health')
    BY <1>6, <1>9, <1>10, ClientSound, StaysSound
<1>12. r \in Requests
    BY <1>9 DEF Sound
<1>13. client' \in [Clients -> Requests]
    BY <1>9, <1>12 DEF ContextInv
<1> QED
    BY <1>5, <1>11, <1>13 DEF RecordSuccess, ContextInv

\* A failure may open the circuit under the calls that are under way.
LEMMA RecordFailureStep ==
    ASSUME ContextInv, NEW c \in Clients, RecordFailure(c)
    PROVE  ContextInv'
<1> DEFINE p == Provider(c)
           opens == AfterFailure(p).circuit = "open"
           later(d) == [client[d] EXCEPT !.early =
                           @ \/ (opens /\ InCall(client[d]) /\ Provider(d) = p)]
<1>1. p \in Providers
    BY ClientSound, ProviderTyped DEF RecordFailure, At, Sound, Provider
<1>2. health' = [health EXCEPT ![p] = AfterFailure(p)]
    BY DEF RecordFailure
<1>3. health'[p] = AfterFailure(p) /\ \A q \in Providers : q # p => health'[q] = health[q]
    BY <1>1, <1>2 DEF ContextInv, Stores
<1>4. Stores'
    <2>1. DOMAIN health' = Providers
        BY <1>2 DEF ContextInv, Stores
    <2>2. AfterFailure(p) \in Rows(p)
          /\ (AfterFailure(p).failures >= Threshold[p] <=> AfterFailure(p).circuit # "closed")
        BY <1>1, AfterFailureRow DEF ContextInv
    <2>3. \A q \in Providers : health'[q] \in Rows(q)
        BY <1>3, <2>2 DEF ContextInv, Stores
    <2>4. CircuitFollowsFailures'
        BY <1>3, <2>2 DEF ContextInv, Stores, CircuitFollowsFailures
    <2> QED
        BY <2>1, <2>3, <2>4 DEF RecordFailure, ContextInv, Stores, KeptUnderItsFingerprint
<1>5. \A d \in Clients : client'[d] = IF d = c THEN After(client[c]) ELSE later(d)
    BY DEF RecordFailure
<1>6. Sound(After(client[c]), tree, health')
    BY ClientSound, AfterSound
<1>7. ASSUME NEW d \in Clients PROVE Sound(later(d), tree, health')
    <2>1. Sound(client[d], tree, health) /\ client[d] \in Requests
        BY ClientSound
    <2>2. InCall(client[d]) => Provider(d) \in Providers
        BY <2>1, ProviderTyped DEF Sound, InCall, Provider
    <2>3. /\ later(d) \in Requests
          /\ later(d).at = client[d].at /\ later(d).turn = client[d].turn
          /\ later(d).key = client[d].key /\ later(d).of = client[d].of
          /\ later(d).astray = client[d].astray
        BY <2>1 DEF Requests
    <2>4. /\ client[d].early => later(d).early
          /\ opens /\ InCall(client[d]) /\ Provider(d) = p => later(d).early
        BY <2>1 DEF Requests
    <2> HIDE DEF later
    <2>5. ASSUME InCall(later(d)), health'[Provider(d)].circuit = "open"
          PROVE  later(d).early
        <3>1. InCall(client[d])
            BY <2>3, <2>5 DEF InCall
        <3>2. CASE Provider(d) = p
            BY <1>3, <2>4, <2>5, <3>1, <3>2
        <3>3. CASE Provider(d) # p
            <4>1. health[Provider(d)].circuit = "open"
                BY <1>3, <2>2, <2>5, <3>1, <3>3
            <4>2. client[d].early
                BY <2>1, <3>1, <4>1 DEF Sound, Provider
            <4> QED
                BY <2>4, <4>2
        <3> QED
            BY <3>2, <3>3
    <2> QED
        BY <2>1, <2>3, <2>5 DEF Sound, Provider
<1>8. \A d \in Clients : Sound(client'[d], tree, health')
    BY <1>5, <1>6, <1>7
<1>9. client' \in [Clients -> Requests]
    <2>1. \A d \in Clients : client'[d] \in Requests
        BY <1>8 DEF Sound
    <2>2. client' = [d \in Clients |-> client'[d]]
        BY DEF RecordFailure
    <2> QED
        BY <2>1, <2>2
<1> QED
    BY <1>4, <1>8, <1>9 DEF RecordFailure, ContextInv

\* The worktree moves under the requests that have a key and no answer.
LEMMA EditStep ==
    ASSUME ContextInv, Edit
    PROVE  ContextInv'
<1> DEFINE seen(c) == [client[c] EXCEPT !.astray =
                          @ \/ (client[c].at \in Unanswered
                                /\ Fingerprint(tree') # Fingerprint(tree))]
<1>1. \A c \in Clients : client'[c] = seen(c)
    BY DEF Edit
<1>2. Stores'
    BY DEF Edit, ContextInv, Stores, KeptUnderItsFingerprint, CircuitFollowsFailures
<1>3. ASSUME NEW c \in Clients PROVE Sound(seen(c), tree', health)
    <2>1. /\ seen(c) \in Requests
          /\ seen(c).at = client[c].at /\ seen(c).turn = client[c].turn
          /\ seen(c).key = client[c].key /\ seen(c).of = client[c].of
          /\ seen(c).early = client[c].early
        BY ClientSound DEF Requests
    <2>2. ~seen(c).astray => /\ ~client[c].astray
                             /\ \/ client[c].at \notin Unanswered
                                \/ Fingerprint(tree') = Fingerprint(tree)
        BY ClientSound DEF Requests
    <2> HIDE DEF seen
    <2> QED
        BY <2>1, <2>2, ClientSound DEF Sound, InCall
<1>4. client' \in [Clients -> Requests]
    <2>1. \A c \in Clients : client'[c] \in Requests
        BY <1>1, <1>3 DEF Sound
    <2>2. client' = [c \in Clients |-> client'[c]]
        BY DEF Edit
    <2> QED
        BY <2>1, <2>2
<1>5. \A c \in Clients : Sound(client'[c], tree', health')
    BY <1>1, <1>3 DEF Edit
<1> QED
    BY <1>2, <1>4, <1>5 DEF ContextInv

\* An entry expires.
LEMMA ExpireStep ==
    ASSUME ContextInv, Expire
    PROVE  ContextInv'
<1>1. PICK k \in DOMAIN cache :
         /\ cache[k] # Absent
         /\ cache' = [cache EXCEPT ![k].expired = TRUE, ![k].negative = FALSE]
    BY DEF Expire
<1> DEFINE e == [cache[k] EXCEPT !.expired = TRUE, !.negative = FALSE]
<1>2. cache[k] \in Entries
    BY <1>1 DEF ContextInv, Stores
<1>3. e \in Entries /\ e.fits = cache[k].fits
    BY <1>2 DEF Entries
<1>4. cache' = [cache EXCEPT ![k] = e]
    BY <1>1 DEF ContextInv, Stores
<1> HIDE DEF e
<1>5. Stores'
    <2>1. cache' \in [Providers \X Fingerprints -> Entries \union {Absent}]
        BY <1>3, <1>4 DEF ContextInv, Stores
    <2>2. KeptUnderItsFingerprint'
        BY <1>1, <1>3, <1>4 DEF ContextInv, Stores, KeptUnderItsFingerprint
    <2> QED
        BY <2>1, <2>2 DEF Expire, ContextInv, Stores, CircuitFollowsFailures
<1> QED
    BY <1>5 DEF Expire, ContextInv

\* A cooldown elapses.
LEMMA ElapseStep ==
    ASSUME ContextInv, Elapse
    PROVE  ContextInv'
<1>1. PICK p \in Providers : /\ health[p].circuit = "open"
                             /\ health' = [health EXCEPT ![p].circuit = "elapsed"]
    BY DEF Elapse
<1>2. health[p] \in Rows(p) /\ Threshold[p] \in Nat \ {0}
    BY ThresholdAssumption DEF ContextInv, Stores
<1>3. /\ health'[p] = [health[p] EXCEPT !.circuit = "elapsed"]
      /\ \A q \in Providers : q # p => health'[q] = health[q]
    BY <1>1 DEF ContextInv, Stores
<1>4. /\ health'[p] \in Rows(p)
      /\ health'[p].failures = health[p].failures /\ health'[p].circuit = "elapsed"
    BY <1>2, <1>3 DEF Rows
<1>5. Stores'
    <2>1. DOMAIN health' = Providers
        BY <1>1 DEF ContextInv, Stores
    <2>2. \A q \in Providers : health'[q] \in Rows(q)
        BY <1>3, <1>4 DEF ContextInv, Stores
    <2>3. CircuitFollowsFailures'
        BY <1>1, <1>3, <1>4 DEF ContextInv, Stores, CircuitFollowsFailures
    <2> QED
        BY <2>1, <2>2, <2>3 DEF Elapse, ContextInv, Stores, KeptUnderItsFingerprint
<1>6. \A q \in Providers : health'[q].circuit = "open" => health[q].circuit = "open"
    BY <1>3, <1>4
<1>7. \A c \in Clients : Sound(client[c], tree, health')
    BY <1>6, ClientSound, StaysSound
<1> QED
    BY <1>5, <1>7 DEF Elapse, ContextInv

\* Every step of a request, and of the world around it, keeps the invariant.
LEMMA ContextInvStep == ContextInv /\ [Next]_vars => ContextInv'
<1> SUFFICES ASSUME ContextInv, [Next]_vars PROVE ContextInv'
    OBVIOUS
<1>1. CASE Edit \/ Expire \/ Elapse
    BY <1>1, EditStep, ExpireStep, ElapseStep
<1>2. ASSUME NEW c \in Clients,
             \/ Turn(c) \/ ReadStatus(c) \/ Lookup(c) \/ Drop(c) \/ Check(c)
             \/ Fail(c) \/ Answer(c) \/ RecordFailure(c) \/ RecordSuccess(c)
             \/ Put(c) \/ Kill(c)
      PROVE  ContextInv'
    BY <1>2, TurnStep, ReadStatusStep, LookupStep, DropStep, CheckStep, FailStep, AnswerStep,
       RecordFailureStep, RecordSuccessStep, PutStep, KillStep
<1>3. CASE UNCHANGED vars
    BY <1>3, StoresStay DEF vars, ContextInv
<1> QED
    BY <1>1, <1>2, <1>3 DEF Next

\* The inductive invariant holds of every behaviour of the requests.
THEOREM ContextInvariant == Spec => []ContextInv
<1> QED
    BY ContextInvInit, ContextInvStep, PTL DEF Spec

-----------------------------------------------------------------------------
\* ContextTypeOK, for any route, thresholds and number of requests.
THEOREM ContextTyped == Spec => []ContextTypeOK
<1>1. ContextInv => ContextTypeOK
    BY DEF ContextInv, Stores, ContextTypeOK
<1> QED
    BY <1>1, ContextInvariant, PTL

\* What bin/sin-context keeps under a key is an answer about a worktree of that
\* fingerprint, unless the request that kept it was astray: whatever commits and
\* statuses the worktrees have, and however many of them share a fingerprint.
THEOREM ContextKept == Spec => []KeptUnderItsFingerprint
<1>1. ContextInv => KeptUnderItsFingerprint
    BY DEF ContextInv, Stores
<1> QED
    BY <1>1, ContextInvariant, PTL

\* A provider has a circuit that is not closed if and only if its failures have
\* reached its threshold.
THEOREM ContextCircuit == Spec => []CircuitFollowsFailures
<1>1. ContextInv => CircuitFollowsFailures
    BY DEF ContextInv, Stores
<1> QED
    BY <1>1, ContextInvariant, PTL

\* The request that starts running is the one that steps.
LEMMA StartsUnderClosed ==
    ASSUME ContextInv, Next, NEW c \in Clients, At(c, "check"),
           client'[c].at = "running"
    PROVE  health[Provider(c)].circuit # "open"
<1>1. client[c] \in Requests /\ client[c].at = "check"
    BY ClientSound DEF At
<1>2. client \in [Clients -> Requests]
    BY DEF ContextInv
<1>3. ASSUME Edit \/ Expire \/ Elapse
      PROVE  FALSE
    <2>1. client'[c].at = client[c].at
        <3>1. CASE Edit
            BY <1>1, <3>1 DEF Edit, Requests
        <3>2. CASE Expire \/ Elapse
            BY <3>2 DEF Expire, Elapse
        <3> QED
            BY <1>3, <3>1, <3>2
    <2> QED
        BY <1>1, <2>1
<1>4. ASSUME NEW d \in Clients, d # c,
             \/ Turn(d) \/ ReadStatus(d) \/ Lookup(d) \/ Drop(d) \/ Check(d) \/ Fail(d)
             \/ Answer(d) \/ RecordSuccess(d) \/ Put(d) \/ Kill(d)
      PROVE  FALSE
    <2>1. client'[c] = client[c]
        BY <1>2, <1>4 DEF Turn, ReadStatus, Lookup, Drop, Check, Fail, Answer,
           RecordSuccess, Put, Kill, Goes, Onward, Done, Fails
    <2> QED
        BY <1>1, <2>1
<1>5. ASSUME NEW d \in Clients, d # c, RecordFailure(d)
      PROVE  FALSE
    BY <1>1, <1>2, <1>5 DEF RecordFailure, Requests
<1>6. ASSUME \/ Turn(c) \/ ReadStatus(c) \/ Lookup(c) \/ Drop(c) \/ Fail(c) \/ Answer(c)
             \/ RecordFailure(c) \/ RecordSuccess(c) \/ Put(c)
      PROVE  FALSE
    BY <1>1, <1>6 DEF Turn, ReadStatus, Lookup, Drop, Fail, Answer, RecordFailure,
       RecordSuccess, Put, At
<1>7. ASSUME Kill(c)
      PROVE  FALSE
    BY <1>2, <1>7 DEF Kill, Done, Idle
<1>8. ASSUME Check(c), health[Provider(c)].circuit = "open"
      PROVE  FALSE
    <2>1. client'[c] = After(client[c])
        BY <1>2, <1>8 DEF Check, Onward
    <2> QED
        BY <2>1 DEF After, Idle
<1> QED
    BY <1>3, <1>4, <1>5, <1>6, <1>7, <1>8 DEF Next

\* An open circuit starts no provider, and is closed by calls only that had
\* passed it before it opened.
THEOREM ContextHolds == Spec => OpenCircuitHolds
<1> DEFINE A == \A c \in Clients :
                  /\ client[c].turn > 0
                  /\ health[Provider(c)].circuit = "open"
                  /\ \/ At(c, "check") /\ client'[c].at = "running"
                     \/ At(c, "answered") /\ health'[Provider(c)].circuit = "closed"
                  => client[c].early
<1>1. ContextInv /\ [Next]_vars => [A]_vars
    <2> SUFFICES ASSUME ContextInv, Next, NEW c \in Clients,
                        health[Provider(c)].circuit = "open",
                        \/ At(c, "check") /\ client'[c].at = "running"
                        \/ At(c, "answered")
                 PROVE  client[c].early
        OBVIOUS
    <2>1. CASE At(c, "answered")
        BY <2>1, ClientSound DEF Sound, InCall, At, Provider
    <2>2. CASE At(c, "check") /\ client'[c].at = "running"
        BY <2>2, StartsUnderClosed
    <2> QED
        BY <2>1, <2>2
<1> QED
    BY <1>1, ContextInvariant, PTL DEF Spec, OpenCircuitHolds
=============================================================================
