---------------------------- MODULE ContextRequest ----------------------------
(***************************************************************************)
(* Requests for context (src/bin/sin-context) that race over two stores:   *)
(* the context cache and the health table of the provider runtime          *)
(* (src/lib/sin_context/provider_runtime.py).  A request tries the         *)
(* providers of its route in order: cache, circuit, provider, cache.       *)
(*                                                                         *)
(* Each statement on a store is one transaction; no lock or transaction    *)
(* spans two of them, and a provider runs for seconds in between.  The     *)
(* requests modelled ask the same query, so that they share their keys.    *)
(* Time is reduced to entries that expire and circuits whose cooldown      *)
(* elapses.  repository_fingerprint sees of a worktree its commit and its  *)
(* porcelain status, asked of git one after the other: several worktrees   *)
(* share a fingerprint, and a git that fails is not told from some.        *)
(***************************************************************************)
EXTENDS Naturals, Sequences, FiniteSets

CONSTANTS
    Clients,        \* the processes that ask
    Providers,
    Route,          \* the providers to try, in this order
    Trees,          \* the contents of the worktree
    Commit,         \* what git rev-parse HEAD says of each of them
    Status,         \* what git status --porcelain says of each of them
    Clean,          \* the empty status
    NoTree,         \* no worktree
    NoRepository,   \* the constant "not-a-git-repository"
    Threshold,      \* failure_threshold of each provider
    MaxEntries,     \* bound on the entries of the cache
    Absent          \* no cache entry

ASSUME RouteAssumption == Route \in Seq(Providers) /\ Route # <<>>
ASSUME ThresholdAssumption == Threshold \in [Providers -> Nat \ {0}]
ASSUME EntriesAssumption == MaxEntries \in Nat
ASSUME AbsentAssumption ==
    Absent \notin [negative : BOOLEAN, expired : BOOLEAN, fits : BOOLEAN]

\* repository_fingerprint of a worktree, where git answers.
Fingerprint(t) == [head |-> Commit[t], status |-> Status[t]]
GitPrints == [head : {Commit[t] : t \in Trees},
              status : {Status[t] : t \in Trees} \union {Clean}]
Fingerprints == GitPrints \union {NoRepository}

ASSUME NoRepositoryAssumption == NoRepository \notin GitPrints

VARIABLES
    tree,       \* the worktree
    cache,      \* context_cache, by provider and fingerprint
    health,     \* provider_health
    client      \* where each request is

vars == <<tree, cache, health, client>>

\* A value or a negative result; one that has expired is neither.  fits is a
\* ghost: the answer is about a worktree of its key's fingerprint, or the request
\* that kept it was astray.
Entries == [negative : BOOLEAN, expired : BOOLEAN, fits : BOOLEAN]

\* opened_until is 0, in the future, or past.  failures counts no further than
\* the threshold: all that is asked of it is whether it has got there.
Rows(p) == [failures : 0..Threshold[p], circuit : {"closed", "open", "elapsed"}]

Points == {"next", "status", "lookup", "expired", "check", "running", "failed",
           "answered", "put"}

\* key is the fingerprint.  Three ghosts: astray says that the fingerprint was
\* not, or before the answer no longer, that of the worktree; of is the worktree
\* the answer is about, noted where the request is not astray; early says that
\* the circuit of the provider opened after the request had looked at it.
Requests == [at : Points, turn : 0..Len(Route), key : Fingerprints,
             of : Trees \union {NoTree}, astray : BOOLEAN, early : BOOLEAN]

ContextTypeOK ==
    /\ tree \in Trees
    /\ cache \in [Providers \X Fingerprints -> Entries \union {Absent}]
    /\ DOMAIN health = Providers /\ \A p \in Providers : health[p] \in Rows(p)
    /\ client \in [Clients -> Requests]

Idle == [at |-> "next", turn |-> 0, key |-> NoRepository, of |-> NoTree,
         astray |-> FALSE, early |-> FALSE]

Init ==
    /\ tree \in Trees
    /\ cache = [k \in Providers \X Fingerprints |-> Absent]
    /\ health = [p \in Providers |-> [failures |-> 0, circuit |-> "closed"]]
    /\ client = [c \in Clients |-> Idle]

-----------------------------------------------------------------------------
At(c, here) == client[c].at = here
Goes(c, there) == client' = [client EXCEPT ![c].at = there]
Provider(c) == Route[client[c].turn]

Done(c) == client' = [client EXCEPT ![c] = Idle]

\* Mutant: the end of the route is not noticed.
AfterAny(r) == [Idle EXCEPT !.turn = r.turn]

\* What a request has in hand is dropped as it turns to the next provider.
After(r) == IF r.turn = Len(Route) THEN Idle ELSE [Idle EXCEPT !.turn = r.turn]
Onward(c) == client' = [client EXCEPT ![c] = After(client[c])]

\* The first provider, or the next one: cache_key asks git for the commit.  A git
\* that is not there, takes too long or knows no commit gives the constant.
Turn(c) ==
    /\ At(c, "next")
    /\ LET r == [Idle EXCEPT !.turn = client[c].turn + 1]
       IN  \/ client' = [client EXCEPT ![c] =
                  [r EXCEPT !.at = "status",
                            !.key = [head |-> Commit[tree], status |-> Clean]]]
           \/ client' = [client EXCEPT ![c] =
                  [r EXCEPT !.at = "lookup", !.astray = TRUE]]
    /\ UNCHANGED <<tree, cache, health>>

\* Then for the status, of the worktree as it is by now.  A git status that fails
\* (its exit code is not looked at) reads as clean.
ReadStatus(c) ==
    /\ At(c, "status")
    /\ \E k \in {NoRepository} \union
                [head : {client[c].key.head}, status : {Status[tree], Clean}] :
          client' = [client EXCEPT ![c].at = "lookup", ![c].key = k,
                                   ![c].astray = k # Fingerprint(tree)]
    /\ UNCHANGED <<tree, cache, health>>

-----------------------------------------------------------------------------
(***************************************************************************)
(* ContextCache.                                                           *)
(***************************************************************************)
Key(c) == <<Provider(c), client[c].key>>

\* get: an entry past its time to live is deleted by its key in a second
\* statement; a value ends the request, a negative result this provider's turn.
Lookup(c) ==
    /\ At(c, "lookup")
    /\ LET e == cache[Key(c)]
       IN  IF e = Absent THEN Goes(c, "check")
           ELSE IF e.expired THEN Goes(c, "expired")
           ELSE IF e.negative THEN Onward(c)
           ELSE Done(c)
    /\ UNCHANGED <<tree, cache, health>>

Drop(c) ==
    /\ At(c, "expired")
    /\ cache' = [cache EXCEPT ![Key(c)] = Absent]
    /\ Goes(c, "check")
    /\ UNCHANGED <<tree, health>>

\* MaxEntries, for one more entry at k.
Room(k) == Cardinality({j \in DOMAIN cache : cache[j] # Absent} \union {k}) <= MaxEntries

\* Mutant: the key is computed when there is something to store.
PutNow(c) ==
    /\ At(c, "put")
    /\ \E negative \in BOOLEAN :
          /\ cache' = [cache EXCEPT ![<<Provider(c), Fingerprint(tree)>>] =
                [negative |-> negative, expired |-> FALSE,
                 fits |-> \/ client[c].astray
                          \/ Fingerprint(client[c].of) = Fingerprint(tree)]]
          /\ IF negative THEN Onward(c) ELSE Done(c)
    /\ UNCHANGED <<tree, health>>

\* put: what was there is replaced.  No output is a negative result, and the
\* next provider is asked.
Put(c) ==
    /\ At(c, "put") /\ Room(Key(c))
    /\ \E negative \in BOOLEAN :
          /\ cache' = [cache EXCEPT ![Key(c)] =
                [negative |-> negative, expired |-> FALSE,
                 fits |-> \/ client[c].astray
                          \/ Fingerprint(client[c].of) = client[c].key]]
          /\ IF negative THEN Onward(c) ELSE Done(c)
    /\ UNCHANGED <<tree, health>>

-----------------------------------------------------------------------------
(***************************************************************************)
(* ProviderRuntime.call.                                                   *)
(***************************************************************************)
\* A failure is only counted.
Fails(c) ==
    client' = [client EXCEPT ![c] = [Idle EXCEPT !.at = "failed", !.turn = client[c].turn,
                                                 !.early = client[c].early]]

\* Past the look at the circuit, and not yet recorded.
InCall(r) == r.at \in {"running", "failed", "answered"}

\* Mutant: a request that finds the circuit open tries once more.
CheckNothing(c) ==
    /\ At(c, "check")
    /\ Goes(c, "running")
    /\ UNCHANGED <<tree, cache, health>>

\* An open circuit is not called.  An argument that is left unresolved ends the
\* turn, an executable that is not there counts as a failure.
Check(c) ==
    /\ At(c, "check")
    /\ IF health[Provider(c)].circuit = "open" THEN Onward(c)
       ELSE Goes(c, "running") \/ Fails(c) \/ Onward(c)
    /\ UNCHANGED <<tree, cache, health>>

\* A timeout, an error of the system, or an exit code.
Fail(c) ==
    /\ At(c, "running")
    /\ Fails(c)
    /\ UNCHANGED <<tree, cache, health>>

\* The provider has read the worktree as it is now.
Answer(c) ==
    /\ At(c, "running")
    /\ client' = [client EXCEPT ![c].at = "answered",
                                   ![c].of = IF client[c].astray THEN @ ELSE tree]
    /\ UNCHANGED <<tree, cache, health>>

\* Mutant: the circuit opens one failure late.
AfterLate(p) ==
    LET n == health[p].failures + 1
    IN  IF n <= Threshold[p] THEN [failures |-> n, circuit |-> "closed"]
        ELSE [failures |-> Threshold[p], circuit |-> "open"]

AfterFailure(p) ==
    LET n == health[p].failures + 1
    IN  IF n < Threshold[p] THEN [failures |-> n, circuit |-> "closed"]
        ELSE [failures |-> Threshold[p], circuit |-> "open"]

\* _record_failure counts and opens in one transaction.
RecordFailure(c) ==
    /\ At(c, "failed")
    /\ LET p == Provider(c)
           opens == AfterFailure(p).circuit = "open"
       IN  /\ health' = [health EXCEPT ![p] = AfterFailure(p)]
           /\ client' = [d \in Clients |->
                IF d = c THEN After(client[c])
                ELSE [client[d] EXCEPT !.early =
                         @ \/ (opens /\ InCall(client[d]) /\ Provider(d) = p)]]
    /\ UNCHANGED <<tree, cache>>

\* _record_success resets the row, whatever happened since the call began.  A
\* text without use is neither kept nor returned.
RecordSuccess(c) ==
    /\ At(c, "answered")
    /\ health' = [health EXCEPT ![Provider(c)] =
                     [failures |-> 0, circuit |-> "closed"]]
    /\ \/ Onward(c)
       \/ client' = [client EXCEPT ![c].at = "put", ![c].early = FALSE]
    /\ UNCHANGED <<tree, cache>>

-----------------------------------------------------------------------------
(***************************************************************************)
(* The rest of the world.                                                  *)
(***************************************************************************)
Kill(c) ==
    /\ client[c] # Idle
    /\ Done(c)
    /\ UNCHANGED <<tree, cache, health>>

Unanswered == {"lookup", "expired", "check", "running"}

Edit ==
    /\ tree' \in Trees \ {tree}
    /\ client' = [c \in Clients |->
          [client[c] EXCEPT !.astray =
              @ \/ (client[c].at \in Unanswered
                    /\ Fingerprint(tree') # Fingerprint(tree))]]
    /\ UNCHANGED <<cache, health>>

\* cache_ttl_seconds or negative_cache_ttl_seconds pass.
Expire ==
    /\ \E k \in DOMAIN cache :
          /\ cache[k] # Absent
          /\ ~cache[k].expired
          /\ cache' = [cache EXCEPT ![k].expired = TRUE, ![k].negative = FALSE]
    /\ UNCHANGED <<tree, health, client>>

\* cooldown_seconds pass.
Elapse ==
    /\ \E p \in Providers :
          /\ health[p].circuit = "open"
          /\ health' = [health EXCEPT ![p].circuit = "elapsed"]
    /\ UNCHANGED <<tree, cache, client>>

Next ==
    \/ Edit \/ Expire \/ Elapse
    \/ \E c \in Clients :
          \/ Turn(c) \/ ReadStatus(c) \/ Lookup(c) \/ Drop(c) \/ Check(c)
          \/ Fail(c) \/ Answer(c) \/ RecordFailure(c) \/ RecordSuccess(c)
          \/ Put(c) \/ Kill(c)

Spec == Init /\ [][Next]_vars

-----------------------------------------------------------------------------
(***************************************************************************)
(* Properties.                                                             *)
(***************************************************************************)
\* What is kept under a key is an answer about a worktree of that fingerprint,
\* whoever edits, expires, drops and puts meanwhile, unless git failed, the
\* worktree moved between the two questions to it, or it moved to another
\* fingerprint before the answer.  Worktrees of one fingerprint do share their
\* answers: "preventing stale evidence from being reused across materially
\* different states" (docs/ARCHITECTURE.md:40) holds of fingerprints only.
KeptUnderItsFingerprint == \A k \in DOMAIN cache : cache[k] # Absent => cache[k].fits

\* "Repeated failures open a cooldown circuit" (docs/ARCHITECTURE.md:41): a
\* provider at its threshold has one, open or elapsed, and no other has, in
\* whatever order the calls of several processes are recorded.
CircuitFollowsFailures ==
    \A p \in Providers :
        health[p].failures >= Threshold[p] <=> health[p].circuit # "closed"

\* While a circuit is open no provider is started, and none closes it before its
\* cooldown, but by the calls that had passed the circuit before it opened.
OpenCircuitHolds ==
    [][\A c \in Clients :
          /\ client[c].turn > 0
          /\ health[Provider(c)].circuit = "open"
          /\ \/ At(c, "check") /\ client'[c].at = "running"
             \/ At(c, "answered") /\ health'[Provider(c)].circuit = "closed"
          => client[c].early]_vars
=============================================================================
