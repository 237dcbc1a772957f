---------------------------- MODULE ControllerLease ----------------------------
(***************************************************************************)
(* The lease that serializes the controller's commands on one task         *)
(* (src/lib/sin_orca/lease.py), as _controller_mutation of cli.py takes    *)
(* and gives it back: a lease file with an owner, a token and an expiry,   *)
(* read and written under an advisory lock on a second file, which the     *)
(* release unlinks by name after it has let go of the lock.                *)
(*                                                                         *)
(* A command is a process of a session; the commands of one session own    *)
(* the lease together.  A lock is on the file a process has open, whatever *)
(* has the name by then: a waiter may lock a file that is gone.            *)
(***************************************************************************)
EXTENDS Naturals, FiniteSets

CONSTANTS
    Procs,          \* the commands
    Sessions,       \* the controller identities
    SessionOf,      \* the session of each command
    Nobody,         \* no process, no lease
    Inodes,         \* the identities of lock files, recycled
    Tokens          \* the identities of leases, recycled

ASSUME SessionAssumption == SessionOf \in [Procs -> Sessions]
ASSUME NobodyAssumption ==
    Nobody \notin Procs \union Inodes \union Tokens
    /\ Nobody \notin [owner : Sessions, token : Tokens, valid : BOOLEAN]

\* A file and a lease that are new always have an identity to take.
ASSUME InodesAssumption ==
    \A p \in Procs : \A f \in [Procs \ {p} -> Inodes \union {Nobody}] :
        \E i \in Inodes : \A q \in Procs \ {p} : f[q] # i
ASSUME TokensAssumption ==
    /\ Tokens # {}
    /\ \A p \in Procs : \A f \in [Procs \ {p} -> Tokens \union {Nobody}], u \in Tokens :
          \E t \in Tokens : t # u /\ \A q \in Procs \ {p} : f[q] # t

VARIABLES
    path,       \* the lock file that has the name now, or Nobody
    locked,     \* the process that holds the lock on each lock file
    lease,      \* controller-lease.json, or Nobody; valid until it expires
    pc,         \* where each command is
    fd,         \* the lock file a command has open, or Nobody
    token,      \* the token a command was given
    torn,       \* ghost: a lock file was unlinked under a process that had it
    lapsed,     \* ghost: the lease expired during a command
    shared      \* ghost: the sessions that ran two commands at once

vars == <<path, locked, lease, pc, fd, token, torn, lapsed, shared>>

Leases == [owner : Sessions, token : Tokens, valid : BOOLEAN]

\* Acquiring: opened, granted.  Then working.  Releasing: reopened, owned,
\* removed.
Points == {"idle", "opened", "granted", "working", "reopened", "owned", "removed"}
Inside == {"working", "reopened", "owned"}

LeaseTypeOK ==
    /\ path \in Inodes \union {Nobody}
    /\ locked \in [Inodes -> Procs \union {Nobody}]
    /\ lease \in Leases \union {Nobody}
    /\ pc \in [Procs -> Points]
    /\ fd \in [Procs -> Inodes \union {Nobody}]
    /\ token \in [Procs -> Tokens \union {Nobody}]
    /\ torn \in BOOLEAN /\ lapsed \in BOOLEAN
    /\ shared \subseteq Sessions

Init ==
    /\ path = Nobody
    /\ locked = [i \in Inodes |-> Nobody]
    /\ lease = Nobody
    /\ pc = [p \in Procs |-> "idle"]
    /\ fd = [p \in Procs |-> Nobody]
    /\ token = [p \in Procs |-> Nobody]
    /\ torn = FALSE /\ lapsed = FALSE /\ shared = {}

-----------------------------------------------------------------------------
(***************************************************************************)
(* The lock file.                                                          *)
(***************************************************************************)
NewFile == CHOOSE i \in Inodes : \A q \in Procs : fd[q] # i

\* open "a+": the file that has the name, or a new one.
Opens(p) ==
    LET i == IF path # Nobody THEN path ELSE NewFile
    IN  /\ path' = i
        /\ fd' = [fd EXCEPT ![p] = i]

\* flock: the lock of that file, whatever its name by now.
Locks(p) ==
    /\ locked[fd[p]] = Nobody
    /\ locked' = [locked EXCEPT ![fd[p]] = p]

\* The end of the with block closes the file and so frees its lock.
Closes(p) ==
    /\ locked' = [i \in Inodes |-> IF locked[i] = p THEN Nobody ELSE locked[i]]
    /\ fd' = [fd EXCEPT ![p] = Nobody]

At(p, here) == pc[p] = here
Goes(p, there) == pc' = [pc EXCEPT ![p] = there]
Quiet(p) == \A q \in Procs \ {p} : pc[q] = "idle"

\* The ghosts speak of the time since no command ran.
Forgets(p) ==
    IF Quiet(p) THEN torn' = FALSE /\ lapsed' = FALSE /\ shared' = {}
    ELSE UNCHANGED <<torn, lapsed, shared>>
Remembers == UNCHANGED <<torn, lapsed, shared>>

-----------------------------------------------------------------------------
(***************************************************************************)
(* acquire.                                                                *)
(***************************************************************************)
Mine(p) == lease # Nobody /\ lease.owner = SessionOf[p]

\* Another session has it, and it has not expired.
Conflict(p) == lease # Nobody /\ lease.valid /\ lease.owner # SessionOf[p]

NewToken ==
    CHOOSE t \in Tokens : /\ \A q \in Procs : token[q] # t
                          /\ lease # Nobody => lease.token # t

Open(p) ==
    /\ At(p, "idle")
    /\ Opens(p)
    /\ Goes(p, "opened")
    /\ shared' = shared \union
                 {SessionOf[q] : q \in {r \in Procs \ {p} : /\ pc[r] # "idle"
                                                           /\ SessionOf[r] = SessionOf[p]}}
    /\ UNCHANGED <<locked, lease, token, torn, lapsed>>

\* Mutant: an expired lease is the only thing looked for.
LockAnyway(p) ==
    /\ At(p, "opened")
    /\ Locks(p)
    /\ token' = [token EXCEPT ![p] = IF Mine(p) THEN lease.token ELSE NewToken]
    /\ Goes(p, "granted")
    /\ UNCHANGED <<path, lease, fd>> /\ Remembers

\* Mutant: the lease is read before the lock is there.
LockUnlocked(p) ==
    /\ At(p, "opened")
    /\ ~Conflict(p)
    /\ token' = [token EXCEPT ![p] = IF Mine(p) THEN lease.token ELSE NewToken]
    /\ Goes(p, "granted")
    /\ UNCHANGED <<path, locked, lease, fd>> /\ Remembers

\* Mutant: an expired lease of another session leaves no new token.
LockUntokened(p) ==
    /\ At(p, "opened")
    /\ ~Conflict(p)
    /\ Locks(p)
    /\ token' = [token EXCEPT ![p] = IF Mine(p) THEN lease.token ELSE token[p]]
    /\ Goes(p, "granted")
    /\ UNCHANGED <<path, lease, fd>> /\ Remembers

\* With the lock, a lease of the session keeps its token, and any other that
\* has expired gets a new one.
Lock(p) ==
    /\ At(p, "opened")
    /\ ~Conflict(p)
    /\ Locks(p)
    /\ token' = [token EXCEPT ![p] = IF Mine(p) THEN lease.token ELSE NewToken]
    /\ Goes(p, "granted")
    /\ UNCHANGED <<path, lease, fd>> /\ Remembers

\* LeaseConflictError: the command is refused.
Refuse(p) ==
    /\ At(p, "opened")
    /\ locked[fd[p]] = Nobody
    /\ Conflict(p)
    /\ Closes(p)
    /\ Goes(p, "idle")
    /\ UNCHANGED <<path, lease, token>> /\ Forgets(p)

\* _atomic_write: the lease runs for another 180 seconds.
Write(p) ==
    /\ At(p, "granted")
    /\ lease' = [owner |-> SessionOf[p], token |-> token[p], valid |-> TRUE]
    /\ Closes(p)
    /\ Goes(p, "working")
    /\ UNCHANGED <<path, token>> /\ Remembers

-----------------------------------------------------------------------------
(***************************************************************************)
(* release, once the handler has returned or raised.                       *)
(***************************************************************************)
Reopen(p) ==
    /\ At(p, "working")
    /\ Opens(p)
    /\ Goes(p, "reopened")
    /\ UNCHANGED <<locked, lease, token>> /\ Remembers

\* assert_owned.
Owned(p) == Mine(p) /\ lease.valid /\ lease.token = token[p]

\* Mutant: a lease is given back whoever has it.
RelockUnasserted(p) ==
    /\ At(p, "reopened")
    /\ Locks(p)
    /\ Goes(p, "owned")
    /\ UNCHANGED <<path, lease, fd, token>> /\ Remembers

Relock(p) ==
    /\ At(p, "reopened")
    /\ Owned(p)
    /\ Locks(p)
    /\ Goes(p, "owned")
    /\ UNCHANGED <<path, lease, fd, token>> /\ Remembers

\* LeaseLostError: the command reports a failure, its effects stay.
Lose(p) ==
    /\ At(p, "reopened")
    /\ locked[fd[p]] = Nobody
    /\ ~Owned(p)
    /\ Closes(p)
    /\ Goes(p, "idle")
    /\ token' = [token EXCEPT ![p] = Nobody]
    /\ UNCHANGED <<path, lease>> /\ Forgets(p)

\* The lease is unlinked under the lock.
Remove(p) ==
    /\ At(p, "owned")
    /\ lease' = Nobody
    /\ Closes(p)
    /\ Goes(p, "removed")
    /\ UNCHANGED <<path, token>> /\ Remembers

\* The lock file is unlinked after it, by its name.
Unlink(p) ==
    /\ At(p, "removed")
    /\ path' = Nobody
    /\ Goes(p, "idle")
    /\ token' = [token EXCEPT ![p] = Nobody]
    /\ IF Quiet(p) THEN torn' = FALSE /\ lapsed' = FALSE /\ shared' = {}
       ELSE /\ torn' = (torn \/ (path # Nobody /\ \E q \in Procs : fd[q] = path))
            /\ UNCHANGED <<lapsed, shared>>
    /\ UNCHANGED <<locked, lease, fd>>

-----------------------------------------------------------------------------
\* A command outlives its lease: nothing renews it.
Expire ==
    /\ lease # Nobody /\ lease.valid
    /\ lease' = [lease EXCEPT !.valid = FALSE]
    /\ lapsed' = (lapsed \/ \E p \in Procs : pc[p] # "idle")
    /\ UNCHANGED <<path, locked, pc, fd, token, torn, shared>>

\* A killed command leaves its lease and its lock file.
Kill(p) ==
    /\ pc[p] # "idle"
    /\ Closes(p)
    /\ Goes(p, "idle")
    /\ token' = [token EXCEPT ![p] = Nobody]
    /\ UNCHANGED <<path, lease>> /\ Forgets(p)

Next ==
    \/ Expire
    \/ \E p \in Procs :
          \/ Open(p) \/ Lock(p) \/ Refuse(p) \/ Write(p)
          \/ Reopen(p) \/ Relock(p) \/ Lose(p) \/ Remove(p) \/ Unlink(p)
          \/ Kill(p)

Spec == Init /\ [][Next]_vars

-----------------------------------------------------------------------------
(***************************************************************************)
(* Properties.                                                             *)
(***************************************************************************)
\* "Serialize every state-changing controller command per task" (cli.py:85).
\* Commands of two sessions run at once for one of three reasons only: a lease
\* ran out under its command, a lock file was unlinked under a process that had
\* it open, or one command gave back what another of its session still used.
Excuse(p) == torn \/ lapsed \/ SessionOf[p] \in shared

LeaseExclusive ==
    \A p, q \in Procs :
        pc[p] \in Inside /\ pc[q] \in Inside /\ SessionOf[p] # SessionOf[q]
        => Excuse(p) \/ Excuse(q)

\* A command at work finds its lease gone at its end only for one of these
\* reasons: until then the lease is the one it was given.
OwnedInside == \A p \in Procs : pc[p] \in Inside => Owned(p) \/ Excuse(p)

\* What a release unlinks is the lease it was given: a session never gives back
\* the lease of another one, even when its own ran out or the release was slow.
RemovesOwnLease ==
    [][\A p \in Procs :
          pc[p] = "owned" /\ pc'[p] = "removed" =>
              torn \/ (lease # Nobody /\ lease.token = token[p])]_vars
=============================================================================
