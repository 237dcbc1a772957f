------------------------ MODULE ControllerLease_proofs ------------------------
(***************************************************************************)
(* Proofs about ControllerLease, for any number of commands and sessions.  *)
(***************************************************************************)
EXTENDS ControllerLease, TLAPS

\* A command has a lock file open while it acquires and while it releases, and
\* a token from the grant to the end.
Files == \A p \in Procs :
    /\ fd[p] # Nobody <=> pc[p] \in {"opened", "granted", "reopened", "owned"}
    /\ pc[p] \in {"idle", "opened"} => token[p] = Nobody
    /\ pc[p] \notin {"idle", "opened"} => token[p] # Nobody

\* The lock of a file is held by a command that has it open.
LockInv ==
    /\ \A p \in Procs : pc[p] \in {"granted", "owned"} => locked[fd[p]] = p
    /\ \A i \in Inodes : locked[i] # Nobody =>
          fd[locked[i]] = i /\ pc[locked[i]] \in {"granted", "owned"}

\* Unless a file was unlinked under a command, all have the same one open.
OneFile == ~torn => \A p \in Procs : fd[p] \in {Nobody, path}

\* Two commands of a session at once are known to the ghost.
SharedInv == \A p, q \in Procs :
    p # q /\ pc[p] # "idle" /\ pc[q] # "idle" /\ SessionOf[p] = SessionOf[q]
    => SessionOf[p] \in shared

\* Whoever was granted the lease under the lock saw no other's.
GrantedAlone == \A p, q \in Procs :
    pc[p] = "granted" /\ pc[q] \in Inside /\ SessionOf[p] # SessionOf[q] => Excuse(q)

\* A lease that was found to be its own stays so while the lock is held.
OwnedStays == \A p \in Procs :
    pc[p] = "owned" /\ ~torn => Mine(p) /\ lease.token = token[p]

LeaseInv ==
    /\ LeaseTypeOK
    /\ Files /\ LockInv /\ OneFile /\ SharedInv /\ GrantedAlone /\ OwnedStays
    /\ OwnedInside

\* A lock file that is created is not one that a command has open.
LEMMA NewFileFresh ==
    ASSUME LeaseInv, NEW p \in Procs, fd[p] = Nobody
    PROVE  NewFile \in Inodes /\ \A q \in Procs : fd[q] # NewFile
<1> DEFINE f == [q \in Procs \ {p} |-> fd[q]]
<1>1. f \in [Procs \ {p} -> Inodes \union {Nobody}]
    BY DEF LeaseInv, LeaseTypeOK
<1>2. PICK i \in Inodes : \A q \in Procs \ {p} : f[q] # i
    BY <1>1, InodesAssumption
<1>3. \A q \in Procs : fd[q] # i
    BY <1>2, NobodyAssumption
<1> HIDE DEF f
<1> QED
    BY <1>3 DEF NewFile

\* A token that is made is one of the tokens.
LEMMA NewTokenTyped ==
    ASSUME LeaseInv, NEW p \in Procs, token[p] = Nobody
    PROVE  NewToken \in Tokens
<1> DEFINE f == [q \in Procs \ {p} |-> token[q]]
<1>1. f \in [Procs \ {p} -> Tokens \union {Nobody}]
    BY DEF LeaseInv, LeaseTypeOK
<1>2. \A u \in Tokens : \E t \in Tokens : t # u /\ \A q \in Procs \ {p} : f[q] # t
    <2> HIDE DEF f
    <2> QED
        BY <1>1, TokensAssumption
<1>3. \E t \in Tokens : (lease # Nobody => lease.token # t) /\ \A q \in Procs \ {p} : f[q] # t
    <2>1. CASE lease = Nobody
        BY <1>2, <2>1, TokensAssumption
    <2>2. CASE lease # Nobody
        <3>1. lease.token \in Tokens
            BY <2>2 DEF LeaseInv, LeaseTypeOK, Leases
        <3> QED
            BY <1>2, <2>2, <3>1
    <2> QED
        BY <2>1, <2>2
<1>4. \E t \in Tokens : (\A q \in Procs : token[q] # t) /\ (lease # Nobody => lease.token # t)
    BY <1>3, NobodyAssumption
<1> HIDE DEF f
<1> QED
    BY <1>4 DEF NewToken

\* No command has started.
LEMMA LeaseInvInit == Init => LeaseInv
BY NobodyAssumption, SessionAssumption
DEF Init, LeaseInv, LeaseTypeOK, Points, Inside, Files, LockInv, OneFile, SharedInv,
    GrantedAlone, OwnedStays, OwnedInside

\* Every step of a command, and the lapse of the lease, keeps the invariant.
LEMMA LeaseInvStep == LeaseInv /\ [Next]_vars => LeaseInv'
<1> SUFFICES ASSUME LeaseInv, [Next]_vars PROVE LeaseInv'
    OBVIOUS
<1> USE NobodyAssumption, SessionAssumption
    DEF LeaseInv, LeaseTypeOK, Leases, Points, Inside, Files, LockInv, OneFile,
        SharedInv, GrantedAlone, OwnedStays, OwnedInside, Owned, Mine, Excuse,
        At, Goes, Quiet, Forgets, Remembers, Opens, Locks, Closes, Conflict
<1>1. ASSUME NEW p \in Procs, Open(p) PROVE LeaseInv'
    <2> USE <1>1 DEF Open
    <2>1. LeaseTypeOK'
        BY NewFileFresh
    <2>2. Files'
        BY NewFileFresh
    <2>3. LockInv'
        BY NewFileFresh
    <2>4. OneFile'
        BY NewFileFresh
    <2>5. SharedInv'
        BY NewFileFresh
    <2>6. GrantedAlone'
        BY NewFileFresh
    <2>7. OwnedStays'
        BY NewFileFresh
    <2>8. OwnedInside'
        BY NewFileFresh
    <2> QED
        BY <2>1, <2>2, <2>3, <2>4, <2>5, <2>6, <2>7, <2>8
<1>2. ASSUME NEW p \in Procs, Lock(p) PROVE LeaseInv'
    <2> USE <1>2 DEF Lock
    <2>1. LeaseTypeOK'
        BY NewTokenTyped
    <2>2. Files'
        BY NewTokenTyped
    <2>3. LockInv'
        BY NewTokenTyped
    <2>4. OneFile'
        BY NewTokenTyped
    <2>5. SharedInv'
        BY NewTokenTyped
    <2>6. GrantedAlone'
        BY NewTokenTyped
    <2>7. OwnedStays'
        BY NewTokenTyped
    <2>8. OwnedInside'
        BY NewTokenTyped
    <2> QED
        BY <2>1, <2>2, <2>3, <2>4, <2>5, <2>6, <2>7, <2>8
<1>3. ASSUME NEW p \in Procs, Refuse(p) PROVE LeaseInv'
    <2> USE <1>3 DEF Refuse
    <2>1. LeaseTypeOK'
        OBVIOUS
    <2>2. Files'
        OBVIOUS
    <2>3. LockInv'
        OBVIOUS
    <2>4. OneFile'
        OBVIOUS
    <2>5. SharedInv'
        OBVIOUS
    <2>6. GrantedAlone'
        OBVIOUS
    <2>7. OwnedStays'
        OBVIOUS
    <2>8. OwnedInside'
        OBVIOUS
    <2> QED
        BY <2>1, <2>2, <2>3, <2>4, <2>5, <2>6, <2>7, <2>8
<1>4. ASSUME NEW p \in Procs, Write(p) PROVE LeaseInv'
    <2> USE <1>4 DEF Write
    <2>1. LeaseTypeOK'
        OBVIOUS
    <2>2. Files'
        OBVIOUS
    <2>3. LockInv'
        OBVIOUS
    <2>4. OneFile'
        OBVIOUS
    <2>5. SharedInv'
        OBVIOUS
    <2>6. GrantedAlone'
        OBVIOUS
    <2>7. OwnedStays'
        OBVIOUS
    <2>8. OwnedInside'
        <3> SUFFICES ASSUME NEW q \in Procs, pc'[q] \in Inside
                     PROVE  Owned(q)' \/ Excuse(q)'
            OBVIOUS
        <3>1. CASE q = p
            <4>1. token[p] \in Tokens
                OBVIOUS
            <4>2. lease' \in Leases
                BY <4>1
            <4>3. lease' # Nobody
                BY <4>2
            <4> QED
                BY <3>1, <4>3
        <3>2. CASE q # p /\ SessionOf[q] = SessionOf[p]
            BY <3>2
        <3>3. CASE q # p /\ SessionOf[q] # SessionOf[p]
            BY <3>3
        <3> QED
            BY <3>1, <3>2, <3>3
    <2> QED
        BY <2>1, <2>2, <2>3, <2>4, <2>5, <2>6, <2>7, <2>8
<1>5. ASSUME NEW p \in Procs, Reopen(p) PROVE LeaseInv'
    <2> USE <1>5 DEF Reopen
    <2>1. LeaseTypeOK'
        BY NewFileFresh
    <2>2. Files'
        BY NewFileFresh
    <2>3. LockInv'
        BY NewFileFresh
    <2>4. OneFile'
        BY NewFileFresh
    <2>5. SharedInv'
        BY NewFileFresh
    <2>6. GrantedAlone'
        BY NewFileFresh
    <2>7. OwnedStays'
        BY NewFileFresh
    <2>8. OwnedInside'
        BY NewFileFresh
    <2> QED
        BY <2>1, <2>2, <2>3, <2>4, <2>5, <2>6, <2>7, <2>8
<1>6. ASSUME NEW p \in Procs, Relock(p) PROVE LeaseInv'
    <2> USE <1>6 DEF Relock
    <2>1. LeaseTypeOK'
        OBVIOUS
    <2>2. Files'
        OBVIOUS
    <2>3. LockInv'
        OBVIOUS
    <2>4. OneFile'
        OBVIOUS
    <2>5. SharedInv'
        OBVIOUS
    <2>6. GrantedAlone'
        OBVIOUS
    <2>7. OwnedStays'
        OBVIOUS
    <2>8. OwnedInside'
        OBVIOUS
    <2> QED
        BY <2>1, <2>2, <2>3, <2>4, <2>5, <2>6, <2>7, <2>8
<1>7. ASSUME NEW p \in Procs, Lose(p) PROVE LeaseInv'
    <2> USE <1>7 DEF Lose
    <2>1. LeaseTypeOK'
        OBVIOUS
    <2>2. Files'
        OBVIOUS
    <2>3. LockInv'
        OBVIOUS
    <2>4. OneFile'
        OBVIOUS
    <2>5. SharedInv'
        OBVIOUS
    <2>6. GrantedAlone'
        OBVIOUS
    <2>7. OwnedStays'
        OBVIOUS
    <2>8. OwnedInside'
        OBVIOUS
    <2> QED
        BY <2>1, <2>2, <2>3, <2>4, <2>5, <2>6, <2>7, <2>8
<1>8. ASSUME NEW p \in Procs, Remove(p) PROVE LeaseInv'
    <2> USE <1>8 DEF Remove
    <2>1. LeaseTypeOK'
        OBVIOUS
    <2>2. Files'
        OBVIOUS
    <2>3. LockInv'
        OBVIOUS
    <2>4. OneFile'
        OBVIOUS
    <2>5. SharedInv'
        OBVIOUS
    <2>6. GrantedAlone'
        OBVIOUS
    <2>7. OwnedStays'
        OBVIOUS
    <2>8. OwnedInside'
        OBVIOUS
    <2> QED
        BY <2>1, <2>2, <2>3, <2>4, <2>5, <2>6, <2>7, <2>8
<1>9. ASSUME NEW p \in Procs, Unlink(p) PROVE LeaseInv'
    <2> USE <1>9 DEF Unlink
    <2>1. LeaseTypeOK'
        OBVIOUS
    <2>2. Files'
        OBVIOUS
    <2>3. LockInv'
        OBVIOUS
    <2>4. OneFile'
        <3>1. CASE Quiet(p)
            <4>1. \A q \in Procs : fd'[q] = Nobody
                BY <3>1
            <4> QED
                BY <4>1
        <3>2. CASE ~Quiet(p) /\ torn'
            BY <3>2
        <3>3. CASE ~Quiet(p) /\ ~torn'
            <4>1. ~torn
                BY <3>3
            <4>2. \A q \in Procs : path # Nobody => fd[q] # path
                BY <3>3
            <4>3. \A q \in Procs : fd[q] = Nobody
                BY <4>1, <4>2
            <4> QED
                BY <4>3
        <3> QED
            BY <3>1, <3>2, <3>3
    <2>5. SharedInv'
        OBVIOUS
    <2>6. GrantedAlone'
        OBVIOUS
    <2>7. OwnedStays'
        OBVIOUS
    <2>8. OwnedInside'
        OBVIOUS
    <2> QED
        BY <2>1, <2>2, <2>3, <2>4, <2>5, <2>6, <2>7, <2>8
<1>10. ASSUME NEW p \in Procs, Kill(p) PROVE LeaseInv'
    <2> USE <1>10 DEF Kill
    <2>1. LeaseTypeOK'
        OBVIOUS
    <2>2. Files'
        OBVIOUS
    <2>3. LockInv'
        OBVIOUS
    <2>4. OneFile'
        OBVIOUS
    <2>5. SharedInv'
        OBVIOUS
    <2>6. GrantedAlone'
        OBVIOUS
    <2>7. OwnedStays'
        OBVIOUS
    <2>8. OwnedInside'
        OBVIOUS
    <2> QED
        BY <2>1, <2>2, <2>3, <2>4, <2>5, <2>6, <2>7, <2>8
<1>11. ASSUME Expire PROVE LeaseInv'
    <2> USE <1>11 DEF Expire
    <2>1. LeaseTypeOK'
        OBVIOUS
    <2>2. Files'
        OBVIOUS
    <2>3. LockInv'
        OBVIOUS
    <2>4. OneFile'
        OBVIOUS
    <2>5. SharedInv'
        OBVIOUS
    <2>6. GrantedAlone'
        OBVIOUS
    <2>7. OwnedStays'
        <3>1. lease \in Leases /\ lease' \in Leases
            OBVIOUS
        <3>2. lease'.owner = lease.owner /\ lease'.token = lease.token
            BY <3>1
        <3>3. lease' # Nobody
            BY <3>1
        <3> QED
            BY <3>2, <3>3
    <2>8. OwnedInside'
        OBVIOUS
    <2> QED
        BY <2>1, <2>2, <2>3, <2>4, <2>5, <2>6, <2>7, <2>8
<1>12. CASE UNCHANGED vars
    BY <1>12 DEF vars
<1> QED
    BY <1>1, <1>2, <1>3, <1>4, <1>5, <1>6, <1>7, <1>8, <1>9, <1>10, <1>11, <1>12 DEF Next

\* The inductive invariant holds of every behaviour of the commands.
THEOREM LeaseInvariant == Spec => []LeaseInv
<1> QED
    BY LeaseInvInit, LeaseInvStep, PTL DEF Spec

-----------------------------------------------------------------------------
\* LeaseTypeOK, for any number of commands and sessions of lease.py.
THEOREM LeaseTyped == Spec => []LeaseTypeOK
<1>1. LeaseInv => LeaseTypeOK
    BY DEF LeaseInv
<1> QED
    BY <1>1, LeaseInvariant, PTL

\* A command at work still has the lease it was given, unless it ran out, a lock
\* file was unlinked under a command, or its session runs another command.
THEOREM LeaseOwned == Spec => []OwnedInside
<1>1. LeaseInv => OwnedInside
    BY DEF LeaseInv
<1> QED
    BY <1>1, LeaseInvariant, PTL

\* Commands of two sessions run at once for these reasons only.
THEOREM LeaseSerializes == Spec => []LeaseExclusive
<1>1. LeaseInv => LeaseExclusive
    BY DEF LeaseInv, OwnedInside, LeaseExclusive, Owned, Mine
<1> QED
    BY <1>1, LeaseInvariant, PTL

\* A release unlinks the lease that was given to it.
THEOREM LeaseRemoved == Spec => RemovesOwnLease
<1>1. LeaseInv /\ [Next]_vars =>
        [\A p \in Procs :
            pc[p] = "owned" /\ pc'[p] = "removed" =>
                torn \/ (lease # Nobody /\ lease.token = token[p])]_vars
    BY DEF LeaseInv, OwnedStays, Mine
<1> QED
    BY <1>1, LeaseInvariant, PTL DEF Spec, RemovesOwnLease
=============================================================================
