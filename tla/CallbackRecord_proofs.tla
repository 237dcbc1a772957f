------------------------ MODULE CallbackRecord_proofs ------------------------
(***************************************************************************)
(* Proofs about CallbackRecord, for any callbacks, agents and bounds: its  *)
(* types, its inductive invariant with the safety and action properties    *)
(* that rest on it, what a record reports and leaves behind, and that it   *)
(* keeps the promise of OneShotCallback.                                   *)
(***************************************************************************)
EXTENDS CallbackRecord, TLAPS

-----------------------------------------------------------------------------
(***************************************************************************)
(* Type correctness.                                                       *)
(***************************************************************************)
LEMMA IdleTyped == Idle \in Processes
BY CallbacksAssumption DEF Idle, Processes, Steps

LEMMA RemoveRelayTyped == \A relay : RemoveRelay(relay) \in {"none", "removed"}
BY DEF RemoveRelay

\* Going on under a lock and leaving it keep holders and processes typed.
LEMMA HoldTyped ==
    ASSUME TypeOK, NEW a \in Agents, NEW c \in Callbacks,
           NEW s \in Steps, NEW sched \in BOOLEAN, Hold(a, c, s, sched)
    PROVE  /\ holder' \in [Callbacks -> Agents \union {Free}]
           /\ proc' \in [Agents -> Processes]
<1>1. [Idle EXCEPT !.at = s, !.cb = c, !.scheduled = sched] \in Processes
  BY IdleTyped DEF Processes
<1>2. QED
  BY <1>1 DEF TypeOK, Hold

LEMMA ReturnTyped ==
    ASSUME TypeOK, NEW a \in Agents, NEW c \in Callbacks, Return(a, c)
    PROVE  /\ holder' \in [Callbacks -> Agents \union {Free}]
           /\ proc' \in [Agents -> Processes]
BY IdleTyped DEF TypeOK, Return

LEMMA PutTyped ==
    ASSUME TypeOK, NEW c \in Callbacks, NEW r \in Records, Put(c, r)
    PROVE  record' \in [Callbacks -> Records]
BY DEF TypeOK, Put

LEMMA WritesTyped ==
    ASSUME TypeOK, NEW a \in Agents, NEW c \in Callbacks, NEW r \in Records,
           Writes(a, c, r)
    PROVE  TypeOK'
BY PutTyped DEF Writes, TypeOK

LEMMA CommitTyped ==
    ASSUME TypeOK, NEW a \in Agents, NEW c \in Callbacks,
           NEW o \in Outcomes \union {NoOutcome},
           NEW told \in FinalStatuses \union {NoOutcome},
           Commit(a, c, o, told)
    PROVE  /\ record' \in [Callbacks -> Records]
           /\ holder' \in [Callbacks -> Agents \union {Free}]
           /\ proc' \in [Agents -> Processes]
<1>1. record[c] \in Records
  BY DEF TypeOK
<1> DEFINE staged == IF record[c].staged = "none" THEN "none" ELSE "consumed"
<1>2. \A st \in {"none", "consumed"} :
         [record[c] EXCEPT
             !.status = "pending-delivery", !.outcome = o, !.told = told,
             !.delivery = "pending", !.staged = st] \in Records
  BY <1>1 DEF Records, Statuses, Expirable
<1>3. record' \in [Callbacks -> Records]
  <2>1. staged \in {"none", "consumed"}
    OBVIOUS
  <2>2. Put(c, [record[c] EXCEPT
             !.status = "pending-delivery", !.outcome = o, !.told = told,
             !.delivery = "pending", !.staged = staged])
    BY DEF Commit
  <2>3. QED
    BY <1>2, <2>1, <2>2, PutTyped
<1>4. QED
  BY <1>3, HoldTyped DEF Commit, Steps

LEMMA SettleTyped ==
    ASSUME TypeOK, NEW a \in Agents, NEW c \in Callbacks,
           NEW status \in Terminal, NEW relay \in Relays,
           Settle(a, c, status, relay)
    PROVE  TypeOK'
<1>0. record[c] \in Records
  BY DEF TypeOK
<1>1. [record[c] EXCEPT !.status = status, !.relay = relay] \in Records
  BY <1>0 DEF Records, Statuses
<1>2. record' \in [Callbacks -> Records]
  BY <1>1, PutTyped DEF Settle
<1>3. QED
  BY <1>2, HoldTyped DEF Settle, Steps, TypeOK, Ghosts

LEMMA StaysPendingTyped ==
    ASSUME TypeOK, NEW a \in Agents, NEW c \in Callbacks, StaysPending(a, c)
    PROVE  /\ record' \in [Callbacks -> Records]
           /\ holder' \in [Callbacks -> Agents \union {Free}]
           /\ proc' \in [Agents -> Processes]
<1>1. PICK relay \in {record[c].relay}
                     \union (IF proc[a].scheduled THEN {"inert"} ELSE {}) :
           Put(c, [record[c] EXCEPT !.status = "pending-delivery",
                                    !.delivery = "pending",
                                    !.relay = relay])
  BY DEF StaysPending
<1>0. record[c] \in Records
  BY DEF TypeOK
<1>2. relay \in Relays
  BY <1>0 DEF Records, Relays
<1>3. [record[c] EXCEPT !.status = "pending-delivery", !.delivery = "pending",
                        !.relay = relay] \in Records
  BY <1>0, <1>2 DEF Records, Statuses, Expirable
<1>4. QED
  BY <1>1, <1>3, PutTyped, ReturnTyped DEF StaysPending

LEMMA NewRecordTyped == NewRecord \in Records
BY BoundsAssumption
DEF NewRecord, Records, Statuses, Expirable, NoOutcome, Relays

LEMMA InitTyped == Init => TypeOK
<1>1. [NewRecord EXCEPT !.status = "absent"] \in Records
  BY NewRecordTyped DEF Records, Statuses
<1>2. QED
  BY <1>1, IdleTyped, BoundsAssumption DEF Init, TypeOK

LEMMA OperationTyped ==
    ASSUME TypeOK, NEW a \in Agents, NEW c \in Callbacks, Operation(a, c)
    PROVE  TypeOK'
<1> USE DEF Ghosts
<1>0. record[c] \in Records /\ proc[a] \in Processes
  BY DEF TypeOK
<1>1. CASE OpenCallback(a, c)
  BY <1>1, NewRecordTyped, PutTyped DEF OpenCallback, TypeOK
<1>2. CASE BindCallback(a, c)
  <2>1. [record[c] EXCEPT !.conv = @ + 1] \in Records
    BY <1>0, <1>2, BoundsAssumption DEF BindCallback, Records
  <2>2. QED
    BY <1>2, <2>1, WritesTyped DEF BindCallback
<1>3. ASSUME NEW o \in Reports, StageHandoff(a, c, o)
      PROVE  TypeOK'
  <2>1. [record[c] EXCEPT !.staged = "staged", !.stagedOutcome = o,
                          !.stagedConv = record[c].conv] \in Records
    BY <1>0, ReportsAssumption DEF Records
  <2>2. QED
    BY <1>3, <2>1, WritesTyped DEF StageHandoff
<1>4. ASSUME NEW o \in Reports, SendCallback(a, c, o)
      PROVE  TypeOK'
  BY <1>4, CommitTyped, ReportsAssumption DEF SendCallback, Outcomes, TypeOK
<1>5. CASE Redeliver(a, c)
  BY <1>5, HoldTyped DEF Redeliver, TypeOK, Steps
<1>6. CASE ScheduledRelay(a, c)
  BY <1>6, HoldTyped DEF ScheduledRelay, TypeOK, Steps
<1>7. CASE ValidateHandoff(a, c)
  <2>1. record[c].stagedOutcome \in FinalStatuses \union {NoOutcome}
    BY <1>0 DEF Records
  <2>2. QED
    BY <1>7, <2>1, IdleTyped
    DEF ValidateHandoff, HandoffValid, TypeOK, Processes, Steps
<1>8. CASE ReconcileBound(a, c)
  BY <1>0, <1>8, CommitTyped, HoldTyped, ReturnTyped
  DEF ReconcileBound, TypeOK, Steps, Processes, Outcomes
<1>9. CASE ReconcileUnbound(a, c)
  BY <1>0, <1>9, CommitTyped, HoldTyped, ReturnTyped
  DEF ReconcileUnbound, TypeOK, Steps, Processes, Outcomes
<1>10. CASE EnqueueWithBroker(a, c)
  BY <1>10, ReturnTyped DEF EnqueueWithBroker, TypeOK, Processes, Steps
<1>11. CASE Refuse(a, c)
  BY <1>11, StaysPendingTyped DEF Refuse, TypeOK
<1>12. CASE RefuseAfterAccept(a, c)
  BY <1>12, StaysPendingTyped DEF RefuseAfterAccept, TypeOK
<1>13. CASE Transmit(a, c)
  <2>1. PICK reached \in BOOLEAN, reply \in {"accepted", "ambiguous"} :
           /\ wire' = [wire EXCEPT ![c] = IF reached THEN @ + 1 ELSE @]
           /\ proc' = [proc EXCEPT ![a].at = reply]
    BY <1>13 DEF Transmit
  <2>2. wire' \in [Callbacks -> Nat]
    BY <2>1 DEF TypeOK
  <2>3. [proc[a] EXCEPT !.at = reply] \in Processes
    BY <1>0 DEF Processes, Steps
  <2>4. proc' \in [Agents -> Processes]
    BY <2>1, <2>3 DEF TypeOK
  <2>5. QED
    BY <1>13, <2>2, <2>4 DEF Transmit, TypeOK
<1>14. CASE RecordResult(a, c)
  <2>1. [record[c] EXCEPT !.status = "sent", !.delivery = "sent"] \in Records
    BY <1>0 DEF Records, Statuses, Expirable
  <2>2. [record[c] EXCEPT !.status = "delivery-indeterminate",
                          !.delivery = "indeterminate"] \in Records
    BY <1>0 DEF Records, Statuses, Expirable
  <2>3. record' \in [Callbacks -> Records]
    <3>1. CASE At(a, c, "accepted")
               /\ Put(c, [record[c] EXCEPT !.status = "sent",
                                           !.delivery = "sent"])
      BY <2>1, <3>1, PutTyped
    <3>2. CASE At(a, c, "ambiguous")
               /\ Put(c, [record[c] EXCEPT !.status = "delivery-indeterminate",
                                           !.delivery = "indeterminate"])
      BY <2>2, <3>2, PutTyped
    <3>3. QED
      BY <1>14, <3>1, <3>2 DEF RecordResult
  <2>4. QED
    BY <1>14, <2>3, ReturnTyped DEF RecordResult, TypeOK
<1>15. CASE ExpireIfNeeded(a, c)
  BY <1>15, SettleTyped, RemoveRelayTyped DEF ExpireIfNeeded, Terminal, Relays
<1>16. CASE MarkArchiveVerified(a, c)
  BY <1>0, <1>16, WritesTyped DEF MarkArchiveVerified, Records
<1>17. CASE AcknowledgeCallback(a, c)
  BY <1>17, SettleTyped, RemoveRelayTyped
  DEF AcknowledgeCallback, Terminal, Relays
<1>18. CASE AbandonCallback(a, c)
  BY <1>18, SettleTyped, RemoveRelayTyped DEF AbandonCallback, Terminal, Relays
<1>19. CASE CancelCallback(a, c)
  BY <1>0, <1>19, SettleTyped DEF CancelCallback, Terminal, Records
<1>20. CASE MirrorBrokerState(a, c)
  BY <1>20, ReturnTyped DEF MirrorBrokerState, TypeOK
<1>21. CASE InstallCallbackRelay(a, c)
  BY <1>0, <1>21, WritesTyped DEF InstallCallbackRelay, Records, Relays
<1>22. CASE CancelCallbackRelay(a, c)
  BY <1>0, <1>22, WritesTyped DEF CancelCallbackRelay, Records, Relays
<1>23. CASE FallBackToTerminal(a, c)
  BY <1>23 DEF FallBackToTerminal, TypeOK
<1>24. QED
  BY <1>1, <1>2, <1>3, <1>4, <1>5, <1>6, <1>7, <1>8, <1>9, <1>10, <1>11,
     <1>12, <1>13, <1>14, <1>15, <1>16, <1>17, <1>18, <1>19, <1>20, <1>21,
     <1>22, <1>23
  DEF Operation

LEMMA NextTyped == TypeOK /\ [Next]_vars => TypeOK'
<1> SUFFICES ASSUME TypeOK, [Next]_vars PROVE TypeOK'
  OBVIOUS
<1>1. CASE \E a \in Agents, c \in Callbacks : Operation(a, c)
  BY <1>1, OperationTyped
<1>2. CASE \E c \in Callbacks : TtlPasses(c)
  BY <1>2 DEF TtlPasses, TypeOK
<1>3. ASSUME NEW S \in SUBSET Agents, Crash(S)
      PROVE  TypeOK'
  <2>1. lost' \in [Callbacks -> Nat] /\ crashes' \in 0..MaxCrashes
    BY <1>3, BoundsAssumption DEF Crash, TypeOK
  <2>2. QED
    BY <1>3, <2>1, IdleTyped DEF Crash, TypeOK
<1>4. CASE UNCHANGED vars
  BY <1>4 DEF vars, TypeOK
<1>5. QED
  BY <1>1, <1>2, <1>3, <1>4 DEF Next

\* Every record any number of processes can write is one its readers know.
THEOREM TypeCorrect == Spec => []TypeOK
BY InitTyped, NextTyped, PTL DEF Spec

-----------------------------------------------------------------------------
(***************************************************************************)
(* The lock.  Only three kinds of step touch holder and proc of an agent:  *)
(* Hold, Return and a change of step inside the lock.                      *)
(***************************************************************************)
\* Nobody else is at a locked step of a callback whose lock is free or one's
\* own.
LEMMA Alone ==
    ASSUME TypeOK, LockHeldThroughout,
           NEW a \in Agents, NEW b \in Agents \ {a}, NEW c \in Callbacks,
           holder[c] \in {a, Free}, proc[b].cb = c
    PROVE  proc[b].at \in {"idle", "validated"}
BY FreeAssumption DEF LockHeldThroughout

LEMMA HoldKeepsLock ==
    ASSUME TypeOK, LockHeldThroughout,
           NEW a \in Agents, NEW c \in Callbacks,
           NEW s \in Steps \ {"idle", "validated"}, NEW sched \in BOOLEAN,
           holder[c] = Free, proc[a].at \in {"idle", "validated"},
           Hold(a, c, s, sched)
    PROVE  LockHeldThroughout'
<1>1. /\ proc' = [proc EXCEPT ![a] =
                    [Idle EXCEPT !.at = s, !.cb = c, !.scheduled = sched]]
      /\ holder' = [holder EXCEPT ![c] = a]
  BY DEF Hold
<1>2. proc'[a].at = s /\ proc'[a].cb = c
  BY <1>1 DEF TypeOK, Idle
<1>3. \A b \in Agents \ {a} : proc'[b] = proc[b]
  BY <1>1 DEF TypeOK
<1>4. \A d \in Callbacks : holder'[d] = IF d = c THEN a ELSE holder[d]
  BY <1>1 DEF TypeOK
<1>5. QED
  BY <1>2, <1>3, <1>4, FreeAssumption DEF LockHeldThroughout

LEMMA ReturnKeepsLock ==
    ASSUME TypeOK, LockHeldThroughout,
           NEW a \in Agents, NEW c \in Callbacks, Return(a, c),
           \/ holder[c] = a
           \/ holder[c] = Free /\ proc[a].at \in {"idle", "validated"}
    PROVE  LockHeldThroughout'
<1>1. proc'[a].at = "idle" /\ \A b \in Agents \ {a} : proc'[b] = proc[b]
  BY DEF Return, TypeOK, Idle
<1>2. \A d \in Callbacks : holder'[d] = IF d = c THEN Free ELSE holder[d]
  BY DEF Return, TypeOK
<1>3. \A d \in Callbacks : holder[d] = a => d = c
  BY FreeAssumption DEF LockHeldThroughout
<1>4. QED
  BY <1>1, <1>2, <1>3, FreeAssumption DEF LockHeldThroughout

\* A step from one locked step to another, or outside the lock.
LEMMA MoveKeepsLock ==
    ASSUME TypeOK, LockHeldThroughout, NEW a \in Agents, UNCHANGED holder,
           \A b \in Agents \ {a} : proc'[b] = proc[b],
           proc'[a].cb = proc[a].cb
             \/ {proc[a].at, proc'[a].at} \subseteq {"idle", "validated"},
           proc[a].at \in {"idle", "validated"}
             <=> proc'[a].at \in {"idle", "validated"}
    PROVE  LockHeldThroughout'
BY DEF LockHeldThroughout

LEMMA OperationKeepsLock ==
    ASSUME TypeOK, LockHeldThroughout,
           NEW a \in Agents, NEW c \in Callbacks, Operation(a, c)
    PROVE  LockHeldThroughout'
<1> USE DEF Enters, Reenters, At
<1>1. CASE UNCHANGED <<holder, proc>>
  BY <1>1 DEF LockHeldThroughout
<1>2. CASE OpenCallback(a, c) \/ BindCallback(a, c)
           \/ (\E o \in Reports : StageHandoff(a, c, o))
           \/ FallBackToTerminal(a, c) \/ MarkArchiveVerified(a, c)
           \/ InstallCallbackRelay(a, c) \/ CancelCallbackRelay(a, c)
  BY <1>1, <1>2
  DEF OpenCallback, BindCallback, StageHandoff, FallBackToTerminal,
      MarkArchiveVerified, InstallCallbackRelay, CancelCallbackRelay, Writes
<1>3. ASSUME NEW o \in Reports, SendCallback(a, c, o)
      PROVE  LockHeldThroughout'
  BY <1>3, HoldKeepsLock DEF SendCallback, Commit, Steps
<1>4. CASE Redeliver(a, c) \/ ScheduledRelay(a, c)
  BY <1>4, HoldKeepsLock DEF Redeliver, ScheduledRelay, Steps
<1>5. CASE ValidateHandoff(a, c)
  <2>1. proc'[a].at = "validated"
        /\ \A b \in Agents \ {a} : proc'[b] = proc[b]
    BY <1>5 DEF ValidateHandoff, TypeOK, Idle
  <2>2. QED
    BY <1>5, <2>1, MoveKeepsLock DEF ValidateHandoff
<1>6. CASE ReconcileBound(a, c)
  BY <1>6, HoldKeepsLock, ReturnKeepsLock DEF ReconcileBound, Commit, Steps
<1>7. CASE ReconcileUnbound(a, c)
  BY <1>7, HoldKeepsLock, ReturnKeepsLock DEF ReconcileUnbound, Commit, Steps
<1>8. CASE EnqueueWithBroker(a, c)
  <2>1. CASE Return(a, c)
    BY <1>8, <2>1, ReturnKeepsLock DEF EnqueueWithBroker
  <2>2. CASE proc' = [proc EXCEPT ![a].at = "deliver"] /\ UNCHANGED holder
    <3>1. proc'[a].at = "deliver" /\ proc'[a].cb = proc[a].cb
          /\ \A b \in Agents \ {a} : proc'[b] = proc[b]
      BY <2>2 DEF TypeOK, Processes
    <3>2. proc[a].at = "enqueue"
      BY <1>8 DEF EnqueueWithBroker
    <3>3. QED
      BY <2>2, <3>1, <3>2, MoveKeepsLock
  <2>3. QED
    BY <1>8, <2>1, <2>2 DEF EnqueueWithBroker
<1>9. CASE Refuse(a, c) \/ RefuseAfterAccept(a, c)
  BY <1>9, ReturnKeepsLock DEF Refuse, RefuseAfterAccept, StaysPending
<1>10. CASE Transmit(a, c)
  <2>1. PICK reply \in {"accepted", "ambiguous"} :
            proc' = [proc EXCEPT ![a].at = reply]
    BY <1>10 DEF Transmit
  <2>2. QED
    BY <1>10, <2>1, MoveKeepsLock DEF Transmit, TypeOK, Processes
<1>11. CASE RecordResult(a, c)
  BY <1>11, ReturnKeepsLock DEF RecordResult
<1>12. CASE ExpireIfNeeded(a, c) \/ AcknowledgeCallback(a, c)
            \/ AbandonCallback(a, c) \/ CancelCallback(a, c)
  BY <1>12, HoldKeepsLock
  DEF ExpireIfNeeded, AcknowledgeCallback, AbandonCallback, CancelCallback,
      Settle, Steps
<1>13. CASE MirrorBrokerState(a, c)
  BY <1>13, ReturnKeepsLock DEF MirrorBrokerState
<1>14. QED
  BY <1>2, <1>3, <1>4, <1>5, <1>6, <1>7, <1>8, <1>9, <1>10, <1>11, <1>12,
     <1>13
  DEF Operation

LEMMA NextKeepsLock ==
    TypeOK /\ LockHeldThroughout /\ [Next]_vars => LockHeldThroughout'
<1> SUFFICES ASSUME TypeOK, LockHeldThroughout, [Next]_vars
             PROVE  LockHeldThroughout'
  OBVIOUS
<1>1. CASE \E a \in Agents, c \in Callbacks : Operation(a, c)
  BY <1>1, OperationKeepsLock
<1>2. CASE (\E c \in Callbacks : TtlPasses(c)) \/ UNCHANGED vars
  BY <1>2 DEF TtlPasses, vars, LockHeldThroughout
<1>3. ASSUME NEW S \in SUBSET Agents, Crash(S)
      PROVE  LockHeldThroughout'
  <2>1. \A a \in Agents : proc'[a] = IF a \in S THEN Idle ELSE proc[a]
    BY <1>3 DEF Crash
  <2>2. \A c \in Callbacks :
            holder'[c] = IF holder[c] \in S THEN Free ELSE holder[c]
    BY <1>3 DEF Crash
  <2>3. Idle.at = "idle"
    BY DEF Idle
  <2>4. ASSUME NEW a \in Agents, NEW c \in Callbacks
        PROVE  holder'[c] = a <=> /\ proc'[a].at \notin {"idle", "validated"}
                                  /\ proc'[a].cb = c
    <3>1. CASE a \in S
      BY <2>1, <2>2, <2>3, <3>1, FreeAssumption
    <3>2. CASE a \notin S
      BY <2>1, <2>2, <3>2, FreeAssumption DEF LockHeldThroughout
    <3>3. QED
      BY <3>1, <3>2
  <2>5. QED
    BY <2>4 DEF LockHeldThroughout
<1>4. QED
  BY <1>1, <1>2, <1>3 DEF Next

\* The lock is held from the read of the record to the last write, for every
\* number of processes and whatever crashes.
THEOREM LockHeld == Spec => []LockHeldThroughout
<1>1. Init => LockHeldThroughout
  BY FreeAssumption DEF Init, LockHeldThroughout, Idle
<1>2. QED
  BY <1>1, TypeCorrect, NextKeepsLock, PTL DEF Spec

-----------------------------------------------------------------------------
(***************************************************************************)
(* What an operation can do to the record: the ten kinds of write.         *)
(***************************************************************************)
Opens(c) == Status(c) = "absent" /\ Put(c, NewRecord)

Binds(c) == Status(c) = "open"
            /\ Put(c, [record[c] EXCEPT !.conv = record[c].conv + 1])

Stages(c, o) ==
    /\ Status(c) = "open"
    /\ Put(c, [record[c] EXCEPT
           !.staged = "staged", !.stagedOutcome = o,
           !.stagedConv = record[c].conv])

\* A report is free only where no handoff was staged, or as a reconciliation.
Commits(c, o, told) ==
    /\ Status(c) = "open"
    /\ \/ record[c].staged = "none" /\ told = o /\ o \in FinalStatuses
       \/ /\ HandoffValid(record[c])
          /\ told = o /\ o = record[c].stagedOutcome
       \/ o = "reconcile"
    /\ Put(c, [record[c] EXCEPT
           !.status = "pending-delivery", !.outcome = o, !.told = told,
           !.delivery = "pending",
           !.staged = IF @ = "none" THEN "none" ELSE "consumed"])

Keeps(c, relay) ==
    /\ Status(c) = "pending-delivery"
    /\ relay \in {record[c].relay, "inert"}
    /\ Put(c, [record[c] EXCEPT !.status = "pending-delivery",
                                !.delivery = "pending", !.relay = relay])

EndsAttempt(c, status, delivery) ==
    /\ Status(c) = "pending-delivery"
    /\ \/ status = "sent" /\ delivery = "sent"
       \/ status = "delivery-indeterminate" /\ delivery = "indeterminate"
    /\ Put(c, [record[c] EXCEPT !.status = status, !.delivery = delivery])

Settles(c, status, relay) ==
    /\ Status(c) \in Expirable
    /\ \/ status = "cancelled" /\ relay = record[c].relay
       \/ status \in Terminal \ {"cancelled"} /\ relay \in {"none", "removed"}
    /\ status = "acknowledged" /\ record[c].outcome = "done" =>
           record[c].archived
    /\ status = "acknowledged" =>
           Status(c) \in {"sent", "delivery-indeterminate"}
    /\ Put(c, [record[c] EXCEPT !.status = status, !.relay = relay])

Archives(c) == /\ record[c].conv # 0
               /\ Put(c, [record[c] EXCEPT !.archived = TRUE])

Installs(c, relay) ==
    /\ relay = "removed" \/ Status(c) = "pending-delivery"
    /\ Put(c, [record[c] EXCEPT !.relay = relay])

RecordStep(c) ==
    \/ UNCHANGED record
    \/ Opens(c)
    \/ Binds(c)
    \/ \E o \in Reports : Stages(c, o)
    \/ \E o, told \in Outcomes \union {NoOutcome} : Commits(c, o, told)
    \/ \E relay \in Relays : Keeps(c, relay)
    \/ \E status, delivery : EndsAttempt(c, status, delivery)
    \/ \E status \in Terminal, relay \in Relays : Settles(c, status, relay)
    \/ Archives(c)
    \/ \E relay \in Relays : Installs(c, relay)

LEMMA OperationRecords ==
    ASSUME IInv, NEW a \in Agents, NEW c \in Callbacks, Operation(a, c)
    PROVE  RecordStep(c)
<1>0. record[c] \in Records /\ proc[a] \in Processes
  BY DEF IInv, TypeOK
<1>1. CASE OpenCallback(a, c)
  BY <1>1 DEF OpenCallback, RecordStep, Opens
<1>2. CASE BindCallback(a, c)
  BY <1>2 DEF BindCallback, Writes, RecordStep, Binds
<1>3. ASSUME NEW o \in Reports, StageHandoff(a, c, o)
      PROVE  RecordStep(c)
  BY <1>3 DEF StageHandoff, Writes, RecordStep, Stages
<1>4. ASSUME NEW o \in Reports, SendCallback(a, c, o)
      PROVE  RecordStep(c)
  <2>1. o \in Outcomes
    BY ReportsAssumption DEF Outcomes
  <2>2. Commits(c, o, o)
    BY <1>4, ReportsAssumption DEF SendCallback, Commit, Commits
  <2>3. QED
    BY <2>1, <2>2 DEF RecordStep
<1>5. CASE UNCHANGED record
  BY <1>5 DEF RecordStep
<1>6. CASE Redeliver(a, c) \/ ScheduledRelay(a, c) \/ ValidateHandoff(a, c)
           \/ EnqueueWithBroker(a, c) \/ Transmit(a, c)
           \/ FallBackToTerminal(a, c) \/ MirrorBrokerState(a, c)
  BY <1>5, <1>6
  DEF Redeliver, ScheduledRelay, ValidateHandoff, EnqueueWithBroker, Transmit,
      FallBackToTerminal, MirrorBrokerState
<1>7. CASE ReconcileBound(a, c)
  <2>1. proc[a].outcome \in Outcomes \union {NoOutcome}
    BY <1>0 DEF Processes, Outcomes
  <2>2. UNCHANGED record \/ Commits(c, proc[a].outcome, proc[a].outcome)
    BY <1>7 DEF ReconcileBound, Commit, Commits
  <2>3. QED
    BY <2>1, <2>2 DEF RecordStep
<1>8. CASE ReconcileUnbound(a, c)
  <2>1. proc[a].outcome \in Outcomes \union {NoOutcome}
        /\ "reconcile" \in Outcomes
    BY <1>0 DEF Processes, Outcomes
  <2>2. UNCHANGED record \/ Commits(c, "reconcile", proc[a].outcome)
    BY <1>8 DEF ReconcileUnbound, Commit, Commits
  <2>3. QED
    BY <2>1, <2>2 DEF RecordStep
<1>9. CASE StaysPending(a, c)
  <2>1. PICK relay \in {record[c].relay}
                       \union (IF proc[a].scheduled THEN {"inert"} ELSE {}) :
             Put(c, [record[c] EXCEPT !.status = "pending-delivery",
                                      !.delivery = "pending",
                                      !.relay = relay])
    BY <1>9 DEF StaysPending
  <2>2. relay \in {record[c].relay, "inert"} /\ relay \in Relays
    BY <1>0 DEF Records, Relays
  <2>3. Keeps(c, relay)
    BY <1>9, <2>1, <2>2
    DEF Keeps, StaysPending, At, IInv, FlightMatchesStatus
  <2>4. QED
    BY <2>2, <2>3 DEF RecordStep
<1>10. CASE RecordResult(a, c)
  <2>1. EndsAttempt(c, "sent", "sent")
        \/ EndsAttempt(c, "delivery-indeterminate", "indeterminate")
    BY <1>10
    DEF RecordResult, EndsAttempt, At, IInv, FlightMatchesStatus, Unrecorded
  <2>2. QED
    BY <2>1 DEF RecordStep
<1>11. RemoveRelay(record[c].relay) \in {"none", "removed"} \intersect Relays
  BY RemoveRelayTyped DEF Relays
<1>12. CASE ExpireIfNeeded(a, c)
  <2>1. Settles(c, "expired", RemoveRelay(record[c].relay))
    BY <1>11, <1>12 DEF ExpireIfNeeded, Settle, Settles, Terminal
  <2>2. QED
    BY <1>11, <2>1 DEF RecordStep, Terminal
<1>13. CASE AcknowledgeCallback(a, c)
  <2>1. Settles(c, "acknowledged", RemoveRelay(record[c].relay))
    BY <1>11, <1>13
    DEF AcknowledgeCallback, Settle, Settles, Terminal, Expirable
  <2>2. QED
    BY <1>11, <2>1 DEF RecordStep, Terminal
<1>14. CASE AbandonCallback(a, c)
  <2>1. Settles(c, "abandoned", RemoveRelay(record[c].relay))
    BY <1>11, <1>14 DEF AbandonCallback, Settle, Settles, Terminal, Expirable
  <2>2. QED
    BY <1>11, <2>1 DEF RecordStep, Terminal
<1>15. CASE CancelCallback(a, c)
  <2>1. Settles(c, "cancelled", record[c].relay)
    BY <1>15 DEF CancelCallback, Settle, Settles, Terminal, Expirable
  <2>2. QED
    BY <1>0, <2>1 DEF RecordStep, Terminal, Records
<1>16. CASE MarkArchiveVerified(a, c)
  BY <1>16 DEF MarkArchiveVerified, Writes, RecordStep, Archives
<1>17. CASE InstallCallbackRelay(a, c)
  <2>1. PICK relay \in {"installed", "install-failed"} :
             Installs(c, relay)
    BY <1>17 DEF InstallCallbackRelay, Writes, Installs
  <2>2. QED
    BY <2>1 DEF RecordStep, Relays
<1>18. CASE CancelCallbackRelay(a, c)
  <2>1. Installs(c, "removed")
    BY <1>18 DEF CancelCallbackRelay, Writes, Installs
  <2>2. QED
    BY <2>1 DEF RecordStep, Relays
<1>19. QED
  BY <1>1, <1>2, <1>3, <1>4, <1>6, <1>7, <1>8, <1>9, <1>10, <1>12, <1>13,
     <1>14, <1>15, <1>16, <1>17, <1>18
  DEF Operation, Refuse, RefuseAfterAccept

-----------------------------------------------------------------------------
(***************************************************************************)
(* At most one copy per crash.                                             *)
(***************************************************************************)
LEMMA IInvInit == Init => IInv
<1> SUFFICES ASSUME Init PROVE IInv
  OBVIOUS
<1>1. TypeOK
  BY InitTyped
<1>2. LockHeldThroughout
  BY FreeAssumption DEF Init, LockHeldThroughout, Idle
<1>3. /\ \A c \in Callbacks : Status(c) = "absent" /\ wire[c] = 0 /\ lost[c] = 0
      /\ \A a \in Agents : proc[a].at = "idle"
  BY DEF Init, Status, NewRecord, Idle
<1>4. DeliveryMatchesStatus /\ FlightMatchesStatus /\ CopiesCounted
  BY <1>3
  DEF DeliveryMatchesStatus, FlightMatchesStatus, CopiesCounted, Unrecorded,
      Exact
<1>5. QED
  BY <1>1, <1>2, <1>4 DEF IInv

LEMMA OperationKeepsDelivery ==
    ASSUME IInv, NEW c \in Callbacks, RecordStep(c)
    PROVE  DeliveryMatchesStatus'
<1> USE DEF DeliveryMatchesStatus, Status, IInv, TypeOK
<1>0. record[c] \in Records
  BY DEF TypeOK
<1>1. CASE UNCHANGED record
  BY <1>1
<1>2. CASE Opens(c)
  BY <1>2 DEF Put, Opens, NewRecord
<1>3. CASE Binds(c)
  BY <1>0, <1>3 DEF Put, Binds, Records
<1>4. ASSUME NEW o, Stages(c, o)
      PROVE  DeliveryMatchesStatus'
  BY <1>0, <1>4 DEF Put, Stages, Records
<1>5. ASSUME NEW o, NEW told, Commits(c, o, told)
      PROVE  DeliveryMatchesStatus'
  BY <1>0, <1>5 DEF Put, Commits, Records
<1>6. ASSUME NEW relay, Keeps(c, relay)
      PROVE  DeliveryMatchesStatus'
  BY <1>0, <1>6 DEF Put, Keeps, Records
<1>7. ASSUME NEW status, NEW delivery, EndsAttempt(c, status, delivery)
      PROVE  DeliveryMatchesStatus'
  <2>1. /\ record'[c].status = status /\ record'[c].delivery = delivery
        /\ \A d \in Callbacks \ {c} : record'[d] = record[d]
    BY <1>0, <1>7 DEF EndsAttempt, Put, Records
  <2>2. QED
    BY <1>7, <2>1 DEF EndsAttempt
<1>8. ASSUME NEW status \in Terminal, NEW relay, Settles(c, status, relay)
      PROVE  DeliveryMatchesStatus'
  BY <1>0, <1>8 DEF Put, Settles, Terminal, Records
<1>9. CASE Archives(c)
  BY <1>0, <1>9 DEF Put, Archives, Records
<1>10. ASSUME NEW relay, Installs(c, relay)
      PROVE  DeliveryMatchesStatus'
  BY <1>0, <1>10 DEF Put, Installs, Records
<1>11. QED
  BY <1>1, <1>2, <1>3, <1>4, <1>5, <1>6, <1>7, <1>8, <1>9, <1>10
  DEF RecordStep

\* The status only moves forward, unless it stays.
LEMMA StatusMoves ==
    ASSUME TypeOK, NEW c \in Callbacks, RecordStep(c)
    PROVE  /\ \A d \in Callbacks \ {c} : record'[d] = record[d]
           /\ \/ Status(c)' = Status(c)
              \/ Status(c) = "absent" /\ Status(c)' = "open"
              \/ Status(c) = "open" /\ Status(c)' = "pending-delivery"
              \/ /\ Status(c) \in Expirable
                 /\ Status(c)' \in Terminal \union {"sent",
                                                   "delivery-indeterminate"}
<1> USE DEF Status, Put
<1>0. record \in [Callbacks -> Records] /\ record[c] \in Records
  BY DEF TypeOK
<1>1. CASE UNCHANGED record
  BY <1>1
<1>2. CASE Opens(c)
  BY <1>0, <1>2 DEF Opens, NewRecord
<1>3. CASE Binds(c)
  BY <1>0, <1>3 DEF Binds, Records
<1>4. ASSUME NEW o, Stages(c, o) PROVE UNCHANGED Status(c)
                 /\ \A d \in Callbacks \ {c} : record'[d] = record[d]
  BY <1>0, <1>4 DEF Stages, Records
<1>5. ASSUME NEW o, NEW told, Commits(c, o, told)
      PROVE  /\ Status(c) = "open" /\ Status(c)' = "pending-delivery"
             /\ \A d \in Callbacks \ {c} : record'[d] = record[d]
  BY <1>0, <1>5 DEF Commits, Records
<1>6. ASSUME NEW relay, Keeps(c, relay)
      PROVE  /\ UNCHANGED Status(c)
             /\ \A d \in Callbacks \ {c} : record'[d] = record[d]
  BY <1>0, <1>6 DEF Keeps, Records
<1>7. ASSUME NEW status, NEW delivery, EndsAttempt(c, status, delivery)
      PROVE  /\ Status(c) \in Expirable
             /\ Status(c)' \in {"sent", "delivery-indeterminate"}
             /\ \A d \in Callbacks \ {c} : record'[d] = record[d]
  <2>1. /\ record'[c].status = status
        /\ \A d \in Callbacks \ {c} : record'[d] = record[d]
    BY <1>0, <1>7 DEF EndsAttempt, Records
  <2>2. QED
    BY <1>7, <2>1 DEF EndsAttempt, Expirable
<1>8. ASSUME NEW status \in Terminal, NEW relay, Settles(c, status, relay)
      PROVE  /\ Status(c) \in Expirable /\ Status(c)' \in Terminal
             /\ \A d \in Callbacks \ {c} : record'[d] = record[d]
  BY <1>0, <1>8 DEF Settles, Records
<1>9. CASE Archives(c)
  BY <1>0, <1>9 DEF Archives, Records
<1>10. ASSUME NEW relay, Installs(c, relay)
       PROVE  /\ UNCHANGED Status(c)
              /\ \A d \in Callbacks \ {c} : record'[d] = record[d]
  BY <1>0, <1>10 DEF Installs, Records
<1>11. QED
  BY <1>1, <1>2, <1>3, <1>4, <1>5, <1>6, <1>7, <1>8, <1>9, <1>10
  DEF RecordStep

\* What an operation of a on c leaves alone, and what it may not overtake.
Acts(a, c) ==
    /\ holder[c] \in {a, Free} \/ Status(c) = "absent"
    /\ proc[a].at \in {"idle", "validated"} \/ proc[a].cb = c
    /\ \A b \in Agents \ {a} : proc'[b] = proc[b]
    /\ \A d \in Callbacks \ {c} : wire'[d] = wire[d]
    /\ UNCHANGED lost

LEMMA OperationActs ==
    ASSUME TypeOK, NEW a \in Agents, NEW c \in Callbacks, Operation(a, c)
    PROVE  Acts(a, c)
<1> USE DEF Acts, TypeOK, Enters, At, Reenters, Ghosts
<1>1. CASE OpenCallback(a, c) \/ BindCallback(a, c)
           \/ (\E o \in Reports : StageHandoff(a, c, o))
           \/ MarkArchiveVerified(a, c)
           \/ InstallCallbackRelay(a, c) \/ CancelCallbackRelay(a, c)
  BY <1>1
  DEF OpenCallback, BindCallback, StageHandoff, MarkArchiveVerified,
      InstallCallbackRelay, CancelCallbackRelay, Writes
<1>2. CASE (\E o \in Reports : SendCallback(a, c, o))
           \/ Redeliver(a, c) \/ ScheduledRelay(a, c) \/ ValidateHandoff(a, c)
  BY <1>2
  DEF SendCallback, Commit, Redeliver, ScheduledRelay, ValidateHandoff, Hold
<1>3. CASE ReconcileBound(a, c) \/ ReconcileUnbound(a, c)
  BY <1>3 DEF ReconcileBound, ReconcileUnbound, Commit, Hold, Return
<1>4. CASE EnqueueWithBroker(a, c) \/ MirrorBrokerState(a, c)
           \/ RecordResult(a, c)
  BY <1>4 DEF EnqueueWithBroker, MirrorBrokerState, RecordResult, Return
<1>5. CASE Refuse(a, c) \/ RefuseAfterAccept(a, c)
           \/ FallBackToTerminal(a, c) \/ Transmit(a, c)
  BY <1>5
  DEF Refuse, RefuseAfterAccept, FallBackToTerminal, Transmit, StaysPending,
      Return
<1>6. CASE ExpireIfNeeded(a, c) \/ AcknowledgeCallback(a, c)
           \/ AbandonCallback(a, c) \/ CancelCallback(a, c)
  BY <1>6
  DEF ExpireIfNeeded, AcknowledgeCallback, AbandonCallback, CancelCallback,
      Settle, Hold
<1>7. QED
  BY <1>1, <1>2, <1>3, <1>4, <1>5, <1>6 DEF Operation

\* Where an operation leaves its own agent: FlightMatchesStatus, for one agent.
FlightOf(a) ==
    /\ proc[a].at = "enqueue" =>
          Status(proc[a].cb) \in {"pending-delivery", "delivery-indeterminate"}
    /\ proc[a].at \in {"deliver"} \union Unrecorded =>
          Status(proc[a].cb) = "pending-delivery"

LEMMA HoldLands ==
    ASSUME TypeOK, NEW a \in Agents, NEW c \in Callbacks, NEW s, NEW sched,
           Hold(a, c, s, sched)
    PROVE  proc'[a].at = s /\ proc'[a].cb = c
<1>1. proc' = [proc EXCEPT ![a] =
                 [Idle EXCEPT !.at = s, !.cb = c, !.scheduled = sched]]
  BY DEF Hold
<1>2. QED
  BY <1>1 DEF TypeOK, Idle

LEMMA ReturnLands ==
    ASSUME TypeOK, NEW a \in Agents, NEW c \in Callbacks, Return(a, c)
    PROVE  proc'[a].at = "idle"
BY DEF Return, TypeOK, Idle

LEMMA CommitLands ==
    ASSUME TypeOK, NEW a \in Agents, NEW c \in Callbacks, NEW o, NEW told,
           Commit(a, c, o, told)
    PROVE  /\ proc'[a].at = "enqueue" /\ proc'[a].cb = c
           /\ Status(c)' = "pending-delivery"
<1>1. record[c] \in Records
  BY DEF TypeOK
<1>2. Status(c)' = "pending-delivery"
  BY <1>1 DEF Commit, Put, Status, TypeOK, Records
<1>3. QED
  BY <1>2, HoldLands DEF Commit

LEMMA OperationFlight ==
    ASSUME IInv, NEW a \in Agents, NEW c \in Callbacks, Operation(a, c)
    PROVE  FlightOf(a)'
<1> USE DEF IInv, Unrecorded
<1>1. CASE proc'[a].at \in {"idle", "validated", "mirror"}
  BY <1>1 DEF FlightOf
<1>2. CASE OpenCallback(a, c) \/ BindCallback(a, c)
           \/ (\E o \in Reports : StageHandoff(a, c, o))
           \/ MarkArchiveVerified(a, c)
           \/ InstallCallbackRelay(a, c) \/ CancelCallbackRelay(a, c)
  BY <1>1, <1>2
  DEF OpenCallback, BindCallback, StageHandoff, MarkArchiveVerified,
      InstallCallbackRelay, CancelCallbackRelay, Writes, Enters
<1>3. CASE \E o, told : Commit(a, c, o, told)
  BY <1>3, CommitLands DEF FlightOf
<1>4. ASSUME NEW sched, Hold(a, c, "enqueue", sched), UNCHANGED record,
             Status(c) \in {"pending-delivery", "delivery-indeterminate"}
      PROVE  FlightOf(a)'
  BY <1>4, HoldLands DEF FlightOf, Status
<1>5. CASE Return(a, c)
  BY <1>1, <1>5, ReturnLands
<1>6. CASE (\E o \in Reports : SendCallback(a, c, o))
           \/ Redeliver(a, c) \/ ScheduledRelay(a, c)
           \/ ReconcileBound(a, c) \/ ReconcileUnbound(a, c)
  BY <1>3, <1>4, <1>5, <1>6
  DEF SendCallback, Redeliver, ScheduledRelay, ReconcileBound,
      ReconcileUnbound
<1>7. CASE ValidateHandoff(a, c)
  <2>1. proc'[a].at = "validated"
    BY <1>7 DEF ValidateHandoff, TypeOK, Idle
  <2>2. QED
    BY <1>1, <2>1
<1>8. CASE EnqueueWithBroker(a, c)
  <2>1. CASE record[c].delivery = "indeterminate"
    BY <1>5, <1>8, <2>1 DEF EnqueueWithBroker
  <2>2. CASE record[c].delivery # "indeterminate"
    <3>1. Status(c) = "pending-delivery"
      BY <1>8, <2>2
      DEF EnqueueWithBroker, At, FlightMatchesStatus, DeliveryMatchesStatus
    <3>2. proc'[a].cb = c
      BY <1>8, <2>2 DEF EnqueueWithBroker, At, TypeOK, Processes
    <3>3. Status(c)' = Status(c)
      BY <1>8 DEF EnqueueWithBroker, Status
    <3>4. proc'[a].at = "deliver"
      BY <1>8, <2>2 DEF EnqueueWithBroker, TypeOK, Processes
    <3>5. QED
      BY <3>1, <3>2, <3>3, <3>4 DEF FlightOf
  <2>3. QED
    BY <2>1, <2>2
<1>9. CASE FallBackToTerminal(a, c)
  BY <1>9 DEF FallBackToTerminal, FlightOf, FlightMatchesStatus, Status
<1>10. CASE Transmit(a, c)
  <2>1. PICK reply \in {"accepted", "ambiguous"} :
            proc' = [proc EXCEPT ![a].at = reply]
    BY <1>10 DEF Transmit
  <2>2. proc'[a].cb = c /\ proc'[a].at = reply
    BY <1>10, <2>1 DEF Transmit, At, TypeOK, Processes
  <2>3. Status(c) = "pending-delivery" /\ Status(c)' = Status(c)
    BY <1>10 DEF Transmit, At, FlightMatchesStatus, Status
  <2>4. QED
    BY <2>1, <2>2, <2>3 DEF FlightOf
<1>11. CASE Refuse(a, c) \/ RefuseAfterAccept(a, c) \/ RecordResult(a, c)
            \/ MirrorBrokerState(a, c)
  BY <1>5, <1>11
  DEF Refuse, RefuseAfterAccept, RecordResult, MirrorBrokerState, StaysPending
<1>12. CASE ExpireIfNeeded(a, c) \/ AcknowledgeCallback(a, c)
            \/ AbandonCallback(a, c) \/ CancelCallback(a, c)
  BY <1>1, <1>12, HoldLands
  DEF ExpireIfNeeded, AcknowledgeCallback, AbandonCallback, CancelCallback,
      Settle
<1>13. QED
  BY <1>2, <1>6, <1>7, <1>8, <1>9, <1>10, <1>11, <1>12 DEF Operation

LEMMA OperationKeepsFlight ==
    ASSUME IInv, NEW a \in Agents, NEW c \in Callbacks, Operation(a, c)
    PROVE  FlightMatchesStatus'
<1>1. Acts(a, c)
  BY OperationActs DEF IInv
<1>2. \A d \in Callbacks \ {c} : Status(d)' = Status(d)
  BY OperationRecords, StatusMoves DEF IInv, Status
<1>3. ASSUME NEW b \in Agents \ {a}
      PROVE  FlightOf(b)'
  <2>1. proc'[b] = proc[b] /\ proc[b].cb \in Callbacks
    BY <1>1 DEF Acts, IInv, TypeOK, Processes
  <2>2. FlightOf(b)
    BY DEF IInv, FlightMatchesStatus, FlightOf
  <2>3. CASE proc[b].cb # c
    BY <1>2, <2>1, <2>2, <2>3 DEF FlightOf
  <2>4. CASE proc[b].cb = c
    <3>1. proc[b].at \notin {"enqueue", "deliver"} \union Unrecorded
      BY <1>1, <2>2, <2>4, Alone DEF IInv, Acts, FlightOf, Unrecorded
    <3>2. QED
      BY <2>1, <3>1 DEF FlightOf
  <2>5. QED
    BY <2>3, <2>4
<1>4. QED
  BY <1>3, OperationFlight DEF FlightOf, FlightMatchesStatus

\* CopiesCounted, for one callback.
CopiesOf(c) ==
    /\ wire[c] <= lost[c] + 1
    /\ Status(c) \in {"absent", "open"} => wire[c] = 0
    /\ Status(c) = "pending-delivery" /\ ~Transmitting(c) => wire[c] <= lost[c]

\* An operation that transmits nothing and does not end a transmission.
LEMMA QuietKeepsCopies ==
    ASSUME IInv, NEW a \in Agents, NEW c \in Exact, Operation(a, c),
           wire'[c] = wire[c],
           proc[a].at \notin Unrecorded
    PROVE  CopiesOf(c)'
<1>0. c \in Callbacks /\ wire[c] \in Nat /\ lost[c] \in Nat
  BY DEF Exact, IInv, TypeOK
<1>1. Acts(a, c)
  BY <1>0, OperationActs DEF IInv
<1>2. \/ Status(c)' = Status(c)
      \/ Status(c) = "absent" /\ Status(c)' = "open"
      \/ Status(c) = "open" /\ Status(c)' = "pending-delivery"
      \/ Status(c)' \in Terminal \union {"sent", "delivery-indeterminate"}
  BY <1>0, OperationRecords, StatusMoves DEF IInv
<1>3. Status(c) = "pending-delivery" => ~Transmitting(c)
  BY <1>0, <1>1, Alone DEF Acts, Transmitting, Unrecorded, IInv
<1>4. UNCHANGED <<wire[c], lost[c]>>
  BY <1>1 DEF Acts
<1>5. CopiesOf(c)
  BY DEF IInv, CopiesCounted, CopiesOf
<1>6. QED
  BY <1>0, <1>2, <1>3, <1>4, <1>5 DEF CopiesOf, Terminal

LEMMA OperationCopies ==
    ASSUME IInv, NEW a \in Agents, NEW c \in Exact, Operation(a, c)
    PROVE  CopiesOf(c)'
<1>0. c \in Callbacks /\ wire \in [Callbacks -> Nat] /\ lost[c] \in Nat
  BY DEF Exact, IInv, TypeOK
<1>1. Acts(a, c) /\ CopiesOf(c)
  BY <1>0, OperationActs DEF IInv, CopiesCounted, CopiesOf
<1>2. CASE Transmit(a, c)
  <2>1. Status(c) = "pending-delivery" /\ Status(c)' = "pending-delivery"
    BY <1>2 DEF Transmit, At, IInv, FlightMatchesStatus, Status
  <2>2. ~Transmitting(c)
    BY <1>0, <1>1, <1>2, Alone
    DEF Transmit, At, Transmitting, Unrecorded, IInv
  <2>3. PICK reached \in BOOLEAN, reply \in {"accepted", "ambiguous"} :
            /\ wire' = [wire EXCEPT ![c] = IF reached THEN @ + 1 ELSE @]
            /\ proc' = [proc EXCEPT ![a].at = reply]
    BY <1>2 DEF Transmit
  <2>4. Transmitting(c)'
    BY <1>2, <2>3
    DEF Transmit, At, Transmitting, Unrecorded, IInv, TypeOK, Processes
  <2>5. wire'[c] <= wire[c] + 1
    BY <1>0, <2>3
  <2>6. wire[c] <= lost[c] /\ lost'[c] = lost[c]
    BY <1>1, <2>1, <2>2 DEF CopiesOf, Acts
  <2>7. wire'[c] \in Nat
    BY <1>0, <2>3
  <2>8. QED
    BY <1>0, <2>1, <2>4, <2>5, <2>6, <2>7 DEF CopiesOf
<1>3. CASE RecordResult(a, c)
  <2>1. Status(c)' \in {"sent", "delivery-indeterminate"}
    <3>1. record[c] \in Records
      BY <1>0 DEF IInv, TypeOK
    <3>2. CASE Put(c, [record[c] EXCEPT !.status = "sent", !.delivery = "sent"])
      BY <1>0, <3>1, <3>2 DEF Put, Status, IInv, TypeOK, Records
    <3>3. CASE Put(c, [record[c] EXCEPT !.status = "delivery-indeterminate",
                                        !.delivery = "indeterminate"])
      BY <1>0, <3>1, <3>3 DEF Put, Status, IInv, TypeOK, Records
    <3>4. QED
      BY <1>3, <3>2, <3>3 DEF RecordResult
  <2>2. wire' = wire /\ lost' = lost
    BY <1>3 DEF RecordResult, Ghosts
  <2>3. QED
    BY <1>1, <2>1, <2>2 DEF CopiesOf
<1>4. CASE RefuseAfterAccept(a, c) \/ FallBackToTerminal(a, c)
  BY <1>4 DEF RefuseAfterAccept, FallBackToTerminal, Exact
<1>5. CASE wire'[c] = wire[c] /\ proc[a].at \notin Unrecorded
  BY <1>5, QuietKeepsCopies
<1>6. CASE OpenCallback(a, c) \/ BindCallback(a, c)
           \/ (\E o \in Reports : StageHandoff(a, c, o) \/ SendCallback(a, c, o))
           \/ Redeliver(a, c) \/ ScheduledRelay(a, c) \/ ValidateHandoff(a, c)
           \/ MarkArchiveVerified(a, c)
           \/ InstallCallbackRelay(a, c) \/ CancelCallbackRelay(a, c)
  BY <1>5, <1>6
  DEF OpenCallback, BindCallback, StageHandoff, SendCallback, Redeliver,
      ScheduledRelay, ValidateHandoff, MarkArchiveVerified,
      InstallCallbackRelay, CancelCallbackRelay, Writes, Enters, Ghosts,
      Unrecorded
<1>7. CASE ReconcileBound(a, c) \/ ReconcileUnbound(a, c)
           \/ EnqueueWithBroker(a, c) \/ Refuse(a, c)
           \/ MirrorBrokerState(a, c)
  BY <1>5, <1>7
  DEF ReconcileBound, ReconcileUnbound, EnqueueWithBroker, Refuse,
      StaysPending, MirrorBrokerState, Reenters, At, Ghosts, Unrecorded
<1>8. CASE ExpireIfNeeded(a, c) \/ AcknowledgeCallback(a, c)
           \/ AbandonCallback(a, c) \/ CancelCallback(a, c)
  BY <1>5, <1>8
  DEF ExpireIfNeeded, AcknowledgeCallback, AbandonCallback, CancelCallback,
      Settle, Enters, Reenters, Ghosts, Unrecorded
<1>9. QED
  BY <1>2, <1>3, <1>4, <1>6, <1>7, <1>8 DEF Operation

LEMMA OperationKeepsCopies ==
    ASSUME IInv, NEW a \in Agents, NEW c \in Callbacks, Operation(a, c)
    PROVE  CopiesCounted'
<1>1. Acts(a, c)
  BY OperationActs DEF IInv
<1>2. ASSUME NEW d \in Exact \ {c}
      PROVE  CopiesOf(d)'
  <2>1. d \in Callbacks /\ CopiesOf(d)
    BY DEF Exact, IInv, CopiesCounted, CopiesOf
  <2>2. UNCHANGED <<Status(d), wire[d], lost[d]>>
    BY <1>1, <2>1, OperationRecords, StatusMoves DEF IInv, Status, Acts
  <2>3. Transmitting(d) => Transmitting(d)'
    BY <1>1 DEF Acts, Transmitting, Unrecorded
  <2>4. QED
    BY <2>1, <2>2, <2>3 DEF CopiesOf
<1>3. c \in Exact => CopiesOf(c)'
  BY OperationCopies
<1>4. QED
  BY <1>2, <1>3 DEF CopiesCounted, CopiesOf

\* A crash excuses what it leaves unrecorded.
LEMMA CrashKeepsIInv ==
    ASSUME IInv, NEW S \in SUBSET Agents, Crash(S)
    PROVE  DeliveryMatchesStatus' /\ FlightMatchesStatus' /\ CopiesCounted'
<1>1. UNCHANGED <<record, wire>>
  BY DEF Crash
<1>2. \A a \in Agents : proc'[a] = IF a \in S THEN Idle ELSE proc[a]
  BY DEF Crash
<1>3. Idle.at = "idle"
  BY DEF Idle
<1>4. DeliveryMatchesStatus'
  BY <1>1 DEF IInv, DeliveryMatchesStatus, Status
<1>5. FlightMatchesStatus'
  BY <1>1, <1>2, <1>3 DEF IInv, FlightMatchesStatus, Status, Unrecorded
<1>6. ASSUME NEW c \in Exact
      PROVE  CopiesOf(c)'
  <2>0. c \in Callbacks /\ wire[c] \in Nat /\ lost[c] \in Nat
    BY DEF Exact, IInv, TypeOK
  <2>1. CopiesOf(c)
    BY DEF IInv, CopiesCounted, CopiesOf
  <2>2. lost'[c] = IF \E a \in S : proc[a].at \in Unrecorded /\ proc[a].cb = c
                   THEN lost[c] + 1 ELSE lost[c]
    BY <2>0 DEF Crash
  <2>3. CASE \E a \in S : proc[a].at \in Unrecorded /\ proc[a].cb = c
    BY <1>1, <2>0, <2>1, <2>2, <2>3 DEF CopiesOf, Status
  <2>4. CASE ~ \E a \in S : proc[a].at \in Unrecorded /\ proc[a].cb = c
    <3>1. Transmitting(c) => Transmitting(c)'
      BY <1>2, <2>4 DEF Transmitting
    <3>2. QED
      BY <1>1, <2>0, <2>1, <2>2, <2>4, <3>1 DEF CopiesOf, Status
  <2>5. QED
    BY <2>3, <2>4
<1>7. QED
  BY <1>4, <1>5, <1>6 DEF CopiesCounted, CopiesOf

LEMMA IInvNext == IInv /\ [Next]_vars => IInv'
<1> SUFFICES ASSUME IInv, [Next]_vars PROVE IInv'
  OBVIOUS
<1>1. TypeOK' /\ LockHeldThroughout'
  BY NextTyped, NextKeepsLock DEF IInv
<1>2. ASSUME NEW a \in Agents, NEW c \in Callbacks, Operation(a, c)
      PROVE  DeliveryMatchesStatus' /\ FlightMatchesStatus' /\ CopiesCounted'
  BY <1>2, OperationRecords, OperationKeepsDelivery, OperationKeepsFlight,
     OperationKeepsCopies
<1>3. ASSUME NEW S \in SUBSET Agents, Crash(S)
      PROVE  DeliveryMatchesStatus' /\ FlightMatchesStatus' /\ CopiesCounted'
  BY <1>3, CrashKeepsIInv
<1>4. CASE (\E c \in Callbacks : TtlPasses(c)) \/ UNCHANGED vars
  <2>1. UNCHANGED <<record, proc, wire, lost>>
    BY <1>4 DEF TtlPasses, vars
  <2>2. DeliveryMatchesStatus' /\ FlightMatchesStatus'
    BY <2>1 DEF IInv, DeliveryMatchesStatus, FlightMatchesStatus, Status
  <2>3. CopiesCounted'
    BY <2>1 DEF IInv, CopiesCounted, Transmitting, Status
  <2>4. QED
    BY <1>1, <2>2, <2>3 DEF IInv
<1>5. QED
  BY <1>1, <1>2, <1>3, <1>4 DEF Next, IInv

THEOREM Invariant == Spec => []IInv
BY IInvInit, IInvNext, PTL DEF Spec

\* The message of a callback with a faithful transport is duplicated only by
\* crashes, one copy each, for any number of processes, callbacks and retries.
THEOREM AtMostOnce == Spec => []AtMostOncePerCrash
<1>1. IInv => AtMostOncePerCrash
  BY DEF IInv, CopiesCounted, AtMostOncePerCrash
<1>2. QED
  BY <1>1, Invariant, PTL

\* Nothing but a callback that is still pending is transmitted.
THEOREM OnlyPendingTransmits == Spec => NoRetransmission
<1>1. ASSUME IInv, NEW a \in Agents, NEW c \in Callbacks, Operation(a, c),
             NEW d \in Callbacks, wire'[d] # wire[d]
      PROVE  Status(d) = "pending-delivery" /\ record[d].delivery = "pending"
  <2>1. wire' = wire \/ (At(a, c, "deliver") /\ d = c)
    <3>1. Acts(a, c)
      BY <1>1, OperationActs DEF IInv
    <3>2. d = c
      BY <1>1, <3>1 DEF Acts
    <3>3. UNCHANGED wire \/ Refuse(a, c) \/ RefuseAfterAccept(a, c)
          \/ FallBackToTerminal(a, c) \/ Transmit(a, c)
      BY <1>1
      DEF Operation, OpenCallback, BindCallback, StageHandoff, SendCallback,
          Redeliver, ScheduledRelay, ValidateHandoff, ReconcileBound,
          ReconcileUnbound, EnqueueWithBroker, RecordResult, ExpireIfNeeded,
          MarkArchiveVerified, AcknowledgeCallback, AbandonCallback,
          CancelCallback, MirrorBrokerState, InstallCallbackRelay,
          CancelCallbackRelay, Writes, Settle, Ghosts
    <3>4. QED
      BY <3>2, <3>3
      DEF Refuse, RefuseAfterAccept, FallBackToTerminal, Transmit, StaysPending
  <2>2. QED
    BY <1>1, <2>1
    DEF IInv, At, FlightMatchesStatus, DeliveryMatchesStatus
<1>2. IInv /\ [Next]_vars =>
          [\A c \in Callbacks : wire'[c] # wire[c] =>
              /\ Status(c) = "pending-delivery"
              /\ record[c].delivery = "pending"]_vars
  BY <1>1 DEF Next, TtlPasses, Crash
<1>3. QED
  BY <1>2, Invariant, PTL DEF Spec, NoRetransmission

-----------------------------------------------------------------------------
(***************************************************************************)
(* What a callback reports and what it leaves behind.  Each property is    *)
(* about one record, so it is proved along the ten kinds of write          *)
(* (RecordStep) that OperationRecords derives from the operations.         *)
(***************************************************************************)
\* The three properties for one record.  They are not inductive by themselves:
\* a handoff is consumed only by a commitment, and an archive proof is kept
\* only for a bound conversation.
Consistent(r) ==
    /\ r.status \in {"acknowledged", "expired", "abandoned"} =>
          r.relay \in {"none", "removed"}
    /\ r.status \in {"absent", "open"} => r.staged # "consumed"
    /\ r.staged = "consumed" /\ r.outcome # "reconcile" =>
          r.told = r.stagedOutcome /\ r.conv = r.stagedConv
    /\ r.status = "absent" => r.outcome = NoOutcome
    /\ r.staged = "staged" => r.stagedOutcome \in FinalStatuses
    /\ r.archived => r.conv # 0
    /\ r.status = "acknowledged" /\ r.outcome = "done" => r.archived

LEMMA StepKeepsConsistent ==
    ASSUME TypeOK, NEW c \in Callbacks, RecordStep(c), Consistent(record[c])
    PROVE  Consistent(record'[c])
<1> USE DEF Put, Status, Consistent
<1>0. record \in [Callbacks -> Records] /\ record[c] \in Records
  BY DEF TypeOK
<1>1. CASE UNCHANGED record
  BY <1>1
<1>2. CASE Opens(c)
  BY <1>0, <1>2 DEF Opens, NewRecord
<1>3. CASE Binds(c)
  <2>1. record'[c] = [record[c] EXCEPT !.conv = record[c].conv + 1]
    BY <1>0, <1>3 DEF Binds
  <2>2. /\ record'[c].status = "open" /\ record'[c].staged = record[c].staged
        /\ record'[c].conv = record[c].conv + 1
        /\ record'[c].archived = record[c].archived
    BY <1>0, <1>3, <2>1 DEF Binds, Records
  <2>3. record[c].conv \in 0..MaxBinds
    BY <1>0 DEF Records
  <2>4. record[c].conv + 1 # 0
    BY <2>3, BoundsAssumption
  <2>5. QED
    BY <1>3, <2>2, <2>4 DEF Binds
<1>4. ASSUME NEW o \in Reports, Stages(c, o)
      PROVE  Consistent(record'[c])
  BY <1>0, <1>4, ReportsAssumption DEF Stages, Records
<1>5. ASSUME NEW o, NEW told, Commits(c, o, told)
      PROVE  Consistent(record'[c])
  <2>1. /\ record'[c].status = "pending-delivery"
        /\ record'[c].outcome = o /\ record'[c].told = told
        /\ record'[c].staged = IF record[c].staged = "none" THEN "none"
                               ELSE "consumed"
        /\ record'[c].stagedOutcome = record[c].stagedOutcome
        /\ record'[c].stagedConv = record[c].stagedConv
        /\ record'[c].conv = record[c].conv
        /\ record'[c].archived = record[c].archived
    BY <1>0, <1>5 DEF Commits, Records
  <2>2. QED
    BY <1>5, <2>1 DEF Commits, HandoffValid
<1>6. ASSUME NEW relay, Keeps(c, relay)
      PROVE  Consistent(record'[c])
  BY <1>0, <1>6 DEF Keeps, Records
<1>7. ASSUME NEW status, NEW delivery, EndsAttempt(c, status, delivery)
      PROVE  Consistent(record'[c])
  <2>1. record'[c] = [record[c] EXCEPT !.status = status,
                                       !.delivery = delivery]
    BY <1>0, <1>7 DEF EndsAttempt
  <2>2. status \in {"sent", "delivery-indeterminate"}
    BY <1>7 DEF EndsAttempt
  <2>3. QED
    BY <1>0, <1>7, <2>1, <2>2 DEF EndsAttempt, Records
<1>8. ASSUME NEW status \in Terminal, NEW relay, Settles(c, status, relay)
      PROVE  Consistent(record'[c])
  <2>1. record'[c] = [record[c] EXCEPT !.status = status, !.relay = relay]
    BY <1>0, <1>8 DEF Settles
  <2>2. status \notin {"absent", "open"}
    BY DEF Terminal
  <2>3. status = "cancelled" \/ relay \in {"none", "removed"}
    BY <1>8 DEF Settles
  <2>4. status = "acknowledged" /\ record[c].outcome = "done" =>
            record[c].archived
    BY <1>8 DEF Settles
  <2>5. QED
    BY <1>0, <2>1, <2>2, <2>3, <2>4 DEF Records
<1>9. CASE Archives(c)
  BY <1>0, <1>9 DEF Archives, Records
<1>10. ASSUME NEW relay, Installs(c, relay)
       PROVE  Consistent(record'[c])
  BY <1>0, <1>10 DEF Installs, Records
<1>11. QED
  BY <1>1, <1>2, <1>3, <1>4, <1>5, <1>6, <1>7, <1>8, <1>9, <1>10
  DEF RecordStep

AllConsistent == \A c \in Callbacks : Consistent(record[c])

LEMMA AlwaysConsistent == Spec => []AllConsistent
<1>1. Init => AllConsistent
  BY DEF Init, AllConsistent, Consistent, NewRecord
<1>2. IInv /\ AllConsistent /\ [Next]_vars => AllConsistent'
  <2> SUFFICES ASSUME IInv, AllConsistent, [Next]_vars
               PROVE  AllConsistent'
    OBVIOUS
  <2>1. ASSUME NEW a \in Agents, NEW c \in Callbacks, Operation(a, c)
        PROVE  AllConsistent'
    <3>1. RecordStep(c)
      BY <2>1, OperationRecords
    <3>2. \A d \in Callbacks \ {c} : record'[d] = record[d]
      BY <3>1, StatusMoves DEF IInv
    <3>3. Consistent(record'[c])
      BY <3>1, StepKeepsConsistent DEF IInv, AllConsistent
    <3>4. QED
      BY <3>2, <3>3 DEF AllConsistent
  <2>2. CASE UNCHANGED record
    BY <2>2 DEF AllConsistent
  <2>3. QED
    BY <2>1, <2>2 DEF Next, TtlPasses, Crash, vars
<1>3. QED
  BY <1>1, <1>2, Invariant, PTL DEF Spec

\* A bound completion is reported as staged, for the conversation it was
\* staged for.
THEOREM ReportsHandoff == Spec => []HandoffFidelity
<1>1. AllConsistent => HandoffFidelity
  BY DEF AllConsistent, Consistent, HandoffFidelity
<1>2. QED
  BY <1>1, AlwaysConsistent, PTL

\* No done is acknowledged without the archive proof of a conversation.
THEOREM AcknowledgesArchived == Spec => []DoneIsArchived
<1>1. AllConsistent => DoneIsArchived
  BY DEF AllConsistent, Consistent, DoneIsArchived, Status
<1>2. QED
  BY <1>1, AlwaysConsistent, PTL

\* No launchd job outlives a receipt, an expiry or an abandonment.
THEOREM RetiresRelay == Spec => []RelayRetired
<1>1. AllConsistent => RelayRetired
  BY DEF AllConsistent, Consistent, RelayRetired, Status
<1>2. QED
  BY <1>1, AlwaysConsistent, PTL

-----------------------------------------------------------------------------
(***************************************************************************)
(* CallbackRecord implements OneShotCallback: every step of every process  *)
(* is a step of the promise or a stutter.                                  *)
(***************************************************************************)
LEMMA PhaseValues ==
    /\ Phase("absent") = "absent"
    /\ Phase("open") = "open"
    /\ Phase("pending-delivery") = "pending"
    /\ Phase("sent") = "delivered"
    /\ Phase("delivery-indeterminate") = "delivered"
    /\ Phase("acknowledged") = "acknowledged"
    /\ Phase("expired") = "closed"
    /\ Phase("cancelled") = "closed"
    /\ Phase("abandoned") = "closed"
BY DEF Phase

\* A step that changes one callback changes the mapped functions at one point.
LEMMA MapsOne ==
    ASSUME NEW c \in Exact,
           \A d \in Exact \ {c} : /\ record'[d] = record[d]
                                  /\ wire'[d] = wire[d],
           UNCHANGED lost
    PROVE  /\ phase' = [phase EXCEPT ![c] = Phase(Status(c)')]
           /\ report' = [report EXCEPT ![c] = record'[c].outcome]
           /\ copies' = [copies EXCEPT ![c] = wire'[c]]
           /\ excused' = excused
<1>1. \A d \in Exact \ {c} : Phase(Status(d))' = Phase(Status(d))
  BY DEF Phase, Status
<1>2. Phase(Status(c))' = Phase(Status(c)')
  BY DEF Phase
<1>3. phase' = [phase EXCEPT ![c] = Phase(Status(c)')]
  BY <1>1, <1>2 DEF phase
<1>4. report' = [report EXCEPT ![c] = record'[c].outcome]
  BY DEF report
<1>5. copies' = [copies EXCEPT ![c] = wire'[c]]
  BY DEF copies
<1>6. excused' = excused
  BY DEF excused
<1>7. QED
  BY <1>3, <1>4, <1>5, <1>6

\* What a write to the record of c is for the promise.
LEMMA WritePromises ==
    ASSUME IInv, AllConsistent, NEW c \in Exact, RecordStep(c),
           UNCHANGED <<wire, lost>>
    PROVE  [Promise!Next]_(Promise!vars)
<1> USE DEF Put, Status
<1>0. /\ c \in Callbacks
      /\ record \in [Callbacks -> Records] /\ record[c] \in Records
      /\ Consistent(record[c])
  BY DEF Exact, IInv, TypeOK, AllConsistent
<1>1. /\ phase' = [phase EXCEPT ![c] = Phase(Status(c)')]
      /\ report' = [report EXCEPT ![c] = record'[c].outcome]
      /\ copies' = copies
      /\ excused' = excused
  <2>1. \A d \in Exact \ {c} : record'[d] = record[d] /\ wire'[d] = wire[d]
    BY <1>0, StatusMoves DEF IInv, Exact
  <2>2. copies' = copies
    BY DEF copies
  <2>3. QED
    BY <2>1, <2>2, MapsOne
<1>2. /\ phase \in [Exact -> {Phase(s) : s \in Statuses}]
      /\ phase[c] = Phase(record[c].status)
      /\ report[c] = record[c].outcome
  BY <1>0 DEF phase, report, IInv, TypeOK, Exact, Records
<1>3. phase = [phase EXCEPT ![c] = Phase(record[c].status)]
      /\ report = [report EXCEPT ![c] = record[c].outcome]
  BY <1>2 DEF phase, report
<1>4. ASSUME record'[c].status = record[c].status,
             record'[c].outcome = record[c].outcome
      PROVE  [Promise!Next]_(Promise!vars)
  BY <1>1, <1>3, <1>4 DEF Promise!vars
<1>5. CASE UNCHANGED record
  BY <1>4, <1>5
<1>6. CASE Opens(c)
  <2>1. record'[c].status = "open" /\ record'[c].outcome = NoOutcome
    BY <1>0, <1>6 DEF Opens, NewRecord
  <2>2. record[c].status = "absent" /\ record[c].outcome = NoOutcome
    BY <1>0, <1>6 DEF Opens, Consistent
  <2>3. Promise!Open(c)
    BY <1>1, <1>2, <1>3, <2>1, <2>2, PhaseValues DEF Promise!Open
  <2>4. QED
    BY <2>3 DEF Promise!Next
<1>7. CASE Binds(c)
  BY <1>0, <1>4, <1>7 DEF Binds, Records
<1>8. ASSUME NEW o, Stages(c, o)
      PROVE  [Promise!Next]_(Promise!vars)
  BY <1>0, <1>4, <1>8 DEF Stages, Records
<1>9. ASSUME NEW o, NEW told, Commits(c, o, told)
      PROVE  [Promise!Next]_(Promise!vars)
  <2>1. record'[c].status = "pending-delivery" /\ record'[c].outcome = o
    BY <1>0, <1>9 DEF Commits, Records
  <2>2. o \in Outcomes
    BY <1>0, <1>9 DEF Commits, HandoffValid, Consistent, Outcomes
  <2>3. Promise!Commit(c, o)
    BY <1>1, <1>2, <1>9, <2>1, PhaseValues DEF Commits, Promise!Commit
  <2>4. QED
    BY <2>2, <2>3 DEF Promise!Next
<1>10. ASSUME NEW relay, Keeps(c, relay)
       PROVE  [Promise!Next]_(Promise!vars)
  BY <1>0, <1>4, <1>10 DEF Keeps, Records
<1>11. ASSUME NEW status, NEW delivery, EndsAttempt(c, status, delivery)
       PROVE  [Promise!Next]_(Promise!vars)
  <2>1. record'[c] = [record[c] EXCEPT !.status = status,
                                       !.delivery = delivery]
    BY <1>0, <1>11 DEF EndsAttempt
  <2>2. record'[c].status = status /\ record'[c].outcome = record[c].outcome
    BY <1>0, <2>1 DEF Records
  <2>3. record[c].status = "pending-delivery"
        /\ status \in {"sent", "delivery-indeterminate"}
    BY <1>11 DEF EndsAttempt
  <2>4. Promise!Deliver(c)
    BY <1>1, <1>2, <1>3, <2>2, <2>3, PhaseValues DEF Promise!Deliver
  <2>5. QED
    BY <2>4 DEF Promise!Next
<1>12. ASSUME NEW status \in Terminal, NEW relay, Settles(c, status, relay)
       PROVE  [Promise!Next]_(Promise!vars)
  <2>1. record'[c] = [record[c] EXCEPT !.status = status, !.relay = relay]
    BY <1>0, <1>12 DEF Settles
  <2>2. record'[c].status = status /\ record'[c].outcome = record[c].outcome
    BY <1>0, <2>1 DEF Records
  <2>3. CASE status = "acknowledged"
    <3>1. record[c].status \in {"sent", "delivery-indeterminate"}
      BY <1>12, <2>3 DEF Settles
    <3>2. Phase(record[c].status) = "delivered"
          /\ Phase(status) = "acknowledged"
      BY <2>3, <3>1, PhaseValues
    <3>3. Promise!Acknowledge(c)
      BY <1>1, <1>2, <1>3, <2>2, <3>2 DEF Promise!Acknowledge
    <3>4. QED
      BY <3>3 DEF Promise!Next
  <2>4. CASE status # "acknowledged"
    <3>1. Phase(status) = "closed"
      BY <2>4, PhaseValues DEF Terminal
    <3>2. Phase(record[c].status) \in {"open", "pending", "delivered"}
      BY <1>12, PhaseValues DEF Settles, Expirable
    <3>3. Promise!Close(c)
      BY <1>1, <1>2, <1>3, <2>2, <3>1, <3>2 DEF Promise!Close
    <3>4. QED
      BY <3>3 DEF Promise!Next
  <2>5. QED
    BY <2>3, <2>4
<1>13. CASE Archives(c)
  BY <1>0, <1>4, <1>13 DEF Archives, Records
<1>14. ASSUME NEW relay, Installs(c, relay)
       PROVE  [Promise!Next]_(Promise!vars)
  BY <1>0, <1>4, <1>14 DEF Installs, Records
<1>15. QED
  BY <1>5, <1>6, <1>7, <1>8, <1>9, <1>10, <1>11, <1>12, <1>13, <1>14
  DEF RecordStep

\* A transmission is one the promise allows: every earlier copy is excused.
LEMMA TransmitPromises ==
    ASSUME IInv, NEW a \in Agents, NEW c \in Exact, Transmit(a, c)
    PROVE  [Promise!Next]_(Promise!vars)
<1>0. c \in Callbacks /\ wire \in [Callbacks -> Nat] /\ lost[c] \in Nat
      /\ Acts(a, c)
  BY OperationActs DEF Exact, IInv, TypeOK, Operation
<1>1. Status(c) = "pending-delivery" /\ record' = record /\ lost' = lost
  BY DEF Transmit, At, IInv, FlightMatchesStatus, Unrecorded
<1>2. ~Transmitting(c)
  BY <1>0, Alone DEF Transmit, At, Transmitting, Unrecorded, IInv
<1>3. wire[c] <= lost[c]
  BY <1>1, <1>2 DEF IInv, CopiesCounted
<1>4. wire' = wire \/ wire' = [wire EXCEPT ![c] = wire[c] + 1]
  BY <1>0 DEF Transmit
<1>5. phase' = phase /\ report' = report /\ excused' = excused
  BY <1>1 DEF phase, report, excused, Status, Phase
<1>6. CASE wire' = wire
  BY <1>5, <1>6 DEF Promise!vars, copies
<1>7. CASE wire' = [wire EXCEPT ![c] = wire[c] + 1]
  <2>1. copies' = [copies EXCEPT ![c] = copies[c] + 1]
    BY <1>0, <1>7 DEF copies, Exact
  <2>2. copies[c] <= excused[c] /\ phase[c] = "pending"
    BY <1>1, <1>3, PhaseValues DEF copies, excused, phase
  <2>3. Promise!Transmit(c)
    BY <1>5, <2>1, <2>2 DEF Promise!Transmit
  <2>4. QED
    BY <2>3 DEF Promise!Next
<1>8. QED
  BY <1>4, <1>6, <1>7

\* The only operations that change wire or lost.
LEMMA OnlyTransmits ==
    ASSUME IInv, NEW a \in Agents, NEW c \in Exact, Operation(a, c),
           ~Transmit(a, c)
    PROVE  UNCHANGED <<wire, lost>>
<1> USE DEF Ghosts, Writes, Settle
<1>1. CASE OpenCallback(a, c) \/ BindCallback(a, c)
           \/ (\E o \in Reports : StageHandoff(a, c, o) \/ SendCallback(a, c, o))
           \/ Redeliver(a, c) \/ ScheduledRelay(a, c) \/ ValidateHandoff(a, c)
           \/ MarkArchiveVerified(a, c)
           \/ InstallCallbackRelay(a, c) \/ CancelCallbackRelay(a, c)
  BY <1>1
  DEF OpenCallback, BindCallback, StageHandoff, SendCallback, Redeliver,
      ScheduledRelay, ValidateHandoff, MarkArchiveVerified,
      InstallCallbackRelay, CancelCallbackRelay
<1>2. CASE ReconcileBound(a, c) \/ ReconcileUnbound(a, c)
           \/ EnqueueWithBroker(a, c) \/ Refuse(a, c) \/ RecordResult(a, c)
           \/ MirrorBrokerState(a, c)
  BY <1>2
  DEF ReconcileBound, ReconcileUnbound, EnqueueWithBroker, Refuse,
      RecordResult, MirrorBrokerState
<1>3. CASE RefuseAfterAccept(a, c) \/ FallBackToTerminal(a, c)
  BY <1>3 DEF RefuseAfterAccept, FallBackToTerminal, Exact
<1>4. CASE ExpireIfNeeded(a, c) \/ AcknowledgeCallback(a, c)
           \/ AbandonCallback(a, c) \/ CancelCallback(a, c)
  BY <1>4
  DEF ExpireIfNeeded, AcknowledgeCallback, AbandonCallback, CancelCallback
<1>5. QED
  BY <1>1, <1>2, <1>3, <1>4 DEF Operation

LEMMA OperationPromises ==
    ASSUME IInv, AllConsistent, NEW a \in Agents, NEW c \in Callbacks,
           Operation(a, c)
    PROVE  [Promise!Next]_(Promise!vars)
<1>1. RecordStep(c) /\ Acts(a, c)
  BY OperationRecords, OperationActs DEF IInv
<1>2. CASE c \in Exact
  BY <1>1, <1>2, TransmitPromises, OnlyTransmits, WritePromises
<1>3. CASE c \notin Exact
  <2>1. \A d \in Exact : record'[d] = record[d] /\ wire'[d] = wire[d]
    BY <1>1, <1>3, StatusMoves DEF Exact, Acts, IInv
  <2>2. lost' = lost
    BY <1>1 DEF Acts
  <2>3. phase' = phase /\ report' = report
    BY <2>1 DEF phase, report, Status, Phase
  <2>4. copies' = copies /\ excused' = excused
    BY <2>1, <2>2 DEF copies, excused
  <2>5. QED
    BY <2>3, <2>4 DEF Promise!vars
<1>4. QED
  BY <1>2, <1>3

\* A crash excuses the transmissions of all the callbacks it interrupts.
LEMMA CrashPromises ==
    ASSUME IInv, NEW S \in SUBSET Agents, Crash(S)
    PROVE  [Promise!Next]_(Promise!vars)
<1> DEFINE D == {c \in Exact :
                   \E a \in S : proc[a].at \in Unrecorded /\ proc[a].cb = c}
<1>1. phase' = phase /\ report' = report /\ copies' = copies
  BY DEF Crash, phase, report, copies, Status, Phase
<1>2. \A c \in Exact : lost'[c] = IF c \in D THEN lost[c] + 1 ELSE lost[c]
  BY DEF Crash, Exact
<1>3. \A c \in D : phase[c] = "pending"
  <2>1. ASSUME NEW c \in D
        PROVE  Status(c) = "pending-delivery"
    BY DEF IInv, FlightMatchesStatus
  <2>2. QED
    BY <2>1, PhaseValues DEF phase
<1>4. excused' = [c \in Exact |-> IF c \in D THEN excused[c] + 1
                                  ELSE excused[c]]
  BY <1>2 DEF excused
<1>5. Promise!Excuse(D)
  BY <1>1, <1>3, <1>4 DEF Promise!Excuse
<1>6. QED
  BY <1>5 DEF Promise!Next

\* CallbackRecord keeps the promise of OneShotCallback for every callback whose
\* transport reports refusals faithfully: one outcome, committed once and never
\* changed, one copy of the message beside the excused ones, and no way back
\* from a receipt, an expiry, an abandonment or a cancellation.
THEOREM Refinement == Spec => Implements
<1>1. Init => Promise!Init
  <2> SUFFICES ASSUME Init PROVE Promise!Init
    OBVIOUS
  <2>1. \A c \in Callbacks : /\ record[c].status = "absent"
                             /\ record[c].outcome = NoOutcome
                             /\ wire[c] = 0 /\ lost[c] = 0
    BY DEF Init, NewRecord
  <2>2. QED
    BY <2>1, PhaseValues
    DEF Promise!Init, phase, report, copies, excused, Exact, Status
<1>2. IInv /\ AllConsistent /\ [Next]_vars => [Promise!Next]_(Promise!vars)
  <2> SUFFICES ASSUME IInv, AllConsistent, [Next]_vars
               PROVE  [Promise!Next]_(Promise!vars)
    OBVIOUS
  <2>1. CASE \E c \in Callbacks : TtlPasses(c)
    <3>1. UNCHANGED <<record, wire, lost>>
      BY <2>1 DEF TtlPasses
    <3>2. QED
      BY <3>1
      DEF Promise!vars, phase, report, copies, excused, Status, Phase
  <2>2. CASE UNCHANGED vars
    BY <2>2
    DEF vars, Promise!vars, phase, report, copies, excused, Status, Phase
  <2>3. QED
    BY <2>1, <2>2, OperationPromises, CrashPromises DEF Next
<1>3. QED
  BY <1>1, <1>2, Invariant, AlwaysConsistent, PTL
  DEF Spec, Implements, Promise!Spec
=============================================================================
