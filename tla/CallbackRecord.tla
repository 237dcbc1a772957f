--------------------------- MODULE CallbackRecord ---------------------------
(***************************************************************************)
(* The canonical web callback: one JSON record per capability, written by  *)
(* any number of processes and threads under a per-callback file lock      *)
(* (src/lib/sin_orca/web_callbacks.py).                                    *)
(*                                                                         *)
(* An operation that takes the lock, writes the record once and returns is *)
(* one action.  An operation that calls out while it holds the lock        *)
(* (broker enqueue, transport, broker mirror) is one action per call, with *)
(* the lock held in between; a process may die at any of those points.     *)
(* Dry runs, message text, the other identity fields of the record, and    *)
(* the checks of the canonical taskplan (which can only refuse an          *)
(* operation) are left out.                                                *)
(***************************************************************************)
EXTENDS Naturals, FiniteSets

CONSTANTS
    Callbacks,          \* callback capabilities (tokens)
    Agents,             \* processes and threads that operate on them
    Free,               \* the holder of a lock nobody holds
    LooseTransports,    \* callbacks whose transport may report a refusal for
                        \* a message its host accepted (see RefuseAfterAccept)
    Reports,            \* the final statuses the clients report
    MaxBinds,           \* bound on the bindings of one callback
    MaxCrashes          \* bound on the crashes of one behaviour

ASSUME FreeAssumption == Free \notin Agents
ASSUME LooseAssumption == LooseTransports \subseteq Callbacks
ASSUME CallbacksAssumption == Callbacks # {}
ASSUME BoundsAssumption == MaxBinds \in Nat /\ MaxCrashes \in Nat

FinalStatuses == {"done", "blocked", "failed"}
ASSUME ReportsAssumption == Reports \subseteq FinalStatuses

Outcomes == FinalStatuses \union {"reconcile"}
NoOutcome == "none"

Expirable == {"open", "pending-delivery", "sent", "delivery-indeterminate"}
Terminal == {"acknowledged", "expired", "cancelled", "abandoned"}
Statuses == {"absent"} \union Expirable \union Terminal
Relays == {"none", "installed", "inert", "install-failed", "removed"}

VARIABLES
    record,     \* the canonical record of each callback
    holder,     \* who holds the callback's file lock
    proc,       \* what each agent is in the middle of
    over,       \* whether the callback's TTL has passed
    wire,       \* how many times the message reached the origin session
    lost,       \* how many accepted transmissions died unrecorded
    crashes     \* crashes so far (only bounded, never read by the code)

vars == <<record, holder, proc, over, wire, lost, crashes>>

(***************************************************************************)
(* status, outcome (callback_status), delivery (delivery_state) and relay  *)
(* (relay_fallback.status) are fields of the JSON record.  outcome is      *)
(* "none" exactly while the record has no delivery_id.  told is the final  *)
(* status the message reports: outcome itself, or the outcome_status of an *)
(* origin reconciliation.  conv numbers the identities the conversation    *)
(* has had, 0 while it is unbound.  staged, stagedOutcome and stagedConv   *)
(* are the completion handoff, its status and the identity its MAC covers. *)
(***************************************************************************)
NewRecord ==
    [status |-> "open", outcome |-> NoOutcome, told |-> NoOutcome,
     conv |-> 0, staged |-> "none", stagedOutcome |-> NoOutcome,
     stagedConv |-> 0, delivery |-> "none", archived |-> FALSE,
     relay |-> "none"]

Records ==
    [status : Statuses, outcome : Outcomes \union {NoOutcome},
     told : FinalStatuses \union {NoOutcome}, conv : 0..MaxBinds,
     staged : {"none", "staged", "consumed"},
     stagedOutcome : FinalStatuses \union {NoOutcome},
     stagedConv : 0..MaxBinds,
     delivery : {"none", "pending", "sent", "indeterminate"},
     archived : BOOLEAN, relay : Relays]

\* outcome and unbound are what a reconciler validated; scheduled marks the
\* relay invocation that launchd starts.
Steps == {"idle", "validated", "enqueue", "deliver", "accepted",
          "ambiguous", "mirror"}
Unrecorded == {"accepted", "ambiguous"}
Processes ==
    [at : Steps, cb : Callbacks, outcome : FinalStatuses \union {NoOutcome},
     unbound : BOOLEAN, scheduled : BOOLEAN]

TypeOK ==
    /\ record \in [Callbacks -> Records]
    /\ holder \in [Callbacks -> Agents \union {Free}]
    /\ proc \in [Agents -> Processes]
    /\ over \in [Callbacks -> BOOLEAN]
    /\ wire \in [Callbacks -> Nat]
    /\ lost \in [Callbacks -> Nat]
    /\ crashes \in 0..MaxCrashes

Idle == [at |-> "idle", cb |-> CHOOSE c \in Callbacks : TRUE,
         outcome |-> NoOutcome, unbound |-> FALSE, scheduled |-> FALSE]

Init ==
    /\ record = [c \in Callbacks |-> [NewRecord EXCEPT !.status = "absent"]]
    /\ holder = [c \in Callbacks |-> Free]
    /\ proc = [a \in Agents |-> Idle]
    /\ over = [c \in Callbacks |-> FALSE]
    /\ wire = [c \in Callbacks |-> 0]
    /\ lost = [c \in Callbacks |-> 0]
    /\ crashes = 0

-----------------------------------------------------------------------------
(***************************************************************************)
(* The lock, and the frame of the two kinds of step.                       *)
(***************************************************************************)
Status(c) == record[c].status

\* Mutant: the lock file is opened and never locked.
EntersUnlocked(a, c) == proc[a].at = "idle"

\* Agent a enters callback_lock for c from outside any operation.
Enters(a, c) == proc[a].at = "idle" /\ holder[c] = Free

\* Agent a is inside the lock of c, at step s of an operation.
At(a, c, s) == proc[a].at = s /\ proc[a].cb = c /\ holder[c] = a

Put(c, r) == record' = [record EXCEPT ![c] = r]

Ghosts == <<wire, lost, crashes>>

\* The operation goes on under the lock at step s.
Hold(a, c, s, sched) ==
    /\ holder' = [holder EXCEPT ![c] = a]
    /\ proc' = [proc EXCEPT ![a] =
                  [Idle EXCEPT !.at = s, !.cb = c, !.scheduled = sched]]

\* The operation returns (or raises) and leaves the lock.
Return(a, c) ==
    /\ holder' = [holder EXCEPT ![c] = Free]
    /\ proc' = [proc EXCEPT ![a] = Idle]

\* A locked operation of one write that calls nothing out.
Writes(a, c, r) ==
    /\ Enters(a, c)
    /\ Put(c, r)
    /\ UNCHANGED <<holder, proc, over, wire, lost, crashes>>

\* Mutants: the relay is only deactivated; the record names a state no reader
\* knows.
RemoveRelayHalf(relay) == IF relay = "installed" THEN "inert" ELSE relay
RemoveRelayUnknown(relay) == IF relay = "none" THEN "none" ELSE "deleted"

\* _remove_relay_fallback: any known relay ends as removed.
RemoveRelay(relay) == IF relay = "none" THEN "none" ELSE "removed"

-----------------------------------------------------------------------------
(***************************************************************************)
(* Opening, binding and staging.                                           *)
(***************************************************************************)
\* A new token: nobody else can name the file yet, so no lock is taken.
OpenCallback(a, c) ==
    /\ proc[a].at = "idle"
    /\ Status(c) = "absent"
    /\ Put(c, NewRecord)
    /\ UNCHANGED <<holder, proc, over, wire, lost, crashes>>

\* Every binding, a repeated one too, is a new identity (bound_at).
BindCallback(a, c) ==
    /\ Status(c) = "open"
    /\ record[c].conv < MaxBinds
    /\ Writes(a, c, [record[c] EXCEPT !.conv = @ + 1])

StageHandoff(a, c, o) ==
    /\ Status(c) = "open" /\ ~over[c]
    /\ Writes(a, c, [record[c] EXCEPT
           !.staged = "staged", !.stagedOutcome = o, !.stagedConv = record[c].conv])

-----------------------------------------------------------------------------
(***************************************************************************)
(* Committing an outcome.                                                  *)
(***************************************************************************)
\* Mutant: the MAC is not compared with the callback's present identity.
HandoffStaged(r) == r.staged = "staged"

\* validate_callback_handoff: staged, and its MAC still covers the identity.
HandoffValid(r) == r.staged = "staged" /\ r.stagedConv = r.conv

\* The outcome is persisted, with its delivery_id, before any delivery.
Commit(a, c, o, told) ==
    /\ Put(c, [record[c] EXCEPT
           !.status = "pending-delivery", !.outcome = o, !.told = told,
           !.delivery = "pending",
           !.staged = IF @ = "none" THEN "none" ELSE "consumed"])
    /\ Hold(a, c, "enqueue", FALSE)

SendCallback(a, c, o) ==
    /\ Enters(a, c)
    /\ Status(c) = "open" /\ ~over[c]
    /\ record[c].staged # "none" =>
           HandoffValid(record[c]) /\ record[c].stagedOutcome = o
    /\ Commit(a, c, o, o)
    /\ UNCHANGED <<over, Ghosts>>

\* send_callback and relay_callback on a callback that has its outcome.
Redeliver(a, c) ==
    /\ Enters(a, c)
    /\ Status(c) \in {"pending-delivery", "delivery-indeterminate"} /\ ~over[c]
    /\ Hold(a, c, "enqueue", FALSE)
    /\ UNCHANGED <<record, over, Ghosts>>

\* The relay launchd starts acts only while its own installation stands.
ScheduledRelay(a, c) ==
    /\ Enters(a, c)
    /\ Status(c) = "pending-delivery" /\ ~over[c]
    /\ record[c].relay = "installed"
    /\ Hold(a, c, "enqueue", TRUE)
    /\ UNCHANGED <<record, over, Ghosts>>

\* The watchdog validates a staged completion under the lock, and drops it.
ValidateHandoff(a, c) ==
    /\ Enters(a, c)
    /\ Status(c) = "open" /\ ~over[c]
    /\ HandoffValid(record[c])
    /\ proc' = [proc EXCEPT ![a] =
           [Idle EXCEPT !.at = "validated", !.cb = c,
                        !.outcome = record[c].stagedOutcome,
                        !.unbound = record[c].stagedConv = 0]]
    /\ UNCHANGED <<record, holder, over, Ghosts>>

\* Agent a takes the lock again, to send what it validated.
Reenters(a, c) ==
    proc[a].at = "validated" /\ proc[a].cb = c /\ holder[c] = Free

\* send_callback with the validated outcome as its arguments.
ReconcileBound(a, c) ==
    /\ Reenters(a, c)
    /\ ~proc[a].unbound
    /\ ~over[c] \/ Status(c) \notin Expirable
    /\ IF Status(c) = "open"
       THEN IF HandoffValid(record[c])
               /\ record[c].stagedOutcome = proc[a].outcome
            THEN Commit(a, c, proc[a].outcome, proc[a].outcome)
            ELSE Return(a, c) /\ UNCHANGED record
       ELSE /\ IF Status(c) \in {"pending-delivery", "delivery-indeterminate"}
               THEN Hold(a, c, "enqueue", FALSE)
               ELSE Return(a, c)
            /\ UNCHANGED record
    /\ UNCHANGED <<over, Ghosts>>

\* _deliver_unbound_origin_reconciliation does not look at the handoff again.
ReconcileUnbound(a, c) ==
    /\ Reenters(a, c)
    /\ proc[a].unbound
    /\ ~over[c] \/ Status(c) \notin Expirable
    /\ IF Status(c) = "open" /\ record[c].conv = 0
       THEN Commit(a, c, "reconcile", proc[a].outcome)
       ELSE /\ IF /\ record[c].outcome = "reconcile"
                  /\ Status(c) \in {"pending-delivery",
                                    "delivery-indeterminate"}
               THEN Hold(a, c, "enqueue", FALSE)
               ELSE Return(a, c)
            /\ UNCHANGED record
    /\ UNCHANGED <<over, Ghosts>>

-----------------------------------------------------------------------------
(***************************************************************************)
(* Delivering it: _deliver_pending_callback, with the lock held.           *)
(***************************************************************************)
\* Mutant: the indeterminate delivery state is not looked at.
EnqueueAlwaysDelivers(a, c) ==
    /\ At(a, c, "enqueue")
    /\ proc' = [proc EXCEPT ![a].at = "deliver"]
    /\ UNCHANGED <<record, holder, over, Ghosts>>

\* An ambiguous earlier attempt is never transmitted again.
EnqueueWithBroker(a, c) ==
    /\ At(a, c, "enqueue")
    /\ IF record[c].delivery = "indeterminate"
       THEN Return(a, c)
       ELSE /\ proc' = [proc EXCEPT ![a].at = "deliver"]
            /\ UNCHANGED holder
    /\ UNCHANGED <<record, over, Ghosts>>

\* A callback that stays pending; a scheduled relay that sees that the broker
\* owns the delivery makes itself inert.
StaysPending(a, c) ==
    /\ At(a, c, "deliver")
    /\ \E relay \in {record[c].relay}
                     \union (IF proc[a].scheduled THEN {"inert"} ELSE {}) :
           Put(c, [record[c] EXCEPT !.status = "pending-delivery",
                                    !.delivery = "pending",
                                    !.relay = relay])
    /\ Return(a, c)

\* No target, a busy target, or a refusal before anything was accepted.
Refuse(a, c) ==
    /\ StaysPending(a, c)
    /\ UNCHANGED <<over, Ghosts>>

\* _deliver_dsh_callback retries after every HTTP error, a 5xx too; opencode
\* run retries after a failed run whose output contains "not found".
RefuseAfterAccept(a, c) ==
    /\ c \in LooseTransports
    /\ StaysPending(a, c)
    /\ wire' = [wire EXCEPT ![c] = @ + 1]
    /\ UNCHANGED <<over, lost, crashes>>

\* That refusal by opencode run sends the attempt on to the origin's terminal,
\* within the same hold of the lock.
FallBackToTerminal(a, c) ==
    /\ c \in LooseTransports
    /\ At(a, c, "deliver")
    /\ wire' = [wire EXCEPT ![c] = @ + 1]
    /\ UNCHANGED <<record, holder, proc, over, lost, crashes>>

\* The transport reports acceptance, or fails after the send boundary, where
\* the message may or may not have reached the session.
Transmit(a, c) ==
    /\ At(a, c, "deliver")
    /\ \E reached \in BOOLEAN, reply \in {"accepted", "ambiguous"} :
           /\ reply = "accepted" => reached
           /\ wire' = [wire EXCEPT ![c] = IF reached THEN @ + 1 ELSE @]
           /\ proc' = [proc EXCEPT ![a].at = reply]
    /\ UNCHANGED <<record, holder, over, lost, crashes>>

\* Mutant: a failure after the send boundary is retried like any other.
RecordAmbiguousAsPending(a, c) ==
    /\ \/ /\ At(a, c, "accepted")
          /\ Put(c, [record[c] EXCEPT !.status = "sent", !.delivery = "sent"])
       \/ /\ At(a, c, "ambiguous")
          /\ UNCHANGED record
    /\ Return(a, c)
    /\ UNCHANGED <<over, Ghosts>>

RecordResult(a, c) ==
    /\ \/ /\ At(a, c, "accepted")
          /\ Put(c, [record[c] EXCEPT !.status = "sent", !.delivery = "sent"])
       \/ /\ At(a, c, "ambiguous")
          /\ Put(c, [record[c] EXCEPT !.status = "delivery-indeterminate",
                                      !.delivery = "indeterminate"])
    /\ Return(a, c)
    /\ UNCHANGED <<over, Ghosts>>

-----------------------------------------------------------------------------
(***************************************************************************)
(* Settling it: receipt, expiry, abandonment, cancellation.  Each writes   *)
(* the record and then, still under the lock, mirrors it to the broker.    *)
(***************************************************************************)
Settle(a, c, status, relay) ==
    /\ Put(c, [record[c] EXCEPT !.status = status, !.relay = relay])
    /\ Hold(a, c, "mirror", FALSE)
    /\ UNCHANGED <<over, Ghosts>>

\* The first thing stage, reconcile, send, relay and acknowledge do.
ExpireIfNeeded(a, c) ==
    /\ Enters(a, c) \/ Reenters(a, c)
    /\ Status(c) \in Expirable /\ over[c]
    /\ Settle(a, c, "expired", RemoveRelay(record[c].relay))

\* Mutant: the conversation URL of the proof is not required to be bound.
MarkArchiveUnbound(a, c) ==
    /\ record[c].outcome = "done"
    /\ Writes(a, c, [record[c] EXCEPT !.archived = TRUE])

MarkArchiveVerified(a, c) ==
    /\ record[c].outcome = "done" /\ record[c].conv # 0
    /\ Writes(a, c, [record[c] EXCEPT !.archived = TRUE])

\* Mutant: a receipt for a callback that is still pending is accepted.
AcknowledgeCommitted(a, c) ==
    /\ Enters(a, c)
    /\ Status(c) \in Expirable \ {"open"} /\ ~over[c]
    /\ record[c].outcome = "done" => record[c].archived
    /\ Settle(a, c, "acknowledged", RemoveRelay(record[c].relay))

AcknowledgeCallback(a, c) ==
    /\ Enters(a, c)
    /\ Status(c) \in {"sent", "delivery-indeterminate"} /\ ~over[c]
    /\ record[c].outcome = "done" => record[c].archived
    /\ Settle(a, c, "acknowledged", RemoveRelay(record[c].relay))

\* Its target does not resolve; the TTL is not looked at.
AbandonCallback(a, c) ==
    /\ Enters(a, c)
    /\ Status(c) \in {"open", "pending-delivery", "delivery-indeterminate"}
    /\ Settle(a, c, "abandoned", RemoveRelay(record[c].relay))

\* A blocked outcome may still be replaced before it was transmitted.  The
\* relay fallback is left as it is.
CancelCallback(a, c) ==
    /\ Enters(a, c)
    /\ \/ Status(c) = "open"
       \/ /\ Status(c) = "pending-delivery"
          /\ record[c].outcome = "blocked"
          /\ record[c].delivery = "pending"
    /\ Settle(a, c, "cancelled", record[c].relay)

MirrorBrokerState(a, c) ==
    /\ At(a, c, "mirror")
    /\ Return(a, c)
    /\ UNCHANGED <<record, over, Ghosts>>

-----------------------------------------------------------------------------
(***************************************************************************)
(* The launchd relay.  send_callback and the reconciler install it after   *)
(* they left the lock; the guards here are those of the install itself.    *)
(***************************************************************************)
InstallCallbackRelay(a, c) ==
    /\ Status(c) = "pending-delivery"
    /\ record[c].relay # "installed"
    /\ \E relay \in {"installed", "install-failed"} :
           Writes(a, c, [record[c] EXCEPT !.relay = relay])

CancelCallbackRelay(a, c) ==
    /\ Status(c) # "absent"
    /\ record[c].relay \notin {"none", "removed"}
    /\ Writes(a, c, [record[c] EXCEPT !.relay = "removed"])

-----------------------------------------------------------------------------
(***************************************************************************)
(* The environment.                                                        *)
(***************************************************************************)
TtlPasses(c) ==
    /\ Status(c) # "absent" /\ ~over[c]
    /\ over' = [over EXCEPT ![c] = TRUE]
    /\ UNCHANGED <<record, holder, proc, wire, lost, crashes>>

\* A process dies, with all its threads S, or an operation raises: the kernel
\* drops the locks they held.
Crash(S) ==
    /\ crashes < MaxCrashes
    /\ crashes' = crashes + 1
    /\ lost' = [c \in Callbacks |->
                  IF \E a \in S : proc[a].at \in Unrecorded /\ proc[a].cb = c
                  THEN lost[c] + 1
                  ELSE lost[c]]
    /\ proc' = [a \in Agents |-> IF a \in S THEN Idle ELSE proc[a]]
    /\ holder' = [c \in Callbacks |->
                    IF holder[c] \in S THEN Free ELSE holder[c]]
    /\ UNCHANGED <<record, over, wire>>

Operation(a, c) ==
    \/ OpenCallback(a, c)
    \/ BindCallback(a, c)
    \/ \E o \in Reports : StageHandoff(a, c, o) \/ SendCallback(a, c, o)
    \/ Redeliver(a, c)
    \/ ScheduledRelay(a, c)
    \/ ValidateHandoff(a, c)
    \/ ReconcileBound(a, c)
    \/ ReconcileUnbound(a, c)
    \/ EnqueueWithBroker(a, c)
    \/ Refuse(a, c)
    \/ RefuseAfterAccept(a, c)
    \/ FallBackToTerminal(a, c)
    \/ Transmit(a, c)
    \/ RecordResult(a, c)
    \/ ExpireIfNeeded(a, c)
    \/ MarkArchiveVerified(a, c)
    \/ AcknowledgeCallback(a, c)
    \/ AbandonCallback(a, c)
    \/ CancelCallback(a, c)
    \/ MirrorBrokerState(a, c)
    \/ InstallCallbackRelay(a, c)
    \/ CancelCallbackRelay(a, c)

Next ==
    \/ \E a \in Agents, c \in Callbacks : Operation(a, c)
    \/ \E c \in Callbacks : TtlPasses(c)
    \/ \E S \in SUBSET Agents : Crash(S)

Spec == Init /\ [][Next]_vars

-----------------------------------------------------------------------------
(***************************************************************************)
(* Properties.                                                             *)
(***************************************************************************)
Exact == Callbacks \ LooseTransports

\* An agent is inside the lock of a callback exactly when it is at a step that
\* needs it: what _deliver_pending_callback and the settling operations read
\* before their call out is still true after it.
LockHeldThroughout ==
    \A a \in Agents, c \in Callbacks :
        holder[c] = a <=> /\ proc[a].at \notin {"idle", "validated"}
                          /\ proc[a].cb = c

\* No two transmissions of one callback unless a crash lost the first: lock,
\* delivery state and the ambiguous/accepted distinction together keep the
\* message of a callback from being sent blindly again.
AtMostOncePerCrash == \A c \in Exact : wire[c] <= lost[c] + 1

\* The same for every transport: an ambiguous failure is never retried.
NeverBlindlyResent == \A c \in Callbacks : wire[c] <= lost[c] + 1

\* Only a callback that is still pending is transmitted: sent, indeterminate
\* and settled ones are not, whatever was read before the lock was taken.
NoRetransmission ==
    [][\A c \in Callbacks : wire'[c] # wire[c] =>
          /\ Status(c) = "pending-delivery"
          /\ record[c].delivery = "pending"]_vars

\* A bound completion is reported as it was staged, for the conversation it
\* was staged for, however often it was staged, bound and validated before.
HandoffFidelity ==
    \A c \in Callbacks :
        record[c].staged = "consumed" /\ record[c].outcome # "reconcile" =>
            /\ record[c].told = record[c].stagedOutcome
            /\ record[c].conv = record[c].stagedConv

\* Whatever way a completion is delivered, it reports the handoff it consumes.
ConsumedAsStaged ==
    \A c \in Callbacks :
        record[c].staged = "consumed" =>
            record[c].told = record[c].stagedOutcome

\* A callback without a conversation is acknowledged only as a reconciliation
\* or an unsuccessful outcome: done carries the archive proof of a conversation.
DoneIsArchived ==
    \A c \in Callbacks :
        Status(c) = "acknowledged" /\ record[c].outcome = "done" =>
            record[c].archived /\ record[c].conv # 0

\* No launchd job is left scheduled for a callback whose receipt arrived, whose
\* TTL ended it or which was abandoned.
RelayRetired ==
    \A c \in Callbacks :
        Status(c) \in {"acknowledged", "expired", "abandoned"} =>
            record[c].relay \in {"none", "removed"}

(***************************************************************************)
(* What the record and its operations implement, for the callbacks whose   *)
(* transport reports refusals faithfully.                                  *)
(***************************************************************************)
Phase(status) ==
    CASE status = "pending-delivery" -> "pending"
      [] status \in {"sent", "delivery-indeterminate"} -> "delivered"
      [] status \in {"expired", "cancelled", "abandoned"} -> "closed"
      [] OTHER -> status

phase == [c \in Exact |-> Phase(Status(c))]
report == [c \in Exact |-> record[c].outcome]
copies == [c \in Exact |-> wire[c]]
excused == [c \in Exact |-> lost[c]]

Promise == INSTANCE OneShotCallback WITH Callbacks <- Exact

\* Every step of every process is a step of the promise or none at all.
Implements == Promise!Spec

-----------------------------------------------------------------------------
(***************************************************************************)
(* Why they hold: the inductive invariant behind LockHeldThroughout,       *)
(* AtMostOncePerCrash and NoRetransmission.                                *)
(***************************************************************************)
\* delivery_state follows the status as long as a delivery is possible.
DeliveryMatchesStatus ==
    \A c \in Callbacks :
        /\ Status(c) = "pending-delivery" => record[c].delivery = "pending"
        /\ Status(c) = "delivery-indeterminate" =>
              record[c].delivery = "indeterminate"

\* What a delivery found when it took the lock stays so until it returns.
FlightMatchesStatus ==
    \A a \in Agents :
        /\ proc[a].at = "enqueue" =>
              Status(proc[a].cb) \in {"pending-delivery",
                                     "delivery-indeterminate"}
        /\ proc[a].at \in {"deliver"} \union Unrecorded =>
              Status(proc[a].cb) = "pending-delivery"

\* A transmission is unrecorded only in the hands of an agent that holds the
\* lock: a pending callback nobody is transmitting has no unexcused copy.
Transmitting(c) ==
    \E a \in Agents : proc[a].at \in Unrecorded /\ proc[a].cb = c

CopiesCounted ==
    \A c \in Exact :
        /\ wire[c] <= lost[c] + 1
        /\ Status(c) \in {"absent", "open"} => wire[c] = 0
        /\ Status(c) = "pending-delivery" /\ ~Transmitting(c) =>
              wire[c] <= lost[c]

IInv == /\ TypeOK
        /\ LockHeldThroughout
        /\ DeliveryMatchesStatus
        /\ FlightMatchesStatus
        /\ CopiesCounted
=============================================================================
