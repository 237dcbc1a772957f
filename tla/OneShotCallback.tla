--------------------------- MODULE OneShotCallback ---------------------------
(***************************************************************************)
(* What a web callback promises to the session that opened it, without     *)
(* locks, processes, files, transports or a broker.                        *)
(*                                                                         *)
(* A callback is a one-shot capability: it is opened, one outcome is       *)
(* committed, the message that reports it is transmitted, and the callback *)
(* is answered by a receipt or closed.  A committed outcome never changes, *)
(* a settled callback never moves, and a second copy of the message exists *)
(* only where a process died with a transmission unrecorded.               *)
(*                                                                         *)
(* CallbackRecord implements this module; see Implements there.              *)
(***************************************************************************)
EXTENDS Naturals

CONSTANTS
    Callbacks,      \* the callback capabilities
    Outcomes,       \* what a callback can report
    NoOutcome       \* reported by a callback that has committed nothing yet

VARIABLES
    phase,          \* the life-cycle phase of each callback
    report,         \* the outcome each callback has committed to
    copies,         \* how many times its message reached the origin
    excused         \* how many transmissions a dead process left unrecorded

vars == <<phase, report, copies, excused>>

Init ==
    /\ phase = [c \in Callbacks |-> "absent"]
    /\ report = [c \in Callbacks |-> NoOutcome]
    /\ copies = [c \in Callbacks |-> 0]
    /\ excused = [c \in Callbacks |-> 0]

Open(c) ==
    /\ phase[c] = "absent"
    /\ phase' = [phase EXCEPT ![c] = "open"]
    /\ UNCHANGED <<report, copies, excused>>

Commit(c, o) ==
    /\ phase[c] = "open"
    /\ phase' = [phase EXCEPT ![c] = "pending"]
    /\ report' = [report EXCEPT ![c] = o]
    /\ UNCHANGED <<copies, excused>>

\* One more copy is allowed only as long as every earlier one is excused.
Transmit(c) ==
    /\ phase[c] = "pending"
    /\ copies[c] <= excused[c]
    /\ copies' = [copies EXCEPT ![c] = @ + 1]
    /\ UNCHANGED <<phase, report, excused>>

\* One crash may interrupt the transmissions of several callbacks, D.
Excuse(D) ==
    /\ \A c \in D : phase[c] = "pending"
    /\ excused' = [c \in Callbacks |-> IF c \in D THEN excused[c] + 1
                                      ELSE excused[c]]
    /\ UNCHANGED <<phase, report, copies>>

Deliver(c) ==
    /\ phase[c] = "pending"
    /\ phase' = [phase EXCEPT ![c] = "delivered"]
    /\ UNCHANGED <<report, copies, excused>>

Acknowledge(c) ==
    /\ phase[c] = "delivered"
    /\ phase' = [phase EXCEPT ![c] = "acknowledged"]
    /\ UNCHANGED <<report, copies, excused>>

Close(c) ==
    /\ phase[c] \in {"open", "pending", "delivered"}
    /\ phase' = [phase EXCEPT ![c] = "closed"]
    /\ UNCHANGED <<report, copies, excused>>

Next ==
    \/ \E c \in Callbacks :
          \/ Open(c)
          \/ \E o \in Outcomes : Commit(c, o)
          \/ Transmit(c)
          \/ Deliver(c)
          \/ Acknowledge(c)
          \/ Close(c)
    \/ \E D \in SUBSET Callbacks : Excuse(D)

Spec == Init /\ [][Next]_vars
=============================================================================
