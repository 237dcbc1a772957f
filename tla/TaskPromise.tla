----------------------------- MODULE TaskPromise -----------------------------
(***************************************************************************)
(* What the controller promises about the end of a task, without a log,    *)
(* terminals, artifacts, leases or crashes.                                *)
(*                                                                         *)
(* The evidence for a state of the worktree grows one step at a time: it   *)
(* is verified, a reviewer is assigned to it, judges it, and reports.  A   *)
(* task ends in two steps: a controller decides, on what stands then, and  *)
(* the decision is recorded later, whatever has happened in between.  The  *)
(* writer reservation is given up only once an end was recorded.           *)
(*                                                                         *)
(* TaskController implements this module; see KeepsPromise there.          *)
(***************************************************************************)
CONSTANTS
    Controllers,    \* those who may decide
    States          \* the states of the worktree

VARIABLES
    reviewed,       \* the task is completed on a reviewed state only
    edits,          \* the task needs the writer reservation
    verified,       \* the states that went through a green verification,
    assigned,       \* after it had a reviewer,
    judged,         \* who accepted it,
    accepted,       \* and reported that
    decision,       \* what each controller is about to record
    outcomes,       \* the ends that were recorded
    standing,       \* the end that is the latest news of the task, or "open"
    reserved        \* the task has the writer reservation

vars == <<reviewed, edits, verified, assigned, judged, accepted, decision,
          outcomes, standing, reserved>>
evidence == <<verified, assigned, judged, accepted>>

Ends == {"completed", "cancelled"}

\* The states a task may be completed on.
Evidenced == IF reviewed THEN accepted ELSE verified

Init ==
    /\ reviewed \in BOOLEAN /\ edits \in BOOLEAN
    /\ verified = {} /\ assigned = {} /\ judged = {} /\ accepted = {}
    /\ decision = [c \in Controllers |-> "none"]
    /\ outcomes = {}
    /\ standing = "open"
    /\ reserved = edits

-----------------------------------------------------------------------------
\* What a piece of news adds to the evidence.
Verify(d) ==
    verified' = verified \union {d} /\ UNCHANGED <<assigned, judged, accepted>>

Assign(d) ==
    /\ d \in verified
    /\ assigned' = assigned \union {d} /\ UNCHANGED <<verified, judged, accepted>>

Judge(d) ==
    /\ d \in assigned
    /\ judged' = judged \union {d} /\ UNCHANGED <<verified, assigned, accepted>>

\* A reviewer's report does not say which state it is about.
Accept == accepted' = judged /\ UNCHANGED <<verified, assigned, judged>>

\* Any news but an end reopens the question.
News ==
    /\ UNCHANGED <<reviewed, edits, decision, outcomes, reserved>>
    /\ standing' = "open"
    /\ \/ UNCHANGED evidence
       \/ \E d \in States : Verify(d) \/ Assign(d) \/ Judge(d)
       \/ Accept

-----------------------------------------------------------------------------
Decides(c, end) ==
    /\ decision[c] = "none"
    /\ decision' = [decision EXCEPT ![c] = end]
    /\ UNCHANGED <<reviewed, edits, outcomes, standing, reserved>>
    /\ UNCHANGED evidence

\* On evidence, with the reservation, and never after a cancellation.
Complete(c) ==
    /\ Decides(c, "completed")
    /\ Evidenced # {}
    /\ edits => reserved
    /\ "cancelled" \notin outcomes

\* Not while its completion, or an earlier cancellation, stands.
Cancel(c) == Decides(c, "cancelled") /\ standing = "open"

\* What is called out for fails, or the controller dies.
Withdraw(c) ==
    /\ decision' = [decision EXCEPT ![c] = "none"]
    /\ UNCHANGED <<reviewed, edits, outcomes, standing, reserved>>
    /\ UNCHANGED evidence

Record(c) ==
    /\ decision[c] # "none"
    /\ outcomes' = outcomes \union {decision[c]}
    /\ standing' = decision[c]
    /\ decision' = [decision EXCEPT ![c] = "none"]
    /\ UNCHANGED <<reviewed, edits, reserved>> /\ UNCHANGED evidence

\* By the command that ended the task, or taken over by another task.
GiveUp ==
    /\ outcomes # {}
    /\ reserved' = FALSE
    /\ UNCHANGED <<reviewed, edits, decision, outcomes, standing>>
    /\ UNCHANGED evidence

Next ==
    \/ News \/ GiveUp
    \/ \E c \in Controllers : Complete(c) \/ Cancel(c) \/ Withdraw(c) \/ Record(c)

Spec == Init /\ [][Next]_vars
=============================================================================
