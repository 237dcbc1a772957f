-------------------------- MODULE MCControllerLease --------------------------
(***************************************************************************)
(* ControllerLease with two commands of one session and one of another:    *)
(* one releases, one waits for the lock, one comes new.                    *)
(***************************************************************************)
EXTENDS ControllerLease, TLC

CONSTANTS p1, p2, p3, s1, s2

TwoAndOne == [p \in Procs |-> IF p = p3 THEN s2 ELSE s1]
=============================================================================
