--------------------------- MODULE MCCallbackRecord ---------------------------
(***************************************************************************)
(* CallbackRecord on small instances.                                      *)
(***************************************************************************)
EXTENDS CallbackRecord, TLC

AgentSymmetry == Permutations(Agents)

\* Bound: a loose transport may deliver again and again.
BoundedWire == \A c \in Callbacks : wire[c] <= 2
=============================================================================
