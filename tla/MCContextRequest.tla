--------------------------- MODULE MCContextRequest ---------------------------
(***************************************************************************)
(* ContextRequest with two requests on a route of two providers, one of    *)
(* which opens its circuit at the first failure.  The worktree is clean,   *)
(* has a dirty file, or the same file edited again.                        *)
(***************************************************************************)
EXTENDS ContextRequest, TLC

CONSTANTS graphify, simone, clean, dirty, again, head, changed

RouteOfTwo == <<graphify, simone>>
Thresholds == (graphify :> 2) @@ (simone :> 1)
Commits == [t \in Trees |-> head]
Statuses == [t \in Trees |-> IF t = clean THEN Clean ELSE changed]
ClientSymmetry == Permutations(Clients)
=============================================================================
