--------------------------- MODULE MCCallbackBroker ---------------------------
(***************************************************************************)
(* CallbackBroker on small instances.                                      *)
(***************************************************************************)
EXTENDS CallbackBroker

\* Bound: completions are sent directly, without a staged handoff, and no launchd
\* relay is installed.
PlainSends == \A c \in Callbacks : record[c].staged = "none"
                                   /\ record[c].relay = "none"
=============================================================================
