----------------------------- MODULE MCHubSession -----------------------------
(* Instances of HubSession: two topics, since the others matter to a topic   *)
(* only through the order in which Range visits them.                        *)
EXTENDS HubSession

CONSTANTS t1, t2
=============================================================================
