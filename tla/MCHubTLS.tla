------------------------------- MODULE MCHubTLS -------------------------------
(* Instances of HubTLS. *)
EXTENDS HubTLS
=============================================================================
