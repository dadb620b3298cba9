------------------------------- MODULE MCBridge -------------------------------
(* Instances of Bridge. *)
EXTENDS Bridge, TLC
=============================================================================
