------------------------------ MODULE MCTTLCache ------------------------------
(* Instances of TTLCache. *)
EXTENDS TTLCache, TLC
=============================================================================
