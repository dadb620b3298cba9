---------------------------- MODULE MCMessageLoop ----------------------------
(* Instances of MessageLoop. *)
EXTENDS MessageLoop

CONSTANTS l1, d1, d2, x1, x2
=============================================================================
