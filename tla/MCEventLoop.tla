----------------------------- MODULE MCEventLoop -----------------------------
(* Instances of EventLoop: one good content of the provisioning file besides *)
(* the missing, the broken and the unusable one.                             *)
EXTENDS EventLoop

CONSTANT p1
=============================================================================
