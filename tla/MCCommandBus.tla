----------------------------- MODULE MCCommandBus -----------------------------
(* Instances of CommandBus: the gateway itself, a device and a device with a  *)
(* colon in its name; a timeout that is 0, one that is used, one that is too  *)
(* long and a unit alone.                                                     *)
EXTENDS CommandBus, TLC

CONSTANTS g, w, d, e, bare, i1, i2, r1, r2

TheGateway == <<g, w>>
Devices == {<<>>, <<d>>, <<d, ":", e>>}
Headers == {0, 1, 4, bare}

Symmetry == Permutations({i1, i2}) \cup Permutations({r1, r2})
=============================================================================
