--------------------------- MODULE PendingCommands ---------------------------
(***************************************************************************)
(* What the cache of the pending commands promises to its callers: an      *)
(* element is there from the Put that returns until it is removed or       *)
(* expires, and no operation takes it away before.  TTLCache implements    *)
(* this specification; CommandBus uses it.                                 *)
(***************************************************************************)
EXTENDS Naturals

CONSTANTS
    Keys,     \* correlation ids
    Callers,  \* goroutines that call Put and Remove
    TTLs      \* the ttl arguments

VARIABLES
    now,      \* the clock
    pending,  \* key -> expiry time and ttl of the elements
    calls     \* caller -> "idle" or "returning"

vars == <<now, pending, calls>>

Init ==
    /\ now = 0
    /\ pending = <<>>
    /\ calls = [c \in Callers |-> "idle"]

hasExpired(e) == e.ttl = 0 \/ e.expTime < now

Insert(k, ttl) ==
    pending' = [j \in DOMAIN pending \cup {k} |->
                    IF j = k THEN [expTime |-> now + ttl, ttl |-> ttl] ELSE pending[j]]

Delete(k) ==
    /\ k \in DOMAIN pending
    /\ pending' = [j \in DOMAIN pending \ {k} |-> pending[j]]

Put(c, k, ttl) ==
    /\ calls[c] = "idle"
    /\ Insert(k, ttl)
    /\ calls' = [calls EXCEPT ![c] = "returning"]
    /\ UNCHANGED now

Remove(c, k) ==
    /\ calls[c] = "idle"
    /\ Delete(k)
    /\ calls' = [calls EXCEPT ![c] = "returning"]
    /\ UNCHANGED now

Return(c) ==
    /\ calls[c] = "returning"
    /\ calls' = [calls EXCEPT ![c] = "idle"]
    /\ UNCHANGED <<now, pending>>

Expire(k) ==
    /\ k \in DOMAIN pending /\ hasExpired(pending[k])
    /\ Delete(k)
    /\ UNCHANGED <<now, calls>>

Tick == now' = now + 1 /\ UNCHANGED <<pending, calls>>

Next ==
    \/ \E c \in Callers :
        \/ \E k \in Keys : (\E ttl \in TTLs : Put(c, k, ttl)) \/ Remove(c, k)
        \/ Return(c)
    \/ \E k \in Keys : Expire(k)
    \/ Tick

Spec == Init /\ [][Next]_vars
=============================================================================
