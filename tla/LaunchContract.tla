---------------------------- MODULE LaunchContract ----------------------------
(***************************************************************************)
(* What a launch promises to the event loop, which knows of it only the    *)
(* signal it sends, the retained status and the end: the launch reports    *)
(* its connection until it closes, closes because it was asked to or       *)
(* because its first connection has failed for good, reports that as its   *)
(* last word, and is silent after that.  Bridge implements this            *)
(* specification but for the races it names; EventLoop is built on it, its *)
(* actions of a launch have the same names.                                *)
(***************************************************************************)

VARIABLES
    work,    \* "connecting", "serving", "closing" or "closed"
    signal,  \* Stop: "none", "sent" or "taken"
    status   \* the retained connection status

vars == <<work, signal, status>>

Init == work = "connecting" /\ signal = "none" /\ status = "none"

Stop ==
    /\ signal = "none"
    /\ signal' = "sent"
    /\ UNCHANGED <<work, status>>

\* HonoConnect succeeds.
Connected ==
    /\ work = "connecting"
    /\ work' = "serving"
    /\ UNCHANGED <<signal, status>>

HubUp ==
    /\ work = "serving"
    /\ status' = "connected"
    /\ UNCHANGED <<work, signal>>

HubDown ==
    /\ work \in {"connecting", "serving"}
    /\ status' = "error"
    /\ UNCHANGED <<work, signal>>

\* HonoConnect gives up, which it does only before the first connection.
Abort ==
    /\ work = "connecting"
    /\ work' = "closing"
    /\ status' = "error"
    /\ UNCHANGED signal

TakeSignal ==
    /\ work \in {"connecting", "serving"} /\ signal = "sent"
    /\ work' = "closing"
    /\ signal' = "taken"
    /\ UNCHANGED status

Closed ==
    /\ work = "closing"
    /\ work' = "closed"
    /\ status' = "closed"
    /\ UNCHANGED signal

Next == Stop \/ Connected \/ HubUp \/ HubDown \/ Abort \/ TakeSignal \/ Closed

Spec == Init /\ [][Next]_vars
=============================================================================
