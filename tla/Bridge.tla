-------------------------------- MODULE Bridge --------------------------------
(***************************************************************************)
(* One launch of the connector: the connection to the hub, the connection  *)
(* of the cloud client to the local broker, which is open while the hub is *)
(* connected, and the retained connection status                           *)
(* (connector/connection.go, routing/service.go, HonoConnect and the       *)
(* goroutine that cmd/connector/launcher.go starts).                       *)
(*                                                                         *)
(* The MQTT client (external) runs onConnected and onConnectionLost in a   *)
(* goroutine of their own for every connection, in no particular order.    *)
(* They tell the listeners, of which they take a snapshot:                 *)
(* CloudConnectionHandler ("conn") connects and disconnects the cloud      *)
(* client, ErrorsHandler ("errors") publishes the cause of a loss, and     *)
(* ConnectionStatusHandler, a listener of the cloud client, publishes the  *)
(* connected status.  ReconnectHandler, which only sends the gateway       *)
(* parameters, and the losses of the cloud connection, which its listeners *)
(* ignore, are left out.                                                   *)
(***************************************************************************)
EXTENDS Naturals

CONSTANTS
    MaxLinks,       \* bound: connections of the hub client
    MaxClouds,      \* bound: connections of the cloud client
    AuthErrRetries  \* Configuration.AuthErrRetries

ASSUME BridgeAssumption ==
    /\ MaxLinks \in Nat
    /\ MaxClouds \in Nat
    /\ AuthErrRetries \in Nat \ {0}

Links == 1..MaxLinks
Clouds == 1..MaxClouds

VARIABLES
    hub,            \* the hub's MQTT client: "down", "connecting" or "up"
    future,         \* the result of a Connect, for the launcher (0) and the onConnectionLost of a link
    links,          \* number of its connections so far
    hubRunning,     \* MQTTConnection.running of the hub connection
    reconnecting,   \* MQTTConnection.reconnecting
    hubListeners,   \* the listeners of the hub connection
    up,             \* link -> where its onConnected is
    lost,           \* link -> where its onConnectionLost is
    snap,           \* link -> the listeners onConnectionLost is telling
    authErr,        \* link -> authErrRetries of externalReconnect
    cloud,          \* the cloud's MQTT client: "down", "connecting" or "up"
    cloudRunning,   \* running of the cloud connection
    clouds,         \* number of its connections so far
    cup,            \* cloud connection -> where its onConnected is
    statusListener, \* ConnectionStatusHandler is a listener of the cloud connection
    status,         \* the retained connection status
    main,           \* where the goroutine of the launcher is
    mainAuth,       \* authErrRetries of HonoConnect
    aborted,        \* HonoConnect has returned an error
    signal,         \* Stop: "none", "sent" or "taken"
    crossed,        \* history: a hub connection was announced after its loss was
    overrun,        \* history: an onConnected of the cloud began after its disconnection
    abandoned,      \* history: HonoConnect was cancelled while an attempt was under way
    late,           \* history: a callback acted for a listener the launch had removed
    missed,         \* history: a loss came while reconnecting was still set
    gaveUp          \* history: externalReconnect ended after AuthErrRetries refusals

hubVars == <<hub, future, links, hubRunning, reconnecting, hubListeners>>
upVars == <<up, crossed>>
lostVars == <<lost, snap, authErr, missed, gaveUp>>
cloudVars == <<cloud, cloudRunning, clouds>>
cupVars == <<cup, statusListener, overrun>>
mainVars == <<main, mainAuth, aborted, signal, abandoned>>
vars == <<hubVars, upVars, lostVars, cloudVars, cupVars, status, mainVars, late>>

TypeOK ==
    /\ hub \in {"down", "connecting", "up"}
    /\ future \in [0..MaxLinks -> {"none", "pending", "ok", "failed", "refused", "rejected"}]
    /\ links \in 0..MaxLinks
    /\ hubRunning \in BOOLEAN /\ reconnecting \in BOOLEAN
    /\ hubListeners \subseteq {"conn", "errors"}
    /\ up \in [Links -> {"none", "start", "subscribe", "set", "connect", "done"}]
    /\ lost \in [Links -> {"none", "start", "fire", "disconnect", "wait", "close", "errors",
                           "enter", "loop", "attempt", "connecting", "leave", "done"}]
    /\ snap \in [Links -> SUBSET {"conn", "errors"}]
    /\ authErr \in [Links -> 0..AuthErrRetries]
    /\ cloud \in {"down", "connecting", "up"}
    /\ cloudRunning \in BOOLEAN
    /\ clouds \in 0..MaxClouds
    /\ cup \in [Clouds -> {"none", "start", "subscribe", "status", "done"}]
    /\ statusListener \in BOOLEAN
    /\ status \in {"none", "connected", "error", "closed"}
    /\ main \in {"listen", "connect", "connecting", "backoff", "serve", "removeErrors",
                 "removeConn", "removeStatus", "cloudDisconnect", "cloudWait", "cloudClose",
                 "hubDisconnect", "hubWait", "hubClose", "close", "done"}
    /\ mainAuth \in 0..AuthErrRetries
    /\ aborted \in BOOLEAN
    /\ signal \in {"none", "sent", "taken"}
    /\ crossed \in BOOLEAN /\ overrun \in BOOLEAN /\ abandoned \in BOOLEAN
    /\ late \in BOOLEAN /\ missed \in BOOLEAN /\ gaveUp \in BOOLEAN
    /\ \A n \in Links : (up[n] # "none") <=> n <= links
    /\ \A m \in Clouds : (cup[m] # "none") <=> m <= clouds

Init ==
    /\ hub = "down" /\ future = [w \in 0..MaxLinks |-> "none"] /\ links = 0
    /\ hubRunning = TRUE /\ reconnecting = FALSE
    /\ hubListeners = {}
    /\ up = [n \in Links |-> "none"]
    /\ lost = [n \in Links |-> "none"]
    /\ snap = [n \in Links |-> {}]
    /\ authErr = [n \in Links |-> 0]
    /\ cloud = "down" /\ cloudRunning = TRUE /\ clouds = 0
    /\ cup = [m \in Clouds |-> "none"]
    /\ statusListener = FALSE
    /\ status = "none"
    /\ main = "listen" /\ mainAuth = 0 /\ aborted = FALSE
    /\ signal = "none"
    /\ crossed = FALSE /\ overrun = FALSE /\ abandoned = FALSE /\ late = FALSE
    /\ missed = FALSE /\ gaveUp = FALSE

GoTo(pc, i, s) == pc' = [pc EXCEPT ![i] = s]

SendStatus(s) == status' = s

-----------------------------------------------------------------------------
(* External: the hub's MQTT client and the hub *)

Complete(result) ==
    future' = [w \in 0..MaxLinks |-> IF future[w] = "pending" THEN result ELSE future[w]]

\* A Connect that succeeds starts onConnected and then completes its token.
HubConnects ==
    /\ hub = "connecting" /\ links < MaxLinks
    /\ hub' = "up"
    /\ links' = links + 1
    /\ GoTo(up, links', "start")
    /\ Complete("ok")
    /\ UNCHANGED <<hubRunning, reconnecting, hubListeners, crossed, lostVars, cloudVars, cupVars,
                   status, mainVars, late>>

\* The network, the credentials or the client identifier are to blame.
HubRefuses ==
    /\ hub = "connecting"
    /\ hub' = "down"
    /\ \E result \in {"failed", "refused", "rejected"} : Complete(result)
    /\ UNCHANGED <<links, hubRunning, reconnecting, hubListeners, upVars, lostVars, cloudVars,
                   cupVars, status, mainVars, late>>

HubLost ==
    /\ hub = "up"
    /\ hub' = "down"
    /\ GoTo(lost, links, "start")
    /\ UNCHANGED <<future, links, hubRunning, reconnecting, hubListeners, upVars, snap, authErr,
                   missed, gaveUp, cloudVars, cupVars, status, mainVars, late>>

-----------------------------------------------------------------------------
(* External: the cloud's MQTT client, which reconnects by itself *)

CloudConnects ==
    /\ cloud = "connecting" /\ clouds < MaxClouds
    /\ cloud' = "up"
    /\ clouds' = clouds + 1
    /\ GoTo(cup, clouds', "start")
    /\ UNCHANGED <<hubVars, upVars, lostVars, cloudRunning, statusListener, overrun, status, mainVars, late>>

CloudLost ==
    /\ cloud = "up"
    /\ cloud' = "connecting"
    /\ UNCHANGED <<hubVars, upVars, lostVars, cloudRunning, clouds, cupVars, status, mainVars, late>>

-----------------------------------------------------------------------------
(* onConnected of the hub *)

UpEnter(n) ==
    /\ up[n] = "start"
    /\ GoTo(up, n, "subscribe")
    /\ UNCHANGED <<hubVars, crossed, lostVars, cloudVars, cupVars, status, mainVars, late>>

\* The subscriptions are sent and awaited; the listeners are read.
UpFire(n) ==
    /\ up[n] = "subscribe"
    /\ GoTo(up, n, IF "conn" \in hubListeners THEN "set" ELSE "done")
    /\ UNCHANGED <<hubVars, crossed, lostVars, cloudVars, cupVars, status, mainVars, late>>

\* The loss of the connection is being announced, or has been.
Announced(n) == lost[n] \notin {"none", "start"}

\* Mutant: Connect does not set running again.
UpSet_NotSet(n) ==
    /\ up[n] = "set"
    /\ UNCHANGED cloudRunning
    /\ GoTo(up, n, "connect")
    /\ crossed' = (crossed \/ Announced(n))
    /\ late' = (late \/ "conn" \notin hubListeners)
    /\ UNCHANGED <<hubVars, lostVars, cloud, clouds, cupVars, status, mainVars>>

\* CloudConnectionHandler.Connected(true): Connect sets running ...
UpSet(n) ==
    /\ up[n] = "set"
    /\ cloudRunning' = TRUE
    /\ GoTo(up, n, "connect")
    /\ crossed' = (crossed \/ Announced(n))
    /\ late' = (late \/ "conn" \notin hubListeners)
    /\ UNCHANGED <<hubVars, lostVars, cloud, clouds, cupVars, status, mainVars>>

\* ... and starts the client unless it is connecting or connected.
UpConnect(n) ==
    /\ up[n] = "connect"
    /\ cloud' = IF cloud = "down" THEN "connecting" ELSE cloud
    /\ GoTo(up, n, "done")
    /\ crossed' = (crossed \/ Announced(n))
    /\ late' = (late \/ "conn" \notin hubListeners)
    /\ UNCHANGED <<hubVars, lostVars, cloudRunning, clouds, cupVars, status, mainVars>>

onConnected(n) == UpEnter(n) \/ UpFire(n) \/ UpSet(n) \/ UpConnect(n)

-----------------------------------------------------------------------------
(* onConnected of the cloud client: its only listener of interest publishes the status *)

CupEnter(m) ==
    /\ cup[m] = "start"
    /\ GoTo(cup, m, "subscribe")
    /\ overrun' = (overrun \/ cloud = "down" \/ ~cloudRunning)
    /\ UNCHANGED <<hubVars, upVars, lostVars, cloudVars, statusListener, status, mainVars, late>>

CupFire(m) ==
    /\ cup[m] = "subscribe"
    /\ GoTo(cup, m, IF statusListener THEN "status" ELSE "done")
    /\ UNCHANGED <<hubVars, upVars, lostVars, cloudVars, statusListener, overrun, status, mainVars, late>>

CupStatus(m) ==
    /\ cup[m] = "status"
    /\ SendStatus("connected")
    /\ GoTo(cup, m, "done")
    /\ UNCHANGED <<hubVars, upVars, lostVars, cloudVars, statusListener, overrun, mainVars, late>>

ConnectionStatusConnected(m) == CupEnter(m) \/ CupFire(m) \/ CupStatus(m)

\* What stopGroup counts.
CloudCounted == {m \in Clouds : cup[m] \in {"subscribe", "status"}}
HubCounted ==
    {n \in Links : up[n] \in {"subscribe", "set", "connect"}} \cup
    {n \in Links : lost[n] \in {"loop", "attempt", "connecting", "fire", "leave"} \/
                   (authErr[n] > 0 /\ lost[n] \in {"disconnect", "wait", "close", "errors"})}

-----------------------------------------------------------------------------
(* onConnectionLost of the hub *)

\* fireConnectionEvent(false, err): after the loss, and after every refusal
LostFire(n) ==
    /\ lost[n] \in {"start", "fire"}
    /\ snap' = [snap EXCEPT ![n] = hubListeners]
    /\ GoTo(lost, n, IF "conn" \in hubListeners THEN "disconnect" ELSE "errors")
    /\ UNCHANGED <<hubVars, upVars, authErr, missed, gaveUp, cloudVars, cupVars, status, mainVars, late>>

\* CloudConnectionHandler.Connected(false): Disconnect, which waits for the
\* callbacks of the cloud client only if it is the one that resets running
LostDisconnect(n) ==
    /\ lost[n] = "disconnect"
    /\ cloudRunning' = FALSE
    /\ GoTo(lost, n, IF cloudRunning THEN "wait" ELSE "errors")
    /\ UNCHANGED <<hubVars, upVars, snap, authErr, missed, gaveUp, cloud, clouds, cupVars, status,
                   mainVars, late>>

\* Mutant: the callbacks under way are not awaited.
LostWait_NoWait(n) ==
    /\ lost[n] = "wait"
    /\ GoTo(lost, n, "close")
    /\ UNCHANGED <<hubVars, upVars, snap, authErr, missed, gaveUp, cloudVars, cupVars, status, mainVars, late>>

LostWait(n) ==
    /\ lost[n] = "wait" /\ CloudCounted = {}
    /\ GoTo(lost, n, "close")
    /\ UNCHANGED <<hubVars, upVars, snap, authErr, missed, gaveUp, cloudVars, cupVars, status, mainVars, late>>

LostClose(n) ==
    /\ lost[n] = "close"
    /\ cloud' = "down"
    /\ GoTo(lost, n, "errors")
    /\ UNCHANGED <<hubVars, upVars, snap, authErr, missed, gaveUp, cloudRunning, clouds, cupVars,
                   status, mainVars, late>>

\* ErrorsHandler
TellErrors(n) ==
    /\ IF "errors" \in snap[n] THEN SendStatus("error") ELSE UNCHANGED status
    /\ late' = (late \/ "errors" \in snap[n] \ hubListeners)

\* After the loss has been announced: reconnecting.SetToIf
LostReconnect(n) ==
    /\ lost[n] = "errors" /\ authErr[n] = 0
    /\ TellErrors(n)
    /\ GoTo(lost, n, IF reconnecting THEN "done" ELSE "enter")
    /\ reconnecting' = TRUE
    /\ missed' = (missed \/ reconnecting)
    /\ UNCHANGED <<hub, future, links, hubRunning, hubListeners, upVars, snap, authErr, gaveUp,
                   cloudVars, cupVars, mainVars>>

\* After a refusal: the AuthErrRetries-th one ends externalReconnect
LostRetry(n) ==
    /\ lost[n] = "errors" /\ authErr[n] > 0
    /\ TellErrors(n)
    /\ GoTo(lost, n, IF authErr[n] = AuthErrRetries THEN "leave" ELSE "loop")
    /\ gaveUp' = (gaveUp \/ authErr[n] = AuthErrRetries)
    /\ UNCHANGED <<hubVars, upVars, snap, authErr, missed, cloudVars, cupVars, mainVars>>

LostEnter(n) ==
    /\ lost[n] = "enter"
    /\ GoTo(lost, n, "loop")
    /\ UNCHANGED <<hubVars, upVars, snap, authErr, missed, gaveUp, cloudVars, cupVars, status, mainVars, late>>

\* Mutant: running is not tested.
LostTest_IgnoresRunning(n) ==
    /\ lost[n] = "loop"
    /\ GoTo(lost, n, "attempt")
    /\ UNCHANGED <<hubVars, upVars, snap, authErr, missed, gaveUp, cloudVars, cupVars, status, mainVars, late>>

\* The pause, in which running is tested again and again; Disconnect may reset
\* it between the last test and the attempt.
LostTest(n) ==
    /\ lost[n] = "loop"
    /\ GoTo(lost, n, IF hubRunning THEN "attempt" ELSE "leave")
    /\ UNCHANGED <<hubVars, upVars, snap, authErr, missed, gaveUp, cloudVars, cupVars, status, mainVars, late>>

LostConnect(n) ==
    /\ lost[n] = "attempt"
    /\ hub' = "connecting"
    /\ future' = [future EXCEPT ![n] = "pending"]
    /\ GoTo(lost, n, "connecting")
    /\ UNCHANGED <<links, hubRunning, reconnecting, hubListeners, upVars, snap, authErr, missed,
                   gaveUp, cloudVars, cupVars, status, mainVars, late>>

LostConnected(n) ==
    /\ lost[n] = "connecting" /\ future[n] = "ok"
    /\ future' = [future EXCEPT ![n] = "none"]
    /\ GoTo(lost, n, "leave")
    /\ UNCHANGED <<hub, links, hubRunning, reconnecting, hubListeners, upVars, snap, authErr, missed,
                   gaveUp, cloudVars, cupVars, status, mainVars, late>>

\* Mutant: any failure ends the loop.
LostRefused_Leaves(n) ==
    /\ lost[n] = "connecting" /\ future[n] \in {"failed", "refused", "rejected"}
    /\ future' = [future EXCEPT ![n] = "none"]
    /\ \/ /\ future[n] = "refused"
          /\ authErr' = [authErr EXCEPT ![n] = @ + 1]
          /\ GoTo(lost, n, "fire")
       \/ /\ future[n] # "refused"
          /\ UNCHANGED authErr
          /\ GoTo(lost, n, "leave")
    /\ UNCHANGED <<hub, links, hubRunning, reconnecting, hubListeners, upVars, snap, missed, gaveUp,
                   cloudVars, cupVars, status, mainVars, late>>

LostRefused(n) ==
    /\ lost[n] = "connecting" /\ future[n] \in {"failed", "refused", "rejected"}
    /\ future' = [future EXCEPT ![n] = "none"]
    /\ \/ /\ future[n] = "refused"
          /\ authErr' = [authErr EXCEPT ![n] = @ + 1]
          /\ GoTo(lost, n, "fire")
       \/ /\ future[n] # "refused"
          /\ UNCHANGED authErr
          /\ GoTo(lost, n, "loop")
    /\ UNCHANGED <<hub, links, hubRunning, reconnecting, hubListeners, upVars, snap, missed, gaveUp,
                   cloudVars, cupVars, status, mainVars, late>>

\* stopGroup.Done and reconnecting.UnSet
LostLeave(n) ==
    /\ lost[n] = "leave"
    /\ reconnecting' = FALSE
    /\ GoTo(lost, n, "done")
    /\ UNCHANGED <<hub, future, links, hubRunning, hubListeners, upVars, snap, authErr, missed,
                   gaveUp, cloudVars, cupVars, status, mainVars, late>>

CloudHandler(n) == LostDisconnect(n) \/ LostWait(n) \/ LostClose(n)

externalReconnect(n) ==
    \/ LostEnter(n) \/ LostTest(n) \/ LostConnect(n) \/ LostConnected(n)
    \/ LostRefused(n) \/ LostRetry(n) \/ LostLeave(n)

onConnectionLost(n) ==
    LostFire(n) \/ CloudHandler(n) \/ LostReconnect(n) \/ externalReconnect(n)

-----------------------------------------------------------------------------
(* The goroutine of the launcher *)

Stop ==
    /\ signal = "none"
    /\ signal' = "sent"
    /\ UNCHANGED <<hubVars, upVars, lostVars, cloudVars, cupVars, status, main, mainAuth, aborted, abandoned, late>>

\* Nothing is connected yet: the listeners can be added in one step.
AddListeners ==
    /\ main = "listen"
    /\ statusListener' = TRUE
    /\ hubListeners' = {"conn", "errors"}
    /\ main' = "connect"
    /\ UNCHANGED <<hub, future, links, hubRunning, reconnecting, upVars, lostVars, cloudVars, cup,
                   overrun, status, mainAuth, aborted, signal, abandoned, late>>

HonoConnectStart ==
    /\ main = "connect"
    /\ hubRunning' = TRUE
    /\ hub' = "connecting"
    /\ future' = [future EXCEPT ![0] = "pending"]
    /\ main' = "connecting"
    /\ UNCHANGED <<links, reconnecting, hubListeners, upVars, lostVars, cloudVars, cupVars, status,
                   mainAuth, aborted, signal, abandoned, late>>

HonoConnectDone ==
    /\ main = "connecting" /\ future[0] = "ok"
    /\ future' = [future EXCEPT ![0] = "none"]
    /\ main' = "serve"
    /\ UNCHANGED <<hub, links, hubRunning, reconnecting, hubListeners, upVars, lostVars, cloudVars,
                   cupVars, status, mainAuth, aborted, signal, abandoned, late>>

\* Mutant: the limit is exceeded by one.
HonoConnectFailed_OneMore ==
    /\ main = "connecting" /\ future[0] \in {"failed", "refused", "rejected"}
    /\ future' = [future EXCEPT ![0] = "none"]
    /\ SendStatus("error")
    /\ mainAuth' = IF future[0] = "refused" THEN mainAuth + 1 ELSE mainAuth
    /\ aborted' = (future[0] = "rejected" \/ mainAuth' = AuthErrRetries + 1)
    /\ main' = IF aborted' THEN "removeErrors" ELSE "backoff"
    /\ UNCHANGED <<hub, links, hubRunning, reconnecting, hubListeners, upVars, lostVars, cloudVars,
                   cupVars, signal, abandoned, late>>

\* StatusCause: a rejected client is not retried, one that is not authorised
\* AuthErrRetries times.
HonoConnectFailed ==
    /\ main = "connecting" /\ future[0] \in {"failed", "refused", "rejected"}
    /\ future' = [future EXCEPT ![0] = "none"]
    /\ SendStatus("error")
    /\ mainAuth' = IF future[0] = "refused" THEN mainAuth + 1 ELSE mainAuth
    /\ aborted' = (future[0] = "rejected" \/ mainAuth' = AuthErrRetries)
    /\ main' = IF aborted' THEN "removeErrors" ELSE "backoff"
    /\ UNCHANGED <<hub, links, hubRunning, reconnecting, hubListeners, upVars, lostVars, cloudVars,
                   cupVars, signal, abandoned, late>>

HonoConnectRetry ==
    /\ main = "backoff"
    /\ main' = "connect"
    /\ UNCHANGED <<hubVars, upVars, lostVars, cloudVars, cupVars, status, mainAuth, aborted, signal, abandoned, late>>

\* A signal ends HonoConnect, the attempt it waits for goes on.
HonoConnectCancelled ==
    /\ main \in {"connecting", "backoff"} /\ signal = "sent"
    /\ signal' = "taken"
    /\ future' = [future EXCEPT ![0] = "none"]
    /\ aborted' = TRUE
    /\ abandoned' = (main = "connecting")
    /\ main' = "removeErrors"
    /\ UNCHANGED <<hub, links, hubRunning, reconnecting, hubListeners, upVars, lostVars, cloudVars,
                   cupVars, status, mainAuth, late>>

HonoConnect ==
    \/ HonoConnectStart \/ HonoConnectDone \/ HonoConnectFailed \/ HonoConnectRetry
    \/ HonoConnectCancelled

Serve ==
    /\ main = "serve" /\ signal = "sent"
    /\ signal' = "taken"
    /\ main' = "removeErrors"
    /\ UNCHANGED <<hubVars, upVars, lostVars, cloudVars, cupVars, status, mainAuth, aborted, abandoned, late>>

RemoveHubListener ==
    /\ \/ main = "removeErrors" /\ hubListeners' = hubListeners \ {"errors"} /\ main' = "removeConn"
       \/ main = "removeConn" /\ hubListeners' = hubListeners \ {"conn"} /\ main' = "removeStatus"
    /\ UNCHANGED <<hub, future, links, hubRunning, reconnecting, upVars, lostVars, cloudVars, cupVars,
                   status, mainAuth, aborted, signal, abandoned, late>>

\* After an error of HonoConnect the listeners are removed by the deferred calls
\* and the connections are left as they are.
RemoveStatusListener ==
    /\ main = "removeStatus"
    /\ statusListener' = FALSE
    /\ main' = IF aborted THEN "close" ELSE "cloudDisconnect"
    /\ UNCHANGED <<hubVars, upVars, lostVars, cloudVars, cup, overrun, status, mainAuth, aborted, signal, abandoned, late>>

\* cloudClient.Disconnect, and the close of the router
CloudDisconnect ==
    /\ \/ /\ main = "cloudDisconnect"
          /\ cloudRunning' = FALSE
          /\ main' = IF cloudRunning THEN "cloudWait" ELSE "hubDisconnect"
          /\ late' = (late \/ \E n \in Links : lost[n] \in {"wait", "close"})
          /\ UNCHANGED cloud
       \/ /\ main = "cloudWait" /\ CloudCounted = {}
          /\ main' = "cloudClose"
          /\ UNCHANGED <<cloud, cloudRunning, late>>
       \/ /\ main = "cloudClose"
          /\ cloud' = "down"
          /\ main' = "hubDisconnect"
          /\ UNCHANGED <<cloudRunning, late>>
    /\ UNCHANGED <<hubVars, upVars, lostVars, clouds, cupVars, status, mainAuth, aborted, signal, abandoned>>

\* Mutant: a reconnection under way is not awaited.
HubDisconnect_NoWait ==
    /\ \/ /\ main = "hubDisconnect"
          /\ hubRunning' = FALSE
          /\ main' = IF hubRunning THEN "hubWait" ELSE "close"
          /\ UNCHANGED hub
       \/ /\ main = "hubWait"
          /\ main' = "hubClose"
          /\ UNCHANGED <<hub, hubRunning>>
       \/ /\ main = "hubClose"
          /\ hub' = "down"
          /\ main' = "close"
          /\ UNCHANGED hubRunning
    /\ UNCHANGED <<future, links, reconnecting, hubListeners, upVars, lostVars, cloudVars, cupVars,
                   status, mainAuth, aborted, signal, abandoned, late>>

\* honoClient.Disconnect; it has no listeners any more.
HubDisconnect ==
    /\ \/ /\ main = "hubDisconnect"
          /\ hubRunning' = FALSE
          /\ main' = IF hubRunning THEN "hubWait" ELSE "close"
          /\ UNCHANGED hub
       \/ /\ main = "hubWait" /\ HubCounted = {}
          /\ main' = "hubClose"
          /\ UNCHANGED <<hub, hubRunning>>
       \/ /\ main = "hubClose"
          /\ hub' = "down"
          /\ main' = "close"
          /\ UNCHANGED hubRunning
    /\ UNCHANGED <<future, links, reconnecting, hubListeners, upVars, lostVars, cloudVars, cupVars,
                   status, mainAuth, aborted, signal, abandoned, late>>

\* The last deferred call: the status, the cache, the TPM and done
Closed ==
    /\ main = "close"
    /\ SendStatus("closed")
    /\ main' = "done"
    /\ UNCHANGED <<hubVars, upVars, lostVars, cloudVars, cupVars, mainAuth, aborted, signal, abandoned, late>>

Run ==
    \/ AddListeners \/ HonoConnect \/ Serve \/ RemoveHubListener
    \/ RemoveStatusListener \/ CloudDisconnect \/ HubDisconnect \/ Closed

Next ==
    \/ Stop \/ Run
    \/ \E n \in Links : onConnected(n) \/ onConnectionLost(n)
    \/ \E m \in Clouds : ConnectionStatusConnected(m)
    \/ HubConnects \/ HubRefuses \/ HubLost \/ CloudConnects \/ CloudLost

Spec == Init /\ [][Next]_vars

\* Goroutines keep running, an attempt to connect to the hub ends, and a signal
\* that is there during the pause of HonoConnect is taken; the cloud client need
\* not connect, and nobody has to call Stop.
Fairness ==
    /\ WF_vars(Run) /\ SF_vars(HonoConnectCancelled)
    /\ \A n \in Links : WF_vars(onConnected(n)) /\ WF_vars(onConnectionLost(n))
    /\ \A m \in Clouds : WF_vars(ConnectionStatusConnected(m))
    /\ WF_vars(HubConnects \/ HubRefuses)

FairSpec == Spec /\ Fairness

-----------------------------------------------------------------------------
Reconnecting(n) == lost[n] \in {"loop", "attempt", "connecting", "leave"}

\* No callback is announcing anything.
Settled ==
    /\ \A n \in Links : up[n] \in {"none", "done"}
    /\ \A n \in Links : lost[n] \in {"none", "done"} \/ Reconnecting(n)
    /\ \A m \in Clouds : cup[m] \in {"none", "done"}

\* While the launch serves and the callbacks have come to an end, the cloud client
\* runs exactly while the hub is connected: what local clients publish is taken
\* only if it can be passed on.  The exception is a connection that was announced
\* after its loss.
CloudFollowsHub ==
    (main = "serve" /\ Settled) =>
        \/ crossed
        \/ /\ cloudRunning <=> (hub = "up")
           /\ cloud # "down" <=> (hub = "up")

\* While the launch serves, the retained status says connected only if the hub is:
\* the disconnection of the cloud client waits for the callbacks that publish it.
\* The exceptions are a connection announced after its loss, and a callback of the
\* cloud client that began after the disconnection.
StatusTruthful ==
    (main = "serve" /\ Settled /\ status = "connected") => hub = "up" \/ crossed \/ overrun

\* A launch that has ended has left nothing behind: both clients are disconnected
\* and the status is closed.  The exceptions: an attempt to connect that was under
\* way when the signal ended HonoConnect, a hub connection announced after its loss,
\* a listener told after its removal and, for the status alone, a callback of the
\* cloud client that began after the disconnection.
StoppedClean ==
    (main = "done" /\ Settled) =>
        abandoned \/ crossed \/ late \/
            (hub = "down" /\ cloud = "down" /\ (status = "closed" \/ overrun))

\* Stop returns: whatever the callbacks, HonoConnect and externalReconnect are
\* doing, the goroutine of the launcher comes to its end.
StopReturns == signal = "sent" ~> main = "done"

\* As long as the launch serves, a lost hub connection is tried again, unless the
\* hub refused the credentials AuthErrRetries times or the loss came while the
\* reconnection before it had not reset its flag.
ReconnectGoesOn ==
    (main = "serve" /\ hub = "down") ~>
        (hub # "down" \/ main # "serve" \/ gaveUp \/ missed)
=============================================================================
