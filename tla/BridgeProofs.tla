----------------------------- MODULE BridgeProofs -----------------------------
(***************************************************************************)
(* Proofs about Bridge, for every number of connections of the two clients *)
(* and every AuthErrRetries: the cloud client follows the hub, the         *)
(* retained status is truthful, and a launch that has ended has left       *)
(* nothing behind; and a launch keeps the contract the event loop is       *)
(* built on (LaunchContract), but for the races it names.                  *)
(*                                                                         *)
(* None of the three is inductive.  They hold because only the last link   *)
(* is alive (LinkInv); because the callbacks of the last link bring the    *)
(* cloud client up and down in step with it (FollowInv); because a         *)
(* Disconnect that has returned, or the one that still waits, accounts for *)
(* every callback of the cloud client (ClosingInv), so that none of them   *)
(* can overwrite the status of a loss (StatusInv); and because the         *)
(* launcher takes its steps in this order (MainInv, StopInv, EndInv).      *)
(***************************************************************************)
EXTENDS Bridge, TLAPS

\* The results of an attempt that failed.
Refusals == {"failed", "refused", "rejected"}

\* The listeners are being told of a loss or of a refusal.
Telling == {"disconnect", "wait", "close", "errors"}

\* HonoConnect has not returned.
Trying == {"listen", "connect", "connecting", "backoff"}

\* The onConnectionLost of a link has come to its end, or only has to note that
\* its attempt has succeeded.
Over(n) == lost[n] \in {"leave", "done"} \/ (lost[n] = "connecting" /\ future[n] = "ok")

\* A first loss has been announced, the reconnection is under way.
Retrying(n) ==
    \/ lost[n] \in {"fire", "enter", "loop", "attempt", "connecting", "leave"}
    \/ authErr[n] > 0 /\ lost[n] \in Telling

\* Only the last link is up, or being lost and replaced.
LinkInv ==
    /\ hub = "up" => links > 0 /\ lost[links] = "none"
    /\ hub = "connecting" /\ links > 0 => lost[links] = "connecting" /\ future[links] = "pending"
    /\ \A n \in Links :
        /\ n > links => lost[n] = "none"
        /\ n < links => Over(n)
        /\ future[n] # "none" <=> lost[n] = "connecting"
        /\ future[n] = "pending" => n = links /\ hub = "connecting"

\* The refusals counted by a reconnection, and whom they are announced to: a
\* listener that is still registered is told.
RefusalInv ==
    \A n \in Links :
        /\ lost[n] \in {"none", "start", "enter"} => authErr[n] = 0
        /\ lost[n] = "fire" => authErr[n] > 0
        /\ lost[n] \in {"loop", "attempt", "connecting"} => authErr[n] < AuthErrRetries
        /\ lost[n] \in Telling => hubListeners \subseteq snap[n]

\* What the place of the launcher says of the attempt it waits for, the links and
\* the listeners.
MainInv ==
    /\ main \in Trying => ~aborted /\ ~abandoned /\ mainAuth < AuthErrRetries
    /\ main \in {"listen", "connect", "backoff"} => links = 0 /\ hub = "down"
    /\ main = "connecting" =>
        \/ future[0] = "pending" /\ links = 0 /\ hub = "connecting"
        \/ future[0] = "ok" /\ links > 0
        \/ future[0] \in Refusals /\ links = 0 /\ hub = "down"
    /\ main # "connecting" => future[0] = "none"
    /\ main \notin Trying /\ ~aborted => links > 0
    /\ abandoned => aborted
    /\ aborted => main \in {"removeErrors", "removeConn", "removeStatus", "close", "done"}
    /\ aborted /\ ~abandoned => links = 0 /\ hub = "down"
    /\ "conn" \in hubListeners <=> main \in {"connect", "connecting", "backoff", "serve",
                                             "removeErrors", "removeConn"}
    /\ "errors" \in hubListeners <=> main \in {"connect", "connecting", "backoff", "serve",
                                               "removeErrors"}

\* After honoClient.Disconnect has waited, nobody connects the hub again.
StopInv ==
    /\ ~hubRunning <=> ~aborted /\ main \in {"hubWait", "hubClose", "close", "done"}
    /\ ~aborted /\ main \in {"hubClose", "close", "done"} =>
        \A n \in Links : lost[n] \notin {"attempt", "connecting", "fire"}
    /\ ~aborted /\ main \in {"close", "done"} => hub = "down"
    /\ links > 0 /\ lost[links] = "none" => hub = "up" \/ main \in {"close", "done"}

\* The cloud client waits for the first hub connection.
NoLinkInv == links = 0 => cloud = "down" /\ clouds = 0

\* As long as CloudConnectionHandler is a listener, the callbacks of the last link
\* take the cloud client up and down with it.
FollowInv ==
    ("conn" \in hubListeners /\ ~crossed /\ links > 0) =>
        LET n == links
        IN  /\ lost[n] \in {"none", "start"} =>
                /\ up[n] \in {"start", "subscribe", "set", "connect"} => cloud = "down"
                /\ up[n] = "connect" => cloudRunning
                /\ up[n] = "done" => cloudRunning /\ cloud # "down"
            /\ lost[n] = "disconnect" /\ ~cloudRunning => cloud = "down"
            /\ lost[n] \in {"wait", "close"} => ~cloudRunning /\ authErr[n] = 0
            /\ Retrying(n) \/ lost[n] \in {"errors", "done"} => ~cloudRunning /\ cloud = "down"

\* A cloud client that does not run is down and has no callback under way, unless
\* a Disconnect still waits for that.
ClosingInv ==
    /\ ~crossed /\ ~late /\ ~cloudRunning =>
        \/ cloud = "down" \/ main \in {"cloudWait", "cloudClose"}
        \/ \E n \in Links : lost[n] \in {"wait", "close"}
    /\ ~overrun /\ ~cloudRunning =>
        \/ CloudCounted = {} \/ main = "cloudWait"
        \/ \E n \in Links : lost[n] = "wait"

\* Once ErrorsHandler has been told of the loss of the last link, the status does
\* not go back to connected.
StatusInv ==
    ("errors" \in hubListeners /\ ~crossed /\ ~overrun /\ links > 0
        /\ (Retrying(links) \/ lost[links] = "done"))
      => status # "connected"

\* What the launcher has achieved when it passes its Disconnect of the cloud client.
EndInv ==
    ~crossed /\ ~late =>
        /\ ~aborted /\ main \in {"cloudWait", "cloudClose", "hubDisconnect", "hubWait", "hubClose",
                                 "close", "done"} =>
             ~cloudRunning
        /\ ~aborted /\ main \in {"hubDisconnect", "hubWait", "hubClose", "close", "done"} =>
             cloud = "down"
        /\ ~aborted /\ ~overrun /\ main \in {"cloudClose", "hubDisconnect", "hubWait", "hubClose",
                                             "close", "done"} =>
             CloudCounted = {}
        /\ main = "done" /\ ~abandoned /\ ~overrun => status = "closed"

\* The inductive invariant.
IInv ==
    /\ TypeOK /\ LinkInv /\ RefusalInv /\ MainInv /\ StopInv
    /\ NoLinkInv /\ FollowInv /\ ClosingInv /\ StatusInv /\ EndInv

-----------------------------------------------------------------------------
(* The links: only the last one is connected, being lost or being replaced *)

\* A callback of a hub connection that has not come to its end belongs to the last
\* link, unless its loss has been announced.
LEMMA CurrentLink ==
    ASSUME TypeOK, LinkInv, NEW n \in Links
    PROVE  /\ n \in Nat /\ n > 0 /\ links \in Nat
           /\ up[n] # "none" => n <= links
           /\ ~Announced(n) /\ up[n] # "none" => n = links
           /\ lost[n] \in {"start", "fire", "enter", "loop", "attempt"} \cup Telling => n =
                   links
<1>1. n \in Nat /\ n > 0 /\ links \in Nat
    BY BridgeAssumption DEF TypeOK, Links
<1>2. up[n] # "none" => n <= links
    BY DEF TypeOK
<1>3. n < links => lost[n] \in {"leave", "done", "connecting"}
    BY DEF LinkInv, Over
<1>4. n > links => lost[n] = "none"
    BY DEF LinkInv
<1> QED
    BY <1>1, <1>2, <1>3, <1>4 DEF Announced, Telling

\* A connection of the hub begins with the cloud client down: the link before it
\* has been announced as lost.
LEMMA HubConnectsKeeps ==
    ASSUME IInv, HubConnects
    PROVE  IInv'
<1> USE BridgeAssumption DEF IInv, HubConnects, GoTo, Complete, upVars, lostVars, cloudVars,
        cupVars, mainVars
<1>1. TypeOK'
    BY DEF TypeOK, Links
<1>2. LinkInv'
    BY DEF TypeOK, LinkInv, Over, Links
<1>3. MainInv'
    BY DEF TypeOK, MainInv
<1>4. StopInv'
    BY DEF StopInv
<1>5. NoLinkInv'
    BY DEF TypeOK, NoLinkInv
<1>6. FollowInv'
    BY DEF TypeOK, FollowInv, Retrying, Telling, LinkInv, Links, NoLinkInv
<1>7. StatusInv'
    BY DEF TypeOK, StatusInv, Retrying, Telling, LinkInv, Links
<1>8. RefusalInv' /\ ClosingInv' /\ EndInv'
    BY DEF ClosingInv, CloudCounted, EndInv, RefusalInv
<1> QED
    BY <1>1, <1>2, <1>3, <1>4, <1>5, <1>6, <1>7, <1>8

\* A refusal leaves the futures of the other links alone.
LEMMA HubRefusesKeeps ==
    ASSUME IInv, HubRefuses
    PROVE  IInv'
<1> USE BridgeAssumption DEF IInv, HubRefuses, Complete, upVars, lostVars, cloudVars, cupVars,
        mainVars
<1>1. TypeOK'
    BY DEF TypeOK
<1>2. LinkInv'
    BY DEF LinkInv, Over, Links
<1>3. MainInv'
    BY DEF MainInv, Refusals
<1>4. StopInv'
    BY DEF StopInv
<1>5. RefusalInv' /\ NoLinkInv' /\ FollowInv' /\ ClosingInv' /\ StatusInv' /\ EndInv'
    BY DEF ClosingInv, CloudCounted, EndInv, FollowInv, NoLinkInv, RefusalInv, Retrying,
       StatusInv
<1> QED
    BY <1>1, <1>2, <1>3, <1>4, <1>5

\* Only the last link can be lost, and no refusal of its reconnection is counted
\* yet.
LEMMA HubLostKeeps ==
    ASSUME IInv, HubLost
    PROVE  IInv'
<1> USE DEF IInv, HubLost, GoTo, upVars, cloudVars, cupVars, mainVars
<1>1. TypeOK'
    BY DEF TypeOK, Links, LinkInv
<1>2. LinkInv'
    BY DEF LinkInv, Over
<1>3. RefusalInv'
    BY DEF RefusalInv, Telling, LinkInv
<1>4. MainInv'
    BY DEF MainInv
<1>5. StopInv'
    BY DEF TypeOK, StopInv, Links
<1>6. FollowInv'
    BY DEF FollowInv, Retrying, Telling, LinkInv
<1>7. ClosingInv'
    BY DEF ClosingInv, CloudCounted, LinkInv
<1>8. StatusInv'
    BY DEF StatusInv, Retrying, Telling
<1>9. NoLinkInv' /\ EndInv'
    BY DEF CloudCounted, EndInv, NoLinkInv
<1> QED
    BY <1>1, <1>2, <1>3, <1>4, <1>5, <1>6, <1>7, <1>8, <1>9

\* The cloud client connects only after a hub connection.
LEMMA CloudConnectsKeeps ==
    ASSUME IInv, CloudConnects
    PROVE  IInv'
<1> USE BridgeAssumption DEF IInv, CloudConnects, GoTo, hubVars, upVars, lostVars, mainVars
<1>1. TypeOK'
    BY DEF TypeOK, Clouds
<1>2. NoLinkInv'
    BY DEF NoLinkInv
<1>3. FollowInv'
    BY DEF FollowInv, Retrying
<1>4. ClosingInv'
    BY DEF ClosingInv, CloudCounted
<1>5. EndInv'
    BY DEF EndInv, CloudCounted
<1>6. LinkInv' /\ RefusalInv' /\ MainInv' /\ StopInv' /\ StatusInv'
    BY DEF LinkInv, MainInv, Over, RefusalInv, Retrying, StatusInv, StopInv
<1> QED
    BY <1>1, <1>2, <1>3, <1>4, <1>5, <1>6

\* A lost cloud connection is being re-established by the client itself.
LEMMA CloudLostKeeps ==
    ASSUME IInv, CloudLost
    PROVE  IInv'
<1> USE DEF IInv, CloudLost, hubVars, upVars, lostVars, cupVars, mainVars
<1>1. TypeOK'
    BY DEF TypeOK
<1>2. NoLinkInv'
    BY DEF NoLinkInv
<1>3. FollowInv'
    BY DEF FollowInv, Retrying
<1>4. ClosingInv'
    BY DEF ClosingInv, CloudCounted
<1>5. EndInv'
    BY DEF EndInv, CloudCounted
<1>6. LinkInv' /\ RefusalInv' /\ MainInv' /\ StopInv' /\ StatusInv'
    BY DEF LinkInv, MainInv, Over, RefusalInv, Retrying, StatusInv, StopInv
<1> QED
    BY <1>1, <1>2, <1>3, <1>4, <1>5, <1>6

\* onConnected of the hub enters stopGroup.
LEMMA UpEnterKeeps ==
    ASSUME IInv, NEW n \in Links, UpEnter(n)
    PROVE  IInv'
<1> USE DEF IInv, UpEnter, GoTo, hubVars, upVars, lostVars, cloudVars, cupVars, mainVars
<1>1. TypeOK'
    BY DEF TypeOK
<1>2. FollowInv'
    BY DEF FollowInv, Retrying
<1>3. LinkInv' /\ RefusalInv' /\ MainInv' /\ StopInv' /\ NoLinkInv' /\ ClosingInv' /\ StatusInv'
        /\ EndInv'
    BY DEF ClosingInv, CloudCounted, EndInv, LinkInv, MainInv, NoLinkInv, Over, RefusalInv,
       Retrying, StatusInv, StopInv
<1> QED
    BY <1>1, <1>2, <1>3

\* The listeners are told of the connection, the cloud client not yet touched.
LEMMA UpFireKeeps ==
    ASSUME IInv, NEW n \in Links, UpFire(n)
    PROVE  IInv'
<1> USE DEF IInv, UpFire, GoTo, hubVars, upVars, lostVars, cloudVars, cupVars, mainVars
<1>1. TypeOK'
    BY DEF TypeOK
<1>2. FollowInv'
    BY DEF FollowInv, Retrying
<1>3. LinkInv' /\ RefusalInv' /\ MainInv' /\ StopInv' /\ NoLinkInv' /\ ClosingInv' /\ StatusInv'
        /\ EndInv'
    BY DEF ClosingInv, CloudCounted, EndInv, LinkInv, MainInv, NoLinkInv, Over, RefusalInv,
       Retrying, StatusInv, StopInv
<1> QED
    BY <1>1, <1>2, <1>3

\* Connect sets running for the last link, unless the callback is crossed.
LEMMA UpSetKeeps ==
    ASSUME IInv, NEW n \in Links, UpSet(n)
    PROVE  IInv'
<1> USE DEF IInv, UpSet, GoTo, Announced, hubVars, upVars, lostVars, cupVars, mainVars
<1>1. TypeOK'
    BY DEF TypeOK
<1>2. FollowInv'
  <2> SUFFICES ASSUME ~crossed', links > 0
               PROVE  FollowInv'
    BY DEF FollowInv
  <2>1. ~crossed /\ ~Announced(n)
    OBVIOUS
  <2>2. n = links /\ lost[n] \in {"none", "start"}
    BY <2>1, CurrentLink DEF TypeOK
  <2>3. up'[n] = "connect" /\ cloudRunning' /\ ~crossed
    BY DEF TypeOK
  <2> QED
    BY <2>1, <2>2, <2>3 DEF FollowInv, Retrying, Telling, TypeOK
<1>3. ClosingInv'
    BY DEF ClosingInv
<1>4. StatusInv'
    BY DEF StatusInv, Retrying
<1>5. EndInv'
    BY DEF MainInv, EndInv
<1>6. LinkInv' /\ RefusalInv' /\ MainInv' /\ StopInv' /\ NoLinkInv'
    BY DEF LinkInv, MainInv, NoLinkInv, Over, RefusalInv, StopInv
<1> QED
    BY <1>1, <1>2, <1>3, <1>4, <1>5, <1>6

\* Connect starts the cloud client with running set, unless the callback is
\* crossed or late.
LEMMA UpConnectKeeps ==
    ASSUME IInv, NEW n \in Links, UpConnect(n)
    PROVE  IInv'
<1> USE DEF IInv, UpConnect, GoTo, Announced, hubVars, upVars, lostVars, cupVars, mainVars
<1>1. TypeOK'
    BY DEF TypeOK
<1>2. NoLinkInv'
    BY DEF TypeOK, NoLinkInv, Links
<1>3. FollowInv'
  <2> SUFFICES ASSUME "conn" \in hubListeners, ~crossed', links > 0
               PROVE  FollowInv'
    BY DEF FollowInv
  <2>1. ~crossed /\ ~Announced(n)
    OBVIOUS
  <2>2. n = links /\ lost[n] \in {"none", "start"}
    BY <2>1, CurrentLink DEF TypeOK
  <2>3. cloudRunning /\ up'[n] = "done" /\ cloud' # "down"
    BY <2>1, <2>2 DEF TypeOK, FollowInv
  <2> QED
    BY <2>1, <2>2, <2>3 DEF FollowInv, Retrying, Telling, TypeOK
<1>4. ClosingInv'
  <2>1. ASSUME ~crossed', ~late'
        PROVE  cloudRunning
    <3>1. ~crossed /\ ~Announced(n) /\ "conn" \in hubListeners
      BY <2>1
    <3>2. n = links /\ links > 0 /\ lost[n] \in {"none", "start"}
      BY <3>1, CurrentLink DEF TypeOK
    <3> QED
      BY <3>1, <3>2 DEF FollowInv
  <2>2. ~late' => ~late
    OBVIOUS
  <2> QED
    BY <2>1, <2>2 DEF ClosingInv, CloudCounted
<1>5. StatusInv'
    BY DEF StatusInv, Retrying
<1>6. EndInv'
    BY DEF MainInv, EndInv
<1>7. LinkInv' /\ RefusalInv' /\ MainInv' /\ StopInv'
    BY DEF LinkInv, MainInv, Over, RefusalInv, StopInv
<1> QED
    BY <1>1, <1>2, <1>3, <1>4, <1>5, <1>6, <1>7

\* A refusal is announced to listeners that a first loss has already told.
LEMMA LostFireKeeps ==
    ASSUME IInv, NEW n \in Links, LostFire(n)
    PROVE  IInv'
<1> USE DEF IInv, LostFire, GoTo, hubVars, upVars, cloudVars, cupVars, mainVars
<1>1. TypeOK'
    BY DEF TypeOK
<1>2. LinkInv'
    BY DEF LinkInv, Over
<1>3. RefusalInv'
    BY DEF TypeOK, RefusalInv
<1>4. StopInv'
    BY DEF StopInv
<1>5. FollowInv'
    BY DEF TypeOK, FollowInv, Retrying, RefusalInv
<1>6. ClosingInv'
    BY DEF ClosingInv, CloudCounted
<1>7. StatusInv'
    BY DEF StatusInv, Retrying, RefusalInv
<1>8. MainInv' /\ NoLinkInv' /\ EndInv'
    BY DEF CloudCounted, EndInv, MainInv, NoLinkInv
<1> QED
    BY <1>1, <1>2, <1>3, <1>4, <1>5, <1>6, <1>7, <1>8

\* Only the Disconnect that resets running goes on to wait and to close.
LEMMA LostDisconnectKeeps ==
    ASSUME IInv, NEW n \in Links, LostDisconnect(n)
    PROVE  IInv'
<1> USE DEF IInv, LostDisconnect, GoTo, hubVars, upVars, cupVars, mainVars
<1>1. TypeOK'
  <2>1. lost' \in [Links -> {"none", "start", "fire", "disconnect", "wait", "close", "errors",
                             "enter", "loop", "attempt", "connecting", "leave", "done"}]
    BY DEF TypeOK
  <2>2. cloudRunning' \in BOOLEAN
    BY DEF TypeOK
  <2> QED
    BY <2>1, <2>2 DEF TypeOK, Links, Clouds
<1>2. LinkInv'
    BY DEF LinkInv, Over
<1>3. RefusalInv'
    BY DEF RefusalInv, Telling
<1>4. StopInv'
    BY DEF StopInv
<1>5. FollowInv'
    BY DEF TypeOK, MainInv, FollowInv, Retrying, Telling, LinkInv, Over, Links, RefusalInv
<1>6. ClosingInv'
    BY DEF TypeOK, ClosingInv, CloudCounted
<1>7. StatusInv'
    BY DEF StatusInv, Retrying, Telling
<1>8. EndInv'
    BY DEF EndInv, CloudCounted
<1>9. MainInv' /\ NoLinkInv'
    BY DEF MainInv, NoLinkInv
<1> QED
    BY <1>1, <1>2, <1>3, <1>4, <1>5, <1>6, <1>7, <1>8, <1>9

\* No callback of the cloud client is counted when its Disconnect stops waiting.
LEMMA LostWaitKeeps ==
    ASSUME IInv, NEW n \in Links, LostWait(n)
    PROVE  IInv'
<1> USE DEF IInv, LostWait, GoTo, CloudCounted, hubVars, upVars, cloudVars, cupVars, mainVars
<1>1. TypeOK'
    BY DEF TypeOK
<1>2. LinkInv'
    BY DEF LinkInv, Over
<1>3. RefusalInv'
    BY DEF RefusalInv, Telling
<1>4. StopInv'
    BY DEF StopInv
<1>5. FollowInv'
    BY DEF FollowInv, Retrying
<1>6. ClosingInv'
    BY DEF ClosingInv
<1>7. StatusInv'
    BY DEF StatusInv, Retrying, Telling
<1>8. MainInv' /\ NoLinkInv' /\ EndInv'
    BY DEF EndInv, MainInv, NoLinkInv
<1> QED
    BY <1>1, <1>2, <1>3, <1>4, <1>5, <1>6, <1>7, <1>8

\* The cloud client is down when the handler of the loss returns.
LEMMA LostCloseKeeps ==
    ASSUME IInv, NEW n \in Links, LostClose(n)
    PROVE  IInv'
<1> USE DEF IInv, LostClose, GoTo, hubVars, upVars, cupVars, mainVars
<1>1. TypeOK'
    BY DEF TypeOK
<1>2. LinkInv'
    BY DEF LinkInv, Over
<1>3. RefusalInv'
    BY DEF RefusalInv, Telling
<1>4. StopInv'
    BY DEF StopInv
<1>5. NoLinkInv'
    BY DEF NoLinkInv
<1>6. FollowInv'
  <2>1. n = links
    BY DEF TypeOK, LinkInv, Over, Links
  <2>2. lost'[n] = "errors" /\ cloud' = "down"
    BY DEF TypeOK
  <2> QED
    BY <2>1, <2>2 DEF FollowInv, Retrying, Telling, TypeOK
<1>7. ClosingInv'
    BY DEF ClosingInv, CloudCounted
<1>8. StatusInv'
    BY DEF StatusInv, Retrying, Telling
<1>9. EndInv'
    BY DEF EndInv, CloudCounted
<1>10. MainInv'
    BY DEF MainInv
<1> QED
    BY <1>1, <1>2, <1>3, <1>4, <1>5, <1>6, <1>7, <1>8, <1>9, <1>10

\* The status says error before the reconnection begins.
LEMMA LostReconnectKeeps ==
    ASSUME IInv, NEW n \in Links, LostReconnect(n)
    PROVE  IInv'
<1> USE DEF IInv, LostReconnect, GoTo, TellErrors, SendStatus, upVars, cloudVars, cupVars,
        mainVars
<1>1. TypeOK'
    BY DEF TypeOK
<1>2. LinkInv'
    BY DEF LinkInv, Over
<1>3. RefusalInv'
    BY DEF RefusalInv, Telling
<1>4. StopInv'
    BY DEF StopInv
<1>5. FollowInv'
    BY DEF FollowInv, Retrying
<1>6. ClosingInv'
    BY DEF TypeOK, ClosingInv, CloudCounted
<1>7. StatusInv'
    BY DEF StatusInv, Telling, RefusalInv
<1>8. EndInv'
    BY DEF MainInv, EndInv, CloudCounted
<1>9. MainInv' /\ NoLinkInv'
    BY DEF MainInv, NoLinkInv
<1> QED
    BY <1>1, <1>2, <1>3, <1>4, <1>5, <1>6, <1>7, <1>8, <1>9

\* The status says error before the next attempt.
LEMMA LostRetryKeeps ==
    ASSUME IInv, NEW n \in Links, LostRetry(n)
    PROVE  IInv'
<1> USE BridgeAssumption DEF IInv, LostRetry, GoTo, TellErrors, SendStatus, hubVars, upVars,
        cloudVars, cupVars, mainVars
<1>1. TypeOK'
    BY DEF TypeOK
<1>2. LinkInv'
    BY DEF LinkInv, Over
<1>3. RefusalInv'
    BY DEF TypeOK, RefusalInv, Telling
<1>4. StopInv'
    BY DEF StopInv
<1>5. FollowInv'
    BY DEF FollowInv, Retrying
<1>6. ClosingInv'
    BY DEF TypeOK, ClosingInv, CloudCounted
<1>7. StatusInv'
    BY DEF StatusInv, Retrying, Telling
<1>8. EndInv'
    BY DEF MainInv, EndInv, CloudCounted
<1>9. MainInv' /\ NoLinkInv'
    BY DEF MainInv, NoLinkInv
<1> QED
    BY <1>1, <1>2, <1>3, <1>4, <1>5, <1>6, <1>7, <1>8, <1>9

\* externalReconnect enters stopGroup.
LEMMA LostEnterKeeps ==
    ASSUME IInv, NEW n \in Links, LostEnter(n)
    PROVE  IInv'
<1> USE BridgeAssumption DEF IInv, LostEnter, GoTo, hubVars, upVars, cloudVars, cupVars,
        mainVars
<1>1. TypeOK'
    BY DEF TypeOK
<1>2. LinkInv'
    BY DEF LinkInv, Over
<1>3. RefusalInv'
    BY DEF RefusalInv, Telling
<1>4. StopInv'
    BY DEF StopInv
<1>5. FollowInv'
    BY DEF FollowInv, Retrying
<1>6. ClosingInv'
    BY DEF ClosingInv, CloudCounted
<1>7. StatusInv'
    BY DEF StatusInv, Retrying
<1>8. MainInv' /\ NoLinkInv' /\ EndInv'
    BY DEF CloudCounted, EndInv, MainInv, NoLinkInv
<1> QED
    BY <1>1, <1>2, <1>3, <1>4, <1>5, <1>6, <1>7, <1>8

\* No attempt begins after running has been reset.
LEMMA LostTestKeeps ==
    ASSUME IInv, NEW n \in Links, LostTest(n)
    PROVE  IInv'
<1> USE DEF IInv, LostTest, GoTo, hubVars, upVars, cloudVars, cupVars, mainVars
<1>1. TypeOK'
    BY DEF TypeOK
<1>2. LinkInv'
    BY DEF LinkInv, Over
<1>3. RefusalInv'
    BY DEF RefusalInv, Telling
<1>4. StopInv'
    BY DEF StopInv
<1>5. FollowInv'
    BY DEF FollowInv, Retrying
<1>6. ClosingInv'
    BY DEF ClosingInv, CloudCounted
<1>7. StatusInv'
    BY DEF StatusInv, Retrying
<1>8. MainInv' /\ NoLinkInv' /\ EndInv'
    BY DEF CloudCounted, EndInv, MainInv, NoLinkInv
<1> QED
    BY <1>1, <1>2, <1>3, <1>4, <1>5, <1>6, <1>7, <1>8

\* The attempt of the last link is the only one under way.
LEMMA LostConnectKeeps ==
    ASSUME IInv, NEW n \in Links, LostConnect(n)
    PROVE  IInv'
<1> USE DEF IInv, LostConnect, GoTo, upVars, cloudVars, cupVars, mainVars
<1>1. TypeOK'
    BY DEF TypeOK, Links
<1>2. LinkInv'
    BY DEF TypeOK, MainInv, LinkInv, Over, Links
<1>3. RefusalInv'
    BY DEF RefusalInv, Telling
<1>4. MainInv'
    BY DEF MainInv, LinkInv, Links
<1>5. StopInv'
  <2>1. aborted \/ main \notin {"hubClose", "close", "done"}
    BY DEF StopInv
  <2>2. n = links
    BY CurrentLink
  <2>3. lost'[links] = "connecting"
    BY <2>2 DEF TypeOK
  <2>4. ~aborted => main \notin {"hubClose", "close", "done"}
    BY <2>1
  <2> QED
    BY <2>3, <2>4 DEF StopInv
<1>6. FollowInv'
    BY DEF FollowInv, Retrying
<1>7. ClosingInv'
    BY DEF ClosingInv, CloudCounted
<1>8. StatusInv'
    BY DEF StatusInv, Retrying
<1>9. NoLinkInv' /\ EndInv'
    BY DEF CloudCounted, EndInv, NoLinkInv
<1> QED
    BY <1>1, <1>2, <1>3, <1>4, <1>5, <1>6, <1>7, <1>8, <1>9

\* The link whose attempt has succeeded is not the last one any more.
LEMMA LostConnectedKeeps ==
    ASSUME IInv, NEW n \in Links, LostConnected(n)
    PROVE  IInv'
<1> USE DEF IInv, LostConnected, GoTo, upVars, cloudVars, cupVars, mainVars
<1>1. TypeOK'
    BY DEF TypeOK, Links
<1>2. LinkInv'
    BY DEF TypeOK, LinkInv, Over, Links
<1>3. RefusalInv'
    BY DEF RefusalInv, Telling
<1>4. MainInv'
    BY DEF MainInv, Links
<1>5. StopInv'
    BY DEF StopInv
<1>6. FollowInv'
    BY DEF FollowInv, Retrying
<1>7. ClosingInv'
    BY DEF ClosingInv, CloudCounted
<1>8. StatusInv'
    BY DEF StatusInv, Retrying
<1>9. NoLinkInv' /\ EndInv'
    BY DEF CloudCounted, EndInv, NoLinkInv
<1> QED
    BY <1>1, <1>2, <1>3, <1>4, <1>5, <1>6, <1>7, <1>8, <1>9

\* The refusals of one reconnection never exceed AuthErrRetries.
LEMMA LostRefusedKeeps ==
    ASSUME IInv, NEW n \in Links, LostRefused(n)
    PROVE  IInv'
<1> USE BridgeAssumption DEF IInv, LostRefused, GoTo, upVars, cloudVars, cupVars, mainVars
<1>1. TypeOK'
  <2>1. lost' \in [Links -> {"none", "start", "fire", "disconnect", "wait", "close", "errors",
                             "enter", "loop", "attempt", "connecting", "leave", "done"}]
    <3>1. PICK s \in {"fire", "loop"} : lost' = [lost EXCEPT ![n] = s]
      OBVIOUS
    <3> QED
      BY <3>1 DEF TypeOK
  <2>2. authErr[n] + 1 \in 0..AuthErrRetries
    BY DEF TypeOK, RefusalInv
  <2>3. authErr' \in [Links -> 0..AuthErrRetries]
    <3>1. authErr' = [authErr EXCEPT ![n] = authErr[n] + 1] \/ authErr' = authErr
      OBVIOUS
    <3>2. authErr \in [Links -> 0..AuthErrRetries]
      BY DEF TypeOK
    <3> HIDE DEF LostRefused, IInv
    <3> QED
      BY <2>2, <3>1, <3>2
  <2>4. future' \in [0..MaxLinks -> {"none", "pending", "ok", "failed", "refused", "rejected"}]
    BY DEF TypeOK, Links
  <2> QED
    BY <2>1, <2>2, <2>3, <2>4 DEF TypeOK, Links, Clouds
<1>2. LinkInv'
    BY DEF TypeOK, LinkInv, Over, Links
<1>3. RefusalInv'
    BY DEF TypeOK, RefusalInv, Telling
<1>4. MainInv'
    BY DEF MainInv, Links
<1>5. StopInv'
  <2>1. ~aborted => main \notin {"hubClose", "close", "done"}
    BY DEF StopInv
  <2>2. \A k \in Links : lost'[k] = "none" => lost[k] = "none"
    BY DEF TypeOK
  <2>3. links > 0 => links \in Links
    BY DEF TypeOK, Links
  <2> QED
    BY <2>1, <2>2, <2>3 DEF StopInv
<1>6. FollowInv'
    BY DEF TypeOK, FollowInv, Retrying, Links
<1>7. ClosingInv'
    BY DEF TypeOK, ClosingInv, CloudCounted
<1>8. StatusInv'
    BY DEF TypeOK, StatusInv, Retrying, Links
<1>9. NoLinkInv' /\ EndInv'
    BY DEF CloudCounted, EndInv, NoLinkInv
<1> QED
    BY <1>1, <1>2, <1>3, <1>4, <1>5, <1>6, <1>7, <1>8, <1>9

\* The reconnection ends.
LEMMA LostLeaveKeeps ==
    ASSUME IInv, NEW n \in Links, LostLeave(n)
    PROVE  IInv'
<1> USE DEF IInv, LostLeave, GoTo, upVars, cloudVars, cupVars, mainVars
<1>1. TypeOK'
  <2>1. lost' \in [Links -> {"none", "start", "fire", "disconnect", "wait", "close", "errors",
                             "enter", "loop", "attempt", "connecting", "leave", "done"}]
    BY DEF TypeOK
  <2>2. reconnecting' \in BOOLEAN
    BY DEF TypeOK
  <2> QED
    BY <2>1, <2>2 DEF TypeOK, Links, Clouds
<1>2. LinkInv'
    BY DEF LinkInv, Over
<1>3. RefusalInv'
    BY DEF RefusalInv, Telling
<1>4. StopInv'
    BY DEF StopInv
<1>5. FollowInv'
    BY DEF FollowInv, Retrying
<1>6. ClosingInv'
    BY DEF ClosingInv, CloudCounted
<1>7. StatusInv'
    BY DEF StatusInv, Retrying
<1>8. MainInv' /\ NoLinkInv' /\ EndInv'
    BY DEF CloudCounted, EndInv, MainInv, NoLinkInv
<1> QED
    BY <1>1, <1>2, <1>3, <1>4, <1>5, <1>6, <1>7, <1>8

\* A callback of the cloud client that begins after the disconnection is an
\* overrun.
LEMMA CupEnterKeeps ==
    ASSUME IInv, NEW m \in Clouds, CupEnter(m)
    PROVE  IInv'
<1> USE DEF IInv, CupEnter, GoTo, hubVars, upVars, lostVars, cloudVars, mainVars
<1>1. TypeOK'
    BY DEF TypeOK
<1>2. ClosingInv'
    BY DEF ClosingInv
<1>3. StatusInv'
    BY DEF StatusInv, Retrying
<1>4. EndInv'
    BY DEF EndInv
<1>5. LinkInv' /\ RefusalInv' /\ MainInv' /\ StopInv' /\ NoLinkInv' /\ FollowInv'
    BY DEF FollowInv, LinkInv, MainInv, NoLinkInv, Over, RefusalInv, Retrying, StopInv
<1> QED
    BY <1>1, <1>2, <1>3, <1>4, <1>5

\* The callback stays counted while it tells ConnectionStatusHandler.
LEMMA CupFireKeeps ==
    ASSUME IInv, NEW m \in Clouds, CupFire(m)
    PROVE  IInv'
<1> USE DEF IInv, CupFire, GoTo, hubVars, upVars, lostVars, cloudVars, mainVars
<1>1. TypeOK'
    BY DEF TypeOK
<1>2. ClosingInv'
    BY DEF ClosingInv, CloudCounted
<1>3. EndInv'
    BY DEF EndInv, CloudCounted
<1>4. LinkInv' /\ RefusalInv' /\ MainInv' /\ StopInv' /\ NoLinkInv' /\ FollowInv' /\ StatusInv'
    BY DEF FollowInv, LinkInv, MainInv, NoLinkInv, Over, RefusalInv, Retrying, StatusInv,
       StopInv
<1> QED
    BY <1>1, <1>2, <1>3, <1>4

\* The connected status is published only while Disconnect still waits for the
\* callback.
LEMMA CupStatusKeeps ==
    ASSUME IInv, NEW m \in Clouds, CupStatus(m)
    PROVE  IInv'
<1> USE DEF IInv, CupStatus, GoTo, SendStatus, hubVars, upVars, lostVars, cloudVars, mainVars
<1>1. TypeOK'
    BY DEF TypeOK
<1>2. ClosingInv'
    BY DEF ClosingInv, CloudCounted
<1>3. StatusInv'
  <2> SUFFICES ASSUME "errors" \in hubListeners, ~crossed, ~overrun, links > 0,
                      Retrying(links) \/ lost[links] = "done"
               PROVE  FALSE
    BY DEF StatusInv, Retrying
  <2>1. "conn" \in hubListeners /\ main # "cloudWait"
    BY DEF MainInv
  <2>2. ~cloudRunning
    BY <2>1 DEF FollowInv
  <2>3. m \in CloudCounted
    BY DEF CloudCounted
  <2>4. PICK k \in Links : lost[k] = "wait"
    BY <2>1, <2>2, <2>3 DEF ClosingInv
  <2>5. k = links
    BY <2>4, CurrentLink DEF Telling
  <2>6. authErr[links] = 0
    BY <2>1, <2>4, <2>5 DEF FollowInv
  <2> QED
    BY <2>4, <2>5, <2>6 DEF Retrying
<1>4. EndInv'
  <2>1. m \in CloudCounted /\ m > 0 /\ clouds > 0
    BY DEF CloudCounted, TypeOK, Clouds
  <2>2. links > 0
    BY <2>1 DEF NoLinkInv, TypeOK
  <2>3. ~(main = "done" /\ ~abandoned /\ ~overrun /\ ~crossed /\ ~late)
    BY <2>1, <2>2 DEF MainInv, EndInv
  <2>4. ~overrun /\ ~crossed /\ ~late /\ ~aborted => CloudCounted = {} \/ main \notin
          {"cloudClose", "hubDisconnect", "hubWait", "hubClose", "close", "done"}
    BY DEF EndInv
  <2> QED
    BY <2>1, <2>3, <2>4 DEF EndInv
<1>5. LinkInv' /\ RefusalInv' /\ MainInv' /\ StopInv' /\ NoLinkInv' /\ FollowInv'
    BY DEF FollowInv, LinkInv, MainInv, NoLinkInv, Over, RefusalInv, Retrying, StopInv
<1> QED
    BY <1>1, <1>2, <1>3, <1>4, <1>5

\* A signal changes nothing else.
LEMMA StopKeeps ==
    ASSUME IInv, Stop
    PROVE  IInv'
<1> USE DEF IInv, Stop, hubVars, upVars, lostVars, cloudVars, cupVars
<1>1. TypeOK'
    BY DEF TypeOK
<1>2. LinkInv' /\ RefusalInv' /\ MainInv' /\ StopInv' /\ NoLinkInv' /\ FollowInv' /\ ClosingInv'
        /\ StatusInv' /\ EndInv'
    BY DEF ClosingInv, CloudCounted, EndInv, FollowInv, LinkInv, MainInv, NoLinkInv, Over,
       RefusalInv, Retrying, StatusInv, StopInv
<1> QED
    BY <1>1, <1>2

\* The listeners are added before the first connection.
LEMMA AddListenersKeeps ==
    ASSUME IInv, AddListeners
    PROVE  IInv'
<1> USE DEF IInv, AddListeners, upVars, lostVars, cloudVars
<1>1. TypeOK'
    BY DEF TypeOK
<1>2. RefusalInv'
    BY DEF MainInv, RefusalInv, Telling, LinkInv, Links
<1>3. MainInv'
    BY DEF MainInv, Trying
<1>4. StopInv'
    BY DEF StopInv
<1>5. FollowInv'
    BY DEF MainInv, FollowInv
<1>6. ClosingInv'
    BY DEF ClosingInv, CloudCounted
<1>7. StatusInv'
    BY DEF MainInv, StatusInv
<1>8. EndInv'
    BY DEF EndInv
<1>9. LinkInv' /\ NoLinkInv'
    BY DEF LinkInv, NoLinkInv, Over
<1> QED
    BY <1>1, <1>2, <1>3, <1>4, <1>5, <1>6, <1>7, <1>8, <1>9

\* HonoConnect starts an attempt when there is no link.
LEMMA HonoConnectStartKeeps ==
    ASSUME IInv, HonoConnectStart
    PROVE  IInv'
<1> USE BridgeAssumption DEF IInv, HonoConnectStart, upVars, lostVars, cloudVars, cupVars
<1>1. TypeOK'
    BY DEF TypeOK
<1>2. LinkInv'
    BY DEF MainInv, LinkInv, Links
<1>3. MainInv'
    BY DEF TypeOK, MainInv, Trying
<1>4. StopInv'
    BY DEF MainInv, StopInv
<1>5. ClosingInv'
    BY DEF ClosingInv, CloudCounted
<1>6. EndInv'
    BY DEF EndInv
<1>7. RefusalInv' /\ NoLinkInv' /\ FollowInv' /\ StatusInv'
    BY DEF FollowInv, NoLinkInv, RefusalInv, Retrying, StatusInv
<1> QED
    BY <1>1, <1>2, <1>3, <1>4, <1>5, <1>6, <1>7

\* HonoConnect returns with a link.
LEMMA HonoConnectDoneKeeps ==
    ASSUME IInv, HonoConnectDone
    PROVE  IInv'
<1> USE BridgeAssumption DEF IInv, HonoConnectDone, upVars, lostVars, cloudVars, cupVars
<1>1. TypeOK'
    BY DEF TypeOK
<1>2. LinkInv'
    BY DEF LinkInv, Over, Links
<1>3. MainInv'
    BY DEF TypeOK, MainInv, Trying, Refusals
<1>4. StopInv'
    BY DEF StopInv
<1>5. ClosingInv'
    BY DEF ClosingInv, CloudCounted
<1>6. EndInv'
    BY DEF EndInv
<1>7. RefusalInv' /\ NoLinkInv' /\ FollowInv' /\ StatusInv'
    BY DEF FollowInv, NoLinkInv, RefusalInv, Retrying, StatusInv
<1> QED
    BY <1>1, <1>2, <1>3, <1>4, <1>5, <1>6, <1>7

\* The failures of HonoConnect stay below AuthErrRetries unless it gives up.
LEMMA HonoConnectFailedKeeps ==
    ASSUME IInv, HonoConnectFailed
    PROVE  IInv'
<1> USE BridgeAssumption DEF IInv, HonoConnectFailed, SendStatus, upVars, lostVars, cloudVars,
        cupVars
<1>1. TypeOK'
  <2>1. mainAuth' \in 0..AuthErrRetries
    BY DEF TypeOK, MainInv, Trying
  <2>2. aborted' \in BOOLEAN
    BY DEF TypeOK
  <2>3. main' \in {"removeErrors", "backoff"}
    BY DEF TypeOK
  <2>4. future' \in [0..MaxLinks -> {"none", "pending", "ok", "failed", "refused", "rejected"}]
    BY DEF TypeOK
  <2> QED
    BY <2>1, <2>2, <2>3, <2>4 DEF TypeOK, Links, Clouds
<1>2. LinkInv'
    BY DEF LinkInv, Over, Links
<1>3. MainInv'
  <2>1. ~aborted /\ ~abandoned /\ links = 0 /\ hub = "down"
    BY DEF TypeOK, MainInv, Trying, Refusals
  <2>2. future'[0] = "none"
    BY DEF TypeOK
  <2>3. CASE aborted'
    BY <2>1, <2>2, <2>3 DEF MainInv, Trying
  <2>4. CASE ~aborted'
    <3>1. main' = "backoff" /\ mainAuth' # AuthErrRetries
      BY <2>4
    <3>2. mainAuth' < AuthErrRetries
      BY <1>1, <3>1 DEF TypeOK
    <3> QED
      BY <2>1, <2>2, <2>4, <3>1, <3>2 DEF MainInv, Trying
  <2> QED
    BY <2>3, <2>4
<1>4. StopInv'
    BY DEF StopInv
<1>5. ClosingInv'
    BY DEF ClosingInv, CloudCounted
<1>6. StatusInv'
    BY DEF StatusInv
<1>7. EndInv'
    BY DEF EndInv
<1>8. RefusalInv' /\ NoLinkInv' /\ FollowInv'
    BY DEF FollowInv, NoLinkInv, RefusalInv, Retrying
<1> QED
    BY <1>1, <1>2, <1>3, <1>4, <1>5, <1>6, <1>7, <1>8

\* HonoConnect tries again.
LEMMA HonoConnectRetryKeeps ==
    ASSUME IInv, HonoConnectRetry
    PROVE  IInv'
<1> USE DEF IInv, HonoConnectRetry, hubVars, upVars, lostVars, cloudVars, cupVars
<1>1. TypeOK'
    BY DEF TypeOK
<1>2. MainInv'
    BY DEF MainInv, Trying
<1>3. StopInv'
    BY DEF StopInv
<1>4. ClosingInv'
    BY DEF ClosingInv, CloudCounted
<1>5. EndInv'
    BY DEF EndInv
<1>6. LinkInv' /\ RefusalInv' /\ NoLinkInv' /\ FollowInv' /\ StatusInv'
    BY DEF FollowInv, LinkInv, NoLinkInv, Over, RefusalInv, Retrying, StatusInv
<1> QED
    BY <1>1, <1>2, <1>3, <1>4, <1>5, <1>6

\* Only the cancellation of an attempt under way abandons one.
LEMMA HonoConnectCancelledKeeps ==
    ASSUME IInv, HonoConnectCancelled
    PROVE  IInv'
<1> USE BridgeAssumption DEF IInv, HonoConnectCancelled, upVars, lostVars, cloudVars, cupVars
<1>1. TypeOK'
    BY DEF TypeOK
<1>2. LinkInv'
    BY DEF LinkInv, Over, Links
<1>3. MainInv'
  <2>1. future'[0] = "none" /\ aborted' /\ main' = "removeErrors"
    BY DEF TypeOK
  <2>2. main # "connecting" => links = 0 /\ hub = "down" /\ ~abandoned'
    BY DEF MainInv, Trying
  <2>3. main = "connecting" => abandoned'
    OBVIOUS
  <2>4. hubListeners = {"conn", "errors"}
    BY DEF TypeOK, MainInv
  <2> QED
    BY <2>1, <2>2, <2>3, <2>4 DEF MainInv, Trying
<1>4. StopInv'
    BY DEF StopInv
<1>5. ClosingInv'
    BY DEF ClosingInv, CloudCounted
<1>6. EndInv'
    BY DEF EndInv
<1>7. RefusalInv' /\ NoLinkInv' /\ FollowInv' /\ StatusInv'
    BY DEF FollowInv, NoLinkInv, RefusalInv, Retrying, StatusInv
<1> QED
    BY <1>1, <1>2, <1>3, <1>4, <1>5, <1>6, <1>7

\* The launch begins to stop.
LEMMA ServeKeeps ==
    ASSUME IInv, Serve
    PROVE  IInv'
<1> USE DEF IInv, Serve, hubVars, upVars, lostVars, cloudVars, cupVars
<1>1. TypeOK'
    BY DEF TypeOK
<1>2. MainInv'
    BY DEF MainInv, Trying
<1>3. StopInv'
    BY DEF StopInv
<1>4. ClosingInv'
    BY DEF ClosingInv, CloudCounted
<1>5. EndInv'
    BY DEF EndInv
<1>6. LinkInv' /\ RefusalInv' /\ NoLinkInv' /\ FollowInv' /\ StatusInv'
    BY DEF FollowInv, LinkInv, NoLinkInv, Over, RefusalInv, Retrying, StatusInv
<1> QED
    BY <1>1, <1>2, <1>3, <1>4, <1>5, <1>6

\* ErrorsHandler is removed before CloudConnectionHandler.
LEMMA RemoveHubListenerKeeps ==
    ASSUME IInv, RemoveHubListener
    PROVE  IInv'
<1> USE DEF IInv, RemoveHubListener, upVars, lostVars, cloudVars, cupVars
<1>1. TypeOK'
  <2>1. main' \in {"cloudDisconnect", "cloudWait", "cloudClose", "hubDisconnect",
                  "hubWait", "hubClose", "close", "removeConn", "removeStatus"}
    BY DEF TypeOK
  <2>2. hubListeners' \subseteq {"conn", "errors"}
    BY DEF TypeOK
  <2> QED
    BY <2>1, <2>2 DEF TypeOK, Links, Clouds
<1>2. RefusalInv'
    BY DEF RefusalInv
<1>3. MainInv'
    BY DEF MainInv, Trying
<1>4. StopInv'
    BY DEF StopInv
<1>5. FollowInv'
    BY DEF FollowInv, Retrying
<1>6. ClosingInv'
    BY DEF ClosingInv, CloudCounted
<1>7. StatusInv'
    BY DEF StatusInv, Retrying
<1>8. EndInv'
    BY DEF EndInv
<1>9. LinkInv' /\ NoLinkInv'
    BY DEF LinkInv, NoLinkInv, Over
<1> QED
    BY <1>1, <1>2, <1>3, <1>4, <1>5, <1>6, <1>7, <1>8, <1>9

\* Nothing has run to the end of an aborted launch but its deferred calls.
LEMMA RemoveStatusListenerKeeps ==
    ASSUME IInv, RemoveStatusListener
    PROVE  IInv'
<1> USE DEF IInv, RemoveStatusListener, hubVars, upVars, lostVars, cloudVars
<1>1. TypeOK'
  <2>1. main' \in {"cloudDisconnect", "cloudWait", "cloudClose", "hubDisconnect",
                  "hubWait", "hubClose", "close", "removeConn", "removeStatus"}
    BY DEF TypeOK
  <2>2. statusListener' \in BOOLEAN
    BY DEF TypeOK
  <2> QED
    BY <2>1, <2>2 DEF TypeOK, Links, Clouds
<1>2. MainInv'
    BY DEF MainInv, Trying
<1>3. StopInv'
    BY DEF StopInv
<1>4. ClosingInv'
    BY DEF ClosingInv, CloudCounted
<1>5. EndInv'
    BY DEF EndInv
<1>6. LinkInv' /\ RefusalInv' /\ NoLinkInv' /\ FollowInv' /\ StatusInv'
    BY DEF FollowInv, LinkInv, NoLinkInv, Over, RefusalInv, Retrying, StatusInv
<1> QED
    BY <1>1, <1>2, <1>3, <1>4, <1>5, <1>6

\* The launcher's Disconnect of the cloud client waits, closes and leaves it
\* down.
LEMMA CloudDisconnectKeeps ==
    ASSUME IInv, CloudDisconnect
    PROVE  IInv'
<1> USE DEF IInv, CloudDisconnect, CloudCounted, hubVars, upVars, lostVars, cupVars
<1>1. TypeOK'
  <2>1. main' \in {"cloudDisconnect", "cloudWait", "cloudClose", "hubDisconnect",
                  "hubWait", "hubClose", "close", "removeConn", "removeStatus"}
    BY DEF TypeOK
  <2>2. cloudRunning' \in BOOLEAN
    BY DEF TypeOK
  <2>3. late' \in BOOLEAN
    BY DEF TypeOK
  <2>4. cloud' \in {"down", "connecting", "up"}
    BY DEF TypeOK
  <2> QED
    BY <2>1, <2>2, <2>3, <2>4 DEF TypeOK, Links, Clouds
<1>2. MainInv'
    BY DEF MainInv, Trying
<1>3. StopInv'
    BY DEF StopInv
<1>4. NoLinkInv'
    BY DEF NoLinkInv
<1>5. FollowInv'
    BY DEF MainInv, FollowInv
<1>6. ClosingInv'
    BY DEF ClosingInv
<1>7. EndInv'
    BY DEF EndInv, ClosingInv
<1>8. LinkInv' /\ RefusalInv' /\ StatusInv'
    BY DEF LinkInv, Over, RefusalInv, Retrying, StatusInv
<1> QED
    BY <1>1, <1>2, <1>3, <1>4, <1>5, <1>6, <1>7, <1>8

\* The launcher's Disconnect of the hub waits for the reconnection, so none
\* begins later.
LEMMA HubDisconnectKeeps ==
    ASSUME IInv, HubDisconnect
    PROVE  IInv'
<1> USE DEF IInv, HubDisconnect, HubCounted, upVars, lostVars, cloudVars, cupVars
<1>1. TypeOK'
  <2>1. main' \in {"cloudDisconnect", "cloudWait", "cloudClose", "hubDisconnect",
                  "hubWait", "hubClose", "close", "removeConn", "removeStatus"}
    BY DEF TypeOK
  <2>2. hubRunning' \in BOOLEAN
    BY DEF TypeOK
  <2>3. hub' \in {"down", "connecting", "up"}
    BY DEF TypeOK
  <2> QED
    BY <2>1, <2>2, <2>3 DEF TypeOK, Links, Clouds
<1>2. LinkInv'
    BY DEF MainInv, LinkInv, Over, StopInv
<1>3. MainInv'
    BY DEF MainInv, Trying
<1>4. StopInv'
  <2>1. ~aborted /\ (main = "hubDisconnect" => hubRunning)
    BY DEF MainInv, StopInv
  <2>2. CASE main = "hubDisconnect"
    BY <2>1, <2>2 DEF StopInv
  <2>3. CASE main = "hubWait"
    <3>1. \A n \in Links : lost[n] \notin {"attempt", "connecting", "fire"}
      BY <2>3
    <3> QED
      BY <2>1, <2>3, <3>1 DEF StopInv
  <2>4. CASE main = "hubClose"
    BY <2>1, <2>4 DEF StopInv
  <2> QED
    BY <2>2, <2>3, <2>4
<1>5. ClosingInv'
    BY DEF ClosingInv, CloudCounted
<1>6. EndInv'
    BY DEF EndInv, CloudCounted
<1>7. RefusalInv' /\ NoLinkInv' /\ FollowInv' /\ StatusInv'
    BY DEF FollowInv, NoLinkInv, RefusalInv, Retrying, StatusInv
<1> QED
    BY <1>1, <1>2, <1>3, <1>4, <1>5, <1>6, <1>7

\* The closed status is the last one.
LEMMA ClosedKeeps ==
    ASSUME IInv, Closed
    PROVE  IInv'
<1> USE DEF IInv, Closed, SendStatus, hubVars, upVars, lostVars, cloudVars, cupVars
<1>1. TypeOK'
    BY DEF TypeOK
<1>2. MainInv'
    BY DEF MainInv, Trying
<1>3. StopInv'
    BY DEF StopInv
<1>4. ClosingInv'
    BY DEF ClosingInv, CloudCounted
<1>5. StatusInv'
    BY DEF StatusInv
<1>6. EndInv'
    BY DEF EndInv, CloudCounted
<1>7. LinkInv' /\ RefusalInv' /\ NoLinkInv' /\ FollowInv'
    BY DEF FollowInv, LinkInv, NoLinkInv, Over, RefusalInv, Retrying
<1> QED
    BY <1>1, <1>2, <1>3, <1>4, <1>5, <1>6, <1>7

-----------------------------------------------------------------------------
(* The whole specification *)

\* The invariant holds when the launch starts.
LEMMA InitKeeps ==
    ASSUME Init
    PROVE  IInv
<1> USE BridgeAssumption DEF Init, Links, Clouds
<1>1. TypeOK
  <2>1. /\ crossed \in BOOLEAN /\ overrun \in BOOLEAN /\ abandoned \in BOOLEAN
        /\ late \in BOOLEAN /\ missed \in BOOLEAN /\ gaveUp \in BOOLEAN
        /\ hubRunning \in BOOLEAN /\ reconnecting \in BOOLEAN /\ cloudRunning \in BOOLEAN
        /\ statusListener \in BOOLEAN /\ aborted \in BOOLEAN
    BY DEF Init
  <2>2. links \in 0..MaxLinks /\ clouds \in 0..MaxClouds
    OBVIOUS
  <2>3. future \in [0..MaxLinks -> {"none"}] /\ up \in [Links -> {"none"}]
    OBVIOUS
  <2>4. lost \in [Links -> {"none"}] /\ snap \in [Links -> SUBSET {}]
    OBVIOUS
  <2>5. authErr \in [Links -> 0..AuthErrRetries] /\ mainAuth \in 0..AuthErrRetries
    OBVIOUS
  <2>6. cup \in [Clouds -> {"none"}]
    OBVIOUS
  <2> QED
    BY <2>1, <2>2, <2>3, <2>4, <2>5, <2>6 DEF TypeOK
<1>2. LinkInv /\ RefusalInv
    BY DEF LinkInv, RefusalInv, Telling
<1>3. MainInv /\ StopInv
    BY DEF MainInv, StopInv, Trying
<1>4. NoLinkInv /\ FollowInv /\ ClosingInv /\ StatusInv /\ EndInv
    BY DEF NoLinkInv, FollowInv, ClosingInv, StatusInv, EndInv, CloudCounted
<1> QED
    BY <1>1, <1>2, <1>3, <1>4 DEF IInv

\* Every step of the launcher, of a callback and of the clients keeps the
\* invariant.
LEMMA StepKeeps ==
    ASSUME IInv, [Next]_vars
    PROVE  IInv'
<1>1. CASE Run
    BY <1>1, AddListenersKeeps, HonoConnectStartKeeps, HonoConnectDoneKeeps,
       HonoConnectFailedKeeps, HonoConnectRetryKeeps, HonoConnectCancelledKeeps, ServeKeeps,
       RemoveHubListenerKeeps, RemoveStatusListenerKeeps, CloudDisconnectKeeps,
       HubDisconnectKeeps, ClosedKeeps DEF Run, HonoConnect
<1>2. ASSUME NEW n \in Links, onConnected(n)
      PROVE  IInv'
    BY <1>2, UpEnterKeeps, UpFireKeeps, UpSetKeeps, UpConnectKeeps DEF onConnected
<1>3. ASSUME NEW n \in Links, onConnectionLost(n)
      PROVE  IInv'
    BY <1>3, LostFireKeeps, LostDisconnectKeeps, LostWaitKeeps, LostCloseKeeps,
       LostReconnectKeeps, LostRetryKeeps, LostEnterKeeps, LostTestKeeps, LostConnectKeeps,
       LostConnectedKeeps, LostRefusedKeeps, LostLeaveKeeps DEF onConnectionLost, CloudHandler,
       externalReconnect
<1>4. ASSUME NEW m \in Clouds, ConnectionStatusConnected(m)
      PROVE  IInv'
    BY <1>4, CupEnterKeeps, CupFireKeeps, CupStatusKeeps DEF ConnectionStatusConnected
<1>5. CASE Stop
    BY <1>5, StopKeeps
<1>6. CASE HubConnects
    BY <1>6, HubConnectsKeeps
<1>7. CASE HubRefuses
    BY <1>7, HubRefusesKeeps
<1>8. CASE HubLost
    BY <1>8, HubLostKeeps
<1>9. CASE CloudConnects
    BY <1>9, CloudConnectsKeeps
<1>10. CASE CloudLost
    BY <1>10, CloudLostKeeps
<1>11. CASE UNCHANGED vars
  <2> USE <1>11 DEF vars, hubVars, upVars, lostVars, cloudVars, cupVars, mainVars, IInv
  <2>1. TypeOK'
    BY DEF TypeOK
  <2>2. LinkInv' /\ RefusalInv'
    BY DEF LinkInv, RefusalInv, Over
  <2>3. MainInv' /\ StopInv'
    BY DEF MainInv, StopInv
  <2>4. NoLinkInv' /\ FollowInv' /\ StatusInv'
    BY DEF NoLinkInv, FollowInv, StatusInv, Retrying
  <2>5. ClosingInv' /\ EndInv'
    BY DEF ClosingInv, EndInv, CloudCounted
  <2> QED
    BY <2>1, <2>2, <2>3, <2>4, <2>5
<1> QED
    BY <1>1, <1>2, <1>3, <1>4, <1>5, <1>6, <1>7, <1>8, <1>9, <1>10, <1>11 DEF Next

\* The inductive invariant holds throughout a launch.
THEOREM Invariance == Spec => []IInv
<1>1. Init => IInv
    BY InitKeeps
<1>2. IInv /\ [Next]_vars => IInv'
    BY StepKeeps
<1> QED
    BY <1>1, <1>2, PTL DEF Spec

\* Type correctness: the callbacks of the two clients exist exactly for their
\* connections so far, and neither counter of refusals exceeds AuthErrRetries.
THEOREM TypeCorrect == Spec => []TypeOK
<1>1. IInv => TypeOK
    BY DEF IInv
<1> QED
    BY <1>1, Invariance, PTL

\* With the callbacks at rest and a link that is not up, the last link has been
\* announced as lost.
LEMMA RestingLink ==
    ASSUME IInv, Settled, main = "serve"
    PROVE  /\ links \in Links
           /\ {"conn", "errors"} \subseteq hubListeners
           /\ hub = "up" => lost[links] = "none" /\ up[links] = "done"
           /\ hub # "up" => Retrying(links) \/ lost[links] = "done"
<1>1. links > 0 /\ {"conn", "errors"} \subseteq hubListeners
    BY DEF IInv, MainInv, TypeOK, Trying
<1>2. links \in Links
    BY <1>1, BridgeAssumption DEF IInv, TypeOK, Links
<1>3. up[links] = "done"
    BY <1>2, BridgeAssumption DEF Settled, IInv, TypeOK, Links
<1>4. hub = "up" => lost[links] = "none"
    BY DEF IInv, LinkInv
<1>5. lost[links] \in {"none", "done"} \/ Retrying(links)
    BY <1>2 DEF Settled, Reconnecting, Retrying
<1>6. lost[links] = "none" => hub = "up"
    BY <1>1 DEF IInv, StopInv
<1> QED
    BY <1>1, <1>2, <1>3, <1>4, <1>5, <1>6

\* While the launch serves and the callbacks are at rest, the cloud client runs
\* exactly while the hub is connected, unless a connection was announced after its
\* loss.
THEOREM CloudWithHub == Spec => []CloudFollowsHub
<1>1. IInv => CloudFollowsHub
  <2> SUFFICES ASSUME IInv, main = "serve", Settled, ~crossed
               PROVE  /\ cloudRunning <=> (hub = "up")
                      /\ cloud # "down" <=> (hub = "up")
    BY DEF CloudFollowsHub
  <2>1. links > 0 /\ "conn" \in hubListeners
    BY RestingLink, BridgeAssumption DEF Links
  <2>2. CASE hub = "up"
    BY <2>1, <2>2, RestingLink DEF IInv, FollowInv
  <2>3. CASE hub # "up"
    BY <2>1, <2>3, RestingLink DEF IInv, FollowInv
  <2> QED
    BY <2>2, <2>3
<1> QED
    BY <1>1, Invariance, PTL

\* While the launch serves and the callbacks are at rest, a retained status that
\* says connected is true, unless a connection was announced after its loss or a
\* callback of the cloud client began after the disconnection.
THEOREM StatusIsTruthful == Spec => []StatusTruthful
<1>1. IInv => StatusTruthful
  <2> SUFFICES ASSUME IInv, main = "serve", Settled, hub # "up", ~crossed, ~overrun
               PROVE  status # "connected"
    BY DEF StatusTruthful
  <2>1. links > 0 /\ "errors" \in hubListeners
    BY RestingLink, BridgeAssumption DEF Links
  <2> QED
    BY <2>1, RestingLink DEF IInv, StatusInv
<1> QED
    BY <1>1, Invariance, PTL

\* A launch that has ended, whatever its callbacks were doing when it was stopped,
\* has left both clients disconnected and the status closed, but for the exceptions
\* that StoppedClean names.
THEOREM EndsClean == Spec => []StoppedClean
<1>1. IInv => StoppedClean
  <2> SUFFICES ASSUME IInv, main = "done", ~abandoned, ~crossed, ~late
               PROVE  hub = "down" /\ cloud = "down" /\ (status = "closed" \/ overrun)
    BY DEF StoppedClean
  <2>1. hub = "down"
    BY DEF IInv, MainInv, StopInv
  <2>2. cloud = "down"
    BY DEF IInv, MainInv, NoLinkInv, EndInv
  <2>3. status = "closed" \/ overrun
    BY DEF IInv, EndInv
  <2> QED
    BY <2>1, <2>2, <2>3
<1> QED
    BY <1>1, Invariance, PTL

-----------------------------------------------------------------------------
(* The contract of a launch: Bridge implements LaunchContract *)

\* The launcher has removed the listeners and passes its Disconnect of the cloud
\* client, has waited for its callbacks, or is done.
Leaving == {"cloudWait", "cloudClose", "hubDisconnect", "hubWait", "hubClose", "close", "done"}
Quiet == Leaving \ {"cloudWait"}

\* After its Disconnect of the cloud client no callback of that publishes a status,
\* also if a connection was announced after its loss.
QuietInv ==
    ~late /\ ~aborted =>
        /\ main \in Leaving => ~cloudRunning
        /\ main \in Quiet /\ ~overrun => CloudCounted = {}

\* A launch that has served leaves because of a signal.
SignalInv ==
    /\ main \in Trying \cup {"serve"} => signal # "taken"
    /\ main \notin Trying \cup {"serve"} /\ ~aborted => signal = "taken"

ContractInv == IInv /\ QuietInv /\ SignalInv

\* The races in which a launch breaks its contract: a listener is told after its
\* removal, a callback of the cloud client begins after the disconnection, or a
\* signal ends HonoConnect while an attempt is under way.
Races == late \/ overrun \/ abandoned

\* A launch that has served and is asked to end still serves until both clients are
\* disconnected: its callbacks may report till then.
Work ==
    IF main = "done" THEN "closed"
    ELSE IF aborted \/ main = "close" THEN "closing"
    ELSE IF links = 0 THEN "connecting" ELSE "serving"

Taken == IF signal = "taken" /\ Work \in {"connecting", "serving"} THEN "sent" ELSE signal

L == INSTANCE LaunchContract WITH work <- Work, signal <- Taken

\* Every step of the launch, its callbacks included, is one its contract allows, or
\* changes nothing the event loop can see, unless one of the races has happened.
KeepsContract == L!Init /\ [][L!Next \/ Races']_(L!vars)

\* Steps that leave alone what the two additional invariants are about.
LEMMA QuietKept ==
    ASSUME QuietInv, SignalInv,
           UNCHANGED <<late, aborted, overrun, main, cloudRunning, cup, signal>>
    PROVE  QuietInv' /\ SignalInv'
BY DEF QuietInv, SignalInv, CloudCounted

\* The hub's and the cloud's clients.
LEMMA ClientQuiet ==
    ASSUME ContractInv,
           HubConnects \/ HubRefuses \/ HubLost \/ CloudConnects \/ CloudLost \/ UNCHANGED vars
    PROVE  QuietInv' /\ SignalInv'
<1>1. CASE CloudConnects
  <2>1. \A m \in Clouds : cup'[m] # cup[m] => cup'[m] = "start"
    BY <1>1 DEF CloudConnects, GoTo, ContractInv, IInv, TypeOK
  <2>2. CloudCounted' \subseteq CloudCounted
    BY <2>1 DEF CloudCounted
  <2>3. UNCHANGED <<late, aborted, overrun, main, cloudRunning, signal>>
    BY <1>1 DEF CloudConnects, mainVars
  <2> QED
    BY <2>2, <2>3 DEF ContractInv, QuietInv, SignalInv
<1>2. CASE ~CloudConnects
    BY <1>2, QuietKept DEF ContractInv, HubConnects, HubRefuses, HubLost, CloudLost, vars,
       cloudVars, cupVars, mainVars
<1> QED
    BY <1>1, <1>2

\* The callbacks of the hub: who sets running after the listener's removal is late.
LEMMA LinkQuiet ==
    ASSUME ContractInv, NEW n \in Links, onConnected(n) \/ onConnectionLost(n)
    PROVE  QuietInv' /\ SignalInv'
<1>1. UNCHANGED <<aborted, overrun, main, cup, signal>>
    BY DEF onConnected, UpEnter, UpFire, UpSet, UpConnect, onConnectionLost, LostFire,
       CloudHandler, LostDisconnect, LostWait, LostClose, LostReconnect, externalReconnect,
       LostEnter, LostTest, LostConnect, LostConnected, LostRefused, LostRetry, LostLeave,
       cupVars, mainVars
<1>2. late => late'
    BY DEF onConnected, UpEnter, UpFire, UpSet, UpConnect, onConnectionLost, LostFire,
       CloudHandler, LostDisconnect, LostWait, LostClose, LostReconnect, externalReconnect,
       LostEnter, LostTest, LostConnect, LostConnected, LostRefused, LostRetry, LostLeave,
       TellErrors
<1>3. ~late' /\ ~aborted /\ main \in Leaving => (cloudRunning' => cloudRunning)
  <2>1. CASE UpSet(n)
    BY <2>1 DEF UpSet, ContractInv, IInv, MainInv, Leaving
  <2>2. CASE ~UpSet(n)
    BY <2>2 DEF onConnected, UpEnter, UpFire, UpConnect, onConnectionLost, LostFire,
       CloudHandler, LostDisconnect, LostWait, LostClose, LostReconnect, externalReconnect,
       LostEnter, LostTest, LostConnect, LostConnected, LostRefused, LostRetry, LostLeave,
       cloudVars
  <2> QED
    BY <2>1, <2>2
<1> QED
    BY <1>1, <1>2, <1>3 DEF ContractInv, QuietInv, SignalInv, CloudCounted

\* The callbacks of the cloud client: one that begins when it does not run overruns.
LEMMA CupQuiet ==
    ASSUME ContractInv, NEW m \in Clouds, ConnectionStatusConnected(m)
    PROVE  QuietInv' /\ SignalInv'
<1>1. UNCHANGED <<late, aborted, main, cloudRunning, signal>>
    BY DEF ConnectionStatusConnected, CupEnter, CupFire, CupStatus, cloudVars, mainVars
<1>2. overrun => overrun'
    BY DEF ConnectionStatusConnected, CupEnter, CupFire, CupStatus
<1>3. ~overrun' /\ ~cloudRunning => CloudCounted' \subseteq CloudCounted
    BY DEF ConnectionStatusConnected, CupEnter, CupFire, CupStatus, GoTo, CloudCounted,
       ContractInv, IInv, TypeOK
<1>4. Quiet \subseteq Leaving
    BY DEF Quiet
<1> QED
    BY <1>1, <1>2, <1>3, <1>4 DEF ContractInv, QuietInv, SignalInv

\* The launcher and its signal.
LEMMA MainQuiet ==
    ASSUME ContractInv, Run \/ Stop
    PROVE  QuietInv' /\ SignalInv'
<1> USE DEF ContractInv, QuietInv, SignalInv, Quiet, Leaving, Trying
<1>1. CASE Stop
    BY <1>1 DEF Stop, CloudCounted, cloudVars, cupVars
<1>2. CASE CloudDisconnect
  <2>1. ~aborted /\ UNCHANGED <<aborted, overrun, cup, signal>>
    BY <1>2 DEF CloudDisconnect, cupVars, IInv, MainInv
  <2>2. CASE main = "cloudDisconnect"
    BY <1>2, <2>1, <2>2 DEF CloudDisconnect, IInv, ClosingInv, CloudCounted
  <2>3. CASE main = "cloudWait"
    BY <1>2, <2>1, <2>3 DEF CloudDisconnect, CloudCounted
  <2>4. CASE main = "cloudClose"
    BY <1>2, <2>1, <2>4 DEF CloudDisconnect, CloudCounted
  <2> QED
    BY <1>2, <2>2, <2>3, <2>4 DEF CloudDisconnect
<1>3. CASE HubDisconnect
    BY <1>3 DEF HubDisconnect, CloudCounted, cloudVars, cupVars
<1>4. CASE Closed
    BY <1>4 DEF Closed, CloudCounted, cloudVars, cupVars
<1>5. CASE AddListeners \/ RemoveHubListener \/ RemoveStatusListener
    BY <1>5 DEF AddListeners, RemoveHubListener, RemoveStatusListener
<1>6. CASE HonoConnect \/ Serve
    BY <1>6 DEF HonoConnect, HonoConnectStart, HonoConnectDone, HonoConnectFailed,
       HonoConnectRetry, HonoConnectCancelled, Serve, IInv, MainInv
<1> QED
    BY <1>1, <1>2, <1>3, <1>4, <1>5, <1>6 DEF Run

\* The invariant the contract rests on.
THEOREM ContractInvariance == Spec => []ContractInv
<1>1. Init => QuietInv /\ SignalInv
    BY DEF Init, QuietInv, SignalInv, Leaving, Quiet, Trying
<1>2. ContractInv /\ [Next]_vars => ContractInv'
  <2> SUFFICES ASSUME ContractInv, [Next]_vars PROVE ContractInv'
    OBVIOUS
  <2>1. IInv'
    BY StepKeeps DEF ContractInv
  <2>2. QuietInv' /\ SignalInv'
    BY ClientQuiet, LinkQuiet, CupQuiet, MainQuiet DEF Next
  <2> QED
    BY <2>1, <2>2 DEF ContractInv
<1> QED
    BY <1>1, <1>2, InitKeeps, PTL DEF Spec, ContractInv

\* A step that the event loop may see.
Allowed == L!Next \/ Races' \/ UNCHANGED L!vars

\* The event loop sees nothing but the launcher, the first connection, the signal
\* and the status.
LEMMA Unseen ==
    ASSUME UNCHANGED <<main, aborted, links, signal, status>>
    PROVE  Allowed
BY DEF Allowed, L!vars, Work, Taken

\* A status while the launch serves.
LEMMA Reported ==
    ASSUME Work = "serving", UNCHANGED <<main, aborted, links, signal>>,
           status' \in {"connected", "error"}
    PROVE  Allowed
<1>1. Work' = Work /\ Taken' = Taken
    BY DEF Work, Taken
<1> QED
    BY <1>1 DEF Allowed, L!Next, L!HubUp, L!HubDown

\* The first connection lets the launch serve; a later one is not seen.
LEMMA HubConnectsAllowed ==
    ASSUME ContractInv, HubConnects
    PROVE  Allowed
<1>1. UNCHANGED <<main, aborted, signal, status>> /\ links' = links + 1 /\ links \in Nat
    BY BridgeAssumption DEF HubConnects, mainVars, ContractInv, IInv, TypeOK
<1>2. CASE Work = "connecting"
  <2>1. Work' = "serving"
    BY <1>1, <1>2 DEF Work
  <2>2. Taken' = Taken
    BY <1>1, <1>2, <2>1 DEF Taken
  <2> QED
    BY <1>1, <1>2, <2>1, <2>2 DEF Allowed, L!Next, L!Connected
<1>3. CASE Work # "connecting"
  <2>1. Work' = Work
    BY <1>1, <1>3 DEF Work
  <2> QED
    BY <1>1, <2>1 DEF Allowed, L!vars, Taken
<1> QED
    BY <1>2, <1>3

\* A callback exists only for a connection, and reports only while the launch
\* serves: a launch that HonoConnect has given up has none, and one that closes
\* has removed its listeners before.
LEMMA LinkAllowed ==
    ASSUME ContractInv, NEW n \in Links, onConnected(n) \/ onConnectionLost(n)
    PROVE  Allowed
<1>1. UNCHANGED <<main, aborted, abandoned, links, signal>>
    BY DEF onConnected, UpEnter, UpFire, UpSet, UpConnect, onConnectionLost, LostFire,
       CloudHandler, LostDisconnect, LostWait, LostClose, LostReconnect, externalReconnect,
       LostEnter, LostTest, LostConnect, LostConnected, LostRefused, LostRetry, LostLeave,
       hubVars, mainVars
<1>2. CASE lost[n] = "errors" /\ TellErrors(n)
  <2>1. links > 0
    BY <1>2, BridgeAssumption DEF ContractInv, IInv, LinkInv, TypeOK, Links
  <2>2. CASE status' = status
    BY <1>1, <2>2, Unseen
  <2>3. CASE status' # status
    <3>1. status' = "error" /\ (late' \/ "errors" \in hubListeners)
      BY <1>2, <2>3 DEF TellErrors, SendStatus
    <3>2. CASE late'
      BY <3>2 DEF Allowed, Races
    <3>3. CASE "errors" \in hubListeners
      <4>1. main \notin {"close", "done"} /\ (aborted => abandoned)
        BY <2>1, <3>3 DEF ContractInv, IInv, MainInv
      <4>2. CASE abandoned
        BY <1>1, <4>2 DEF Allowed, Races
      <4>3. CASE ~abandoned
        <5>1. Work = "serving"
          BY <2>1, <4>1, <4>3 DEF Work
        <5> QED
          BY <1>1, <3>1, <5>1, Reported
      <4> QED
        BY <4>2, <4>3
    <3> QED
      BY <3>1, <3>2, <3>3
  <2> QED
    BY <2>2, <2>3
<1>3. CASE ~(lost[n] = "errors" /\ TellErrors(n))
  <2>1. status' = status
    BY <1>3 DEF onConnected, UpEnter, UpFire, UpSet, UpConnect, onConnectionLost, LostFire,
       CloudHandler, LostDisconnect, LostWait, LostClose, LostReconnect, externalReconnect,
       LostEnter, LostTest, LostConnect, LostConnected, LostRefused, LostRetry, LostLeave
  <2> QED
    BY <1>1, <2>1, Unseen
<1> QED
    BY <1>2, <1>3

\* The same for the callbacks of the cloud client, for which Disconnect has waited.
LEMMA CupAllowed ==
    ASSUME ContractInv, NEW m \in Clouds, ConnectionStatusConnected(m)
    PROVE  Allowed
<1>1. UNCHANGED <<main, aborted, abandoned, links, signal, late>>
    BY DEF ConnectionStatusConnected, CupEnter, CupFire, CupStatus, hubVars, mainVars
<1>2. CASE CupStatus(m)
  <2>1. m \in CloudCounted /\ status' = "connected" /\ overrun' = overrun
    BY <1>2 DEF CupStatus, SendStatus, CloudCounted
  <2>2. links # 0
    <3>1. clouds # 0
      BY <1>2 DEF CupStatus, ContractInv, IInv, TypeOK, Clouds
    <3> QED
      BY <3>1 DEF ContractInv, IInv, NoLinkInv
  <2>3. CASE Races
    BY <1>1, <2>1, <2>3 DEF Allowed, Races
  <2>4. CASE ~Races
    <3>1. ~aborted
      BY <2>2, <2>4 DEF Races, ContractInv, IInv, MainInv
    <3>2. main \notin {"close", "done"}
      BY <2>1, <2>4, <3>1 DEF Races, ContractInv, QuietInv, Quiet, Leaving
    <3>3. Work = "serving"
      BY <2>2, <3>1, <3>2 DEF Work
    <3> QED
      BY <1>1, <2>1, <3>3, Reported
  <2> QED
    BY <2>3, <2>4
<1>3. CASE ~CupStatus(m)
    BY <1>1, <1>3, Unseen DEF ConnectionStatusConnected, CupEnter, CupFire
<1> QED
    BY <1>2, <1>3

\* HonoConnect reports its failures and gives up before the first connection.
LEMMA HonoConnectAllowed ==
    ASSUME ContractInv, HonoConnect
    PROVE  Allowed
<1> USE DEF ContractInv, IInv, MainInv, Trying
<1>1. CASE HonoConnectFailed
  <2>1. Work = "connecting" /\ status' = "error" /\ links' = links /\ signal' = signal
    BY <1>1 DEF HonoConnectFailed, SendStatus, Work, Refusals
  <2>2. CASE aborted'
    <3>1. Work' = "closing"
      BY <1>1, <2>2 DEF HonoConnectFailed, Work
    <3>2. Taken = signal /\ Taken' = signal
      BY <1>1, <2>1, <3>1 DEF Taken, SignalInv, HonoConnectFailed
    <3> QED
      BY <2>1, <3>1, <3>2 DEF Allowed, L!Next, L!Abort
  <2>3. CASE ~aborted'
    <3>1. Work' = "connecting"
      BY <1>1, <2>1, <2>3 DEF HonoConnectFailed, Work
    <3>2. Taken' = Taken
      BY <2>1, <3>1 DEF Taken
    <3> QED
      BY <2>1, <3>1, <3>2 DEF Allowed, L!Next, L!HubDown
  <2> QED
    BY <2>2, <2>3
<1>2. CASE HonoConnectCancelled
  <2>1. CASE abandoned'
    BY <2>1 DEF Allowed, Races
  <2>2. CASE ~abandoned'
    <3>1. Work = "connecting" /\ Work' = "closing"
      BY <1>2, <2>2 DEF HonoConnectCancelled, Work
    <3>2. Taken = "sent" /\ Taken' = "taken" /\ status' = status
      BY <1>2, <3>1 DEF HonoConnectCancelled, Taken
    <3> QED
      BY <3>1, <3>2 DEF Allowed, L!Next, L!TakeSignal
  <2> QED
    BY <2>1, <2>2
<1>3. CASE HonoConnectStart \/ HonoConnectDone \/ HonoConnectRetry
  <2>1. UNCHANGED <<aborted, links, signal, status>>
    BY <1>3 DEF HonoConnectStart, HonoConnectDone, HonoConnectRetry, hubVars
  <2>2. {main, main'} \subseteq Trying \cup {"serve"}
    BY <1>3 DEF HonoConnectStart, HonoConnectDone, HonoConnectRetry
  <2>3. Work' = Work
    BY <2>1, <2>2 DEF Work
  <2> QED
    BY <2>1, <2>3 DEF Allowed, L!vars, Taken
<1> QED
    BY <1>1, <1>2, <1>3 DEF HonoConnect

\* The other steps of the launcher: with the last disconnection it stops serving.
LEMMA LauncherAllowed ==
    ASSUME ContractInv, Run \/ Stop, ~HonoConnect
    PROVE  Allowed
<1> USE DEF ContractInv
<1>1. CASE Stop
  <2>1. UNCHANGED <<main, aborted, links, status>> /\ signal = "none" /\ signal' = "sent"
    BY <1>1 DEF Stop, hubVars
  <2>2. Work' = Work /\ Taken = "none" /\ Taken' = "sent"
    BY <2>1 DEF Work, Taken
  <2> QED
    BY <2>1, <2>2 DEF Allowed, L!Next, L!Stop
<1>2. CASE Closed
  <2>1. Work = "closing" /\ Work' = "closed" /\ status' = "closed" /\ Taken' = Taken
    BY <1>2 DEF Closed, SendStatus, Work, Taken
  <2> QED
    BY <2>1 DEF Allowed, L!Next, L!Closed
<1>3. CASE HubDisconnect /\ main' = "close"
  <2>1. ~aborted /\ links # 0 /\ main \in {"hubDisconnect", "hubClose"}
    BY <1>3 DEF HubDisconnect, IInv, MainInv, Trying
  <2>2. UNCHANGED <<aborted, links, signal, status>> /\ signal = "taken"
    BY <1>3, <2>1 DEF HubDisconnect, SignalInv, Trying
  <2>3. Work = "serving" /\ Work' = "closing" /\ Taken = "sent" /\ Taken' = "taken"
    BY <1>3, <2>1, <2>2 DEF Work, Taken
  <2> QED
    BY <2>2, <2>3 DEF Allowed, L!Next, L!TakeSignal
<1>4. CASE Serve
  <2>1. ~aborted /\ links # 0 /\ main = "serve" /\ main' = "removeErrors"
    BY <1>4 DEF Serve, IInv, MainInv, Trying
  <2>2. UNCHANGED <<aborted, links, status>> /\ signal = "sent" /\ signal' = "taken"
    BY <1>4 DEF Serve, hubVars
  <2>3. Work = "serving" /\ Work' = "serving" /\ Taken = "sent" /\ Taken' = "sent"
    BY <2>1, <2>2 DEF Work, Taken
  <2> QED
    BY <2>2, <2>3 DEF Allowed, L!vars
<1>5. CASE AddListeners \/ RemoveHubListener \/ RemoveStatusListener \/ CloudDisconnect
           \/ (HubDisconnect /\ main' # "close")
  <2>1. UNCHANGED <<aborted, links, signal, status>>
    BY <1>5 DEF AddListeners, RemoveHubListener, RemoveStatusListener, CloudDisconnect,
       HubDisconnect, hubVars
  <2>2. main \notin {"close", "done"} /\ main' # "done" /\ (main' = "close" => aborted)
    BY <1>5 DEF AddListeners, RemoveHubListener, RemoveStatusListener, CloudDisconnect,
       HubDisconnect
  <2>3. Work' = Work
    BY <2>1, <2>2 DEF Work
  <2> QED
    BY <2>1, <2>3 DEF Allowed, L!vars, Taken
<1> QED
    BY <1>1, <1>2, <1>3, <1>4, <1>5 DEF Run

\* For any number of connections of the two clients: up to the first of the three
\* races, every step of the launcher, of HonoConnect and of the callbacks is a step
\* of the contract or hidden from the event loop.
THEOREM LaunchKeepsContract == Spec => KeepsContract
<1>1. Init => L!Init
    BY DEF Init, L!Init, Work, Taken
<1>2. ContractInv /\ [Next]_vars => [L!Next \/ Races']_(L!vars)
  <2> SUFFICES ASSUME ContractInv, [Next]_vars PROVE Allowed
    BY DEF Allowed
  <2>1. CASE HubRefuses \/ HubLost \/ CloudConnects \/ CloudLost \/ UNCHANGED vars
    BY <2>1, Unseen DEF HubRefuses, HubLost, CloudConnects, CloudLost, vars, hubVars, mainVars
  <2> QED
    BY <2>1, HubConnectsAllowed, LinkAllowed, CupAllowed, HonoConnectAllowed,
       LauncherAllowed DEF Next, Run
<1> QED
    BY <1>1, <1>2, ContractInvariance, PTL DEF Spec, KeepsContract

\* A launch in which none of the races happens is one of the contract.
THEOREM ContractRefinement == Spec /\ []~Races => L!Spec
<1>1. [L!Next \/ Races']_(L!vars) /\ ~Races' => [L!Next]_(L!vars)
    OBVIOUS
<1> QED
    BY <1>1, LaunchKeepsContract, PTL DEF KeepsContract, L!Spec
=============================================================================
