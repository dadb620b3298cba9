-------------------------- MODULE HubConnectionProofs --------------------------
(***************************************************************************)
(* Proofs about the hub connection: first what a launch holds of the TPM   *)
(* (HubTLS), for any number of launches and both kinds of TPM; then the    *)
(* subscriptions of the connection (HubSession), for any number of topics, *)
(* calls and reconnects.  The two modules share no state.                  *)
(***************************************************************************)
EXTENDS HubTLS, HubSession, TLAPS

-----------------------------------------------------------------------------
(* The TPM *)

\* From when to when a launch has the TPM open and its key loaded.
HasDescriptor(n) ==
    \/ pc[n] \in {"rw", "context", "load", "public"}
    \/ tls[n] = "tpm" /\ pc[n] \in {"pattern", "client", "up", "clean", "wait", "release", "close"}
HasKey(n) ==
    \/ pc[n] = "public"
    \/ tls[n] = "tpm" /\ pc[n] \in {"pattern", "client", "up", "clean", "wait"}

\* What is open or loaded is so because the launch is in this part of its life,
\* or an error path has left it; no tpmConnection ever has its field rw set.
Holding ==
    /\ rw = {}
    /\ \A n \in Launches :
        /\ HasDescriptor(n) => fd[n] = "open"
        /\ fd[n] = "open" => HasDescriptor(n) \/ pc[n] \in Left
        /\ HasKey(n) => n \in keys
        /\ n \in keys => HasKey(n) \/ pc[n] = "stranded"

\* Launches come one after the other.
InTurn ==
    \A n \in Launches :
        /\ n < launch => pc[n] \in Ended
        /\ launch < n => pc[n] = "none"

\* Only a client that was created signs, and what a handshake that holds genLock
\* for reading has seen lasts.
Signing ==
    \A n \in Launches :
        /\ pc[n] \in {"open", "rw", "context", "load", "public", "wait", "release", "close"}
             => tls[n] = "tpm"
        /\ n \in launched => pc[n] \in {"up", "clean", "wait", "release", "close", "done"}
        /\ signer[n] # "idle" => n \in launched /\ tls[n] = "tpm"
        /\ signer[n] = "sign" => pc[n] \in {"up", "clean", "wait"}
        /\ signer[n] = "late" => pc[n] \in {"release", "close", "done"}

IInv == TypeOK /\ Holding /\ InTurn /\ Signing

\* The invariant holds initially.
LEMMA InitIInv == Init => IInv
<1> SUFFICES ASSUME Init PROVE IInv
  OBVIOUS
<1>1. TypeOK
  <2>1. launch \in 0..MaxLaunches
    BY TLSAssumption DEF Init
  <2>2. device \in Devices /\ launched = {} /\ rw = {} /\ keys = {}
    BY DEF Init
  <2>3. /\ tls \in [Launches -> Kinds]
        /\ fd \in [Launches -> {"none", "open", "closed"}]
        /\ signer \in [Launches -> {"idle", "dial", "sign", "late"}]
    BY DEF Init, Kinds
  <2>4. pc \in [Launches -> {"none"}]
    BY DEF Init
  <2>5. QED
    BY <2>1, <2>2, <2>3, <2>4 DEF TypeOK
<1>2. Holding /\ Signing
  BY DEF Init, Holding, Signing, HasDescriptor, HasKey
<1>3. InTurn
  BY DEF Init, InTurn, Launches
<1>4. QED
  BY <1>1, <1>2, <1>3 DEF IInv

\* A launch begins after the one before it has ended.
LEMMA LaunchStep ==
    ASSUME IInv, NEW n \in Launches, NEW kind \in Kinds, Launch(n, kind)
    PROVE  IInv'
<1> USE DEF Launch, Goto, tpmVars
<1>1. n \in Nat /\ launch \in Nat /\ n = launch + 1 /\ n <= MaxLaunches
  BY TLSAssumption DEF IInv, TypeOK, Launches
<1>2. pc[n] = "none"
  BY <1>1 DEF IInv, InTurn
<1>3. TypeOK'
  BY <1>1, TLSAssumption DEF IInv, TypeOK, Launches
<1>4. Holding'
  BY <1>2 DEF IInv, TypeOK, Holding, HasDescriptor, HasKey, Left
<1>5. InTurn'
  <2> SUFFICES ASSUME NEW m \in Launches
               PROVE  (m < n => pc'[m] \in Ended) /\ (n < m => pc'[m] = "none")
    BY DEF InTurn
  <2>1. m \in Nat
    BY DEF Launches
  <2>2. QED
    BY <1>1, <2>1 DEF IInv, TypeOK, InTurn
<1>6. Signing'
  BY <1>2 DEF IInv, TypeOK, Signing
<1>7. QED
  BY <1>3, <1>4, <1>5, <1>6 DEF IInv

\* A step of CreateHubConnection, of the launch or of its cleaner.
LEMMA LifeStep ==
    ASSUME IInv, NEW n \in Launches, Step(n) \/ Shutdown(n)
    PROVE  IInv'
<1> USE DEF Goto, hubVars, tpmVars
<1>0. pc[n] \notin Ended \cup {"none"}
  BY DEF Step, Shutdown, newHubTLSConfig0, NewCAPoolFails, NewFSTlsConfig,
         NewTPMTlsConfig, NewTPMContext, NewTpmConnection, GetRW,
         validateAndLoadPublicCert, loadKeysContext, loadPubKey, ResolveDeviceID,
         CreateHubConnection, NoClean, closer, ContextCloseCall, ContextClose, ReleaseRW,
         ConnectionClose, Ended, Left
<1>1. InTurn'
  <2>1. n = launch /\ launch' = launch
    <3>1. n \in Nat /\ launch \in Nat
      BY DEF IInv, TypeOK, Launches
    <3>2. n = launch
      BY <1>0, <3>1 DEF IInv, InTurn
    <3>3. launch' = launch
      BY DEF Step, Shutdown, newHubTLSConfig0, NewCAPoolFails, NewFSTlsConfig,
             NewTPMTlsConfig, NewTPMContext, NewTpmConnection, GetRW,
             validateAndLoadPublicCert, loadKeysContext, loadPubKey, ResolveDeviceID,
             CreateHubConnection, NoClean, closer, ContextCloseCall, ContextClose, ReleaseRW,
             ConnectionClose
    <3>4. QED
      BY <3>2, <3>3
  <2>2. \A m \in Launches : m # n => pc'[m] = pc[m]
    BY DEF IInv, TypeOK, Step, Shutdown, newHubTLSConfig0, NewCAPoolFails,
           NewFSTlsConfig, NewTPMTlsConfig, NewTPMContext, NewTpmConnection,
           GetRW, validateAndLoadPublicCert, loadKeysContext, loadPubKey, ResolveDeviceID,
           CreateHubConnection, NoClean, closer, ContextCloseCall, ContextClose, ReleaseRW,
           ConnectionClose
  <2>3. QED
    BY <2>1, <2>2 DEF IInv, InTurn, Launches
<1>2. CASE newHubTLSConfig0(n) \/ GetRW(n) \/ validateAndLoadPublicCert(n) \/ loadPubKey(n)
  <2>1. TypeOK'
    BY <1>2 DEF IInv, TypeOK, newHubTLSConfig0, NewCAPoolFails, NewFSTlsConfig, GetRW,
                validateAndLoadPublicCert, loadPubKey, Ended, Left
  <2>2. Holding'
    BY <1>2 DEF IInv, TypeOK, Holding, Signing, newHubTLSConfig0, NewCAPoolFails,
                NewFSTlsConfig, GetRW, validateAndLoadPublicCert, loadPubKey, HasDescriptor, HasKey, Left
  <2>3. Signing'
    BY <1>2 DEF IInv, TypeOK, Holding, Signing, newHubTLSConfig0, NewCAPoolFails,
                NewFSTlsConfig, GetRW, validateAndLoadPublicCert, loadPubKey
  <2>4. QED
    BY <1>1, <2>1, <2>2, <2>3 DEF IInv
<1>3. CASE NewTpmConnection(n)
  <2>1. TypeOK'
    BY <1>3 DEF IInv, TypeOK, NewTpmConnection, Ended
  <2>2. Holding'
    BY <1>3 DEF IInv, TypeOK, Holding, Signing, NewTpmConnection, HasDescriptor, HasKey, Left
  <2>3. Signing'
    BY <1>3 DEF IInv, TypeOK, Signing, NewTpmConnection
  <2>4. QED
    BY <1>1, <2>1, <2>2, <2>3 DEF IInv
<1>4. CASE loadKeysContext(n)
  <2>1. TypeOK'
    BY <1>4 DEF IInv, TypeOK, loadKeysContext, Ended, Left
  <2>2. Holding'
    BY <1>4 DEF IInv, TypeOK, Holding, loadKeysContext, HasDescriptor, HasKey, Left
  <2>3. Signing'
    BY <1>4 DEF IInv, TypeOK, Signing, loadKeysContext
  <2>4. QED
    BY <1>1, <2>1, <2>2, <2>3 DEF IInv
<1>5. CASE ResolveDeviceID(n) \/ CreateHubConnection(n) \/ Shutdown(n)
  <2>1. TypeOK'
    BY <1>5 DEF IInv, TypeOK, ResolveDeviceID, CreateHubConnection, Shutdown
  <2>2. Holding'
    BY <1>5 DEF IInv, TypeOK, Holding, ResolveDeviceID, CreateHubConnection, Shutdown,
                HasDescriptor, HasKey, Left
  <2>3. Signing'
    BY <1>5 DEF IInv, TypeOK, Signing, ResolveDeviceID, CreateHubConnection, Shutdown
  <2>4. QED
    BY <1>1, <2>1, <2>2, <2>3 DEF IInv
<1>6. CASE NoClean(n) \/ ContextCloseCall(n) \/ ReleaseRW(n)
  <2>1. TypeOK'
    BY <1>6 DEF IInv, TypeOK, NoClean, ContextCloseCall, ReleaseRW, AfterCleaner, Ended
  <2>2. Holding'
    BY <1>6 DEF IInv, TypeOK, Holding, NoClean, ContextCloseCall, ReleaseRW, AfterCleaner,
                HasDescriptor, HasKey, Left
  <2>3. Signing'
    BY <1>6 DEF IInv, TypeOK, Signing, NoClean, ContextCloseCall, ReleaseRW, AfterCleaner
  <2>4. QED
    BY <1>1, <2>1, <2>2, <2>3 DEF IInv
<1>7. CASE ContextClose(n)
  <2>1. TypeOK'
    BY <1>7 DEF IInv, TypeOK, ContextClose
  <2>2. Holding'
    BY <1>7 DEF IInv, TypeOK, Holding, ContextClose, HasDescriptor, HasKey, Left
  <2>3. Signing'
    BY <1>7 DEF IInv, TypeOK, Signing, ContextClose
  <2>4. QED
    BY <1>1, <2>1, <2>2, <2>3 DEF IInv
<1>8. CASE ConnectionClose(n)
  <2>1. /\ n \notin keys /\ keys' = keys
        /\ fd' = [fd EXCEPT ![n] = "closed"]
    BY <1>8 DEF IInv, TypeOK, Holding, ConnectionClose, CloseDescriptor, HasKey
  <2>2. TypeOK'
    BY <1>8, <2>1 DEF IInv, TypeOK, ConnectionClose, AfterCleaner, Ended
  <2>3. Holding'
    BY <1>8, <2>1 DEF IInv, TypeOK, Holding, ConnectionClose, AfterCleaner, HasDescriptor,
                      HasKey, Left
  <2>4. Signing'
    BY <1>8 DEF IInv, TypeOK, Signing, ConnectionClose, AfterCleaner
  <2>5. QED
    BY <1>1, <2>2, <2>3, <2>4 DEF IInv
<1>9. QED
  BY <1>2, <1>3, <1>4, <1>5, <1>6, <1>7, <1>8 DEF Step, NewTPMTlsConfig,
     NewTPMContext, closer

\* The handshakes and the garbage collector.
LEMMA OtherStep ==
    ASSUME IInv, NEW n \in Launches, CollectGarbage(n) \/ Dial(n) \/ SignLock(n) \/ Sign(n)
    PROVE  IInv'
<1> USE DEF hubVars, tpmVars
<1>1. CASE CollectGarbage(n)
  <2>1. TypeOK' /\ InTurn'
    BY <1>1 DEF IInv, TypeOK, InTurn, CollectGarbage, CloseDescriptor
  <2>2. Holding'
    BY <1>1 DEF IInv, TypeOK, Holding, CollectGarbage, CloseDescriptor, HasDescriptor, HasKey,
                Left
  <2>3. Signing'
    BY <1>1 DEF IInv, Signing, CollectGarbage
  <2>4. QED
    BY <2>1, <2>2, <2>3 DEF IInv
<1>2. CASE Dial(n) \/ SignLock(n) \/ Sign(n)
  <2>1. TypeOK' /\ InTurn'
    BY <1>2 DEF IInv, TypeOK, InTurn, Dial, SignLock, Sign
  <2>2. Holding'
    BY <1>2 DEF IInv, Holding, Dial, SignLock, Sign, HasDescriptor, HasKey
  <2>3. Signing'
    BY <1>2 DEF IInv, TypeOK, Signing, Dial, SignLock, Sign
  <2>4. QED
    BY <2>1, <2>2, <2>3 DEF IInv
<1>3. QED
  BY <1>1, <1>2

\* Every step keeps the invariant.
LEMMA NextIInv == IInv /\ [Next]_vars => IInv'
<1> SUFFICES ASSUME IInv, [Next]_vars PROVE IInv'
  OBVIOUS
<1>1. CASE Next
  BY <1>1, LaunchStep, LifeStep, OtherStep DEF Next
<1>2. CASE UNCHANGED vars
  BY <1>2 DEF IInv, TypeOK, Holding, InTurn, Signing, HasDescriptor, HasKey, vars, hubVars,
              tpmVars
<1>3. QED
  BY <1>1, <1>2

\* The inductive invariant holds in every reachable state.
THEOREM Invariance == Spec => []IInv
<1>1. QED
  BY InitIInv, NextIInv, PTL DEF Spec

\* Every variable keeps its type.
THEOREM TypeCorrect == Spec => []TypeOK
<1>1. IInv => TypeOK
  BY DEF IInv
<1>2. QED
  BY <1>1, Invariance, PTL

\* A handshake that signs while its launch ends keeps key and descriptor, and no
\* signature is made for a context that has been closed.
THEOREM KeyOutlivesSign == Spec => []SignsUntilClosed
<1>1. IInv => SignsUntilClosed
  BY DEF IInv, TypeOK, Holding, Signing, HasDescriptor, HasKey, SignsUntilClosed, Usable
<1>2. QED
  BY <1>1, Invariance, PTL

\* A launch that has ended keeps the TPM or a key in it only by the error paths
\* of NewTPMTlsConfig.
THEOREM NothingElseIsKept == Spec => []OnlyLeaksRemain
<1>1. IInv => OnlyLeaksRemain
  BY DEF IInv, Holding, InTurn, HasDescriptor, HasKey, OnlyLeaksRemain, Ended, Left
<1>2. QED
  BY <1>1, Invariance, PTL

-----------------------------------------------------------------------------
(* The subscriptions *)


\* Every info in the map is of its own, alive, and of those made so far.
MapSound ==
    /\ disposed \subseteq 1..infos /\ replaced \subseteq 1..infos
    /\ \A t \in Topics : topics[t] <= infos /\ topics[t] \notin disposed
    /\ \A t, u \in Topics : topics[t] = topics[u] /\ topics[t] # 0 => t = u

\* The info that a call of the handler holds.
CallSound ==
    /\ handler.step = "idle" => handler = Idle
    /\ handler.step # "idle" => handler.topic \in Topics /\ handler.info \in 1..infos
    /\ handler.step = "subscribe" => topics[handler.topic] # 0
    /\ handler.step = "dispose" =>
        /\ topics[handler.topic] = 0 \/ handler.topic \in overtaken
        /\ handler.info \notin disposed
        /\ \A t \in Topics : topics[t] # handler.info

\* An info that onConnected visits is in the map, or replaced, or being disposed, or
\* disposed.
VisitSound ==
    \A n \in Connections : resub[n].step = "locked" =>
        /\ resub[n].topic \in Topics /\ resub[n].info \in 1..infos
        /\ \/ resub[n].info \in disposed \cup replaced
           \/ topics[resub[n].topic] = resub[n].info
           \/ handler.step = "dispose" /\ handler.topic = resub[n].topic /\ handler.info = resub[n].info

\* onConnected has the topic still to subscribe.
Ahead(r, t) ==
    \/ r.step = "begin"
    \/ r.step \in {"range", "locked"} /\ t \in r.ahead
    \/ r.step = "locked" /\ r.topic = t /\ r.info = topics[t]

\* A topic of the map that is not in the session is on somebody's way to it, or it was
\* put back while it was being unsubscribed.
Covered ==
    /\ open => connects \in Connections
    /\ open => \A t \in Topics : topics[t] # 0 =>
        \/ t \in session \cup overtaken
        \/ handler.step = "subscribe" /\ handler.topic = t
        \/ Ahead(resub[connects], t)

SessionIInv == SessionTypeOK /\ MapSound /\ CallSound /\ VisitSound /\ Covered /\ LeftoverIsOrphan

\* The constants of the session.
LEMMA SessionBounds ==
  NoTopic \notin Topics /\ MaxInfos \in Nat /\ MaxConnects \in Nat
  BY SessionAssumption

\* A visit of onConnected that changes is one.
LEMMA ResubType ==
  ASSUME SessionTypeOK, NEW n \in Connections, NEW r \in Visits, resub' = [resub EXCEPT ![n] = r]
  PROVE  resub' \in [Connections -> Visits]
  BY DEF SessionTypeOK

\* What onConnected is between two topics is a visit.
LEMMA BetweenType ==
  ASSUME NEW step \in {"none", "begin", "range", "told"},
         NEW ahead \in SUBSET Topics
  PROVE  Between(step, ahead) \in Visits
  BY SessionBounds DEF Between, Visits

\* The session's invariant holds initially.
LEMMA SessionInitIInv ==
  ASSUME SessionInit
  PROVE  SessionIInv
  <1> USE SessionBounds DEF SessionInit
  <1>1. SessionTypeOK
    <2>1. Idle \in Calls BY DEF Calls, Idle
    <2>2. Between("none", {}) \in Visits BY BetweenType
    <2>3. resub \in [Connections -> Visits] BY <2>2
    <2>4. topics \in [Topics -> 0..MaxInfos] /\ infos \in 0..MaxInfos /\ connects \in 0..MaxConnects
      OBVIOUS
    <2> QED BY <2>1, <2>3, <2>4 DEF SessionTypeOK
  <1>2. MapSound BY DEF MapSound
  <1>3. CallSound BY DEF CallSound, Idle
  <1>4. VisitSound BY DEF VisitSound, Between
  <1>5. Covered BY DEF Covered
  <1>6. LeftoverIsOrphan BY DEF LeftoverIsOrphan, Registered
  <1> QED BY <1>1, <1>2, <1>3, <1>4, <1>5, <1>6 DEF SessionIInv

\* A new info is entered into the map, and the one that was there is replaced.
LEMMA StoreSound ==
  ASSUME SessionIInv, NEW t \in Topics, Store(t), UNCHANGED disposed
  PROVE  MapSound' /\ replaced' \subseteq Infos
  <1> USE SessionBounds DEF Store
  <1>1. /\ topics \in [Topics -> 0..MaxInfos] /\ infos \in 0..MaxInfos
        /\ infos \in Nat /\ infos + 1 \in Infos /\ infos' = infos + 1
    BY DEF SessionIInv, SessionTypeOK, Infos
  <1>2. disposed \subseteq 1..infos /\ replaced \subseteq 1..infos
    BY DEF SessionIInv, MapSound
  <1>3. \A i \in replaced' : i \in 1..infos
    <2>1. topics[t] # 0 => topics[t] \in 1..infos BY <1>1 DEF SessionIInv, MapSound
    <2> QED BY <1>2, <2>1
  <1>4. replaced' \subseteq Infos BY <1>1, <1>3 DEF Infos
  <1>5. disposed' \subseteq 1..infos' /\ replaced' \subseteq 1..infos'
    <2>1. \A i \in 1..infos : i \in 1..infos' BY <1>1
    <2>2. disposed' \subseteq 1..infos' BY <1>2, <2>1
    <2>3. replaced' \subseteq 1..infos' BY <1>3, <2>1, Zenon
    <2> QED BY <2>2, <2>3
  <1>6. \A u \in Topics : topics'[u] <= infos' /\ topics'[u] \notin disposed'
    BY <1>1, <1>2 DEF SessionIInv, MapSound
  <1>7. \A u, v \in Topics : topics'[u] = topics'[v] /\ topics'[u] # 0 => u = v
    BY <1>1 DEF SessionIInv, MapSound
  <1> QED BY <1>4, <1>5, <1>6, <1>7 DEF MapSound

\* subscribe enters the topic into the map.
LEMMA SubscribeInv ==
  ASSUME SessionIInv, NEW t \in Topics, Subscribe(t)
  PROVE  SessionIInv'
  <1> USE SessionBounds DEF Subscribe, Store, netVars, Idle
  <1>0. topics[t] \in 0..infos BY DEF SessionIInv, SessionTypeOK, MapSound
  <1>1. SessionTypeOK'
    <2>1. handler' \in Calls BY DEF SessionIInv, SessionTypeOK, Calls
    <2>2. replaced' \subseteq Infos BY StoreSound DEF Store
    <2> QED BY <2>1, <2>2 DEF SessionIInv, SessionTypeOK, MapSound, CallSound, Infos
  <1>2. MapSound' BY StoreSound
  <1>3. CallSound' BY DEF SessionIInv, SessionTypeOK, CallSound, MapSound, Infos
  <1>4. VisitSound'
    BY <1>0 DEF Between, SessionIInv, SessionTypeOK, CallSound, VisitSound, MapSound, Infos,
           Connections
  <1>5. Covered'
    BY DEF Between, SessionIInv, SessionTypeOK, CallSound, Covered, Ahead, Infos, Connections
  <1>6. LeftoverIsOrphan'
    BY DEF SessionIInv, SessionTypeOK, CallSound, LeftoverIsOrphan, Registered, Infos
  <1> QED BY <1>1, <1>2, <1>3, <1>4, <1>5, <1>6 DEF SessionIInv

\* ForwardTo enters the topic into the map before there is a connection.
LEMMA ForwardToInv ==
  ASSUME SessionIInv, NEW t \in Topics, ForwardTo(t)
  PROVE  SessionIInv'
  <1> USE SessionBounds DEF ForwardTo, Store, netVars
  <1>0. topics[t] \in 0..infos BY DEF SessionIInv, SessionTypeOK, MapSound
  <1>1. SessionTypeOK'
    <2>1. replaced' \subseteq Infos BY StoreSound DEF Store
    <2>2. overtaken' \subseteq Topics BY DEF SessionIInv, SessionTypeOK
    <2> QED BY <2>1, <2>2 DEF SessionIInv, SessionTypeOK, Infos
  <1>2. MapSound' BY StoreSound
  <1>3. CallSound' BY DEF SessionIInv, SessionTypeOK, CallSound, MapSound, Infos
  <1>4. VisitSound'
    BY <1>0 DEF SessionIInv, SessionTypeOK, CallSound, VisitSound, MapSound, Infos, Connections
  <1>5. Covered' BY DEF SessionIInv, Covered, Connections
  <1>6. LeftoverIsOrphan' BY DEF SessionIInv, SessionTypeOK, LeftoverIsOrphan, Registered
  <1> QED BY <1>1, <1>2, <1>3, <1>4, <1>5, <1>6 DEF SessionIInv

\* unsubscribe takes it out of the map.
LEMMA UnsubscribeInv ==
  ASSUME SessionIInv, NEW t \in Topics, Unsubscribe(t)
  PROVE  SessionIInv'
  <1> USE SessionBounds DEF Unsubscribe, netVars, history, Idle
  <1>1. SessionTypeOK'
    <2>1. handler' \in Calls BY DEF SessionIInv, SessionTypeOK, Calls
    <2> QED BY <2>1 DEF SessionIInv, SessionTypeOK, MapSound, CallSound, Infos
  <1>2. MapSound' BY DEF SessionIInv, SessionTypeOK, MapSound, Infos
  <1>3. CallSound' BY DEF SessionIInv, SessionTypeOK, CallSound, MapSound, Infos
  <1>4. VisitSound'
    BY DEF Between, SessionIInv, SessionTypeOK, CallSound, VisitSound, MapSound, Infos,
           Connections
  <1>5. Covered'
    BY DEF Between, SessionIInv, SessionTypeOK, CallSound, Covered, Ahead, Infos, Connections
  <1>6. LeftoverIsOrphan'
    BY DEF SessionIInv, SessionTypeOK, CallSound, LeftoverIsOrphan, Registered, Infos
  <1> QED BY <1>1, <1>2, <1>3, <1>4, <1>5, <1>6 DEF SessionIInv

\* subscribe sends the packet, or finds no connection.
LEMMA SubscribeSendInv ==
  ASSUME SessionIInv, SubscribeSend
  PROVE  SessionIInv'
  <1> USE SessionBounds DEF SubscribeSend, SendSubscribe, Send, mapVars, history, Idle
  <1>1. SessionTypeOK'
    <2>1. handler' \in Calls BY DEF SessionIInv, SessionTypeOK, Calls
    <2> QED BY <2>1 DEF SessionIInv, SessionTypeOK, MapSound, CallSound, Infos
  <1>2. MapSound' BY DEF SessionIInv, MapSound
  <1>3. CallSound' BY DEF SessionIInv, CallSound
  <1>4. VisitSound' BY DEF Between, SessionIInv, SessionTypeOK, VisitSound, Connections
  <1>5. Covered'
    BY DEF Between, SessionIInv, SessionTypeOK, CallSound, Covered, Ahead, Connections
  <1>6. LeftoverIsOrphan'
    BY DEF SessionIInv, SessionTypeOK, CallSound, LeftoverIsOrphan, Registered, Infos
  <1> QED BY <1>1, <1>2, <1>3, <1>4, <1>5, <1>6 DEF SessionIInv

\* unsubscribe marks the entry disposed and sends.
LEMMA DisposeInv ==
  ASSUME SessionIInv, Dispose
  PROVE  SessionIInv'
  <1> USE SessionBounds DEF Dispose, SendUnsubscribe, Send, Idle
  <1>1. SessionTypeOK'
    <2>1. handler' \in Calls BY DEF SessionIInv, SessionTypeOK, Calls
    <2>2. disposed' \subseteq Infos
      <3>1. handler.info \in Infos BY DEF SessionIInv, SessionTypeOK, CallSound, Infos
      <3> QED BY <3>1 DEF SessionIInv, SessionTypeOK
    <2>3. session' \subseteq Topics /\ arrived' \subseteq SUBSET Topics
      BY DEF SessionIInv, SessionTypeOK
    <2>4. orphans' \subseteq Topics /\ revived' \subseteq Topics BY DEF SessionIInv, SessionTypeOK, CallSound
    <2> QED BY <2>1, <2>2, <2>3, <2>4 DEF SessionIInv, SessionTypeOK
  <1>2. MapSound' BY DEF SessionIInv, SessionTypeOK, CallSound, MapSound, Infos
  <1>3. CallSound' BY DEF SessionIInv, CallSound
  <1>4. VisitSound'
    BY DEF Between, SessionIInv, SessionTypeOK, CallSound, VisitSound, Connections
  <1>5. Covered'
    BY DEF Between, SessionIInv, SessionTypeOK, CallSound, Covered, Ahead, Connections
  <1>6. LeftoverIsOrphan'
    BY DEF SessionIInv, SessionTypeOK, CallSound, LeftoverIsOrphan, Registered
  <1> QED BY <1>1, <1>2, <1>3, <1>4, <1>5, <1>6 DEF SessionIInv

\* A connection begins with a visit of its own.
LEMMA ConnectedInv ==
  ASSUME SessionIInv, Connected
  PROVE  SessionIInv'
  <1> USE SessionBounds DEF Connected, mapVars, history
  <1>1. SessionTypeOK'
    <2>1. connects + 1 \in Connections BY DEF SessionIInv, SessionTypeOK, Connections
    <2>2. resub' \in [Connections -> Visits]
      BY <2>1, BetweenType, ResubType DEF SessionIInv
    <2> QED BY <2>1, <2>2 DEF SessionIInv, SessionTypeOK, Connections
  <1>2. MapSound' BY DEF SessionIInv, MapSound
  <1>3. CallSound' BY DEF SessionIInv, CallSound
  <1>4. VisitSound' BY DEF Between, SessionIInv, SessionTypeOK, VisitSound, Connections
  <1>5. Covered' BY DEF Between, SessionIInv, SessionTypeOK, Covered, Ahead, Connections
  <1>6. LeftoverIsOrphan' BY DEF SessionIInv, LeftoverIsOrphan, Registered
  <1> QED BY <1>1, <1>2, <1>3, <1>4, <1>5, <1>6 DEF SessionIInv

\* A connection is lost.
LEMMA LostInv ==
  ASSUME SessionIInv, Lost
  PROVE  SessionIInv'
  <1> USE SessionBounds DEF Lost, mapVars
  <1>1. SessionTypeOK' BY DEF SessionIInv, SessionTypeOK, Registered
  <1>2. MapSound' BY DEF SessionIInv, MapSound
  <1>3. CallSound' BY DEF SessionIInv, CallSound
  <1>4. VisitSound' BY DEF SessionIInv, VisitSound
  <1>5. Covered' BY DEF Covered
  <1>6. LeftoverIsOrphan' BY DEF SessionIInv, SessionTypeOK, LeftoverIsOrphan, Registered
  <1> QED BY <1>1, <1>2, <1>3, <1>4, <1>5, <1>6 DEF SessionIInv

\* The hub has processed all that was sent.
LEMMA AllArrivedInv ==
  ASSUME SessionIInv, AllArrived
  PROVE  SessionIInv'
  BY DEF AllArrived, mapVars, history, SessionIInv, SessionTypeOK, MapSound, CallSound, VisitSound,
         Covered, Ahead,
     LeftoverIsOrphan, Registered

\* Every step of onConnected keeps the invariant.
LEMMA onConnectedInv ==
  ASSUME SessionIInv, NEW n \in Connections, onConnected(n)
  PROVE  SessionIInv'
  <1> USE SessionBounds DEF mapVars, history
  <1>1. CASE RangeBegin(n)
    <2> USE <1>1 DEF RangeBegin, netVars
    <2>1. SessionTypeOK'
      <3>1. resub' \in [Connections -> Visits]
        BY BetweenType, ResubType DEF SessionIInv, Registered
      <3> QED BY <3>1 DEF SessionIInv, SessionTypeOK
    <2>2. VisitSound' BY DEF Between, SessionIInv, SessionTypeOK, VisitSound
    <2>3. Covered' BY DEF Between, SessionIInv, SessionTypeOK, Covered, Ahead, Registered
    <2> QED
      BY <2>1, <2>2, <2>3 DEF SessionIInv, MapSound, CallSound, LeftoverIsOrphan,
                              Registered
  <1>2. CASE RangeVisit(n)
    <2> USE <1>2 DEF RangeVisit, netVars
    <2> PICK t \in resub[n].ahead :
        resub' = [resub EXCEPT ![n] =
                    IF topics[t] = 0 THEN Between("range", @.ahead \ {t})
                    ELSE [step |-> "locked", ahead |-> @.ahead \ {t}, topic |-> t, info |-> topics[t]]]
      OBVIOUS
    <2>0. t \in Topics /\ resub[n].ahead \in SUBSET Topics
      BY DEF SessionIInv, SessionTypeOK, Visits
    <2>1. SessionTypeOK'
      <3>1. [step |-> "locked", ahead |-> resub[n].ahead \ {t}, topic |-> t, info |-> topics[t]] \in Visits
        BY <2>0 DEF SessionIInv, SessionTypeOK, Visits
      <3>2. Between("range", resub[n].ahead \ {t}) \in Visits BY <2>0, BetweenType
      <3>3. resub' \in [Connections -> Visits] BY <3>1, <3>2, ResubType DEF SessionIInv
      <3> QED BY <3>3 DEF SessionIInv, SessionTypeOK
    <2>2. VisitSound' BY <2>0 DEF Between, SessionIInv, SessionTypeOK, VisitSound, MapSound
    <2>3. Covered' BY <2>0 DEF Between, SessionIInv, SessionTypeOK, Covered, Ahead
    <2> QED
      BY <2>1, <2>2, <2>3 DEF SessionIInv, MapSound, CallSound, LeftoverIsOrphan,
                              Registered
  <1>3. CASE Resubscribe(n)
    <2> USE <1>3 DEF Resubscribe, SendSubscribe, Send
    <2>0. resub[n].topic \in Topics /\ resub[n].ahead \in SUBSET Topics
      BY DEF SessionIInv, VisitSound, SessionTypeOK, Visits
    <2>1. SessionTypeOK'
      <3>1. resub' \in [Connections -> Visits]
        BY <2>0, BetweenType, ResubType DEF SessionIInv
      <3> QED BY <3>1, <2>0 DEF SessionIInv, SessionTypeOK
    <2>2. VisitSound' BY DEF Between, SessionIInv, SessionTypeOK, VisitSound
    <2>3. Covered'
      BY <2>0 DEF Between, SessionIInv, SessionTypeOK, Covered, Ahead, VisitSound, MapSound
    <2>4. LeftoverIsOrphan'
      BY <2>0 DEF SessionIInv, SessionTypeOK, VisitSound, LeftoverIsOrphan, Registered
    <2> QED BY <2>1, <2>2, <2>3, <2>4 DEF SessionIInv, MapSound, CallSound
  <1>4. CASE Told(n)
    <2> USE <1>4 DEF Told, netVars
    <2>1. SessionTypeOK'
      <3>1. resub' \in [Connections -> Visits] BY BetweenType, ResubType DEF SessionIInv
      <3> QED BY <3>1 DEF SessionIInv, SessionTypeOK
    <2>2. VisitSound' BY DEF Between, SessionIInv, SessionTypeOK, VisitSound
    <2>3. Covered' BY DEF Between, SessionIInv, SessionTypeOK, Covered, Ahead
    <2> QED
      BY <2>1, <2>2, <2>3 DEF SessionIInv, MapSound, CallSound, LeftoverIsOrphan,
                              Registered
  <1> QED BY <1>1, <1>2, <1>3, <1>4 DEF onConnected

\* Every state of a behaviour of the connection and the hub satisfies the invariant
\* that the other theorems are read from.
THEOREM SessionInvariance == SessionSpec => []SessionIInv
  <1>1. SessionIInv /\ [SessionNext]_sessionVars => SessionIInv'
    <2> SUFFICES ASSUME SessionIInv, [SessionNext]_sessionVars PROVE SessionIInv' OBVIOUS
    <2>1. CASE Manage BY <2>1, SubscribeInv, ForwardToInv, UnsubscribeInv DEF Manage
    <2>2. CASE SubscribeSend BY <2>2, SubscribeSendInv
    <2>3. CASE Dispose BY <2>3, DisposeInv
    <2>4. CASE Connected BY <2>4, ConnectedInv
    <2>5. CASE Lost BY <2>5, LostInv
    <2>6. CASE AllArrived BY <2>6, AllArrivedInv
    <2>7. CASE \E n \in Connections : onConnected(n) BY <2>7, onConnectedInv
    <2>8. CASE UNCHANGED sessionVars
      BY <2>8 DEF sessionVars, mapVars, netVars, history, SessionIInv, SessionTypeOK, MapSound, CallSound,
                  VisitSound, Covered, Ahead, LeftoverIsOrphan, Registered
    <2> QED BY <2>1, <2>2, <2>3, <2>4, <2>5, <2>6, <2>7, <2>8 DEF SessionNext
  <1>2. SessionInit => SessionIInv BY SessionInitIInv
  <1> QED BY <1>2, <1>1, PTL DEF SessionSpec

\* Type correctness of the connection's map, the calls and onConnected.
THEOREM SessionTypeCorrect == SessionSpec => []SessionTypeOK
  BY SessionInvariance, PTL DEF SessionIInv

\* Once onConnected has told its listeners that the connection is up, every topic
\* of the map that no call of subscribe is just sending is subscribed for.
THEOREM NoTopicMissed == SessionSpec => []ToldIsSubscribed
  <1>1. SessionIInv => ToldIsSubscribed
    BY SessionBounds DEF SessionIInv, SessionTypeOK, Covered, Ahead, ToldIsSubscribed,
                         Registered, Connections
  <1> QED BY SessionInvariance, <1>1, PTL

\* onConnected subscribes again for a topic that unsubscribe has taken out of the map
\* only if the info it holds was replaced; otherwise only a connection that was down
\* leaves a topic behind in the session.
THEOREM NoTopicRevived == SessionSpec => []LeftoverIsOrphan
  BY SessionInvariance, PTL DEF SessionIInv
================================================================================
