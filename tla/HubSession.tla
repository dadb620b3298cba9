------------------------------ MODULE HubSession ------------------------------
(***************************************************************************)
(* The subscriptions of one MQTTConnection (connector/connection.go) and   *)
(* the session the hub keeps for its client id.  The map of the connection *)
(* is what the connector wants to be subscribed to; the session is what    *)
(* the hub believes.  The hub keeps the session over reconnects, as the    *)
(* connection asks it to (CleanSession is false), and may drop it; packets *)
(* that are on their way when the connection breaks are lost, as paho      *)
(* (external) does not resume subscriptions.                               *)
(*                                                                         *)
(* Four parties race: the log handler, which subscribes and unsubscribes   *)
(* the command topics of devices one call after the other; ForwardTo,      *)
(* which subscribes those listed before the connection is first opened;    *)
(* the connection, which breaks and comes back; and onConnected, which     *)
(* runs in a goroutine of its own for every connection made and subscribes *)
(* all the map holds, also when its connection is already gone and the     *)
(* next one is up.                                                         *)
(*                                                                         *)
(* Which topics the log handler and ForwardTo call for is the matter of    *)
(* SubscriptionManager; here they may call for any topic, also for one     *)
(* that is in the map.  The lock of a subscriptioninfo makes what is done  *)
(* under it one step; IsConnectionOpen and the packet sent if it is open   *)
(* are one step too, since a packet sent to a closed connection has no     *)
(* effect.                                                                 *)
(*                                                                         *)
(* These topics are subscribed without a callback, so that no routes are   *)
(* set, and a refusal by the hub is only logged and left out.              *)
(***************************************************************************)
EXTENDS Integers, FiniteSets

CONSTANTS
    Topics,          \* the topics of dynamic subscriptions, each its own id
    NoTopic,         \* no topic
    MaxInfos,        \* bound: subscriptioninfos made
    MaxConnects      \* bound: connections made

ASSUME SessionAssumption == NoTopic \notin Topics /\ MaxInfos \in Nat /\ MaxConnects \in Nat

VARIABLES
    topics,          \* topic -> its subscriptioninfo in the map, 0 if there is none
    disposed,        \* the infos that are disposed
    infos,           \* the number of infos made
    handler,         \* the call the log handler is in: its step, topic and info
    open,            \* IsConnectionOpen
    connects,        \* the number of connections made
    session,         \* the topics of the hub's session once all that was sent has arrived
    arrived,         \* the sessions the hub may be left with if the connection breaks now
    resub,           \* connection -> its onConnected: step, topics ahead, topic and info at hand
    replaced,        \* history: infos that another one of the same topic has replaced
    orphans,         \* history: topics whose UNSUBSCRIBE was not sent or was lost
    revived,         \* history: topics an onConnected has subscribed for a replaced info
    overtaken        \* history: topics ForwardTo has put back during their unsubscribe

mapVars == <<topics, disposed, infos>>
netVars == <<open, connects, session, arrived>>
history == <<replaced, orphans, revived, overtaken>>
sessionVars == <<mapVars, handler, netVars, resub, history>>

Infos == 1..MaxInfos
Connections == 1..MaxConnects
Registered == {t \in Topics : topics[t] # 0}

Idle == [step |-> "idle", topic |-> NoTopic, info |-> 0]
Between(step, ahead) == [step |-> step, ahead |-> ahead, topic |-> NoTopic, info |-> 0]

Calls ==
    [step : {"idle", "subscribe", "dispose"}, topic : Topics \cup {NoTopic}, info : 0..MaxInfos]
Visits ==
    [step : {"none", "begin", "range", "locked", "told"}, ahead : SUBSET Topics,
     topic : Topics \cup {NoTopic}, info : 0..MaxInfos]

SessionTypeOK ==
    /\ topics \in [Topics -> 0..MaxInfos]
    /\ disposed \subseteq Infos
    /\ infos \in 0..MaxInfos
    /\ handler \in Calls
    /\ open \in BOOLEAN
    /\ connects \in 0..MaxConnects
    /\ session \subseteq Topics
    /\ arrived \subseteq SUBSET Topics
    /\ resub \in [Connections -> Visits]
    /\ replaced \subseteq Infos
    /\ orphans \subseteq Topics /\ revived \subseteq Topics /\ overtaken \subseteq Topics

\* A new connection object: no topic in the map, and whatever an earlier one left in the session.
SessionInit ==
    /\ topics = [t \in Topics |-> 0]
    /\ disposed = {}
    /\ infos = 0
    /\ handler = Idle
    /\ open = FALSE
    /\ connects = 0
    /\ session \in SUBSET Topics
    /\ arrived = {session}
    /\ resub = [n \in Connections |-> Between("none", {})]
    /\ replaced = {} /\ orphans = session /\ revived = {} /\ overtaken = {}

-----------------------------------------------------------------------------
(* Packets *)

Send(s) == session' = s /\ arrived' = arrived \cup {s}

\* SubscribeMultiple: an error if the connection is closed, which nobody looks at.
SendSubscribe(t) ==
    IF open THEN Send(session \cup {t}) ELSE UNCHANGED <<session, arrived>>

SendUnsubscribe(t) ==
    /\ Send(session \ {t})
    /\ orphans' = orphans \ {t} /\ revived' = revived \ {t}

\* External: the hub has processed all that was sent.
AllArrived ==
    /\ arrived # {session}
    /\ arrived' = {session}
    /\ UNCHANGED <<mapVars, handler, open, connects, session, resub, history>>

-----------------------------------------------------------------------------
(* subscribe and unsubscribe *)

\* Store: an info that is there for the topic is replaced, and not disposed.
Store(t) ==
    /\ infos < MaxInfos
    /\ infos' = infos + 1
    /\ topics' = [topics EXCEPT ![t] = infos + 1]
    /\ replaced' = replaced \cup ({topics[t]} \ {0})

\* subscribe, called by the log handler
Subscribe(t) ==
    /\ handler = Idle
    /\ Store(t)
    /\ handler' = [step |-> "subscribe", topic |-> t, info |-> infos + 1]
    /\ overtaken' = overtaken \ {t}
    /\ UNCHANGED <<disposed, netVars, resub, orphans, revived>>

\* subscribe, called by ForwardTo: it finds the connection closed.  The log handler
\* may be in a call meanwhile, also in one that removes the topic.
ForwardTo(t) ==
    /\ connects = 0
    /\ Store(t)
    /\ overtaken' = IF handler.step = "dispose" /\ handler.topic = t
                    THEN overtaken \cup {t} ELSE overtaken \ {t}
    /\ UNCHANGED <<disposed, handler, netVars, resub, orphans, revived>>

\* Mutant: the topic is only put into the map, for onConnected to find.
SubscribeSend_Never ==
    /\ handler.step = "subscribe"
    /\ handler' = Idle
    /\ UNCHANGED <<mapVars, netVars, resub, history>>

SubscribeSend ==
    /\ handler.step = "subscribe"
    /\ SendSubscribe(handler.topic)
    /\ handler' = Idle
    /\ UNCHANGED <<mapVars, open, connects, resub, history>>

\* LoadAndDelete; a topic that is not in the map ends the call.
Unsubscribe(t) ==
    /\ handler = Idle /\ topics[t] # 0
    /\ topics' = [topics EXCEPT ![t] = 0]
    /\ handler' = [step |-> "dispose", topic |-> t, info |-> topics[t]]
    /\ UNCHANGED <<disposed, infos, netVars, resub, history>>

\* Mutant: the info is not marked as disposed.
Dispose_NotMarked ==
    LET t == handler.topic
    IN  /\ handler.step = "dispose"
        /\ \/ open /\ SendUnsubscribe(t)
           \/ /\ ~open
              /\ orphans' = orphans \cup ({t} \cap session)
              /\ UNCHANGED <<session, arrived, revived>>
        /\ handler' = Idle
        /\ UNCHANGED <<mapVars, open, connects, resub, replaced, overtaken>>

\* Under the lock of the info: it is disposed, and the hub is told if the
\* connection is open.  If it is closed the hub is never told.
Dispose ==
    LET t == handler.topic
    IN  /\ handler.step = "dispose"
        /\ disposed' = disposed \cup {handler.info}
        /\ \/ open /\ SendUnsubscribe(t)
           \/ /\ ~open
              /\ orphans' = orphans \cup ({t} \cap session)
              /\ UNCHANGED <<session, arrived, revived>>
        /\ handler' = Idle
        /\ UNCHANGED <<topics, infos, open, connects, resub, replaced, overtaken>>

-----------------------------------------------------------------------------
(* The connection *)

\* External: Connect succeeds; the hub continues the session or has dropped it.
Connected ==
    /\ ~open /\ connects < MaxConnects
    /\ open' = TRUE
    /\ connects' = connects + 1
    /\ session' \in {session, {}}
    /\ arrived' = {session'}
    /\ resub' = [resub EXCEPT ![connects + 1] = Between("begin", {})]
    /\ UNCHANGED <<mapVars, handler, history>>

\* External: the connection breaks, and what has not arrived is lost.
Lost ==
    /\ open
    /\ open' = FALSE
    /\ session' \in arrived
    /\ arrived' = {session'}
    /\ orphans' = orphans \cup (session' \ Registered)
    /\ UNCHANGED <<mapVars, handler, connects, resub, replaced, revived, overtaken>>

-----------------------------------------------------------------------------
(* onConnected of connection n *)

\* Range visits the keys the map has when it begins ...
RangeBegin(n) ==
    /\ resub[n].step = "begin"
    /\ resub' = [resub EXCEPT ![n] = Between("range", Registered)]
    /\ UNCHANGED <<mapVars, handler, netVars, history>>

\* ... and passes the value a key has when it is visited; a deleted key is passed over.
RangeVisit(n) ==
    /\ resub[n].step = "range"
    /\ \E t \in resub[n].ahead :
        resub' = [resub EXCEPT ![n] =
                    IF topics[t] = 0 THEN Between("range", @.ahead \ {t})
                    ELSE [step |-> "locked", ahead |-> @.ahead \ {t}, topic |-> t, info |-> topics[t]]]
    /\ UNCHANGED <<mapVars, handler, netVars, history>>

\* Mutant: the topics after a disposed info are not visited.
Resubscribe_DisposedEnds(n) ==
    LET r == resub[n]
    IN  /\ r.step = "locked"
        /\ \/ /\ r.info \in disposed
              /\ resub' = [resub EXCEPT ![n] = Between("range", {})]
              /\ UNCHANGED <<session, arrived, revived>>
           \/ /\ r.info \notin disposed
              /\ SendSubscribe(r.topic)
              /\ revived' = IF r.info \in replaced THEN revived \cup {r.topic} ELSE revived
              /\ resub' = [resub EXCEPT ![n] = Between("range", r.ahead)]
        /\ UNCHANGED <<mapVars, handler, open, connects, replaced, orphans, overtaken>>

\* Under the lock of the info: subscribe unless it is disposed.
Resubscribe(n) ==
    LET r == resub[n]
    IN  /\ r.step = "locked"
        /\ \/ r.info \in disposed /\ UNCHANGED <<session, arrived, revived>>
           \/ /\ r.info \notin disposed
              /\ SendSubscribe(r.topic)
              /\ revived' = IF r.info \in replaced THEN revived \cup {r.topic} ELSE revived
        /\ resub' = [resub EXCEPT ![n] = Between("range", r.ahead)]
        /\ UNCHANGED <<mapVars, handler, open, connects, replaced, orphans, overtaken>>

\* The tokens are waited for, 4 seconds at most, and the listeners are told that
\* the connection is up, whatever became of the tokens.
Told(n) ==
    /\ resub[n].step = "range" /\ resub[n].ahead = {}
    /\ resub' = [resub EXCEPT ![n] = Between("told", {})]
    /\ UNCHANGED <<mapVars, handler, netVars, history>>

onConnected(n) == RangeBegin(n) \/ RangeVisit(n) \/ Resubscribe(n) \/ Told(n)

Manage == \E t \in Topics : Subscribe(t) \/ ForwardTo(t) \/ Unsubscribe(t)

SessionNext ==
    \/ Manage \/ SubscribeSend \/ Dispose
    \/ Connected \/ Lost \/ AllArrived
    \/ \E n \in Connections : onConnected(n)

SessionSpec == SessionInit /\ [][SessionNext]_sessionVars

\* A call of the handler and onConnected go on: they run in goroutines and wait for no one.
SessionFairSpec ==
    /\ SessionSpec
    /\ WF_sessionVars(SubscribeSend) /\ WF_sessionVars(Dispose)
    /\ \A n \in Connections : WF_sessionVars(onConnected(n))

-----------------------------------------------------------------------------
(* Properties *)

\* When the listeners have been told that the connection is up (onConnected has
\* fired) and it still is, every topic of the map has been subscribed for with the
\* hub, but for one that a call of subscribe is about to send, and one that ForwardTo
\* has put back while it was being unsubscribed: no order of subscribe's look at the
\* connection, the connection coming up and Range over the map misses a topic.
ToldIsSubscribed ==
    (connects > 0 /\ open /\ resub[connects].step = "told") =>
        \A t \in Registered \ ({handler.topic} \cup overtaken) : t \in session

\* A topic in the session and not in the map is one whose UNSUBSCRIBE is about to
\* be sent, or could not be sent or arrive because the connection was down: an
\* onConnected, of this connection or of an earlier one, that visited the topic
\* before unsubscribe deleted it does not subscribe it again.  Only one that holds an
\* info that subscribe has replaced does: unsubscribe does not dispose that one.
LeftoverIsOrphan ==
    \A t \in session \ Registered :
        t \in orphans \cup revived \/ (handler.step = "dispose" /\ handler.topic = t)

\* A topic of the map is subscribed for, unless the connection breaks or the topic
\* is unsubscribed first, or was being so when ForwardTo put it back: subscribe and
\* onConnected between them never leave it to each other.
EventuallySubscribed ==
    \A t \in Topics : (open /\ t \in Registered) ~>
        (~open \/ t \notin Registered \/ t \in session \cup overtaken)

=============================================================================
