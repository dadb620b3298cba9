------------------------------- MODULE EventBus -------------------------------
(***************************************************************************)
(* The way of events and telemetry from local devices to the hub           *)
(* (routing/events.go, timestamp.go and utils.go, connector/subscriber.go, *)
(* publisher.go and ratelimiter.go, and the launcher that ties the cloud   *)
(* client to the hub connection).  The local broker keeps an event for the *)
(* session of the cloud client until the client acknowledges it, which it  *)
(* does when the subscriber's handler returns.  The handler passes the     *)
(* event on to the router, which computes its hub topic and publishes it,  *)
(* at a limited rate if so configured, with the hub client.                *)
(*                                                                         *)
(* An event is passed on when the hub client has taken it; what the client *)
(* does with it then is external, and so are broker and router.  The       *)
(* router works on each event in a goroutine of its own.  The mutex of the *)
(* handler admits one event at a time, MessageLoop has its details.        *)
(*                                                                         *)
(* A launch has clients of its own, but all cloud clients share one client *)
(* id and therefore one session: a client that connects ends the           *)
(* connection of another one.  A launch that is ended while HonoConnect is *)
(* at work stops its router and never disconnects its cloud client.  An    *)
(* event of QoS 0 is kept by nobody: the broker sends it to a client that  *)
(* is connected, once.                                                     *)
(***************************************************************************)
EXTENDS Naturals, Sequences, SequencesExt, FiniteSets

CONSTANTS
    Characters,   \* what segments are made of; a word that is only compared is one character
    Messages,     \* the local messages: the topic, a sequence of segments, which are
                  \* sequences of characters, whether the payload can be extended, the QoS
    Settings,     \* the settings a launch may have: mode, tenant and device id of the gateway
    Prefix,       \* the prefix of generic hub topics, or the empty segment
    Limited,      \* whether MESSAGE_RATE sets a rate limit
    MaxEvents,    \* bound: the number of events
    MaxLosses,    \* bound: how often a connection is lost
    MaxLaunches,  \* bound: the number of launches
    Workers       \* bound: the goroutines of the router that work at the same time

ASSUME EventAssumption ==
    /\ Limited \in BOOLEAN
    /\ MaxEvents \in Nat /\ MaxLosses \in Nat /\ MaxLaunches \in Nat \ {0}
    /\ \A m \in Messages :
        m \in [topic : Seq(Seq(Characters)) \ {<<>>}, extensible : BOOLEAN, qos : {0, 1}]
    /\ \A s \in Settings :
        s \in [generic : BOOLEAN, tenant : Seq(Characters) \ {<<>>},
              gateway : Seq(Characters) \ {<<>>}]
    /\ {"event", "telemetry", ":"} \subseteq Characters
    /\ Prefix \in Seq(Characters)

Events == 1..MaxEvents
Launches == 1..MaxLaunches
NoEvent == 0
Empty == <<>>

VARIABLES
    launch,       \* the number of the launch
    settings,     \* its settings
    phase,        \* where it is: see Phases
    hub,          \* its hub client is connected
    cloud,        \* launch -> its cloud client: "on", "off", or "trying" to connect
    told,         \* launches whose CloudConnectionHandler is about to be told of a hub connection
    message,      \* the messages published so far, in order; an event is the number of one
    queue,        \* the events the local broker has for the session, in order
    acks,         \* how many of the first of them are acknowledged, or not kept, and may go
    handler,      \* the handler: where it is, with which event, for which worker it
                  \* waits, and whether the connection the event came by is still there
    worker,       \* worker -> where it is, with which event, and whether the context lasts
    passed,       \* what the hub client was given: events, settings and topics
    losses,       \* number of connections lost so far
    stray,        \* history: launches whose cloud client is left to itself, because the
                  \* launch ended in HonoConnect, or a callback told a removed listener
    rejected,     \* history: events HandleEvent or AddTimestamp returned an error for
    lost,         \* history: events lost, in one of the ways of Lose
    unkept        \* history: events of QoS 0 the broker will not send (again)

launchVars == <<launch, settings, phase>>
linkVars == <<hub, cloud, told, losses, stray>>
brokerVars == <<message, queue, acks>>
history == <<passed, rejected, lost, unkept>>
vars == <<launchVars, linkVars, brokerVars, handler, worker, history>>

Idle == [pc |-> "idle", ev |-> NoEvent, ctx |-> FALSE]
NoHandler == [pc |-> "idle", ev |-> NoEvent, waitsFor |-> {}, live |-> FALSE]

\* HonoConnect is at work, or has a connection and is about to return; the launch waits
\* for a signal; its listeners are removed, its cloud client is disconnected, its router
\* is stopping; or the router is stopping because HonoConnect has returned an error.
Phases == {"connect", "connected", "run", "leaving", "cut", "stopping", "dropped"}
Handlers == [pc : {"idle", "offer", "wait"}, ev : Events \cup {NoEvent},
             waitsFor : SUBSET Workers, live : BOOLEAN]
Goroutines == [pc : {"idle", "handle", "publish"}, ev : Events \cup {NoEvent},
               ctx : BOOLEAN]
HubMessages == [ev : Events, by : Settings, topic : Seq(Seq(Characters))]

TypeOK ==
    /\ launch \in Launches /\ settings \in Settings /\ phase \in Phases
    /\ hub \in BOOLEAN /\ cloud \in [Launches -> {"on", "off", "trying"}]
    /\ told \subseteq Launches /\ stray \subseteq Launches
    /\ message \in Seq(Messages) /\ Len(message) <= MaxEvents
    /\ queue \in Seq(Events) /\ acks \in 0..Len(queue)
    /\ handler \in Handlers /\ worker \in [Workers -> Goroutines]
    /\ passed \subseteq HubMessages
    /\ rejected \subseteq Events /\ lost \subseteq Events /\ unkept \subseteq Events

Init ==
    /\ launch = 1 /\ settings \in Settings /\ phase = "connect"
    /\ hub = FALSE /\ cloud = [n \in Launches |-> "off"] /\ told = {} /\ stray = {}
    /\ message = <<>> /\ queue = <<>> /\ acks = 0
    /\ handler = NoHandler
    /\ worker = [w \in Workers |-> Idle]
    /\ passed = {} /\ rejected = {} /\ lost = {} /\ unkept = {}
    /\ losses = 0

\* CloudConnectionHandler is a listener of the hub connection.
Listening == phase \in {"connect", "connected", "run", "dropped"}

\* StopRouter has closed the subscriber, or is about to.
Closing == phase \in {"stopping", "dropped"}

-----------------------------------------------------------------------------
(* Topics, by the settings s *)

\* Mutant: an empty segment counts as given.
Segment_NoEmptyTest(t, i, default) == IF Len(t) >= i THEN t[i] ELSE default

\* The i-th segment, if it is there and not empty.
Segment(t, i, default) == IF Len(t) >= i /\ t[i] # Empty THEN t[i] ELSE default

MsgType(t) == IF t[1] \in {<<"telemetry">>, <<"t">>} THEN <<"telemetry">> ELSE <<"event">>

\* The device, by default the gateway itself.
Device(s, t) == Segment(t, 3, s.gateway)

Strippable(s, device) == IsPrefix(s.gateway, device)

\* What is left of the id of a device; the character after the gateway's id is
\* taken for the colon.
stripGatewayID(s, device) ==
    IF Len(device) <= Len(s.gateway) + 1 THEN <<>>
    ELSE SubSeq(device, Len(s.gateway) + 2, Len(device))

\* In generic mode a device has to be one of the gateway, which its topic names.
HandleEvent(s, t) ==
    (IF s.generic /\ Prefix # Empty THEN <<Prefix>> ELSE <<>>)
    \o <<MsgType(t), Segment(t, 2, s.tenant)>>
    \o (IF s.generic THEN <<s.gateway, stripGatewayID(s, Device(s, t))>> ELSE <<Device(s, t)>>)
    \o SubSeq(t, 4, Len(t))

\* In generic mode AddTimestamp, of the events bus, or HandleEvent returns an error.
Rejects(s, m) ==
    /\ s.generic
    /\ \/ MsgType(m.topic) = <<"event">> /\ ~m.extensible
       \/ ~Strippable(s, Device(s, m.topic))

-----------------------------------------------------------------------------
(* The local broker *)

Unkept(q) == {q[i] : i \in {j \in DOMAIN q : message[q[j]].qos = 0}}

\* External: a local device publishes an event.  One of QoS 0 is not kept for a
\* client that is not connected.
LocalPublish(m) ==
    LET e == Len(message) + 1
    IN  /\ e <= MaxEvents
        /\ message' = Append(message, m)
        /\ queue' = Append(queue, e)
        /\ unkept' = IF m.qos = 0 /\ \A n \in Launches : cloud[n] # "on"
                     THEN unkept \cup {e} ELSE unkept
        /\ UNCHANGED <<launchVars, linkVars, acks, handler,
                   worker, passed, rejected, lost>>

\* External: the broker takes an acknowledgement, and keeps the event no longer.
BrokerAck ==
    /\ acks > 0
    /\ queue' = Tail(queue)
    /\ acks' = acks - 1
    /\ UNCHANGED <<launchVars, linkVars, message, handler, worker, history>>

\* External: an event that is not kept is passed over.
BrokerSkip ==
    /\ acks < Len(queue) /\ queue[acks + 1] \in unkept
    /\ acks' = acks + 1
    /\ UNCHANGED <<launchVars, linkVars, message, queue, handler, worker, history>>

\* The connection of the session ends: acknowledgements on their way are lost, what
\* is kept and not acknowledged is sent again by the next connection, and the
\* handler's return will acknowledge nothing.
DropConnection ==
    /\ acks' = 0
    /\ handler' = [handler EXCEPT !.live = FALSE]
    /\ unkept' = unkept \cup Unkept(queue)

KeepConnection == UNCHANGED <<acks, handler, unkept>>

\* An event is acknowledged, or will be, without being passed on.  There are three ways:
\* its acknowledgement times out; it is published after the loss of the hub connection
\* and before the cloud client is disconnected; or it comes to a closed subscriber, by
\* a cloud client that is left to itself (see stray).
Lose(e) == lost' = lost \cup {e}

-----------------------------------------------------------------------------
(* The connections *)

\* The hub connection comes up, by HonoConnect, by the connector's reconnect, or by an
\* attempt HonoConnect was cancelled in; onConnected reads the listeners later.
HubConnect ==
    /\ ~hub
    /\ hub' = TRUE
    /\ told' = IF Listening THEN told \cup {launch} ELSE told
    /\ phase' = IF phase = "connect" THEN "connected" ELSE phase
    /\ UNCHANGED <<launch, settings, cloud, losses, stray, brokerVars, handler, worker, history>>

\* External: the hub connection is lost.
HubLost ==
    /\ hub /\ losses < MaxLosses
    /\ hub' = FALSE
    /\ losses' = losses + 1
    /\ UNCHANGED <<launchVars, cloud, told, stray, brokerVars, handler, worker, history>>

\* cloudClient.Connect: no effect on a client that is connected or tries to be.
Connect(n) == cloud' = [cloud EXCEPT ![n] = IF @ = "off" THEN "trying" ELSE @]

\* cloudClient.Disconnect
Disconnect(n) ==
    /\ cloud' = [cloud EXCEPT ![n] = "off"]
    /\ IF cloud[n] = "on" THEN DropConnection ELSE KeepConnection

\* External: the client of launch n, which retries until it is disconnected, gets its
\* connection; the broker ends the one that another client has by the same client id.
CloudConnected(n) ==
    LET other == \E k \in Launches : cloud[k] = "on"
    IN  /\ cloud[n] = "trying"
        /\ n = launch \/ ~other \/ losses < MaxLosses
        /\ cloud' = [k \in Launches |-> IF k = n THEN "on"
                                       ELSE IF cloud[k] = "on" THEN "trying" ELSE cloud[k]]
        /\ losses' = IF n # launch /\ other THEN losses + 1 ELSE losses
        /\ DropConnection
        /\ UNCHANGED <<launchVars, hub, told, stray, message, queue,
                   worker, passed, rejected, lost>>

\* External: the connection of a cloud client is lost, and the client tries again.
CloudLost(n) ==
    /\ cloud[n] = "on" /\ losses < MaxLosses
    /\ cloud' = [cloud EXCEPT ![n] = "trying"]
    /\ losses' = losses + 1
    /\ DropConnection
    /\ UNCHANGED <<launchVars, hub, told, stray, message, queue,
                   worker, passed, rejected, lost>>

\* Mutant: the cloud client is not connected again after a loss.
CloudFollows_Once(n) ==
    /\ \/ /\ n \in told /\ told' = told \ {n}
          /\ IF losses = 0 THEN Connect(n) ELSE UNCHANGED cloud
          /\ KeepConnection
       \/ (n = launch => ~hub) /\ cloud[n] # "off" /\ Disconnect(n) /\ UNCHANGED told
    /\ UNCHANGED <<launchVars, hub, losses, stray, message, queue, worker, passed, rejected, lost>>

\* CloudConnectionHandler of launch n is told of a hub connection, or of its loss.  A
\* callback that has read the listeners tells it also after it was removed.
CloudFollows(n) ==
    /\ \/ /\ n \in told /\ told' = told \ {n}
          /\ \/ /\ Connect(n)
                /\ stray' = IF n = launch /\ Listening THEN stray ELSE stray \cup {n}
             \/ ~(n = launch /\ Listening) /\ UNCHANGED <<cloud, stray>>
          /\ KeepConnection
       \/ (n = launch => ~hub) /\ cloud[n] # "off" /\ Disconnect(n) /\ UNCHANGED <<told, stray>>
    /\ UNCHANGED <<launchVars, hub, losses, message, queue,
                   worker, passed, rejected, lost>>

-----------------------------------------------------------------------------
(* The launch *)

\* HonoConnect returns, or is cancelled by a signal, also when the connection is just
\* made, or gives up: then the router is stopped, the listeners being in place, and the
\* cloud client is left to itself.
HonoConnect ==
    /\ \/ phase = "connected" /\ phase' = "run" /\ UNCHANGED stray
       \/ /\ phase \in {"connect", "connected"} /\ launch < MaxLaunches
          /\ phase' = "dropped" /\ stray' = stray \cup {launch}
    /\ UNCHANGED <<launch, settings, hub, cloud, told, losses, brokerVars, handler, worker, history>>

\* A signal: the listeners are removed.
Signal ==
    /\ phase = "run" /\ launch < MaxLaunches
    /\ phase' = "leaving"
    /\ UNCHANGED <<launch, settings, linkVars, brokerVars, handler, worker, history>>

\* Mutant: the router is stopped before the cloud client is disconnected.
Shutdown_RouterFirst ==
    /\ phase = "leaving"
    /\ phase' = "stopping"
    /\ UNCHANGED <<launch, settings, linkVars, brokerVars, handler, worker, history>>

\* cloudClient.Disconnect, then StopRouter, which closes the subscriber
Shutdown ==
    /\ \/ phase = "leaving" /\ phase' = "cut" /\ Disconnect(launch)
       \/ phase = "cut" /\ phase' = "stopping" /\ KeepConnection /\ UNCHANGED cloud
    /\ UNCHANGED <<launch, settings, hub, told, losses, stray, message, queue,
                   worker, passed, rejected, lost>>

\* The router has stopped; the next launch, whose settings may be others, has clients
\* of its own.
Relaunch ==
    /\ Closing
    /\ handler.pc = "idle" /\ \A w \in Workers : worker[w] = Idle
    /\ launch' = launch + 1
    /\ settings' \in Settings
    /\ phase' = "connect"
    /\ hub' = FALSE
    /\ UNCHANGED <<cloud, told, losses, stray, brokerVars, handler, worker, history>>

\* The cloud client of a former launch gets an event: its default handler logs it, and
\* the client acknowledges it.
Unrouted(n) ==
    /\ n # launch /\ cloud[n] = "on"
    /\ acks < Len(queue) /\ queue[acks + 1] \notin unkept
    /\ acks' = acks + 1
    /\ Lose(queue[acks + 1])
    /\ UNCHANGED <<launchVars, linkVars, message, queue, handler, worker,
                   passed, rejected, unkept>>

-----------------------------------------------------------------------------
(* messageloop.handler, as far as it matters to the events *)

\* Mutant: the client calls the handlers of the events in no particular order.
Dispatch_Unordered ==
    /\ cloud[launch] = "on" /\ handler.pc = "idle"
    /\ \E i \in (acks + 1)..Len(queue) :
        /\ queue[i] \notin unkept
        /\ queue' = SubSeq(queue, 1, acks) \o <<queue[i]>>
                    \o Remove(SubSeq(queue, acks + 1, Len(queue)), queue[i])
        /\ handler' = [pc |-> "offer", ev |-> queue[i], waitsFor |-> {}, live |-> TRUE]
    /\ UNCHANGED <<launchVars, linkVars, message, acks, worker, history>>

\* The broker has sent the next event, and the client, whose options say that the
\* order matters, calls the handler.
Dispatch ==
    /\ cloud[launch] = "on" /\ handler.pc = "idle"
    /\ acks < Len(queue) /\ queue[acks + 1] \notin unkept
    /\ handler' = [pc |-> "offer", ev |-> queue[acks + 1], waitsFor |-> {}, live |-> TRUE]
    /\ UNCHANGED <<launchVars, linkVars, brokerVars, worker, history>>

\* The router takes the event, as long as the subscriber is not closed, and starts a
\* goroutine for it; which of the idle ones stands for it does not matter.
Offer(w) ==
    /\ handler.pc = "offer" /\ worker[w] = Idle
    /\ w = CHOOSE v \in Workers : worker[v] = Idle
    /\ worker' = [worker EXCEPT ![w] = [pc |-> "handle", ev |-> handler.ev, ctx |-> TRUE]]
    /\ handler' = [handler EXCEPT !.pc = "wait", !.waitsFor = {w}]
    /\ UNCHANGED <<launchVars, linkVars, brokerVars, history>>

\* An event that came by a stray client, whose connection is still there, is not passed on.
NotHeard(e) ==
    IF handler.live /\ handler.ev = e /\ launch \in stray THEN Lose(e) ELSE UNCHANGED lost

\* The handler returns, and the client acknowledges the event to the broker, if the
\* connection it came by is still there.
HandlerReturns ==
    /\ acks' = IF handler.live THEN acks + 1 ELSE acks
    /\ handler' = NoHandler

\* The return of a handler that still waits cancels the context of the event.
GiveUp ==
    /\ worker' = [w \in Workers |-> IF w \in handler.waitsFor
                                    THEN [worker[w] EXCEPT !.ctx = FALSE] ELSE worker[w]]
    /\ HandlerReturns

\* The subscriber is closing: the event is not consumed, or no longer waited for.
HandlerClosing ==
    /\ Closing /\ handler.pc # "idle"
    /\ NotHeard(handler.ev)
    /\ GiveUp
    /\ UNCHANGED <<launchVars, linkVars, message, queue, passed, rejected, unkept>>

\* The ack timeout
AckTimeout ==
    /\ handler.pc = "wait" /\ handler.waitsFor # {}
    /\ Lose(handler.ev)
    /\ GiveUp
    /\ UNCHANGED <<launchVars, linkVars, message, queue, passed, rejected, unkept>>

\* The event is acked, or nacked, which makes no difference.
Return ==
    /\ handler.pc = "wait" /\ handler.waitsFor = {}
    /\ HandlerReturns
    /\ UNCHANGED <<launchVars, linkVars, message, queue, worker, history>>

-----------------------------------------------------------------------------
(* The router's goroutine for an event *)

\* The goroutine ends with an ack or a nack.
Finish(w) ==
    /\ worker' = [worker EXCEPT ![w] = Idle]
    /\ handler' = [handler EXCEPT !.waitsFor = @ \ {w}]

\* The limiter, if there is one, waits with the context of the event.
Wait(w) ==
    \/ /\ ~Limited \/ worker[w].ctx
       /\ worker' = [worker EXCEPT ![w].pc = "publish"]
       /\ UNCHANGED handler
    \/ Limited /\ ~worker[w].ctx /\ Finish(w)

\* AddTimestamp and HandleEvent, then the limiter in front of the publisher
Handle(w) ==
    LET e == worker[w].ev
    IN  /\ worker[w].pc = "handle"
        /\ \/ Rejects(settings, message[e]) /\ rejected' = rejected \cup {e} /\ Finish(w)
           \/ ~Rejects(settings, message[e]) /\ Wait(w) /\ UNCHANGED rejected
        /\ UNCHANGED <<launchVars, linkVars, brokerVars, passed, lost, unkept>>

\* The hub client takes the event only if it is connected; the publisher, which
\* waits for no token, acks in either case.  A stopping router closes the publisher.
Publish(w) ==
    LET e == worker[w].ev
    IN  /\ worker[w].pc = "publish"
        /\ \/ /\ hub
              /\ passed' = passed \cup {[ev |-> e, by |-> settings,
                                         topic |-> HandleEvent(settings, message[e].topic)]}
              /\ UNCHANGED lost
           \/ ~hub /\ Lose(e) /\ UNCHANGED passed
           \/ Closing /\ NotHeard(e) /\ UNCHANGED passed
        /\ Finish(w)
        /\ UNCHANGED <<launchVars, linkVars, brokerVars, rejected, unkept>>

-----------------------------------------------------------------------------
Next ==
    \/ \E m \in Messages : LocalPublish(m)
    \/ BrokerAck \/ BrokerSkip \/ HubConnect \/ HubLost
    \/ \E n \in Launches : CloudConnected(n) \/ CloudLost(n) \/ CloudFollows(n) \/ Unrouted(n)
    \/ HonoConnect \/ Signal \/ Shutdown \/ Relaunch
    \/ Dispatch \/ HandlerClosing \/ AckTimeout \/ Return
    \/ \E w \in Workers : Offer(w) \/ Handle(w) \/ Publish(w)

Spec == Init /\ [][Next]_vars

\* Goroutines that can run do.  Nothing is assumed of the hub, of the local broker's
\* being reached, or of the end of a launch.
Fairness ==
    /\ WF_vars(BrokerSkip)
    /\ \A n \in Launches :
        WF_vars(n \in told /\ CloudFollows(n)) /\ WF_vars(Unrouted(n))
    /\ WF_vars(Dispatch) /\ WF_vars(HandlerClosing) /\ WF_vars(Return)
    /\ WF_vars(\E w \in Workers : Offer(w))
    /\ \A w \in Workers : WF_vars(Handle(w)) /\ WF_vars(Publish(w))

FairSpec == Spec /\ Fairness

-----------------------------------------------------------------------------
PassedOn == {p.ev : p \in passed}

Settled == PassedOn \cup rejected \cup lost \cup unkept

\* An event the local broker no longer keeps was passed on to the hub client,
\* through any number of losses, redeliveries and launches, unless it was rejected or
\* lost in one of the three ways of Lose, or has QoS 0 and the connection was lost.
AckedIsPassedOn == \A e \in 1..Len(message) : ~Contains(queue, e) => e \in Settled

\* Events are passed on in the order in which they were published, repetitions and
\* losses aside: when one is passed on, every earlier one was before, or it is rejected
\* or lost in one of the ways that AckedIsPassedOn excepts.  (What is settled stays so.)
InOrder == \A p \in passed : \A e \in 1..(p.ev - 1) : e \in Settled

\* The id of the gateway, or of one of its devices in the form gatewayID:ID.
OfGateway(s, device) ==
    \/ device = s.gateway
    \/ Len(device) > Len(s.gateway) + 1 /\ IsPrefix(Append(s.gateway, ":"), device)

\* The hub can tell the sender, by the settings of the launch that has passed the event
\* on: no topic has an empty tenant or an empty device, the default of which is the
\* gateway; without generic mode it names the device that has published, and in generic
\* mode, if the id of that is of the documented form, the topic turned back by the rule
\* for commands does.
Addressed ==
    \A p \in passed :
        LET s == p.by
            t == message[p.ev].topic
            source == IF Len(t) > 2 /\ t[3] # Empty THEN t[3] ELSE s.gateway
            r == IF s.generic /\ Prefix # Empty THEN Tail(p.topic) ELSE p.topic
            device == IF s.generic /\ r[4] # Empty THEN r[3] \o <<":">> \o r[4] ELSE r[3]
        IN  /\ r[2] # Empty /\ r[3] # Empty
            /\ s.generic => r[3] = s.gateway
            /\ ~s.generic \/ OfGateway(s, source) => device = source
            /\ Len(t) > 3 => Last(r) = Last(t)

\* If a launch has its hub connection again and again, and its cloud client does not try
\* for ever to reach the local broker, every event is settled: passed on, rejected, or
\* lost in one of the ways that AckedIsPassedOn excepts.
EventuallySettled ==
    ([]<>(hub /\ phase \in {"connected", "run"}) /\ []<>(cloud[launch] # "trying"))
        => \A e \in Events : (e <= Len(message)) ~> (e \in Settled)
=============================================================================
