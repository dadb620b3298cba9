---------------------------- MODULE EventBusProofs ----------------------------
(***************************************************************************)
(* Proofs about EventBus, for any messages, settings, number of events,    *)
(* losses, launches and goroutines of the router: no acknowledged event of *)
(* QoS 1 is lost but in the three ways the code leaves open, the order is  *)
(* kept, and the topics passed on name the sender.                         *)
(***************************************************************************)
EXTENDS EventBus, SequenceTheorems, TLAPS

-----------------------------------------------------------------------------
(* The inductive invariant *)

\* The broker has events that were published, in their order.
QueueInv ==
    /\ \A i \in DOMAIN queue : queue[i] <= Len(message)
    /\ \A i, j \in DOMAIN queue : i < j => queue[i] < queue[j]

\* An event whose connection is still there is the first one not acknowledged.
LiveInv ==
    handler.live => /\ handler.pc # "idle" /\ cloud[launch] = "on"
                    /\ acks < Len(queue) /\ queue[acks + 1] = handler.ev
                    /\ handler.ev \notin unkept

\* The session has one connection, and a client that is not disconnected before the
\* subscriber is closed is left to itself.
StrayInv ==
    /\ \A k, n \in Launches : cloud[k] = "on" /\ cloud[n] = "on" => k = n
    /\ phase \in {"cut", "stopping"} /\ cloud[launch] # "off" => launch \in stray
    /\ phase = "dropped" => launch \in stray
    /\ phase \in {"leaving", "cut", "stopping", "dropped"} => launch < MaxLaunches

\* Handler and goroutines work on events that were published; a goroutine that is
\* waited for works, under a context that lasts, on the event of the handler.
BusyInv ==
    /\ handler.pc # "idle" => handler.ev \in 1..Len(message)
    /\ handler.pc # "wait" => handler.waitsFor = {}
    /\ \A w \in Workers : worker[w].pc # "idle" => worker[w].ev \in 1..Len(message)
    /\ \A w \in handler.waitsFor :
        worker[w].pc # "idle" /\ worker[w].ctx /\ worker[w].ev = handler.ev

\* The handler can return with an acknowledgement.
Returning == handler.pc = "wait" /\ handler.waitsFor = {}

\* What is acknowledged, or about to be, is settled.
SettledInv ==
    /\ \A e \in 1..Len(message) : (\A i \in DOMAIN queue : queue[i] # e) => e \in Settled
    /\ \A i \in 1..acks : queue[i] \in Settled
    /\ handler.live /\ Returning => handler.ev \in Settled

\* The events before e that the broker has are settled, so that e may be passed on.
ClearBefore(e) == \A i \in DOMAIN queue : queue[i] < e => queue[i] \in Settled

ClearInv ==
    /\ handler.pc # "idle" => ClearBefore(handler.ev)
    /\ \A w \in Workers : worker[w].pc # "idle" => ClearBefore(worker[w].ev)

\* The hub client was given the topic HandleEvent computes by the settings of the launch.
PassedInv ==
    \A p \in passed : /\ p.ev <= Len(message)
                      /\ p.topic = HandleEvent(p.by, message[p.ev].topic)

IInv ==
    /\ TypeOK /\ QueueInv /\ LiveInv /\ StrayInv /\ BusyInv /\ SettledInv /\ ClearInv
    /\ PassedInv /\ InOrder

-----------------------------------------------------------------------------
(* Topics, by any settings s *)

\* Tenant and gateway are segments, and not empty.
LEMMA SettingsType ==
    ASSUME NEW s \in Settings
    PROVE  /\ s.generic \in BOOLEAN
           /\ s.tenant \in Seq(Characters) /\ s.tenant # <<>>
           /\ s.gateway \in Seq(Characters) /\ s.gateway # <<>>
BY EventAssumption

\* The parts of a hub topic are segments.
LEMMA SegmentTypes ==
    ASSUME NEW s \in Settings, NEW t \in Seq(Seq(Characters)) \ {<<>>}
    PROVE  /\ MsgType(t) \in Seq(Characters) /\ Segment(t, 2, s.tenant) \in Seq(Characters)
           /\ Device(s, t) \in Seq(Characters) /\ stripGatewayID(s, Device(s, t)) \in Seq(Characters)
<1>1. Segment(t, 2, s.tenant) \in Seq(Characters) /\ Device(s, t) \in Seq(Characters)
  BY SettingsType DEF Segment, Device
<1>2. MsgType(t) \in Seq(Characters)
  BY EventAssumption DEF MsgType
<1>3. stripGatewayID(s, Device(s, t)) \in Seq(Characters)
  BY <1>1, SettingsType DEF stripGatewayID
<1>4. QED
  BY <1>1, <1>2, <1>3

\* What HandleEvent computes is a topic.
LEMMA HandleEventType ==
    ASSUME NEW s \in Settings, NEW t \in Seq(Seq(Characters)) \ {<<>>}
    PROVE  HandleEvent(s, t) \in Seq(Seq(Characters))
<1>1. SubSeq(t, 4, Len(t)) \in Seq(Seq(Characters))
  <2>1. \A i \in 4..Len(t) : t[i] \in Seq(Characters)
    OBVIOUS
  <2>2. QED
    BY <2>1
<1>2. (IF s.generic /\ Prefix # Empty THEN <<Prefix>> ELSE <<>>) \in Seq(Seq(Characters))
  BY EventAssumption
<1>3. <<MsgType(t), Segment(t, 2, s.tenant)>> \in Seq(Seq(Characters))
  BY SegmentTypes
<1>4. (IF s.generic THEN <<s.gateway, stripGatewayID(s, Device(s, t))>> ELSE <<Device(s, t)>>)
         \in Seq(Seq(Characters))
  BY SegmentTypes, SettingsType
<1>5. QED
  BY <1>1, <1>2, <1>3, <1>4 DEF HandleEvent

\* A prefix has the same characters.
LEMMA PrefixElements ==
    ASSUME NEW S, NEW s \in Seq(S), NEW t \in Seq(S), IsPrefix(s, t)
    PROVE  Len(s) <= Len(t) /\ \A i \in 1..Len(s) : s[i] = t[i]
<1>1. Len(s) <= Len(t) /\ SubSeq(s, 1, Len(s)) = SubSeq(t, 1, Len(s))
  BY DEF IsPrefix
<1>2. ASSUME NEW i \in 1..Len(s) PROVE s[i] = t[i]
  <2>1. SubSeq(s, 1, Len(s))[i] = s[i]
    OBVIOUS
  <2>2. SubSeq(t, 1, Len(s))[i] = t[i]
    BY <1>1
  <2>3. QED
    BY <1>1, <2>1, <2>2
<1>3. QED
  BY <1>1, <1>2

\* The elements of what is left of a sequence without its first n.
LEMMA SuffixElements ==
    ASSUME NEW S, NEW x \in Seq(S), NEW n \in Nat, n < Len(x)
    PROVE  /\ SubSeq(x, n + 1, Len(x)) \in Seq(S) /\ Len(SubSeq(x, n + 1, Len(x))) = Len(x) - n
           /\ \A i \in 1..Len(SubSeq(x, n + 1, Len(x))) : SubSeq(x, n + 1, Len(x))[i] = x[n + i]
<1>1. \A i \in (n + 1)..Len(x) : x[i] \in S
  OBVIOUS
<1>2. QED
  BY <1>1

\* The elements of three sequences put together.
LEMMA ConcatThree ==
    ASSUME NEW S, NEW x \in Seq(S), NEW y \in Seq(S), NEW z \in Seq(S)
    PROVE  /\ x \o y \o z \in Seq(S)
           /\ Len(x \o y \o z) = Len(x) + Len(y) + Len(z)
           /\ \A i \in 1..Len(x) : (x \o y \o z)[i] = x[i]
           /\ \A i \in 1..Len(y) : (x \o y \o z)[Len(x) + i] = y[i]
           /\ \A i \in 1..Len(z) : (x \o y \o z)[Len(x) + Len(y) + i] = z[i]
<1>. DEFINE v == x \o y
<1>1. /\ v \in Seq(S) /\ Len(v) = Len(x) + Len(y)
      /\ \A i \in 1..(Len(x) + Len(y)) : v[i] = IF i <= Len(x) THEN x[i] ELSE y[i - Len(x)]
  BY ConcatProperties
<1>. HIDE DEF v
<1>2. /\ v \o z \in Seq(S) /\ Len(v \o z) = Len(v) + Len(z)
      /\ \A i \in 1..(Len(v) + Len(z)) : (v \o z)[i] = IF i <= Len(v) THEN v[i] ELSE z[i - Len(v)]
  <2>1. v \in Seq(S)
    BY <1>1
  <2>2. QED
    BY <2>1, ConcatProperties
<1>3. Len(x) \in Nat /\ Len(y) \in Nat /\ Len(z) \in Nat
  OBVIOUS
<1>4. \A i \in 1..Len(x) : (v \o z)[i] = x[i]
  BY <1>1, <1>2, <1>3
<1>5. \A i \in 1..Len(y) : (v \o z)[Len(x) + i] = y[i]
  BY <1>1, <1>2, <1>3
<1>6. \A i \in 1..Len(z) : (v \o z)[Len(x) + Len(y) + i] = z[i]
  BY <1>1, <1>2, <1>3
<1>7. QED
  BY <1>1, <1>2, <1>4, <1>5, <1>6 DEF v

\* Tail takes away what was put in front.
LEMMA TailOfConcat ==
    ASSUME NEW S, NEW x \in S, NEW u \in Seq(S)
    PROVE  Tail(<<x>> \o u) = u
<1>. DEFINE v == <<x>> \o u
<1>1. /\ v \in Seq(S) /\ Len(v) = 1 + Len(u)
      /\ \A i \in 1..(1 + Len(u)) : v[i] = IF i <= 1 THEN <<x>>[i] ELSE u[i - 1]
  <2>1. <<x>> \in Seq(S) /\ Len(<<x>>) = 1
    OBVIOUS
  <2>2. QED
    BY <2>1, ConcatProperties
<1>. HIDE DEF v
<1>2. Tail(v) \in Seq(S) /\ Len(Tail(v)) = Len(u) /\ \A i \in 1..Len(u) : Tail(v)[i] = v[i + 1]
  BY <1>1
<1>3. \A i \in 1..Len(u) : Tail(v)[i] = u[i]
  BY <1>1, <1>2
<1>4. Tail(v) = u
  BY <1>2, <1>3, SeqEqual
<1>5. QED
  BY <1>4 DEF v

\* The rule for commands, gatewayID:ID, undoes stripGatewayID for the gateway and for
\* ids of the documented form.
LEMMA StripInverse ==
    ASSUME NEW s \in Settings, NEW device \in Seq(Characters), OfGateway(s, device)
    PROVE  device = IF stripGatewayID(s, device) # Empty
                    THEN s.gateway \o <<":">> \o stripGatewayID(s, device) ELSE s.gateway
<1>. DEFINE g == Len(s.gateway)
            prefix == Append(s.gateway, ":")
            rest == SubSeq(device, g + 2, Len(device))
            back == s.gateway \o <<":">> \o rest
<1>1. s.gateway \in Seq(Characters) /\ ":" \in Characters /\ g \in Nat
  BY EventAssumption, SettingsType
<1>2. CASE Len(device) <= g + 1
  <2>1. device = s.gateway
    BY <1>2 DEF OfGateway
  <2>2. stripGatewayID(s, device) = Empty
    BY <1>2 DEF stripGatewayID, Empty
  <2>3. QED
    BY <2>1, <2>2
<1>3. CASE Len(device) > g + 1
  <2>1. IsPrefix(prefix, device)
    BY <1>1, <1>3 DEF OfGateway
  <2>2. /\ prefix \in Seq(Characters) /\ Len(prefix) = g + 1
        /\ \A i \in 1..g : prefix[i] = s.gateway[i]
        /\ prefix[g + 1] = ":"
    BY <1>1
  <2>. HIDE DEF prefix
  <2>3. \A i \in 1..(g + 1) : prefix[i] = device[i]
    BY <2>1, <2>2, PrefixElements
  <2>4. /\ rest \in Seq(Characters) /\ Len(rest) = Len(device) - (g + 1)
        /\ \A i \in 1..Len(rest) : rest[i] = device[g + 1 + i]
    <3>1. g \in Nat /\ Len(device) > g + 1
      BY <1>1, <1>3
    <3>. DEFINE n == g + 1
    <3>2. n \in Nat /\ n < Len(device) /\ rest = SubSeq(device, n + 1, Len(device))
      <4>1. g + 2 = n + 1
        BY <3>1
      <4>2. QED
        BY <3>1, <4>1
    <3>. HIDE DEF n, rest
    <3>3. /\ rest \in Seq(Characters) /\ Len(rest) = Len(device) - n
          /\ \A i \in 1..Len(rest) : rest[i] = device[n + i]
      BY <3>2, SuffixElements
    <3>4. QED
      BY <3>3 DEF n
  <2>5. stripGatewayID(s, device) = rest
    <3>1. ~(Len(device) <= Len(s.gateway) + 1)
      BY <1>1, <1>3
    <3>2. QED
      BY <3>1, Zenon DEF stripGatewayID
  <2>6. Len(rest) # 0
    BY <1>1, <1>3, <2>4
  <2>. HIDE DEF rest
  <2>7. rest # Empty
    BY <2>6 DEF Empty
  <2>8. <<":">> \in Seq(Characters) /\ Len(<<":">>) = 1 /\ <<":">>[1] = ":"
    BY <1>1
  <2>9. /\ back \in Seq(Characters) /\ Len(back) = g + 1 + Len(rest)
        /\ \A i \in 1..g : back[i] = s.gateway[i]
        /\ \A i \in 1..1 : back[g + i] = <<":">>[i]
        /\ \A i \in 1..Len(rest) : back[g + 1 + i] = rest[i]
    <3>. DEFINE colon == <<":">>
    <3>1. colon \in Seq(Characters) /\ Len(colon) = 1
      BY <2>8
    <3>. HIDE DEF colon, g
    <3>2. /\ s.gateway \o colon \o rest \in Seq(Characters)
          /\ Len(s.gateway \o colon \o rest) = Len(s.gateway) + Len(colon) + Len(rest)
          /\ \A i \in 1..Len(s.gateway) : (s.gateway \o colon \o rest)[i] = s.gateway[i]
          /\ \A i \in 1..Len(colon) : (s.gateway \o colon \o rest)[Len(s.gateway) + i] = colon[i]
          /\ \A i \in 1..Len(rest) :
                (s.gateway \o colon \o rest)[Len(s.gateway) + Len(colon) + i] = rest[i]
      <4>1. s.gateway \in Seq(Characters) /\ colon \in Seq(Characters) /\ rest \in Seq(Characters)
        BY <1>1, <2>4, <3>1
      <4>2. QED
        BY <4>1, ConcatThree
    <3>3. QED
      BY <3>1, <3>2 DEF colon, g
  <2>. HIDE DEF back, g
  <2>10. ASSUME NEW i \in 1..Len(back) PROVE back[i] = device[i]
    <3>1. CASE i \in 1..g
      BY <1>1, <2>2, <2>3, <2>9, <3>1
    <3>2. CASE i = g + 1
      BY <1>1, <2>2, <2>3, <2>8, <2>9, <3>2
    <3>3. CASE i \in (g + 2)..(g + 1 + Len(rest))
      <4>. DEFINE k == i - (g + 1)
      <4>1. k \in 1..Len(rest) /\ i = g + 1 + k
        BY <1>1, <2>4, <3>3
      <4>. HIDE DEF k
      <4>2. QED
        BY <2>4, <2>9, <4>1
    <3>4. QED
      BY <1>1, <2>4, <2>9, <3>1, <3>2, <3>3
  <2>11. Len(back) = Len(device)
    BY <1>1, <2>4, <2>9
  <2>12. back = device
    BY <2>9, <2>10, <2>11, SeqEqual
  <2>13. QED
    BY <2>5, <2>7, <2>12 DEF back
<1>4. QED
  BY <1>1, <1>2, <1>3

\* The segments of the hub topic, after the prefix.
LEMMA HubTopic ==
    ASSUME NEW s \in Settings, NEW t \in Seq(Seq(Characters)) \ {<<>>}, NEW r,
           r = IF s.generic /\ Prefix # Empty THEN Tail(HandleEvent(s, t)) ELSE HandleEvent(s, t)
    PROVE  /\ r[2] = Segment(t, 2, s.tenant)
           /\ ~s.generic => r[3] = Device(s, t)
           /\ s.generic => r[3] = s.gateway /\ r[4] = stripGatewayID(s, Device(s, t))
           /\ Len(t) > 3 => r[Len(r)] = t[Len(t)]
<1>. DEFINE S == Seq(Characters)
            a == IF s.generic /\ Prefix # Empty THEN <<Prefix>> ELSE <<>>
            b == <<MsgType(t), Segment(t, 2, s.tenant)>>
            c == IF s.generic THEN <<s.gateway, stripGatewayID(s, Device(s, t))>> ELSE <<Device(s, t)>>
            d == SubSeq(t, 4, Len(t))
            u == b \o c \o d
<1>1. /\ MsgType(t) \in S /\ Segment(t, 2, s.tenant) \in S /\ Device(s, t) \in S
      /\ stripGatewayID(s, Device(s, t)) \in S /\ s.gateway \in S /\ Prefix \in S
  BY SegmentTypes, SettingsType, EventAssumption
<1>2. d \in Seq(S) /\ (Len(t) > 3 => Len(d) = Len(t) - 3 /\ d[Len(d)] = t[Len(t)])
  <2>1. t \in Seq(S) /\ \A i \in 4..Len(t) : t[i] \in S
    OBVIOUS
  <2>2. QED
    BY <2>1
<1>3. a \in Seq(S)
  BY <1>1
<1>4. b \in Seq(S) /\ Len(b) = 2 /\ b[2] = Segment(t, 2, s.tenant)
  BY <1>1
<1>5. /\ c \in Seq(S) /\ Len(c) = IF s.generic THEN 2 ELSE 1
      /\ ~s.generic => c[1] = Device(s, t)
      /\ s.generic => c[1] = s.gateway /\ c[2] = stripGatewayID(s, Device(s, t))
  BY <1>1
<1>6. HandleEvent(s, t) = a \o b \o c \o d
  BY DEF HandleEvent
<1>7. a = IF s.generic /\ Prefix # Empty THEN <<Prefix>> ELSE <<>>
  OBVIOUS
<1>. HIDE DEF S, a, b, c, d
<1>8. /\ u \in Seq(S) /\ Len(u) = Len(b) + Len(c) + Len(d)
      /\ \A i \in 1..Len(b) : u[i] = b[i]
      /\ \A i \in 1..Len(c) : u[Len(b) + i] = c[i]
      /\ \A i \in 1..Len(d) : u[Len(b) + Len(c) + i] = d[i]
  <2>1. b \in Seq(S) /\ c \in Seq(S) /\ d \in Seq(S)
    BY <1>2, <1>4, <1>5
  <2>2. QED
    BY <2>1, ConcatThree
<1>9. HandleEvent(s, t) = a \o u
  <2>1. a \in Seq(S) /\ b \in Seq(S) /\ c \in Seq(S) /\ d \in Seq(S)
    BY <1>2, <1>3, <1>4, <1>5
  <2>2. (a \o b) \o c = a \o (b \o c)
    BY <2>1, ConcatAssociative, SMTT(30)
  <2>. DEFINE v == b \o c
  <2>3. v \in Seq(S)
    BY <2>1, ConcatProperties
  <2>. HIDE DEF v
  <2>4. (a \o v) \o d = a \o (v \o d)
    <3>1. a \in Seq(S) /\ v \in Seq(S) /\ d \in Seq(S)
      BY <2>1, <2>3
    <3>2. QED
      BY <3>1, ConcatAssociative, SMTT(30)
  <2>5. QED
    BY <1>6, <2>2, <2>4 DEF v
<1>. HIDE DEF u
<1>10. r = u
  <2>1. CASE s.generic /\ Prefix # Empty
    BY <1>1, <1>7, <1>8, <1>9, <2>1, TailOfConcat
  <2>2. CASE ~(s.generic /\ Prefix # Empty)
    BY <1>7, <1>8, <1>9, <2>2, ConcatEmptySeq
  <2>3. QED
    BY <2>1, <2>2
<1>11. u[2] = b[2] /\ u[3] = c[1] /\ (s.generic => u[4] = c[2])
  <2>1. u[2] = b[2]
    BY <1>4, <1>8
  <2>2. 1 \in 1..Len(c) /\ (s.generic => 2 \in 1..Len(c))
    BY <1>5
  <2>3. u[2 + 1] = c[1] /\ (s.generic => u[2 + 2] = c[2])
    BY <1>4, <1>8, <2>2
  <2>4. QED
    BY <2>1, <2>3
<1>12. Len(t) > 3 => u[Len(u)] = d[Len(d)]
  <2>1. ASSUME Len(t) > 3 PROVE Len(d) \in 1..Len(d)
    BY <1>2, <2>1
  <2>2. QED
    BY <1>8, <2>1
<1>13. QED
  BY <1>2, <1>4, <1>5, <1>10, <1>11, <1>12

-----------------------------------------------------------------------------
(* Initially and step by step *)

\* The bounds are natural numbers.
LEMMA EventBound == MaxEvents \in Nat /\ MaxLaunches \in Nat \ {0}
BY EventAssumption

\* The invariant holds initially.
LEMMA InitIInv == Init => IInv
<1>. SUFFICES ASSUME Init PROVE IInv
  OBVIOUS
<1>1. TypeOK
  <2>1. handler \in Handlers
    BY DEF Init, NoHandler, Handlers
  <2>2. worker \in [Workers -> Goroutines]
    BY DEF Init, Idle, Goroutines
  <2>3. /\ message \in Seq(Messages) /\ Len(message) <= MaxEvents
        /\ queue \in Seq(Events) /\ acks \in 0..Len(queue)
    BY EventBound DEF Init
  <2>4. launch \in Launches /\ phase \in Phases /\ cloud \in [Launches -> {"on", "off", "trying"}]
    BY EventBound DEF Init, Launches, Phases
  <2>5. QED
    BY <2>1, <2>2, <2>3, <2>4 DEF Init, TypeOK
<1>2. QueueInv /\ LiveInv /\ StrayInv /\ BusyInv
  BY DEF Init, QueueInv, LiveInv, StrayInv, BusyInv, NoHandler, Idle
<1>3. SettledInv /\ ClearInv /\ PassedInv /\ InOrder
  BY DEF Init, SettledInv, ClearInv, PassedInv, InOrder, NoHandler, Idle
<1>4. QED
  BY <1>1, <1>2, <1>3 DEF IInv

\* What is settled stays settled.
LEMMA StaysSettled ==
    ASSUME passed \subseteq passed', rejected \subseteq rejected',
           lost \subseteq lost', unkept \subseteq unkept'
    PROVE  Settled \subseteq Settled'
BY DEF Settled, PassedOn

\* A step that gives the hub client nothing keeps what was given.
LEMMA NothingPassed ==
    ASSUME IInv, UNCHANGED <<message, passed>>, Settled \subseteq Settled'
    PROVE  PassedInv' /\ InOrder'
<1>1. PassedInv'
  BY DEF IInv, PassedInv
<1>2. InOrder'
  BY DEF IInv, InOrder
<1>3. QED
  BY <1>1, <1>2

\* A step of the connections or of the launch, which leaves broker, goroutines and what
\* became of the events alone, and the handler but for its connection.
LEMMA LinkStep ==
    ASSUME IInv,
           UNCHANGED <<message, queue, worker, passed, rejected, lost>>,
           launch' \in Launches, settings' \in Settings, phase' \in Phases,
           hub' \in BOOLEAN, cloud' \in [Launches -> {"on", "off", "trying"}],
           told' \subseteq Launches, stray' \subseteq Launches,
           KeepConnection \/ DropConnection,
           handler'.live => cloud'[launch'] = "on", StrayInv'
    PROVE  IInv'
<1>1. Unkept(queue) \subseteq Events
  BY DEF IInv, TypeOK, Unkept
<1>2. TypeOK'
  <2>1. acks' \in 0..Len(queue)
    BY DEF IInv, TypeOK, DropConnection, KeepConnection
  <2>2. handler' \in Handlers
    BY DEF IInv, TypeOK, Handlers, DropConnection, KeepConnection
  <2>3. unkept' \subseteq Events
    BY <1>1 DEF IInv, TypeOK, DropConnection, KeepConnection
  <2>4. QED
    BY <2>1, <2>2, <2>3 DEF IInv, TypeOK
<1>3. Settled \subseteq Settled'
  BY StaysSettled DEF DropConnection, KeepConnection
<1>4. /\ handler'.pc = handler.pc /\ handler'.ev = handler.ev
      /\ handler'.waitsFor = handler.waitsFor
      /\ handler'.live => handler.live /\ acks' = acks /\ unkept' = unkept
      /\ acks' \in 0..acks
  BY DEF IInv, TypeOK, Handlers, DropConnection, KeepConnection
<1>5. QueueInv' /\ LiveInv' /\ BusyInv'
  BY <1>4 DEF IInv, QueueInv, LiveInv, BusyInv
<1>6. SettledInv'
  BY <1>2, <1>3, <1>4 DEF IInv, TypeOK, SettledInv, Returning
<1>7. ClearInv'
  BY <1>3, <1>4 DEF IInv, ClearInv, ClearBefore
<1>8. PassedInv' /\ InOrder'
  BY <1>3, NothingPassed
<1>9. QED
  BY <1>2, <1>5, <1>6, <1>7, <1>8 DEF IInv

\* The steps of the hub connection keep the invariant.
LEMMA HubStep ==
    ASSUME IInv, HubConnect \/ HubLost
    PROVE  IInv'
<1>1. /\ UNCHANGED <<message, queue, worker, passed, rejected, lost>>
      /\ UNCHANGED <<launch, settings, cloud, stray, handler>> /\ KeepConnection
  BY DEF HubConnect, HubLost, KeepConnection, launchVars, brokerVars, history
<1>2. /\ hub' \in BOOLEAN /\ told' \subseteq Launches
      /\ phase' = phase \/ (phase = "connect" /\ phase' = "connected")
  BY DEF IInv, TypeOK, HubConnect, HubLost, launchVars
<1>3. StrayInv'
  BY <1>1, <1>2 DEF IInv, StrayInv
<1>4. phase' \in Phases
  BY <1>2 DEF IInv, TypeOK, Phases
<1>5. handler'.live => cloud'[launch'] = "on"
  BY <1>1 DEF IInv, LiveInv
<1>6. QED
  BY <1>1, <1>2, <1>3, <1>4, <1>5, LinkStep DEF IInv, TypeOK

\* A disconnected client has no connection, and nobody else's is touched.
LEMMA DisconnectSound ==
    ASSUME IInv, NEW n \in Launches, Disconnect(n)
    PROVE  /\ cloud' \in [Launches -> {"on", "off", "trying"}] /\ cloud'[n] = "off"
           /\ \A k \in Launches : k # n => cloud'[k] = cloud[k]
           /\ KeepConnection \/ DropConnection
           /\ handler'.live => cloud'[launch] = "on"
<1>1. /\ cloud' \in [Launches -> {"on", "off", "trying"}] /\ cloud'[n] = "off"
      /\ \A k \in Launches : k # n => cloud'[k] = cloud[k]
  BY DEF IInv, TypeOK, Disconnect
<1>2. KeepConnection \/ DropConnection
  BY DEF Disconnect
<1>3. handler'.live => cloud'[launch] = "on"
  <2>1. CASE cloud[n] = "on"
    <3>1. handler'.live = FALSE
      BY <2>1 DEF IInv, TypeOK, Handlers, Disconnect, DropConnection
    <3>2. QED
      BY <3>1
  <2>2. CASE cloud[n] # "on"
    BY <1>1, <2>2 DEF IInv, TypeOK, LiveInv, Disconnect, KeepConnection
  <2>3. QED
    BY <2>1, <2>2
<1>4. QED
  BY <1>1, <1>2, <1>3

\* The steps of a cloud client's connection keep the invariant: one that connects ends
\* the connection of another.
LEMMA CloudStep ==
    ASSUME IInv, NEW n \in Launches, CloudConnected(n) \/ CloudLost(n)
    PROVE  IInv'
<1>1. /\ UNCHANGED <<message, queue, worker, passed, rejected, lost>>
      /\ UNCHANGED <<launch, settings, phase, hub, told, stray>> /\ DropConnection
  BY DEF CloudConnected, CloudLost, launchVars
<1>2. /\ cloud' \in [Launches -> {"on", "off", "trying"}]
      /\ \A k \in Launches : cloud'[k] # "off" => cloud[k] # "off"
      /\ \A k \in Launches : cloud'[k] = "on" => k = n \/ (cloud[k] = "on" /\ cloud[n] = "on")
  BY DEF IInv, TypeOK, CloudConnected, CloudLost
<1>3. handler'.live = FALSE
  BY <1>1 DEF IInv, TypeOK, Handlers, DropConnection
<1>4. launch \in Launches
  BY DEF IInv, TypeOK
<1>5. StrayInv'
  BY <1>1, <1>2, <1>4 DEF IInv, StrayInv
<1>6. QED
  BY <1>1, <1>2, <1>3, <1>5, LinkStep DEF IInv, TypeOK

\* A client that is told to connect after its listener was removed is left to itself.
LEMMA FollowStep ==
    ASSUME IInv, NEW n \in Launches, CloudFollows(n)
    PROVE  IInv'
<1>1. /\ UNCHANGED <<message, queue, worker, passed, rejected, lost>>
      /\ UNCHANGED <<launch, settings, phase, hub>>
  BY DEF CloudFollows, launchVars
<1>2. launch \in Launches
  BY DEF IInv, TypeOK
<1>3. CASE /\ n \in told /\ told' = told \ {n} /\ KeepConnection
           /\ Connect(n)
           /\ stray' = IF n = launch /\ Listening THEN stray ELSE stray \cup {n}
  <2>1. /\ cloud' \in [Launches -> {"on", "off", "trying"}]
        /\ \A k \in Launches : (cloud'[k] = "on") = (cloud[k] = "on")
        /\ \A k \in Launches : k # n => cloud'[k] = cloud[k]
    BY <1>3 DEF IInv, TypeOK, Connect
  <2>2. told' \subseteq Launches /\ stray \subseteq stray' /\ stray' \subseteq Launches
    BY <1>3 DEF IInv, TypeOK
  <2>3. phase \in {"cut", "stopping"} /\ n = launch => launch \in stray'
    BY <1>3 DEF Listening
  <2>4. StrayInv'
    BY <1>1, <1>2, <2>1, <2>2, <2>3 DEF IInv, StrayInv
  <2>5. handler'.live => cloud'[launch'] = "on"
    BY <1>1, <1>2, <1>3, <2>1 DEF IInv, LiveInv, KeepConnection
  <2>6. QED
    BY <1>1, <1>3, <2>1, <2>2, <2>4, <2>5, LinkStep DEF IInv, TypeOK
<1>4. CASE told' = told \ {n} /\ KeepConnection /\ UNCHANGED <<cloud, stray>>
  <2>1. StrayInv' /\ (handler'.live => cloud'[launch'] = "on") /\ told' \subseteq Launches
    BY <1>1, <1>4 DEF IInv, TypeOK, StrayInv, LiveInv, KeepConnection
  <2>2. QED
    BY <1>1, <1>4, <2>1, LinkStep DEF IInv, TypeOK
<1>5. CASE Disconnect(n) /\ UNCHANGED <<told, stray>>
  <2>1. StrayInv'
    BY <1>1, <1>2, <1>5, DisconnectSound DEF IInv, StrayInv
  <2>2. QED
    BY <1>1, <1>5, <2>1, DisconnectSound, LinkStep DEF IInv, TypeOK
<1>6. QED
  BY <1>3, <1>4, <1>5 DEF CloudFollows

\* The steps of the launch keep the invariant: it either disconnects its client before
\* it stops the router, or leaves it to itself.
LEMMA LaunchStep ==
    ASSUME IInv, HonoConnect \/ Signal \/ Shutdown \/ Relaunch
    PROVE  IInv'
<1>1. UNCHANGED <<message, queue, worker, passed, rejected, lost>>
  BY DEF HonoConnect, Signal, Shutdown, Relaunch, brokerVars, history
<1>2. launch \in Launches
  BY DEF IInv, TypeOK
<1>3. CASE HonoConnect \/ Signal
  <2>1. /\ UNCHANGED <<launch, settings, hub, cloud, told, handler>> /\ KeepConnection
    BY <1>3 DEF HonoConnect, Signal, KeepConnection, linkVars, brokerVars, history
  <2>2. /\ phase' \in {"run", "dropped", "leaving"} /\ stray' \subseteq Launches
        /\ phase' # "run" => launch < MaxLaunches
        /\ phase' = "dropped" => launch \in stray'
    BY <1>2, <1>3 DEF HonoConnect, Signal, IInv, TypeOK, linkVars
  <2>3. StrayInv' /\ phase' \in Phases /\ (handler'.live => cloud'[launch'] = "on")
    BY <2>1, <2>2 DEF IInv, StrayInv, LiveInv, Phases
  <2>4. QED
    BY <1>1, <2>1, <2>2, <2>3, LinkStep DEF IInv, TypeOK
<1>4. CASE Shutdown
  <2>1. UNCHANGED <<launch, settings, hub, told, stray>> /\ launch < MaxLaunches
    BY <1>4 DEF Shutdown, IInv, StrayInv
  <2>2. CASE phase = "leaving" /\ phase' = "cut" /\ Disconnect(launch)
    <3>1. StrayInv' /\ phase' \in Phases
      BY <1>2, <2>1, <2>2, DisconnectSound DEF IInv, StrayInv, Phases
    <3>2. QED
      BY <1>1, <1>2, <2>1, <2>2, <3>1, DisconnectSound, LinkStep DEF IInv, TypeOK
  <2>3. CASE phase = "cut" /\ phase' = "stopping" /\ KeepConnection /\ UNCHANGED cloud
    <3>1. StrayInv' /\ phase' \in Phases /\ (handler'.live => cloud'[launch'] = "on")
      BY <2>1, <2>3 DEF IInv, StrayInv, LiveInv, Phases, KeepConnection
    <3>2. QED
      BY <1>1, <2>1, <2>3, <3>1, LinkStep DEF IInv, TypeOK
  <2>4. QED
    BY <1>4, <2>2, <2>3 DEF Shutdown
<1>5. CASE Relaunch
  <2>1. /\ UNCHANGED <<cloud, told, stray, handler>> /\ KeepConnection
        /\ settings' \in Settings /\ hub' \in BOOLEAN /\ phase' = "connect"
    BY <1>5 DEF Relaunch, KeepConnection, brokerVars, history
  <2>2. launch' \in Launches
    <3>1. launch < MaxLaunches /\ launch' = launch + 1
      BY <1>5 DEF Relaunch, Closing, IInv, StrayInv
    <3>2. QED
      BY <1>2, <3>1, EventBound DEF Launches
  <2>3. StrayInv' /\ phase' \in Phases /\ ~handler'.live
    BY <1>5, <2>1 DEF IInv, StrayInv, LiveInv, Phases, Relaunch
  <2>4. QED
    BY <1>1, <2>1, <2>2, <2>3, LinkStep DEF IInv, TypeOK
<1>6. QED
  BY <1>3, <1>4, <1>5

\* A new event is the last one: it comes after all that is under way.
LEMMA LocalPublishStep ==
    ASSUME IInv, NEW m \in Messages, LocalPublish(m)
    PROVE  IInv'
<1>. USE DEF Events
<1>1. /\ message \in Seq(Messages) /\ Len(message) + 1 <= MaxEvents
      /\ message' \in Seq(Messages) /\ Len(message') = Len(message) + 1
      /\ \A e \in 1..Len(message) : message'[e] = message[e]
  BY DEF IInv, TypeOK, LocalPublish
<1>2. /\ queue \in Seq(Events) /\ queue' \in Seq(Events)
      /\ DOMAIN queue = 1..Len(queue) /\ Len(queue') = Len(queue) + 1
      /\ DOMAIN queue' = 1..(Len(queue) + 1)
      /\ \A i \in DOMAIN queue : queue'[i] = queue[i]
      /\ queue'[Len(queue) + 1] = Len(message) + 1
  <2>1. Len(message) + 1 \in Events /\ queue \in Seq(Events)
    BY <1>1, EventBound DEF IInv, TypeOK
  <2>2. queue' = Append(queue, Len(message) + 1)
    BY DEF LocalPublish
  <2>3. QED
    BY <2>1, <2>2
<1>3. /\ UNCHANGED <<launch, settings, phase, hub, cloud, told, stray, acks, handler, worker>>
      /\ UNCHANGED <<passed, rejected, lost>>
      /\ unkept \subseteq unkept' /\ unkept' \subseteq unkept \cup {Len(message) + 1}
  BY DEF LocalPublish, launchVars, linkVars
<1>4. TypeOK'
  <2>1. unkept' \subseteq Events
    BY <1>1, <1>3, EventBound DEF IInv, TypeOK
  <2>2. QED
    BY <1>1, <1>2, <1>3, <2>1 DEF IInv, TypeOK
<1>5. Settled \subseteq Settled'
  BY <1>3, StaysSettled
<1>6. QueueInv'
  <2>1. \A i \in DOMAIN queue : queue[i] \in Nat /\ queue[i] <= Len(message)
    BY <1>2, EventBound DEF IInv, QueueInv
  <2>2. \A i, j \in DOMAIN queue : i < j => queue[i] < queue[j]
    BY DEF IInv, QueueInv
  <2>3. \A i \in DOMAIN queue' : queue'[i] <= Len(message')
    <3>1. ASSUME NEW i \in DOMAIN queue' PROVE queue'[i] <= Len(message) + 1
      <4>1. CASE i \in DOMAIN queue
        BY <1>1, <1>2, <2>1, <4>1
      <4>2. QED
        BY <1>1, <1>2, <4>1
    <3>2. QED
      BY <1>1, <3>1
  <2>4. ASSUME NEW i \in DOMAIN queue', NEW j \in DOMAIN queue', i < j
        PROVE  queue'[i] < queue'[j]
    <3>1. i \in DOMAIN queue
      BY <1>2, <2>4
    <3>2. CASE j \in DOMAIN queue
      BY <1>2, <2>2, <2>4, <3>1, <3>2
    <3>3. CASE j = Len(queue) + 1
      BY <1>1, <1>2, <2>1, <3>1, <3>3
    <3>4. QED
      BY <1>2, <3>2, <3>3
  <2>5. QED
    BY <2>3, <2>4 DEF QueueInv
<1>7. LiveInv' /\ StrayInv'
  <2>1. handler.live => handler.ev # Len(message) + 1
    BY <1>1 DEF IInv, LiveInv, BusyInv
  <2>2. LiveInv'
    <3>. SUFFICES ASSUME handler.live PROVE LiveInv'
      BY <1>3 DEF LiveInv
    <3>1. /\ handler.pc # "idle" /\ cloud[launch] = "on" /\ acks \in Nat /\ Len(queue) \in Nat
          /\ acks < Len(queue) /\ queue[acks + 1] = handler.ev /\ handler.ev \notin unkept
      BY DEF IInv, TypeOK, LiveInv
    <3>2. queue'[acks + 1] = queue[acks + 1] /\ acks < Len(queue')
      BY <1>2, <3>1
    <3>3. QED
      BY <1>3, <2>1, <3>1, <3>2 DEF LiveInv
  <2>3. StrayInv'
    BY <1>3 DEF IInv, StrayInv
  <2>4. QED
    BY <2>2, <2>3
<1>8. BusyInv'
  BY <1>1, <1>3 DEF IInv, BusyInv
<1>9. SettledInv'
  <2>1. ASSUME NEW e \in 1..Len(message'), \A i \in DOMAIN queue' : queue'[i] # e
        PROVE  e \in Settled'
    <3>1. e # Len(message) + 1
      BY <1>2, <2>1
    <3>2. e \in 1..Len(message)
      BY <1>1, <3>1
    <3>3. \A i \in DOMAIN queue : queue[i] # e
      BY <1>2, <2>1
    <3>4. QED
      BY <1>5, <3>2, <3>3 DEF IInv, SettledInv
  <2>2. \A i \in 1..acks' : queue'[i] \in Settled'
    <3>1. acks' = acks /\ acks \in 0..Len(queue) /\ \A i \in 1..acks : queue[i] \in Settled
      BY <1>3 DEF IInv, TypeOK, SettledInv
    <3>2. \A i \in 1..acks : queue'[i] = queue[i]
      BY <1>2, <3>1
    <3>3. QED
      BY <1>5, <3>1, <3>2
  <2>3. (handler.live /\ Returning => handler.ev \in Settled)'
    BY <1>3, <1>5 DEF IInv, SettledInv, Returning
  <2>4. QED
    BY <2>1, <2>2, <2>3 DEF SettledInv
<1>10. ClearInv'
  <2>1. ASSUME NEW e \in 1..Len(message), ClearBefore(e)
        PROVE  \A i \in DOMAIN queue' : queue'[i] < e => queue'[i] \in Settled'
    BY <1>1, <1>2, <1>5, <2>1 DEF ClearBefore
  <2>2. QED
    BY <1>1, <1>3, <2>1 DEF IInv, BusyInv, ClearInv, ClearBefore
<1>11. PassedInv'
  <2>1. ASSUME NEW p \in passed
        PROVE  p.ev <= Len(message') /\ message'[p.ev] = message[p.ev]
    <3>1. p.ev \in 1..Len(message)
      BY <1>1 DEF IInv, TypeOK, PassedInv, HubMessages
    <3>2. QED
      BY <1>1, <3>1
  <2>2. QED
    BY <1>3, <2>1 DEF IInv, PassedInv
<1>12. InOrder'
  BY <1>3, <1>5 DEF IInv, InOrder
<1>13. QED
  BY <1>4, <1>6, <1>7, <1>8, <1>9, <1>10, <1>11, <1>12 DEF IInv

\* The broker gives up only what is settled.
LEMMA BrokerAckStep ==
    ASSUME IInv, BrokerAck
    PROVE  IInv'
<1>1. /\ queue \in Seq(Events) /\ acks \in 1..Len(queue) /\ queue # <<>>
      /\ queue' \in Seq(Events) /\ Len(queue') = Len(queue) - 1 /\ acks' = acks - 1
      /\ \A i \in 1..Len(queue') : queue'[i] = queue[i + 1]
  BY DEF IInv, TypeOK, BrokerAck
<1>2. /\ UNCHANGED <<launch, settings, phase, hub, cloud, told, stray, message, handler, worker>>
      /\ UNCHANGED <<passed, rejected, lost, unkept>>
  BY DEF BrokerAck, launchVars, linkVars, history
<1>3. TypeOK'
  BY <1>1, <1>2 DEF IInv, TypeOK
<1>4. Settled' = Settled
  BY <1>2 DEF Settled, PassedOn
<1>5. QueueInv'
  <2>1. \A i \in DOMAIN queue' : i + 1 \in DOMAIN queue /\ queue'[i] = queue[i + 1] /\ i \in Int
    BY <1>1
  <2>2. \A i \in DOMAIN queue : queue[i] <= Len(message)
    BY DEF IInv, QueueInv
  <2>3. \A i, j \in DOMAIN queue : i < j => queue[i] < queue[j]
    BY DEF IInv, QueueInv
  <2>4. \A i \in DOMAIN queue' : queue'[i] <= Len(message)
    BY <2>1, <2>2
  <2>5. \A i, j \in DOMAIN queue' : i < j => queue'[i] < queue'[j]
    BY <2>1, <2>3
  <2>6. QED
    BY <1>2, <2>4, <2>5 DEF QueueInv
<1>6. LiveInv' /\ StrayInv'
  <2>1. handler.live => acks' + 1 \in 1..Len(queue') /\ queue'[acks' + 1] = queue[acks + 1]
    BY <1>1 DEF IInv, LiveInv
  <2>2. LiveInv'
    BY <1>1, <1>2, <2>1 DEF IInv, LiveInv
  <2>3. StrayInv'
    BY <1>2 DEF IInv, StrayInv
  <2>4. QED
    BY <2>2, <2>3
<1>7. BusyInv'
  BY <1>2 DEF IInv, BusyInv
<1>8. SettledInv'
  <2>1. ASSUME NEW e \in 1..Len(message'), \A i \in DOMAIN queue' : queue'[i] # e
        PROVE  e \in Settled
    <3>1. CASE queue[1] = e
      BY <1>1, <3>1 DEF IInv, SettledInv
    <3>2. CASE queue[1] # e
      <4>1. ASSUME NEW i \in DOMAIN queue PROVE queue[i] # e
        <5>1. CASE i # 1
          <6>1. i - 1 \in 1..Len(queue') /\ queue'[i - 1] = queue[i]
            BY <1>1, <5>1
          <6>2. QED
            BY <1>1, <2>1, <6>1
        <5>2. QED
          BY <3>2, <5>1
      <4>2. QED
        BY <1>2, <4>1 DEF IInv, SettledInv
    <3>3. QED
      BY <3>1, <3>2
  <2>2. \A i \in 1..acks' : queue'[i] \in Settled
    BY <1>1 DEF IInv, SettledInv
  <2>3. (handler.live /\ Returning => handler.ev \in Settled)'
    BY <1>2, <1>4 DEF IInv, SettledInv, Returning
  <2>4. QED
    BY <1>4, <2>1, <2>2, <2>3 DEF SettledInv
<1>9. ClearInv'
  <2>1. ASSUME NEW e, ClearBefore(e)
        PROVE  \A i \in DOMAIN queue' : queue'[i] < e => queue'[i] \in Settled
    BY <1>1, <2>1 DEF ClearBefore
  <2>2. QED
    BY <1>2, <1>4, <2>1 DEF IInv, ClearInv, ClearBefore
<1>10. PassedInv' /\ InOrder'
  BY <1>2, <1>4, NothingPassed
<1>11. QED
  BY <1>3, <1>5, <1>6, <1>7, <1>8, <1>9, <1>10 DEF IInv

\* The next event is acknowledged, or passed over, if it is settled then and its
\* handler, if it is one of a connection that is still there, returns.
LEMMA AcknowledgeStep ==
    ASSUME IInv, TypeOK',
           UNCHANGED <<launch, phase, cloud, stray, message, queue, passed, rejected, unkept>>,
           lost \subseteq lost',
           acks' = acks \/ (acks' = acks + 1 /\ queue[acks + 1] \in Settled'),
           handler' = NoHandler \/ (UNCHANGED handler /\ ~handler.live),
           \A w \in Workers : worker'[w].pc = worker[w].pc /\ worker'[w].ev = worker[w].ev,
           \A w \in handler'.waitsFor : worker'[w] = worker[w]
    PROVE  IInv'
<1>1. Settled \subseteq Settled'
  BY StaysSettled
<1>2. queue \in Seq(Events) /\ acks \in 0..Len(queue) /\ acks' \in 0..Len(queue)
  BY DEF IInv, TypeOK
<1>3. QueueInv' /\ StrayInv' /\ LiveInv'
  BY DEF IInv, QueueInv, StrayInv, LiveInv, NoHandler
<1>4. BusyInv'
  <2>1. handler'.waitsFor \subseteq Workers
    BY DEF TypeOK, Handlers
  <2>2. QED
    BY <2>1 DEF IInv, BusyInv, NoHandler
<1>5. SettledInv'
  <2>1. \A i \in 1..acks' : queue[i] \in Settled'
    BY <1>1, <1>2 DEF IInv, SettledInv
  <2>2. ~handler'.live
    BY DEF NoHandler
  <2>3. QED
    BY <1>1, <2>1, <2>2 DEF IInv, SettledInv
<1>6. ClearInv'
  BY <1>1 DEF IInv, ClearInv, ClearBefore, NoHandler
<1>7. PassedInv' /\ InOrder'
  BY <1>1, NothingPassed
<1>8. QED
  BY <1>3, <1>4, <1>5, <1>6, <1>7 DEF IInv

\* The broker passes over what it does not keep, and a client that is left to itself
\* loses what it gets; the handler of the launch has no connection then.
LEMMA SkipStep ==
    ASSUME IInv, BrokerSkip \/ \E n \in Launches : Unrouted(n)
    PROVE  IInv'
<1>1. /\ UNCHANGED <<launch, settings, phase, hub, cloud, told, stray, message, queue>>
      /\ UNCHANGED <<handler, worker, passed, rejected, unkept>>
      /\ acks < Len(queue) /\ acks' = acks + 1
  BY DEF BrokerSkip, Unrouted, launchVars, linkVars, history
<1>2. /\ queue \in Seq(Events) /\ acks \in 0..Len(queue) /\ acks' \in 0..Len(queue)
      /\ queue[acks + 1] \in Events
  BY <1>1 DEF IInv, TypeOK
<1>3. lost' = lost \/ lost' = lost \cup {queue[acks + 1]}
  BY DEF BrokerSkip, Unrouted, Lose, history
<1>4. TypeOK'
  <2>1. lost' \subseteq Events
    BY <1>2, <1>3 DEF IInv, TypeOK
  <2>2. QED
    BY <1>1, <1>2, <2>1 DEF IInv, TypeOK
<1>5. ~handler.live
  <2>1. CASE BrokerSkip
    BY <2>1 DEF BrokerSkip, IInv, LiveInv
  <2>2. ASSUME NEW n \in Launches, Unrouted(n) PROVE ~handler.live
    BY <2>2 DEF Unrouted, IInv, TypeOK, LiveInv, StrayInv
  <2>3. QED
    BY <2>1, <2>2
<1>6. queue[acks + 1] \in Settled'
  BY DEF BrokerSkip, Unrouted, Lose, Settled, history
<1>7. QED
  BY <1>1, <1>3, <1>4, <1>5, <1>6, AcknowledgeStep

\* The handler is called with the first event that is not acknowledged, before which
\* everything the broker has is settled.
LEMMA DispatchStep ==
    ASSUME IInv, Dispatch
    PROVE  IInv'
<1>1. /\ queue \in Seq(Events) /\ acks \in 0..Len(queue) /\ acks + 1 \in DOMAIN queue
      /\ queue[acks + 1] \in Events /\ acks < Len(queue)
  BY DEF IInv, TypeOK, Dispatch
<1>2. /\ handler'.pc = "offer" /\ handler'.ev = queue[acks + 1] /\ handler'.waitsFor = {}
      /\ handler'.live = TRUE
      /\ cloud[launch] = "on" /\ queue[acks + 1] \notin unkept
  BY DEF Dispatch
<1>3. /\ UNCHANGED <<launch, settings, phase, hub, cloud, told, stray, message, queue, acks>>
      /\ UNCHANGED <<worker, passed, rejected, lost, unkept>>
  BY DEF Dispatch, launchVars, linkVars, brokerVars, history
<1>4. TypeOK'
  <2>1. handler' \in Handlers
    BY <1>1 DEF Handlers, Dispatch
  <2>2. QED
    BY <1>3, <2>1 DEF IInv, TypeOK
<1>5. Settled' = Settled
  BY <1>3 DEF Settled, PassedOn
<1>6. QueueInv' /\ LiveInv' /\ StrayInv'
  BY <1>1, <1>2, <1>3 DEF IInv, QueueInv, LiveInv, StrayInv
<1>7. BusyInv'
  <2>1. handler'.ev \in 1..Len(message)
    BY <1>1, <1>2, EventBound DEF IInv, QueueInv, Events
  <2>2. QED
    BY <1>2, <1>3, <2>1 DEF IInv, BusyInv
<1>8. SettledInv'
  BY <1>2, <1>3, <1>5 DEF IInv, SettledInv, Returning
<1>9. ClearInv'
  <2>1. ASSUME NEW i \in DOMAIN queue, queue[i] < queue[acks + 1]
        PROVE  queue[i] \in Settled
    <3>1. i \in 1..acks
      <4>1. ~(acks + 1 < i) /\ i # acks + 1
        BY <1>1, <2>1, EventBound DEF IInv, QueueInv, Events
      <4>2. QED
        BY <1>1, <4>1
    <3>2. QED
      BY <3>1 DEF IInv, SettledInv
  <2>2. QED
    BY <1>2, <1>3, <1>5, <2>1 DEF IInv, ClearInv, ClearBefore
<1>10. PassedInv' /\ InOrder'
  BY <1>3, <1>5, NothingPassed
<1>11. QED
  BY <1>4, <1>6, <1>7, <1>8, <1>9, <1>10 DEF IInv

\* A goroutine takes over what the handler has.
LEMMA OfferStep ==
    ASSUME IInv, NEW w \in Workers, Offer(w)
    PROVE  IInv'
<1>1. /\ handler'.pc = "wait" /\ handler'.ev = handler.ev /\ handler'.waitsFor = {w}
      /\ handler'.live = handler.live /\ handler.pc = "offer"
  BY DEF IInv, TypeOK, Handlers, Offer
<1>2. /\ worker'[w] = [pc |-> "handle", ev |-> handler.ev, ctx |-> TRUE]
      /\ \A v \in Workers : v # w => worker'[v] = worker[v]
  BY DEF IInv, TypeOK, Offer
<1>3. /\ UNCHANGED <<launch, settings, phase, hub, cloud, told, stray, message, queue, acks>>
      /\ UNCHANGED <<passed, rejected, lost, unkept>>
  BY DEF Offer, launchVars, linkVars, brokerVars, history
<1>4. TypeOK'
  <2>1. handler' \in Handlers
    BY DEF IInv, TypeOK, Handlers, Offer
  <2>2. worker' \in [Workers -> Goroutines]
    BY DEF IInv, TypeOK, Handlers, Goroutines, Offer
  <2>3. QED
    BY <1>3, <2>1, <2>2 DEF IInv, TypeOK
<1>5. Settled' = Settled
  BY <1>3 DEF Settled, PassedOn
<1>6. QueueInv' /\ LiveInv' /\ StrayInv'
  BY <1>1, <1>3 DEF IInv, QueueInv, LiveInv, StrayInv
<1>7. BusyInv'
  BY <1>1, <1>2, <1>3 DEF IInv, BusyInv
<1>8. SettledInv'
  BY <1>1, <1>3, <1>5 DEF IInv, SettledInv, Returning
<1>9. ClearInv'
  BY <1>1, <1>2, <1>3, <1>5 DEF IInv, ClearInv, ClearBefore
<1>10. PassedInv' /\ InOrder'
  BY <1>3, <1>5, NothingPassed
<1>11. QED
  BY <1>4, <1>6, <1>7, <1>8, <1>9, <1>10 DEF IInv

\* The handler gives up: either its connection is gone, or the event is lost.
LEMMA GiveUpStep ==
    ASSUME IInv, HandlerClosing \/ AckTimeout
    PROVE  IInv'
<1>1. /\ handler' = NoHandler /\ handler.pc # "idle"
      /\ acks' = IF handler.live THEN acks + 1 ELSE acks
  BY DEF HandlerClosing, AckTimeout, GiveUp, HandlerReturns
<1>2. worker' = [v \in Workers |-> IF v \in handler.waitsFor
                                   THEN [worker[v] EXCEPT !.ctx = FALSE] ELSE worker[v]]
  BY DEF HandlerClosing, AckTimeout, GiveUp
<1>3. /\ UNCHANGED <<launch, settings, phase, hub, cloud, told, stray, message, queue>>
      /\ UNCHANGED <<passed, rejected, unkept>>
  BY DEF HandlerClosing, AckTimeout, launchVars, linkVars
<1>4. lost' = lost \/ lost' = lost \cup {handler.ev}
  BY DEF HandlerClosing, AckTimeout, NotHeard, Lose
<1>5. handler.live => handler.ev \in lost'
  <2>1. CASE AckTimeout
    BY <2>1 DEF AckTimeout, Lose
  <2>2. CASE HandlerClosing
    <3>1. handler.live => launch \in stray
      BY <2>2 DEF HandlerClosing, Closing, IInv, LiveInv, StrayInv
    <3>2. QED
      BY <2>2, <3>1 DEF HandlerClosing, NotHeard, Lose
  <2>3. QED
    BY <2>1, <2>2
<1>6. \A v \in Workers : worker'[v].pc = worker[v].pc /\ worker'[v].ev = worker[v].ev
  <2>1. worker \in [Workers -> Goroutines]
    BY DEF IInv, TypeOK
  <2>2. QED
    BY <1>2, <2>1 DEF Goroutines
<1>7. TypeOK'
  <2>1. handler' \in Handlers
    BY <1>1 DEF NoHandler, Handlers
  <2>2. worker' \in [Workers -> Goroutines]
    <3>1. ASSUME NEW v \in Workers
          PROVE  [worker[v] EXCEPT !.ctx = FALSE] \in Goroutines /\ worker[v] \in Goroutines
      BY DEF IInv, TypeOK, Goroutines
    <3>2. QED
      BY <1>2, <3>1
  <2>3. lost' \subseteq Events
    <3>1. handler.ev \in Events
      BY <1>1, EventBound DEF IInv, TypeOK, BusyInv, Events
    <3>2. QED
      BY <1>4, <3>1 DEF IInv, TypeOK
  <2>4. acks' \in 0..Len(queue)
    BY <1>1 DEF IInv, TypeOK, LiveInv
  <2>5. QED
    BY <1>3, <2>1, <2>2, <2>3, <2>4 DEF IInv, TypeOK
<1>8. acks' = acks \/ (acks' = acks + 1 /\ queue[acks + 1] \in Settled')
  BY <1>1, <1>5 DEF IInv, LiveInv, Settled
<1>9. \A w \in handler'.waitsFor : worker'[w] = worker[w]
  BY <1>1 DEF NoHandler
<1>10. QED
  BY <1>1, <1>3, <1>4, <1>6, <1>7, <1>8, <1>9, AcknowledgeStep

\* The client acknowledges only what is settled.
LEMMA ReturnStep ==
    ASSUME IInv, Return
    PROVE  IInv'
<1>1. /\ handler' = NoHandler /\ Returning
      /\ acks' = IF handler.live THEN acks + 1 ELSE acks
  BY DEF Return, HandlerReturns, Returning
<1>2. /\ UNCHANGED <<launch, settings, phase, hub, cloud, told, stray, message, queue>>
      /\ UNCHANGED <<worker, passed, rejected, lost, unkept>>
  BY DEF Return, launchVars, linkVars, history
<1>3. TypeOK'
  <2>1. handler' \in Handlers
    BY <1>1 DEF NoHandler, Handlers
  <2>2. acks' \in 0..Len(queue)
    BY <1>1 DEF IInv, TypeOK, LiveInv
  <2>3. QED
    BY <1>2, <2>1, <2>2 DEF IInv, TypeOK
<1>4. acks' = acks \/ (acks' = acks + 1 /\ queue[acks + 1] \in Settled')
  <2>1. Settled' = Settled
    BY <1>2 DEF Settled, PassedOn
  <2>2. QED
    BY <1>1, <2>1 DEF IInv, LiveInv, SettledInv
<1>5. \A w \in handler'.waitsFor : worker'[w] = worker[w]
  BY <1>1 DEF NoHandler
<1>6. QED
  BY <1>1, <1>2, <1>3, <1>4, <1>5, AcknowledgeStep

\* A goroutine that ends, when its event is settled, or is not waited for by a handler
\* whose connection is still there.
LEMMA FinishStep ==
    ASSUME IInv, NEW w \in Workers, worker[w].pc # "idle", Finish(w),
           UNCHANGED <<launchVars, linkVars, brokerVars, unkept>>,
           passed' \subseteq HubMessages, rejected' \subseteq Events, lost' \subseteq Events,
           Settled \subseteq Settled',
           (w \in handler.waitsFor /\ handler.live) => worker[w].ev \in Settled',
           PassedInv', InOrder'
    PROVE  IInv'
<1>. USE DEF launchVars, linkVars, brokerVars
<1>1. /\ handler'.pc = handler.pc /\ handler'.ev = handler.ev /\ handler'.live = handler.live
      /\ handler'.waitsFor = handler.waitsFor \ {w}
  BY DEF IInv, TypeOK, Handlers, Finish
<1>2. /\ worker'[w].pc = "idle" /\ \A v \in Workers : v # w => worker'[v] = worker[v]
  BY DEF IInv, TypeOK, Finish, Idle
<1>3. TypeOK'
  <2>1. handler' \in Handlers
    BY DEF IInv, TypeOK, Handlers, Finish
  <2>2. worker' \in [Workers -> Goroutines]
    <3>1. Idle \in Goroutines
      BY DEF Idle, Goroutines
    <3>2. QED
      BY <3>1 DEF IInv, TypeOK, Finish
  <2>3. QED
    BY <2>1, <2>2 DEF IInv, TypeOK
<1>4. QueueInv' /\ LiveInv' /\ StrayInv'
  BY <1>1 DEF IInv, QueueInv, LiveInv, StrayInv
<1>5. BusyInv'
  <2>1. handler.waitsFor \subseteq Workers
    BY DEF IInv, TypeOK, Handlers
  <2>2. QED
    BY <1>1, <1>2, <2>1 DEF IInv, BusyInv
<1>6. SettledInv'
  <2>1. (handler.live /\ Returning)' => handler.ev \in Settled'
    <3>1. CASE w \in handler.waitsFor
      BY <1>1, <3>1 DEF IInv, BusyInv
    <3>2. CASE w \notin handler.waitsFor
      BY <1>1, <3>2 DEF IInv, SettledInv, Returning
    <3>3. QED
      BY <3>1, <3>2
  <2>2. QED
    BY <1>1, <2>1 DEF IInv, SettledInv
<1>7. ClearInv'
  BY <1>1, <1>2 DEF IInv, ClearInv, ClearBefore
<1>8. QED
  BY <1>3, <1>4, <1>5, <1>6, <1>7 DEF IInv

\* The router's goroutine rejects an event, goes on with it, or finds its context
\* cancelled, when it is waited for by nobody.
LEMMA HandleStep ==
    ASSUME IInv, NEW w \in Workers, Handle(w)
    PROVE  IInv'
<1>. DEFINE e == worker[w].ev
<1>1. worker[w].pc = "handle" /\ e \in 1..Len(message) /\ e \in Events
  BY EventBound DEF Handle, IInv, TypeOK, BusyInv, Events
<1>2. UNCHANGED <<launchVars, linkVars, brokerVars, passed, lost, unkept>>
  BY DEF Handle
<1>3. CASE rejected' = rejected \cup {e} /\ Finish(w)
  <2>1. Settled \subseteq Settled' /\ e \in Settled'
    BY <1>2, <1>3 DEF Settled, PassedOn
  <2>2. PassedInv' /\ InOrder'
    BY <1>2, <2>1, NothingPassed DEF brokerVars
  <2>3. passed' \subseteq HubMessages /\ rejected' \subseteq Events /\ lost' \subseteq Events
    BY <1>1, <1>2, <1>3 DEF IInv, TypeOK
  <2>4. QED
    BY <1>1, <1>2, <1>3, <2>1, <2>2, <2>3, FinishStep
<1>4. CASE ~worker[w].ctx /\ Finish(w) /\ UNCHANGED rejected
  <2>1. w \notin handler.waitsFor
    BY <1>4 DEF IInv, BusyInv
  <2>2. Settled' = Settled
    BY <1>2, <1>4 DEF Settled, PassedOn
  <2>3. PassedInv' /\ InOrder'
    BY <1>2, <2>2, NothingPassed DEF brokerVars
  <2>4. passed' \subseteq HubMessages /\ rejected' \subseteq Events /\ lost' \subseteq Events
    BY <1>2, <1>4 DEF IInv, TypeOK
  <2>5. QED
    BY <1>1, <1>2, <1>4, <2>1, <2>2, <2>3, <2>4, FinishStep
<1>5. CASE /\ worker' = [worker EXCEPT ![w].pc = "publish"]
           /\ UNCHANGED <<rejected, handler>>
  <2>. USE DEF launchVars, linkVars, brokerVars
  <2>1. /\ worker'[w].pc = "publish" /\ worker'[w].ev = worker[w].ev
        /\ worker'[w].ctx = worker[w].ctx
        /\ \A v \in Workers : v # w => worker'[v] = worker[v]
    BY <1>5 DEF IInv, TypeOK, Goroutines
  <2>2. TypeOK'
    <3>1. worker' \in [Workers -> Goroutines]
      BY <1>5 DEF IInv, TypeOK, Goroutines
    <3>2. QED
      BY <1>2, <1>5, <3>1 DEF IInv, TypeOK
  <2>3. Settled' = Settled
    BY <1>2, <1>5 DEF Settled, PassedOn
  <2>4. QueueInv' /\ LiveInv' /\ StrayInv'
    BY <1>2, <1>5 DEF IInv, QueueInv, LiveInv, StrayInv
  <2>5. BusyInv'
    BY <1>1, <1>2, <1>5, <2>1 DEF IInv, BusyInv
  <2>6. SettledInv'
    BY <1>2, <1>5, <2>3 DEF IInv, SettledInv, Returning
  <2>7. ClearInv'
    BY <1>1, <1>2, <1>5, <2>1, <2>3 DEF IInv, ClearInv, ClearBefore
  <2>8. PassedInv' /\ InOrder'
    BY <1>2, <2>3, NothingPassed
  <2>9. QED
    BY <2>2, <2>4, <2>5, <2>6, <2>7, <2>8 DEF IInv
<1>6. QED
  BY <1>3, <1>4, <1>5 DEF Handle, Wait

\* Every event before one that is passed on was settled before.
LEMMA EarlierSettled ==
    ASSUME IInv, NEW w \in Workers, worker[w].pc # "idle",
           NEW f \in 1..(worker[w].ev - 1)
    PROVE  f \in Settled
<1>1. f \in 1..Len(message) /\ f < worker[w].ev
  <2>1. worker[w].ev \in 1..Len(message)
    BY DEF IInv, BusyInv
  <2>2. QED
    BY <2>1
<1>2. CASE \E i \in DOMAIN queue : queue[i] = f
  BY <1>1, <1>2 DEF IInv, ClearInv, ClearBefore
<1>3. CASE \A i \in DOMAIN queue : queue[i] # f
  BY <1>1, <1>3 DEF IInv, SettledInv
<1>4. QED
  BY <1>2, <1>3

\* The hub client takes the event, or cannot, or the router is stopping.
LEMMA PublishStep ==
    ASSUME IInv, NEW w \in Workers, Publish(w)
    PROVE  IInv'
<1>. DEFINE e == worker[w].ev
            p == [ev |-> e, by |-> settings, topic |-> HandleEvent(settings, message[e].topic)]
<1>1. /\ worker[w].pc = "publish" /\ e \in 1..Len(message) /\ e \in Events /\ Finish(w)
  <2>1. worker[w].pc = "publish" /\ Finish(w)
    BY DEF Publish
  <2>2. e \in 1..Len(message)
    BY <2>1 DEF IInv, BusyInv
  <2>3. e \in Events
    BY <2>2, EventBound DEF IInv, TypeOK, Events
  <2>4. QED
    BY <2>1, <2>2, <2>3
<1>2. UNCHANGED <<launchVars, linkVars, brokerVars, rejected, unkept>>
  BY DEF Publish
<1>3. rejected' \subseteq Events
  BY <1>2 DEF IInv, TypeOK
<1>4. CASE passed' = passed \cup {p} /\ UNCHANGED lost
  <2>1. p \in HubMessages
    <3>1. message[e] \in Messages
      BY <1>1 DEF IInv, TypeOK
    <3>2. message[e].topic \in Seq(Seq(Characters)) \ {<<>>}
      BY <3>1, EventAssumption
    <3>3. settings \in Settings
      BY DEF IInv, TypeOK
    <3>4. HandleEvent(settings, message[e].topic) \in Seq(Seq(Characters))
      BY <3>2, <3>3, HandleEventType
    <3>5. QED
      BY <1>1, <3>3, <3>4 DEF HubMessages
  <2>2. p.ev = e /\ p.by = settings /\ p.topic = HandleEvent(settings, message[e].topic)
    OBVIOUS
  <2>. HIDE DEF p
  <2>3. passed' \subseteq HubMessages /\ lost' \subseteq Events
    BY <1>4, <2>1 DEF IInv, TypeOK
  <2>4. Settled \subseteq Settled' /\ e \in Settled'
    <3>1. Settled \subseteq Settled'
      BY <1>2, <1>4, StaysSettled
    <3>2. QED
      BY <1>4, <2>2, <3>1 DEF Settled, PassedOn
  <2>5. PassedInv'
    <3>1. ASSUME NEW q \in passed'
          PROVE  q.ev <= Len(message) /\ q.topic = HandleEvent(q.by, message[q.ev].topic)
      <4>1. CASE q \in passed
        BY <4>1 DEF IInv, PassedInv
      <4>2. CASE q = p
        BY <1>1, <2>2, <4>2
      <4>3. QED
        BY <1>4, <4>1, <4>2
    <3>2. QED
      BY <1>2, <3>1 DEF PassedInv, brokerVars
  <2>6. InOrder'
    <3>1. ASSUME NEW q \in passed', NEW f \in 1..(q.ev - 1)
          PROVE  f \in Settled
      <4>1. CASE q \in passed
        BY <3>1, <4>1 DEF IInv, InOrder
      <4>2. CASE q = p
        <5>1. f \in 1..(worker[w].ev - 1)
          BY <2>2, <3>1, <4>2
        <5>2. QED
          BY <1>1, <5>1, EarlierSettled
      <4>3. QED
        BY <1>4, <4>1, <4>2
    <3>2. QED
      BY <2>4, <3>1 DEF InOrder
  <2>7. QED
    BY <1>1, <1>2, <1>3, <2>3, <2>4, <2>5, <2>6, FinishStep
<1>5. CASE Lose(e) /\ UNCHANGED passed
  <2>1. Settled \subseteq Settled' /\ e \in Settled'
    BY <1>2, <1>5 DEF Settled, PassedOn, Lose
  <2>2. PassedInv' /\ InOrder'
    BY <1>2, <1>5, <2>1, NothingPassed DEF brokerVars
  <2>3. passed' \subseteq HubMessages /\ lost' \subseteq Events
    BY <1>1, <1>5 DEF IInv, TypeOK, Lose
  <2>4. QED
    BY <1>1, <1>2, <1>3, <2>1, <2>2, <2>3, FinishStep
<1>6. CASE Closing /\ UNCHANGED <<lost, passed>> /\ ~(handler.live /\ handler.ev = e /\ launch \in stray)
  <2>1. Settled' = Settled
    BY <1>2, <1>6 DEF Settled, PassedOn
  <2>2. ~(w \in handler.waitsFor /\ handler.live)
    <3>1. handler.live => launch \in stray
      BY <1>6 DEF Closing, IInv, LiveInv, StrayInv
    <3>2. QED
      BY <1>6, <3>1 DEF IInv, BusyInv
  <2>3. PassedInv' /\ InOrder'
    BY <1>2, <1>6, <2>1, NothingPassed DEF brokerVars
  <2>4. passed' \subseteq HubMessages /\ lost' \subseteq Events
    BY <1>6 DEF IInv, TypeOK
  <2>5. QED
    BY <1>1, <1>2, <1>3, <2>1, <2>2, <2>3, <2>4, FinishStep
<1>7. QED
  BY <1>4, <1>5, <1>6 DEF Publish, NotHeard

\* The invariant is inductive.
THEOREM EventInvariance == Spec => []IInv
<1>1. ASSUME IInv, [Next]_vars PROVE IInv'
  <2>1. CASE UNCHANGED vars
    <3>1. UNCHANGED <<message, queue, worker, passed, rejected, lost, cloud, stray, launch, phase,
                      settings, hub, told, handler, acks, unkept>>
      BY <2>1 DEF vars, launchVars, linkVars, brokerVars, history
    <3>2. StrayInv' /\ KeepConnection /\ (handler'.live => cloud'[launch'] = "on")
      BY <1>1, <3>1 DEF IInv, StrayInv, LiveInv, KeepConnection
    <3>3. QED
      BY <1>1, <3>1, <3>2, LinkStep DEF IInv, TypeOK
  <2>2. CASE Next
    BY <1>1, <2>2, LocalPublishStep, BrokerAckStep, SkipStep, HubStep, CloudStep, FollowStep,
       LaunchStep, DispatchStep, GiveUpStep, ReturnStep, OfferStep, HandleStep, PublishStep DEF Next
  <2>3. QED
    BY <1>1, <2>1, <2>2
<1>2. QED
  BY InitIInv, <1>1, PTL DEF Spec

\* Every value is of its type, the topics given to the hub client included.
THEOREM TypeCorrect == Spec => []TypeOK
<1>1. IInv => TypeOK
  BY DEF IInv
<1>2. QED
  BY EventInvariance, <1>1, PTL

\* An event the local broker no longer keeps was passed on, rejected, lost in one of the
\* three ways of Lose, or of QoS 0 and lost with the connection, whatever is lost, sent
\* again or launched.
THEOREM NoAckedEventLost == Spec => []AckedIsPassedOn
<1>1. IInv => AckedIsPassedOn
  <2>. SUFFICES ASSUME IInv, NEW e \in 1..Len(message), ~Contains(queue, e)
                PROVE  e \in Settled
    BY DEF AckedIsPassedOn
  <2>1. \A i \in DOMAIN queue : queue[i] # e
    BY DEF IInv, Contains
  <2>2. QED
    BY <2>1 DEF IInv, SettledInv
<1>2. QED
  BY EventInvariance, <1>1, PTL

\* No event overtakes an earlier one that is not settled, neither in the queue, nor in
\* the handler, nor among the goroutines of the router.
THEOREM OrderKept == Spec => []InOrder
<1>1. IInv => InOrder
  BY DEF IInv
<1>2. QED
  BY EventInvariance, <1>1, PTL

\* The topics given to the hub client name the sender.
THEOREM SenderNamed == Spec => []Addressed
<1>1. IInv => Addressed
  <2>. SUFFICES ASSUME IInv, NEW p \in passed
                PROVE  LET s == p.by
                           t == message[p.ev].topic
                           source == IF Len(t) > 2 /\ t[3] # Empty THEN t[3] ELSE s.gateway
                           r == IF s.generic /\ Prefix # Empty THEN Tail(p.topic) ELSE p.topic
                           device == IF s.generic /\ r[4] # Empty THEN r[3] \o <<":">> \o r[4]
                                     ELSE r[3]
                       IN  /\ r[2] # Empty /\ r[3] # Empty
                           /\ s.generic => r[3] = s.gateway
                           /\ ~s.generic \/ OfGateway(s, source) => device = source
                           /\ Len(t) > 3 => Last(r) = Last(t)
    BY DEF Addressed
  <2>. DEFINE s == p.by
              t == message[p.ev].topic
              source == IF Len(t) > 2 /\ t[3] # Empty THEN t[3] ELSE s.gateway
              r == IF s.generic /\ Prefix # Empty THEN Tail(p.topic) ELSE p.topic
              device == IF s.generic /\ r[4] # Empty THEN r[3] \o <<":">> \o r[4] ELSE r[3]
  <2>1. p \in HubMessages
    BY DEF IInv, TypeOK
  <2>2. p.ev \in 1..Len(message) /\ s \in Settings /\ p.topic = HandleEvent(s, t)
    BY <2>1 DEF IInv, PassedInv, HubMessages, Events
  <2>3. t \in Seq(Seq(Characters)) \ {<<>>}
    <3>1. message[p.ev] \in Messages
      BY <2>2 DEF IInv, TypeOK
    <3>2. QED
      BY <3>1, EventAssumption
  <2>. HIDE DEF s, t
  <2>4. source = Device(s, t) /\ source \in Seq(Characters) /\ source # Empty
    <3>1. source = Device(s, t)
      BY <2>3 DEF Device, Segment
    <3>2. source # Empty
      BY <2>2, SettingsType DEF Empty
    <3>3. QED
      BY <2>2, <2>3, <3>1, <3>2, SegmentTypes
  <2>5. Segment(t, 2, s.tenant) # Empty /\ s.gateway # Empty
    BY <2>2, SettingsType DEF Segment, Empty
  <2>6. /\ r[2] = Segment(t, 2, s.tenant)
        /\ ~s.generic => r[3] = Device(s, t)
        /\ s.generic => r[3] = s.gateway /\ r[4] = stripGatewayID(s, Device(s, t))
        /\ Len(t) > 3 => r[Len(r)] = t[Len(t)]
    <3>1. r = IF s.generic /\ Prefix # Empty THEN Tail(HandleEvent(s, t)) ELSE HandleEvent(s, t)
      BY <2>2
    <3>. HIDE DEF r
    <3>2. s \in Settings /\ t \in Seq(Seq(Characters)) \ {<<>>}
      BY <2>2, <2>3
    <3>3. QED
      BY <3>1, <3>2, HubTopic
  <2>7. s.generic /\ OfGateway(s, source) => device = source
    <3>. SUFFICES ASSUME s.generic, OfGateway(s, source) PROVE device = source
      OBVIOUS
    <3>1. r[3] = s.gateway /\ r[4] = stripGatewayID(s, source)
      BY <2>4, <2>6
    <3>2. source = IF stripGatewayID(s, source) # Empty
                   THEN s.gateway \o <<":">> \o stripGatewayID(s, source) ELSE s.gateway
      <4>. HIDE DEF source
      <4>1. QED
        BY <2>2, <2>4, StripInverse
    <3>. HIDE DEF source, r
    <3>3. QED
      BY <3>1, <3>2
  <2>8. QED
    BY <2>4, <2>5, <2>6, <2>7 DEF Last, s, t
<1>2. QED
  BY EventInvariance, <1>1, PTL

=============================================================================
