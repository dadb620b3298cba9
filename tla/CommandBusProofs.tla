--------------------------- MODULE CommandBusProofs ---------------------------
(***************************************************************************)
(* Proofs about the command buses: for any number of deliveries, ids and   *)
(* devices a command is answered at most once, an answer in time is not    *)
(* ignored, and it goes back to the topic its command came from.           *)
(***************************************************************************)
EXTENDS CommandBus, FiniteSetTheorems, TLAPS

-----------------------------------------------------------------------------
(* Topics and headers *)

\* The hub segment of a local device id is the segment it was made from, whatever
\* characters it has.
LEMMA StripUndoesFix ==
    ASSUME NEW seg \in Seq(Characters)
    PROVE  /\ fixCommand(seg) \in Seq(Characters)
           /\ stripGatewayID(fixCommand(seg)) = seg
<1> USE BusAssumption
<1>1. CASE seg = <<>>
    <2>1. fixCommand(seg) = <<>>
        BY <1>1 DEF fixCommand
    <2>2. Len(<<>>) = 0 /\ Len(Gateway) \in Nat /\ <<>> \in Seq(Characters)
        OBVIOUS
    <2>3. stripGatewayID(<<>>) = <<>>
        BY <2>2 DEF stripGatewayID
    <2> QED
        BY <1>1, <2>1, <2>2, <2>3
<1>2. CASE seg # <<>>
    <2> DEFINE device == Gateway \o <<":">> \o seg
               n == Len(Gateway)
    <2>1. /\ device \in Seq(Characters) /\ n \in Nat /\ Len(seg) \in Nat \ {0}
          /\ Len(device) = n + 1 + Len(seg)
          /\ \A i \in 1..Len(seg) : device[i + n + 1] = seg[i]
        BY <1>2
    <2>2. fixCommand(seg) = device
        BY <1>2 DEF fixCommand
    <2> HIDE DEF device, n
    <2>3. SubSeq(device, n + 2, Len(device)) = seg
        BY <2>1, SMTT(30)
    <2>4. stripGatewayID(device) = SubSeq(device, n + 2, Len(device))
        BY <2>1 DEF stripGatewayID, n
    <2> QED
        BY <2>1, <2>2, <2>3, <2>4
<1> QED
    BY <1>1, <1>2

\* A prefix is cut off within the characters.
LEMMA StripType ==
    ASSUME NEW device \in Seq(Characters)
    PROVE  stripGatewayID(device) \in Seq(Characters)
<1>1. Len(Gateway) \in Nat /\ Len(device) \in Nat
    BY BusAssumption
<1> QED
    BY <1>1 DEF stripGatewayID

\* A timeout is a natural number, or the header makes the handler panic.
LEMMA TimeoutType ==
    ASSUME NEW t \in Int \cup {BareUnit}
    PROVE  ParseTimeout(t) \in Nat \cup {Panics}
    BY BusAssumption DEF ParseTimeout, Panics

-----------------------------------------------------------------------------
(* The answers and the noted deliveries of an id *)

\* There are finitely many of both.
LEMMA CountsAreFinite ==
    ASSUME NEW id
    PROVE  /\ IsFiniteSet(Answers(id)) /\ Cardinality(Answers(id)) \in Nat
           /\ IsFiniteSet(Noted(id)) /\ Cardinality(Noted(id)) \in Nat
<1>1. IsFiniteSet(Forms)
    <2>1. IsFiniteSet({"long"})
        BY FS_Singleton
    <2>2. IsFiniteSet({"long"} \cup {"short"})
        BY <2>1, FS_AddElement
    <2>3. Forms = {"long"} \cup {"short"}
        BY DEF Forms
    <2> QED
        BY <2>2, <2>3
<1>2. IsFiniteSet(Requests \X Forms)
    BY <1>1, BusAssumption, FS_Product
<1>3. Answers(id) \in SUBSET (Requests \X Forms) /\ Noted(id) \in SUBSET Requests
    BY DEF Answers, Noted
<1>4. IsFiniteSet(Answers(id)) /\ IsFiniteSet(Noted(id))
    BY <1>2, <1>3, BusAssumption, FS_Subset
<1> QED
    BY <1>4, FS_CardinalityType

\* An answer that is taken.
LEMMA AnswersMember ==
    ASSUME NEW id
    PROVE  \A r \in Requests, f \in Forms :
               <<r, f>> \in Answers(id) <=> (req[r].id = id /\ copy[r][f] \in Taken)
    BY DEF Answers

\* Answers are counted by the states of the copies and the ids of the deliveries.
LEMMA SameAnswers ==
    ASSUME NEW id,
           \A r \in Requests, f \in Forms :
               (req'[r].id = id /\ copy'[r][f] \in Taken) <=> (req[r].id = id /\ copy[r][f] \in Taken)
    PROVE  Answers(id)' = Answers(id)
    BY DEF Answers

\* So are the noted deliveries, by their ids and deadlines.
LEMMA SameNoted ==
    ASSUME NEW id,
           \A r \in Requests :
               (req'[r].id = id /\ req'[r].deadline > 0) <=> (req[r].id = id /\ req[r].deadline > 0)
    PROVE  Noted(id)' = Noted(id)
    BY DEF Noted

-----------------------------------------------------------------------------
(* The inductive invariant *)

\* How far a handler is, and what it has done so far.
Phase ==
    \A r \in Requests :
        /\ rpc[r] = "none" => req[r].id = NoId
        /\ rpc[r] \in {"none", "cache"} => req[r].deadline = 0
        /\ rpc[r] # "done" => \A f \in Forms : copy[r][f] = "none"
        /\ req[r].deadline > 0 => req[r].id # NoId

InCache(id) == IF id \in DOMAIN pending THEN 1 ELSE 0

\* An element of the cache is the right to one more answer.
Once ==
    \A id \in Ids \cup {NoId} : Cardinality(Answers(id)) + InCache(id) <= Cardinality(Noted(id))

\* Whom an answer names, before and after its topic is turned into one of the hub.
Sender ==
    \A r \in Requests, f \in Forms :
        /\ copy[r][f] \in {"answered", "accepted"} => answerTo[r][f] = LocalDevice(req[r].seg)
        /\ copy[r][f] = "forwarded" => answerTo[r][f] = req[r].seg

\* Deliveries with the same id are deliveries of the same command.
SameCommand ==
    \A q, r \in Requests :
        req[q].id = req[r].id /\ req[r].id # NoId => req[q].timeout = req[r].timeout

\* Until its deadline a noted command is in the cache, to expire no earlier, or it
\* has been answered.  A second delivery of the command puts the expiry off.
KeptFor(r) ==
    req[r].deadline > 0 =>
        /\ req[r].deadline <= now + ParseTimeout(req[r].timeout) + 1
        /\ \/ now > req[r].deadline
           \/ Answers(req[r].id) # {}
           \/ /\ req[r].id \in DOMAIN pending
              /\ pending[req[r].id].expTime >= req[r].deadline

Kept ==
    /\ \A id \in DOMAIN pending : pending[id].ttl > 0
    /\ \A r \in Requests : KeptFor(r)

IInv == TypeOK /\ Phase /\ Once /\ Sender /\ SameCommand /\ Kept

\* Nothing is noted or answered yet.
LEMMA InitInv == Init => IInv
<1> SUFFICES ASSUME Init PROVE IInv
    OBVIOUS
<1> USE BusAssumption DEF Init
<1>1. TypeOK
    <2>1. DOMAIN pending = {}
        OBVIOUS
    <2>2. req \in [Requests -> [id : Ids \cup {NoId}, seg : Seq(Characters),
                                timeout : Int \cup {BareUnit}, deadline : Nat]]
        BY DEF NoRequest
    <2>3. answerTo \in [Requests -> [Forms -> Seq(Characters)]]
        OBVIOUS
    <2>4. generic \in BOOLEAN /\ now \in 0..MaxTime
        OBVIOUS
    <2> QED
        BY <2>1, <2>2, <2>3, <2>4 DEF TypeOK
<1>2. Phase
    BY DEF Phase, NoRequest
<1>3. Once
    <2> SUFFICES ASSUME NEW id \in Ids \cup {NoId}
                 PROVE  Cardinality(Answers(id)) + InCache(id) <= Cardinality(Noted(id))
        BY DEF Once
    <2>1. Answers(id) = {}
        BY DEF Answers, Taken
    <2>2. Noted(id) = {}
        BY DEF Noted, NoRequest
    <2>3. InCache(id) = 0
        BY DEF InCache
    <2> QED
        BY <2>1, <2>2, <2>3, FS_EmptySet
<1>4. Sender
    BY DEF Sender
<1>5. SameCommand
    BY DEF SameCommand, NoRequest
<1>6. Kept
    BY DEF Kept, KeptFor, NoRequest
<1> QED
    BY <1>1, <1>2, <1>3, <1>4, <1>5, <1>6 DEF IInv

-----------------------------------------------------------------------------
(* HandleRequest *)

\* A delivery has neither been noted nor answered before it comes.
LEMMA DeliverInv ==
    ASSUME IInv, UNCHANGED generic,
           NEW r \in Requests, NEW id \in Ids \cup {NoId}, NEW seg \in Segments,
           NEW t \in Timeouts, Deliver(r, id, seg, t)
    PROVE  IInv'
<1> USE BusAssumption DEF IInv
<1> DEFINE new == [id |-> id, seg |-> seg, timeout |-> t, deadline |-> 0]
<1>1. /\ req' = [req EXCEPT ![r] = new] /\ rpc' = [rpc EXCEPT ![r] = "cache"]
      /\ UNCHANGED <<now, pending, copy, answerTo, generic>>
    BY DEF Deliver
<1>2. new \in [id : Ids \cup {NoId}, seg : Seq(Characters), timeout : Int \cup {BareUnit},
               deadline : Nat]
    OBVIOUS
<1> HIDE DEF new
<1>3. TypeOK'
    BY <1>1, <1>2 DEF TypeOK
<1> USE DEF new
<1>4. /\ req'[r].deadline = 0 /\ req[r].deadline = 0 /\ req[r].id = NoId
      /\ \A f \in Forms : copy[r][f] = "none"
      /\ \A q \in Requests : q # r => req'[q] = req[q] /\ rpc'[q] = rpc[q]
      /\ rpc'[r] = "cache"
    <2>1. rpc[r] = "none"
        BY DEF Deliver
    <2>2. req[r].deadline = 0 /\ req[r].id = NoId /\ \A f \in Forms : copy[r][f] = "none"
        BY <2>1 DEF Phase
    <2>3. req'[r] = new /\ rpc'[r] = "cache"
          /\ \A q \in Requests : q # r => req'[q] = req[q] /\ rpc'[q] = rpc[q]
        BY <1>1 DEF TypeOK
    <2> QED
        BY <2>2, <2>3
<1>5. Phase'
    BY <1>1, <1>4 DEF Phase
<1>6. \A i : Answers(i)' = Answers(i) /\ Noted(i)' = Noted(i)
    <2> TAKE i
    <2>1. Answers(i)' = Answers(i)
        BY <1>1, <1>4, SameAnswers DEF Taken
    <2>2. Noted(i)' = Noted(i)
        BY <1>4, SameNoted
    <2> QED
        BY <2>1, <2>2
<1>7. Once'
    BY <1>1, <1>6 DEF Once, InCache
<1>8. Sender'
    BY <1>1, <1>4 DEF Sender, LocalDevice
<1>9. SameCommand'
    <2>1. \A q \in Requests : rpc[q] = "none" => req[q].id = NoId
        BY DEF Phase
    <2>2. \A q \in Requests : q # r /\ req[q].id = id /\ id # NoId => req[q].timeout = t
        BY <2>1 DEF Deliver
    <2>3. req'[r].id = id /\ req'[r].timeout = t
        BY <1>1 DEF TypeOK
    <2> QED
        BY <1>4, <2>2, <2>3 DEF SameCommand
<1>10. Kept'
    <2>1. ASSUME NEW q \in Requests, q # r PROVE KeptFor(q)'
        <3>1. req'[q] = req[q] /\ now' = now /\ pending' = pending
            BY <1>1, <1>4, <2>1
        <3>2. ASSUME NEW x \in Answers(req[q].id)
              PROVE  x \in Answers(req[q].id)'
            <4>1. x \in Requests \X Forms /\ copy[x[1]][x[2]] \in Taken /\ req[x[1]].id = req[q].id
                BY <3>2 DEF Answers
            <4>2. x[1] # r
                BY <1>4, <4>1 DEF Taken
            <4>3. req'[x[1]] = req[x[1]] /\ copy' = copy
                BY <1>1, <1>4, <4>1, <4>2
            <4> QED
                BY <3>1, <4>1, <4>3 DEF Answers
        <3>3. Answers(req[q].id) # {} => (Answers(req[q].id) # {})'
            BY <3>2
        <3>4. KeptFor(q)
            BY DEF Kept
        <3> QED
            BY <3>1, <3>3, <3>4 DEF KeptFor
    <2>2. KeptFor(r)'
        BY <1>4 DEF KeptFor
    <2> QED
        BY <1>1, <2>1, <2>2 DEF Kept
<1> QED
    BY <1>3, <1>5, <1>7, <1>8, <1>9, <1>10

\* The branches of RequestCache that note nothing change no more than the pc.
LEMMA NotNotedInv ==
    ASSUME IInv, NEW r \in Requests, rpc[r] = "cache",
           NEW pc \in {"publish", "failed"}, rpc' = [rpc EXCEPT ![r] = pc],
           UNCHANGED <<generic, now, pending, req, copy, answerTo>>
    PROVE  IInv'
<1> USE DEF IInv
<1>1. TypeOK'
    BY DEF TypeOK
<1>2. Phase'
    BY DEF Phase, TypeOK
<1>3. Once'
    BY DEF Once, InCache, Answers, Noted
<1>4. Sender' /\ SameCommand'
    BY DEF Sender, LocalDevice, SameCommand
<1>5. Kept'
    BY DEF Kept, KeptFor, Answers
<1> QED
    BY <1>1, <1>2, <1>3, <1>4, <1>5

\* A command that is noted gets one more right to an answer, and an expiry that is
\* no earlier than the deadline of any delivery of it.
LEMMA NotedInv ==
    ASSUME IInv, NEW r \in Requests, rpc[r] = "cache", req[r].id # NoId,
           ParseTimeout(req[r].timeout) > 0, ParseTimeout(req[r].timeout) \in Nat,
           Cache!Insert(req[r].id, ParseTimeout(req[r].timeout) + 1),
           req' = [req EXCEPT ![r].deadline = now + ParseTimeout(req[r].timeout) + 1],
           rpc' = [rpc EXCEPT ![r] = "publish"],
           UNCHANGED <<generic, now, copy, answerTo>>
    PROVE  IInv'
<1> USE DEF IInv
<1> DEFINE id == req[r].id
           timeout == ParseTimeout(req[r].timeout)
           deadline == now + timeout + 1
<1>1. now \in Nat /\ timeout \in Nat /\ deadline \in Nat /\ deadline > 0 /\ id \in Ids
    BY BusAssumption DEF TypeOK
<1>2. /\ DOMAIN pending' = DOMAIN pending \cup {id}
      /\ pending'[id] = [expTime |-> now + (timeout + 1), ttl |-> timeout + 1]
      /\ \A j \in DOMAIN pending : j # id => pending'[j] = pending[j]
    BY DEF Cache!Insert
<1>3. /\ \A q \in Requests : q # r => req'[q] = req[q]
      /\ \A q \in Requests : req'[q].id = req[q].id /\ req'[q].seg = req[q].seg
                             /\ req'[q].timeout = req[q].timeout
      /\ req'[r].deadline = deadline
    BY DEF TypeOK
<1>4. req[r].deadline = 0 /\ \A f \in Forms : copy[r][f] = "none"
    BY DEF Phase
<1>5. TypeOK'
    <2>1. req' \in [Requests -> [id : Ids \cup {NoId}, seg : Seq(Characters),
                                 timeout : Int \cup {BareUnit}, deadline : Nat]]
        <3>1. [req[r] EXCEPT !.deadline = deadline] \in
                 [id : Ids \cup {NoId}, seg : Seq(Characters),
                  timeout : Int \cup {BareUnit}, deadline : Nat]
            BY <1>1 DEF TypeOK
        <3>2. req' = [req EXCEPT ![r] = [req[r] EXCEPT !.deadline = deadline]]
            BY DEF TypeOK
        <3> QED
            BY <3>1, <3>2 DEF TypeOK
    <2>2. /\ DOMAIN pending' \subseteq Ids
          /\ \A j \in DOMAIN pending' : pending'[j].expTime \in Nat /\ pending'[j].ttl \in Nat
        BY <1>1, <1>2 DEF TypeOK
    <2>3. rpc' \in [Requests -> {"none", "cache", "publish", "done", "failed"}]
        BY DEF TypeOK
    <2> QED
        BY <2>1, <2>2, <2>3 DEF TypeOK
<1>6. Phase'
    BY <1>3, <1>4 DEF Phase, TypeOK
<1>7. \A i : Answers(i)' = Answers(i)
    BY <1>3, SameAnswers
<1> HIDE DEF id, timeout, deadline
<1>8. Once'
    <2> SUFFICES ASSUME NEW i \in Ids \cup {NoId}
                 PROVE  Cardinality(Answers(i)') + InCache(i)' <= Cardinality(Noted(i)')
        BY DEF Once
    <2>1. Cardinality(Answers(i)) + InCache(i) <= Cardinality(Noted(i))
        BY DEF Once
    <2>2. Cardinality(Answers(i)) \in Nat /\ Cardinality(Noted(i)) \in Nat
          /\ IsFiniteSet(Noted(i))
        BY CountsAreFinite
    <2>3. CASE i = id
        <3>1. Noted(i)' = Noted(i) \cup {r}
            BY <1>1, <1>3, <2>3 DEF Noted, id
        <3>2. r \notin Noted(i)
            BY <1>4 DEF Noted
        <3>3. Cardinality(Noted(i)') = Cardinality(Noted(i)) + 1
            BY <2>2, <3>1, <3>2, FS_AddElement
        <3>4. InCache(i)' = 1 /\ InCache(i) \in {0, 1}
            BY <1>2, <2>3 DEF InCache
        <3> QED
            BY <1>7, <2>1, <2>2, <3>3, <3>4
    <2>4. CASE i # id
        <3>1. Noted(i)' = Noted(i)
            BY <1>3, <2>4, SameNoted DEF id
        <3>2. InCache(i)' = InCache(i)
            BY <1>2, <2>4 DEF InCache
        <3> QED
            BY <1>7, <2>1, <3>1, <3>2
    <2> QED
        BY <2>3, <2>4
<1>9. Sender' /\ SameCommand'
    BY <1>3 DEF Sender, LocalDevice, SameCommand
<1>10. Kept'
    <2>1. \A i \in DOMAIN pending' : pending'[i].ttl > 0
        BY <1>1, <1>2 DEF Kept
    <2>2. ASSUME NEW q \in Requests PROVE KeptFor(q)'
        <3>1. CASE q = r
            BY <1>1, <1>2, <1>3, <3>1 DEF KeptFor, id, timeout, deadline
        <3>2. CASE q # r
            <4>1. req'[q] = req[q] /\ req[q].deadline \in Nat
                BY <1>3, <3>2 DEF TypeOK
            <4>2. KeptFor(q)
                BY DEF Kept
            <4>3. Answers(req[q].id)' = Answers(req[q].id)
                BY <1>3, <4>1 DEF Answers
            <4>4. CASE req[q].id = id /\ req[q].deadline > 0
                <5>1. req[q].timeout = req[r].timeout
                    BY <4>4 DEF SameCommand, id
                <5>2. req[q].deadline <= now + timeout + 1
                    BY <4>2, <4>4, <5>1 DEF KeptFor, timeout
                <5>3. id \in DOMAIN pending' /\ pending'[id].expTime >= req[q].deadline
                    BY <1>1, <1>2, <4>1, <5>2
                <5>4. req'[q].id = id /\ ParseTimeout(req'[q].timeout) = timeout
                    BY <4>1, <4>4, <5>1 DEF timeout
                <5>5. UNCHANGED now
                    OBVIOUS
                <5> QED
                    BY <4>1, <5>2, <5>3, <5>4, <5>5 DEF KeptFor
            <4>5. CASE ~(req[q].id = id /\ req[q].deadline > 0)
                BY <1>2, <4>1, <4>2, <4>3, <4>5 DEF KeptFor
            <4> QED
                BY <4>4, <4>5
        <3> QED
            BY <3>1, <3>2
    <2> QED
        BY <2>1, <2>2 DEF Kept
<1> QED
    BY <1>5, <1>6, <1>8, <1>9, <1>10

\* The first half of HandleRequest keeps the invariant.
LEMMA RequestCacheInv ==
    ASSUME IInv, UNCHANGED generic, NEW r \in Requests, RequestCache(r)
    PROVE  IInv'
<1> DEFINE timeout == ParseTimeout(req[r].timeout)
<1>1. rpc[r] = "cache" /\ UNCHANGED <<now, copy, answerTo>>
    BY DEF RequestCache
<1>2. timeout \in Nat \cup {Panics}
    BY TimeoutType DEF IInv, TypeOK
<1>3. CASE UNCHANGED <<pending, req>>
    BY <1>1, <1>3, NotNotedInv DEF RequestCache
<1>4. CASE ~UNCHANGED <<pending, req>>
    <2>1. /\ req[r].id # NoId /\ timeout > 0
          /\ Cache!Insert(req[r].id, timeout + 1)
          /\ req' = [req EXCEPT ![r].deadline = now + timeout + 1]
          /\ rpc' = [rpc EXCEPT ![r] = "publish"]
        BY <1>4 DEF RequestCache
    <2>2. timeout \in Nat
        BY <1>2, <2>1 DEF Panics
    <2> QED
        BY <1>1, <2>1, <2>2, NotedInv
<1> QED
    BY <1>3, <1>4

\* The publication of the command takes no answer.
LEMMA RequestPublishInv ==
    ASSUME IInv, UNCHANGED generic, NEW r \in Requests, RequestPublish(r)
    PROVE  IInv'
<1> USE DEF IInv
<1>1. /\ rpc[r] = "publish" /\ rpc' = [rpc EXCEPT ![r] = "done"]
      /\ copy' = [copy EXCEPT ![r] = [f \in Forms |-> "published"]]
      /\ UNCHANGED <<generic, now, pending, req, answerTo>>
    BY DEF RequestPublish
<1>2. /\ \A f \in Forms : copy[r][f] = "none" /\ copy'[r][f] = "published"
      /\ \A q \in Requests : q # r => copy'[q] = copy[q] /\ rpc'[q] = rpc[q]
      /\ rpc'[r] = "done"
    BY <1>1 DEF TypeOK, Phase
<1>3. TypeOK'
    <2>1. rpc' \in [Requests -> {"none", "cache", "publish", "done", "failed"}]
        BY <1>1 DEF TypeOK
    <2>2. copy' \in [Requests -> [Forms -> {"none", "published", "answered", "accepted",
                                           "ignored", "forwarded", "rejected"}]]
        BY <1>1 DEF TypeOK
    <2> QED
        BY <1>1, <2>1, <2>2 DEF TypeOK
<1>4. Phase'
    BY <1>1, <1>2 DEF Phase
<1>5. \A i : Answers(i)' = Answers(i)
    BY <1>1, <1>2, SameAnswers DEF Taken
<1>6. Once'
    BY <1>1, <1>5 DEF Once, InCache, Noted
<1>7. Sender' /\ SameCommand'
    BY <1>1, <1>2 DEF Sender, LocalDevice, SameCommand
<1>8. Kept'
    <2>1. ASSUME NEW q \in Requests PROVE KeptFor(q)'
        <3>1. Answers(req[q].id)' = Answers(req[q].id)
            BY <1>1, <1>2 DEF Answers, Taken
        <3> QED
            BY <1>1, <3>1 DEF Kept, KeptFor
    <2> QED
        BY <1>1, <2>1 DEF Kept
<1> QED
    BY <1>3, <1>4, <1>6, <1>7, <1>8

-----------------------------------------------------------------------------
(* HandleResponse *)

Copies == {"none", "published", "answered", "accepted", "ignored", "forwarded", "rejected"}

\* A copy that goes from one state to another changes no other copy.
LEMMA BecomesOther ==
    ASSUME TypeOK, NEW r \in Requests, NEW f \in Forms, NEW state \in Copies,
           Becomes(r, f, state)
    PROVE  /\ copy'[r][f] = state
           /\ \A q \in Requests, g \in Forms : q # r \/ g # f => copy'[q][g] = copy[q][g]
           /\ copy' \in [Requests -> [Forms -> Copies]]
<1>1. copy \in [Requests -> [Forms -> Copies]] /\ copy' = [copy EXCEPT ![r][f] = state]
    BY DEF TypeOK, Becomes, Copies
<1> HIDE DEF Copies
<1> QED
    BY <1>1

\* A step of a copy that takes no answer, and leaves answerTo with the device.
LEMMA CopyInv ==
    ASSUME IInv, NEW r \in Requests, NEW f \in Forms, NEW state \in Copies,
           Becomes(r, f, state), UNCHANGED <<generic, now, pending, req, rpc>>,
           copy[r][f] # "none",
           copy[r][f] \in Taken <=> state \in Taken,
           answerTo' \in [Requests -> [Forms -> Seq(Characters)]],
           \A q \in Requests, g \in Forms : q # r \/ g # f => answerTo'[q][g] = answerTo[q][g],
           state \in {"answered", "accepted"} => answerTo'[r][f] = LocalDevice(req[r].seg),
           state = "forwarded" => answerTo'[r][f] = req[r].seg
    PROVE  IInv'
<1> USE DEF IInv
<1>1. /\ copy'[r][f] = state
      /\ \A q \in Requests, g \in Forms : q # r \/ g # f => copy'[q][g] = copy[q][g]
      /\ copy' \in [Requests -> [Forms -> Copies]]
    BY BecomesOther
<1>2. TypeOK'
    BY <1>1 DEF TypeOK, Copies
<1>3. Phase'
    <2>1. rpc[r] = "done"
        BY DEF Phase
    <2>2. \A q \in Requests : rpc[q] # "done" => \A g \in Forms : copy'[q][g] = copy[q][g]
        BY <1>1, <2>1
    <2>3. UNCHANGED <<req, rpc>>
        OBVIOUS
    <2>4. \A q \in Requests : rpc'[q] # "done" => \A g \in Forms : copy'[q][g] = "none"
        <3> SUFFICES ASSUME NEW q \in Requests, rpc'[q] # "done", NEW g \in Forms
                     PROVE  copy'[q][g] = "none"
            OBVIOUS
        <3>1. rpc[q] # "done"
            BY <2>3
        <3>2. copy[q][g] = "none"
            BY <3>1 DEF Phase
        <3> QED
            BY <2>2, <3>1, <3>2
    <2>5. \A q \in Requests :
            /\ rpc'[q] = "none" => req'[q].id = NoId
            /\ rpc'[q] \in {"none", "cache"} => req'[q].deadline = 0
            /\ req'[q].deadline > 0 => req'[q].id # NoId
        BY <2>3, Phase DEF Phase
    <2> QED
        BY <2>4, <2>5 DEF Phase
<1>4. \A q \in Requests, g \in Forms : copy'[q][g] \in Taken <=> copy[q][g] \in Taken
    <2> TAKE q \in Requests, g \in Forms
    <2>1. CASE q = r /\ g = f
        BY <1>1, <2>1
    <2>2. CASE q # r \/ g # f
        BY <1>1, <2>2
    <2> QED
        BY <2>1, <2>2
<1>5. Once'
    <2>1. \A i : Answers(i)' = Answers(i)
        BY <1>4, SameAnswers
    <2> QED
        BY <2>1 DEF Once, InCache, Noted
<1>6. Sender'
    <2>1. ASSUME NEW q \in Requests, NEW g \in Forms
          PROVE  /\ copy'[q][g] \in {"answered", "accepted"} =>
                        answerTo'[q][g] = LocalDevice(req[q].seg)
                 /\ copy'[q][g] = "forwarded" => answerTo'[q][g] = req[q].seg
        <3>1. CASE q = r /\ g = f
            BY <1>1, <3>1
        <3>2. CASE q # r \/ g # f
            <4>1. copy'[q][g] = copy[q][g]
                BY <1>1, <3>2
            <4>2. answerTo'[q][g] = answerTo[q][g]
                BY <3>2
            <4>3. /\ copy[q][g] \in {"answered", "accepted"} =>
                        answerTo[q][g] = LocalDevice(req[q].seg)
                  /\ copy[q][g] = "forwarded" => answerTo[q][g] = req[q].seg
                BY DEF Sender
            <4> QED
                BY <4>1, <4>2, <4>3
        <3> QED
            BY <3>1, <3>2
    <2> QED
        BY <2>1 DEF Sender, LocalDevice
<1>7. SameCommand'
    BY DEF SameCommand
<1>8. Kept'
    <2>1. ASSUME NEW q \in Requests PROVE KeptFor(q)'
        <3>1. Answers(req[q].id)' = Answers(req[q].id)
            BY <1>4 DEF Answers
        <3> QED
            BY <3>1 DEF Kept, KeptFor
    <2> QED
        BY <2>1 DEF Kept
<1> QED
    BY <1>2, <1>3, <1>5, <1>6, <1>7, <1>8

\* A device answers: the answer names the device the command was published for.
LEMMA AnswerInv ==
    ASSUME IInv, UNCHANGED generic, NEW r \in Requests, NEW f \in Forms, Answer(r, f)
    PROVE  IInv'
<1>1. /\ copy[r][f] = "published" /\ Becomes(r, f, "answered")
      /\ answerTo' = [answerTo EXCEPT ![r][f] = LocalDevice(req[r].seg)]
      /\ UNCHANGED <<generic, now, pending, req, rpc>>
    BY DEF Answer, reqVars
<1>2. req[r].seg \in Seq(Characters) /\ answerTo \in [Requests -> [Forms -> Seq(Characters)]]
    BY DEF IInv, TypeOK
<1>3. LocalDevice(req[r].seg) \in Seq(Characters)
    BY <1>2, StripUndoesFix DEF LocalDevice
<1>4. /\ answerTo' \in [Requests -> [Forms -> Seq(Characters)]]
      /\ answerTo'[r][f] = LocalDevice(req[r].seg)
      /\ \A q \in Requests, g \in Forms : q # r \/ g # f => answerTo'[q][g] = answerTo[q][g]
    BY <1>1, <1>2, <1>3
<1>5. "answered" \in Copies /\ (copy[r][f] \in Taken <=> "answered" \in Taken)
    BY <1>1 DEF Copies, Taken
<1> QED
    BY <1>1, <1>4, <1>5, CopyInv

\* An answer is taken with its element of the cache: the right to it is used up.
LEMMA AcceptInv ==
    ASSUME IInv, UNCHANGED generic, NEW r \in Requests, NEW f \in Forms,
           copy[r][f] = "answered", Cache!Delete(req[r].id), Becomes(r, f, "accepted"),
           UNCHANGED <<now, req, rpc, answerTo>>
    PROVE  IInv'
<1> USE DEF IInv
<1> DEFINE id == req[r].id
<1>1. /\ copy'[r][f] = "accepted"
      /\ \A q \in Requests, g \in Forms : q # r \/ g # f => copy'[q][g] = copy[q][g]
      /\ copy' \in [Requests -> [Forms -> Copies]]
    BY BecomesOther DEF Copies
<1>2. /\ id \in DOMAIN pending /\ DOMAIN pending' = DOMAIN pending \ {id}
      /\ \A i \in DOMAIN pending' : pending'[i] = pending[i]
    BY DEF Cache!Delete
<1>3. TypeOK'
    BY <1>1, <1>2 DEF TypeOK, Copies
<1>4. Phase'
    BY <1>1 DEF Phase
<1>5. /\ Answers(id)' = Answers(id) \cup {<<r, f>>} /\ <<r, f>> \notin Answers(id)
      /\ \A i : i # id => Answers(i)' = Answers(i)
    <2>1. <<r, f>> \notin Answers(id)
        BY DEF Answers, Taken
    <2>2. Answers(id)' = Answers(id) \cup {<<r, f>>}
        BY <1>1 DEF Answers, Taken
    <2>3. \A i : i # id => Answers(i)' = Answers(i)
        BY <1>1, SameAnswers
    <2> QED
        BY <2>1, <2>2, <2>3
<1>6. Once'
    <2> SUFFICES ASSUME NEW i \in Ids \cup {NoId}
                 PROVE  Cardinality(Answers(i)') + InCache(i)' <= Cardinality(Noted(i)')
        BY DEF Once
    <2>1. /\ Cardinality(Answers(i)) + InCache(i) <= Cardinality(Noted(i))
          /\ Noted(i)' = Noted(i)
        BY DEF Once, Noted
    <2>2. Cardinality(Answers(i)) \in Nat /\ IsFiniteSet(Answers(i))
          /\ Cardinality(Noted(i)) \in Nat
        BY CountsAreFinite
    <2>3. CASE i = id
        <3>1. Answers(i)' = Answers(i) \cup {<<r, f>>} /\ <<r, f>> \notin Answers(i)
            BY <1>1, <2>3 DEF Answers, Taken
        <3>2. Cardinality(Answers(i)') = Cardinality(Answers(i)) + 1
            BY <2>2, <3>1, FS_AddElement
        <3>3. InCache(i) = 1 /\ InCache(i)' = 0
            BY <1>2, <2>3 DEF InCache
        <3> QED
            BY <2>1, <2>2, <3>2, <3>3
    <2>4. CASE i # id
        <3>1. InCache(i)' = InCache(i)
            BY <1>2, <2>4 DEF InCache
        <3> QED
            BY <1>5, <2>1, <2>4, <3>1
    <2> QED
        BY <2>3, <2>4
<1>7. Sender'
    BY <1>1 DEF Sender, LocalDevice
<1>8. SameCommand'
    BY DEF SameCommand
<1>9. Kept'
    <2>1. ASSUME NEW q \in Requests PROVE KeptFor(q)'
        <3>1. CASE req[q].id = id
            <4>1. <<r, f>> \in Answers(req[q].id)'
                BY <1>1, <3>1 DEF Answers, Taken
            <4> QED
                BY <4>1 DEF Kept, KeptFor
        <3>2. CASE req[q].id # id
            <4>1. Answers(req[q].id)' = Answers(req[q].id)
                BY <1>1, <3>2 DEF Answers
            <4> QED
                BY <1>2, <3>2, <4>1 DEF Kept, KeptFor
        <3> QED
            BY <3>1, <3>2
    <2> QED
        BY <1>2, <2>1 DEF Kept
<1> QED
    BY <1>3, <1>4, <1>6, <1>7, <1>8, <1>9

\* The first half of HandleResponse keeps the invariant.
LEMMA ResponseRemoveInv ==
    ASSUME IInv, UNCHANGED generic, NEW r \in Requests, NEW f \in Forms, ResponseRemove(r, f)
    PROVE  IInv'
<1>1. copy[r][f] = "answered" /\ UNCHANGED <<now, req, rpc, answerTo>>
    BY DEF ResponseRemove, reqVars
<1>2. CASE Cache!Delete(req[r].id) /\ Becomes(r, f, "accepted")
    BY <1>1, <1>2, AcceptInv
<1>3. CASE Becomes(r, f, "ignored") /\ UNCHANGED pending
    <2>1. "ignored" \in Copies /\ (copy[r][f] \in Taken <=> "ignored" \in Taken)
        BY <1>1 DEF Copies, Taken
    <2>2. answerTo' \in [Requests -> [Forms -> Seq(Characters)]]
        BY <1>1 DEF IInv, TypeOK
    <2> QED
        BY <1>1, <1>3, <2>1, <2>2, CopyInv
<1> QED
    BY <1>2, <1>3 DEF ResponseRemove

\* The second half: what is forwarded names the segment of the command.
LEMMA ResponsePublishInv ==
    ASSUME IInv, UNCHANGED generic, NEW r \in Requests, NEW f \in Forms, ResponsePublish(r, f)
    PROVE  IInv'
<1>1. copy[r][f] = "accepted" /\ UNCHANGED <<now, pending, req, rpc>>
    BY DEF ResponsePublish, reqVars
<1>2. /\ req[r].seg \in Seq(Characters) /\ answerTo \in [Requests -> [Forms -> Seq(Characters)]]
      /\ answerTo[r][f] = LocalDevice(req[r].seg)
    BY <1>1 DEF IInv, TypeOK, Sender
<1>3. /\ {"rejected", "forwarded"} \subseteq Copies
      /\ \A s \in {"rejected", "forwarded"} : copy[r][f] \in Taken <=> s \in Taken
    BY <1>1 DEF Copies, Taken
<1>4. CASE Becomes(r, f, "rejected") /\ UNCHANGED answerTo
    BY <1>1, <1>2, <1>3, <1>4, CopyInv
<1>5. CASE generic /\ Becomes(r, f, "forwarded")
           /\ answerTo' = [answerTo EXCEPT ![r][f] = stripGatewayID(@)]
    <2>1. stripGatewayID(answerTo[r][f]) = req[r].seg
        BY <1>2, <1>5, StripUndoesFix DEF LocalDevice
    <2>2. /\ answerTo' \in [Requests -> [Forms -> Seq(Characters)]]
          /\ answerTo'[r][f] = req[r].seg
          /\ \A q \in Requests, g \in Forms :
                q # r \/ g # f => answerTo'[q][g] = answerTo[q][g]
        BY <1>2, <1>5, <2>1
    <2> QED
        BY <1>1, <1>3, <1>5, <2>2, CopyInv
<1>6. CASE ~generic /\ Becomes(r, f, "forwarded") /\ UNCHANGED answerTo
    <2>1. answerTo[r][f] = req[r].seg
        BY <1>2, <1>6 DEF LocalDevice
    <2> QED
        BY <1>1, <1>2, <1>3, <1>6, <2>1, CopyInv
<1> QED
    BY <1>4, <1>5, <1>6 DEF ResponsePublish

-----------------------------------------------------------------------------
(* The cache and the clock *)

\* What expires is past the deadline of every delivery that has no answer.
LEMMA ExpireInv ==
    ASSUME IInv, UNCHANGED generic, NEW id \in Ids, Expire(id)
    PROVE  IInv'
<1> USE DEF IInv
<1>1. /\ id \in DOMAIN pending /\ DOMAIN pending' = DOMAIN pending \ {id}
      /\ \A i \in DOMAIN pending' : pending'[i] = pending[i]
      /\ pending[id].ttl = 0 \/ pending[id].expTime < now
      /\ UNCHANGED <<now, req, rpc, copy, answerTo>>
    BY DEF Expire, Cache!Expire, Cache!Delete, Cache!hasExpired, reqVars
<1>2. TypeOK'
    BY <1>1 DEF TypeOK
<1>3. Phase' /\ Sender' /\ SameCommand'
    BY <1>1 DEF Phase, Sender, LocalDevice, SameCommand
<1>4. Once'
    <2> SUFFICES ASSUME NEW i \in Ids \cup {NoId}
                 PROVE  Cardinality(Answers(i)') + InCache(i)' <= Cardinality(Noted(i)')
        BY DEF Once
    <2>1. /\ Cardinality(Answers(i)) + InCache(i) <= Cardinality(Noted(i))
          /\ Noted(i)' = Noted(i) /\ Answers(i)' = Answers(i)
        BY <1>1 DEF Once, Noted, Answers
    <2>2. Cardinality(Answers(i)) \in Nat /\ Cardinality(Noted(i)) \in Nat
        BY CountsAreFinite
    <2>3. InCache(i)' \in {0, 1} /\ InCache(i) \in {0, 1} /\ InCache(i)' <= InCache(i)
        BY <1>1 DEF InCache
    <2> QED
        BY <2>1, <2>2, <2>3
<1>5. Kept'
    <2>1. pending[id].expTime < now /\ pending[id].expTime \in Nat /\ now \in Nat
        BY <1>1, BusAssumption DEF Kept, TypeOK
    <2>2. ASSUME NEW q \in Requests PROVE KeptFor(q)'
        <3>1. Answers(req[q].id)' = Answers(req[q].id) /\ req[q].deadline \in Nat /\ KeptFor(q)
            BY <1>1 DEF Answers, TypeOK, Kept
        <3>2. CASE req[q].id = id
            BY <1>1, <2>1, <3>1, <3>2 DEF KeptFor
        <3>3. CASE req[q].id # id
            BY <1>1, <3>1, <3>3 DEF KeptFor
        <3> QED
            BY <3>2, <3>3
    <2> QED
        BY <1>1, <2>2 DEF Kept
<1> QED
    BY <1>2, <1>3, <1>4, <1>5

\* The clock only brings deadlines nearer.
LEMMA TickInv ==
    ASSUME IInv, UNCHANGED generic, Tick
    PROVE  IInv'
<1> USE BusAssumption DEF IInv
<1>1. now \in Nat /\ now' = now + 1 /\ now < MaxTime
      /\ UNCHANGED <<pending, req, rpc, copy, answerTo>>
    BY DEF Tick, TypeOK, reqVars
<1>2. TypeOK'
    BY <1>1 DEF TypeOK
<1>3. Phase' /\ Sender' /\ SameCommand'
    BY <1>1 DEF Phase, Sender, LocalDevice, SameCommand
<1>4. Once'
    BY <1>1 DEF Once, InCache, Noted, Answers
<1>5. Kept'
    <2>1. ASSUME NEW q \in Requests PROVE KeptFor(q)'
        <3>1. Answers(req[q].id)' = Answers(req[q].id) /\ req[q].deadline \in Nat /\ KeptFor(q)
            BY <1>1 DEF Answers, TypeOK, Kept
        <3>2. req[q].timeout \in Int \cup {BareUnit}
            BY DEF TypeOK
        <3>3. ParseTimeout(req[q].timeout) \in Nat \cup {Panics}
            BY <3>2, TimeoutType
        <3>4. ParseTimeout(req[q].timeout) \in Int
            BY <3>3 DEF Panics
        <3> QED
            BY <1>1, <3>1, <3>4 DEF KeptFor
    <2> QED
        BY <1>1, <2>1 DEF Kept
<1> QED
    BY <1>2, <1>3, <1>4, <1>5

\* Every step keeps the invariant.
LEMMA StepInv == IInv /\ [Next]_vars => IInv'
<1> SUFFICES ASSUME IInv, [Next]_vars PROVE IInv'
    OBVIOUS
<1>1. CASE Next
    <2>1. UNCHANGED generic /\ Step
        BY <1>1 DEF Next
    <2> QED
        BY <2>1, DeliverInv, RequestCacheInv, RequestPublishInv, AnswerInv, ResponseRemoveInv,
           ResponsePublishInv, ExpireInv, TickInv
           DEF Step, HandleRequest, HandleResponse
<1>2. CASE UNCHANGED vars
    <2> USE <1>2 DEF vars, reqVars, IInv
    <2>1. TypeOK' /\ Phase' /\ Sender' /\ SameCommand'
        BY DEF TypeOK, Phase, Sender, LocalDevice, SameCommand
    <2>2. Once'
        BY DEF Once, InCache, Noted, Answers
    <2>3. Kept'
        BY DEF Kept, KeptFor, Answers
    <2> QED
        BY <2>1, <2>2, <2>3
<1> QED
    BY <1>1, <1>2

-----------------------------------------------------------------------------
\* In every reachable state a noted command that is neither answered nor past its
\* deadline is in the cache, which holds as many rights to an answer as are left.
THEOREM Invariance == Spec => []IInv
<1>1. Init => IInv
    BY InitInv
<1>2. IInv /\ [Next]_vars => IInv'
    BY StepInv
<1> QED
    BY <1>1, <1>2, PTL DEF Spec

\* Every variable keeps its type; the cache holds ids only.
THEOREM TypeCorrect == Spec => []TypeOK
<1>1. IInv => TypeOK
    BY DEF IInv
<1> QED
    BY <1>1, Invariance, PTL

\* However the handlers of a command's copies and of its deliveries interleave,
\* no more answers are passed on than deliveries were noted.
THEOREM NoSecondAnswer == Spec => []AnsweredOnce
<1>1. IInv => AnsweredOnce
    <2> SUFFICES ASSUME IInv, NEW id \in Ids \cup {NoId}
                 PROVE  Cardinality(Answers(id)) <= Cardinality(Noted(id))
        BY DEF AnsweredOnce
    <2>1. Cardinality(Answers(id)) + InCache(id) <= Cardinality(Noted(id))
        BY DEF IInv, Once
    <2>2. Cardinality(Answers(id)) \in Nat /\ Cardinality(Noted(id)) \in Nat
          /\ InCache(id) \in {0, 1}
        BY CountsAreFinite DEF InCache
    <2> QED
        BY <2>1, <2>2
<1> QED
    BY <1>1, Invariance, PTL

\* In generic mode too, the topic of a response that is forwarded names the device
\* segment of the topic of its command.
THEOREM AnswerFindsSender == Spec => []ReturnToSender
<1>1. IInv => ReturnToSender
    BY DEF IInv, Sender, ReturnToSender
<1> QED
    BY <1>1, Invariance, PTL

\* Only the first half of HandleResponse ignores an answer, and then the id is not
\* in the cache.
LEMMA IgnoredIsGone ==
    ASSUME IInv, Next, NEW r \in Requests, NEW f \in Forms,
           copy[r][f] = "answered", copy'[r][f] = "ignored"
    PROVE  req[r].id \notin DOMAIN pending
<1> USE DEF IInv
<1>1. ASSUME NEW q \in Requests, NEW g \in Forms, NEW state \in Copies, Becomes(q, g, state),
             state # "ignored"
      PROVE  FALSE
    <2>1. q # r \/ g # f => copy'[r][f] = copy[r][f]
        BY <1>1, BecomesOther
    <2>2. copy'[q][g] = state
        BY <1>1, BecomesOther
    <2> QED
        BY <1>1, <2>1, <2>2
<1>2. {"answered", "accepted", "ignored", "forwarded", "rejected"} \subseteq Copies
    BY DEF Copies
<1>3. ASSUME NEW q \in Requests, NEW g \in Forms, Answer(q, g) \/ ResponsePublish(q, g)
      PROVE  FALSE
    BY <1>1, <1>2, <1>3 DEF Answer, ResponsePublish
<1>4. ASSUME NEW q \in Requests, NEW g \in Forms, ResponseRemove(q, g)
      PROVE  req[r].id \notin DOMAIN pending
    <2>1. Becomes(q, g, "ignored") /\ req[q].id \notin DOMAIN pending
        BY <1>1, <1>2, <1>4 DEF ResponseRemove
    <2>2. q # r \/ g # f => copy'[r][f] = copy[r][f]
        BY <1>2, <2>1, BecomesOther
    <2> QED
        BY <2>1, <2>2
<1>5. ASSUME NEW q \in Requests, RequestPublish(q)
      PROVE  FALSE
    BY <1>5 DEF RequestPublish, TypeOK
<1>6. ASSUME UNCHANGED copy
      PROVE  FALSE
    BY <1>6
<1>7. Step
    BY DEF Next
<1>8. CASE \E q \in Requests :
              \E id \in Ids \cup {NoId}, seg \in Segments, t \in Timeouts : Deliver(q, id, seg, t)
    BY <1>6, <1>8 DEF Deliver
<1>9. CASE \E q \in Requests : HandleRequest(q)
    BY <1>5, <1>6, <1>9 DEF HandleRequest, RequestCache
<1>10. CASE \E q \in Requests, g \in Forms : Answer(q, g) \/ HandleResponse(q, g)
    BY <1>3, <1>4, <1>10 DEF HandleResponse
<1>11. CASE (\E id \in Ids : Expire(id)) \/ Tick
    BY <1>6, <1>11 DEF Expire, Tick
<1> QED
    BY <1>7, <1>8, <1>9, <1>10, <1>11 DEF Step

\* What a step does that ignores an answer.
InTimeStep ==
    \A r \in Requests, f \in Forms :
        (copy[r][f] = "answered" /\ copy'[r][f] = "ignored" /\ now <= req[r].deadline
            /\ req[r].deadline > 0)
          => Answers(req[r].id) # {}

\* Up to the deadline of its command an answer is ignored only if another one was
\* taken: the command was noted before it was published, it cannot have expired,
\* and a second delivery of it has put the expiry off.
THEOREM InTimeNotIgnored == Spec => InTimeAccepted
<1>1. IInv /\ [Next]_vars => [InTimeStep]_vars
    <2> SUFFICES ASSUME IInv, Next PROVE InTimeStep
        OBVIOUS
    <2> SUFFICES ASSUME NEW r \in Requests, NEW f \in Forms,
                        copy[r][f] = "answered", copy'[r][f] = "ignored",
                        now <= req[r].deadline, req[r].deadline > 0
                 PROVE  Answers(req[r].id) # {}
        BY DEF InTimeStep
    <2>1. req[r].id \notin DOMAIN pending
        BY IgnoredIsGone
    <2>2. now \in Nat /\ req[r].deadline \in Nat /\ KeptFor(r)
        BY BusAssumption DEF IInv, TypeOK, Kept
    <2> QED
        BY <2>1, <2>2 DEF KeptFor
<1> QED
    BY <1>1, Invariance, PTL DEF Spec, InTimeAccepted, InTimeStep
=============================================================================
