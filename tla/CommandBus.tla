------------------------------ MODULE CommandBus ------------------------------
(***************************************************************************)
(* The command buses (routing/commands.go): a command of the hub is noted  *)
(* in the cache by its correlation id and published to the local broker on *)
(* its long and on its short topic; the response of a device is passed on  *)
(* to the hub if its correlation id is in the cache, from which it is      *)
(* removed.  The messages of the hub are buffered, and the router          *)
(* (external) handles every message in a goroutine of its own, so that     *)
(* nothing orders one handler with respect to another.                     *)
(*                                                                         *)
(* The steps of a handler are its operation on the cache and its           *)
(* publication.  The cache is used as PendingCommands specifies it.  Time  *)
(* is in units of which the slack that HandleRequest adds is one.  A       *)
(* payload that is no command is dropped without any effect and left out.  *)
(***************************************************************************)
EXTENDS Integers, FiniteSets, Sequences, SequencesExt

CONSTANTS
    Modes,           \* the modes looked at: generic, in which a topic names the gateway, or not
    Characters,      \* what ids and topics consist of, the colon included
    Gateway,         \* the gateway id, a sequence of characters
    Segments,        \* the device segments of hub topics
    Ids,             \* correlation ids
    NoId,            \* the absent correlation id
    Timeouts,        \* the timeout headers; what is no number is negative
    BareUnit,        \* the timeout header that is a unit without a number
    DefaultTimeout,  \* the timeout of a header that cannot be used
    TimeoutLimit,    \* the timeout a header has to stay below
    Requests,        \* deliveries of commands; a command may be delivered twice
    MaxTime          \* bound: the clock stops here

ASSUME BusAssumption ==
    /\ Modes \subseteq BOOLEAN
    /\ ":" \in Characters /\ Gateway \in Seq(Characters) /\ Segments \subseteq Seq(Characters)
    /\ NoId \notin Ids
    /\ IsFiniteSet(Requests)
    /\ Timeouts \subseteq Int \cup {BareUnit}
    /\ DefaultTimeout \in Nat /\ TimeoutLimit \in Nat /\ MaxTime \in Nat

Forms == {"long", "short"}

VARIABLES
    generic,         \* the mode, a setting of the launch
    now,             \* the clock
    pending,         \* the cache
    req,             \* delivery -> its id, device segment, timeout header and deadline
    rpc,             \* delivery -> where its handler is
    copy,            \* delivery -> form -> what became of this copy of the command
    answerTo         \* delivery -> form -> the device the answer names

reqVars == <<req, rpc>>
vars == <<generic, now, pending, reqVars, copy, answerTo>>

Cache == INSTANCE PendingCommands WITH Keys <- Ids, Callers <- {}, TTLs <- Nat, calls <- <<>>

NoRequest == [id |-> NoId, seg |-> <<>>, timeout |-> 0, deadline |-> 0]
Panics == -1

TypeOK ==
    /\ generic \in BOOLEAN
    /\ now \in 0..MaxTime
    /\ DOMAIN pending \subseteq Ids
    /\ \A id \in DOMAIN pending : pending[id].expTime \in Nat /\ pending[id].ttl \in Nat
    /\ req \in [Requests -> [id : Ids \cup {NoId}, seg : Seq(Characters),
                             timeout : Int \cup {BareUnit}, deadline : Nat]]
    /\ rpc \in [Requests -> {"none", "cache", "publish", "done", "failed"}]
    /\ copy \in [Requests -> [Forms -> {"none", "published", "answered", "accepted",
                                        "ignored", "forwarded", "rejected"}]]
    /\ answerTo \in [Requests -> [Forms -> Seq(Characters)]]

Init ==
    /\ generic \in Modes
    /\ now = 0
    /\ pending = <<>>
    /\ req = [r \in Requests |-> NoRequest]
    /\ rpc = [r \in Requests |-> "none"]
    /\ copy = [r \in Requests |-> [f \in Forms |-> "none"]]
    /\ answerTo = [r \in Requests |-> [f \in Forms |-> <<>>]]

-----------------------------------------------------------------------------
(* Topics and headers *)

\* The local device id of a segment of a hub topic: gateway:segment, or nothing.
fixCommand(seg) == IF seg = <<>> THEN <<>> ELSE Gateway \o <<":">> \o seg

LocalDevice(seg) == IF generic THEN fixCommand(seg) ELSE seg

\* The segment of a local device id, which has to begin with the gateway id; the
\* character after it is taken for the colon.
Strippable(device) == IsPrefix(Gateway, device)

\* Mutant: the colon stays.
stripGatewayID_Colon(device) == SubSeq(device, Len(Gateway) + 1, Len(device))

stripGatewayID(device) ==
    IF Len(device) <= Len(Gateway) + 1 THEN <<>> ELSE SubSeq(device, Len(Gateway) + 2, Len(device))

\* Seconds, minutes or milliseconds from 0 to below an hour, else a minute.  A
\* unit alone is indexed before its first character.
ParseTimeout(t) ==
    IF t = BareUnit THEN Panics
    ELSE IF t \in 0..(TimeoutLimit - 1) THEN t ELSE DefaultTimeout

-----------------------------------------------------------------------------
(* HandleRequest *)

\* External: the hub delivers a command; with the same id it is the same command again.
Deliver(r, id, seg, timeout) ==
    /\ rpc[r] = "none"
    /\ \A q \in Requests : (rpc[q] # "none" /\ id # NoId /\ req[q].id = id) =>
                            (req[q].seg = seg /\ req[q].timeout = timeout)
    /\ req' = [req EXCEPT ![r] = [id |-> id, seg |-> seg, timeout |-> timeout, deadline |-> 0]]
    /\ rpc' = [rpc EXCEPT ![r] = "cache"]
    /\ UNCHANGED <<now, pending, copy, answerTo>>

\* The command is noted unless it has no correlation id or expects no response.
RequestCache(r) ==
    LET timeout == ParseTimeout(req[r].timeout)
    IN  /\ rpc[r] = "cache"
        /\ \/ /\ req[r].id = NoId
              /\ rpc' = [rpc EXCEPT ![r] = "publish"]
              /\ UNCHANGED <<pending, req>>
           \/ /\ req[r].id # NoId /\ timeout = Panics
              /\ rpc' = [rpc EXCEPT ![r] = "failed"]
              /\ UNCHANGED <<pending, req>>
           \/ /\ req[r].id # NoId /\ timeout = 0
              /\ rpc' = [rpc EXCEPT ![r] = "publish"]
              /\ UNCHANGED <<pending, req>>
           \/ /\ req[r].id # NoId /\ timeout > 0
              /\ now + timeout + 1 < MaxTime
              /\ Cache!Insert(req[r].id, timeout + 1)
              /\ req' = [req EXCEPT ![r].deadline = now + timeout + 1]
              /\ rpc' = [rpc EXCEPT ![r] = "publish"]
        /\ UNCHANGED <<now, copy, answerTo>>

\* On command//<deviceId>/req/<suffix> and on c//<deviceId>/q/<suffix>
RequestPublish(r) ==
    /\ rpc[r] = "publish"
    /\ rpc' = [rpc EXCEPT ![r] = "done"]
    /\ copy' = [copy EXCEPT ![r] = [f \in Forms |-> "published"]]
    /\ UNCHANGED <<now, pending, req, answerTo>>

\* Mutant: the command is published before it is noted.
HandleRequest_PublishFirst(r) ==
    \/ RequestCache(r) /\ copy[r]["long"] # "none"
    \/ /\ rpc[r] = "cache" /\ copy[r]["long"] = "none"
       /\ copy' = [copy EXCEPT ![r] = [f \in Forms |-> "published"]]
       /\ req' = [req EXCEPT ![r].deadline = IF req[r].id # NoId THEN now + 1 ELSE 0]
       /\ UNCHANGED <<now, pending, rpc, answerTo>>

HandleRequest(r) == RequestCache(r) \/ RequestPublish(r)

-----------------------------------------------------------------------------
(* HandleResponse *)

Becomes(r, f, state) == copy' = [copy EXCEPT ![r][f] = state]

\* External: a device that is subscribed to this form of the topic answers on
\* the corresponding response topic.
Answer(r, f) ==
    /\ copy[r][f] = "published"
    /\ Becomes(r, f, "answered")
    /\ answerTo' = [answerTo EXCEPT ![r][f] = LocalDevice(req[r].seg)]
    /\ UNCHANGED <<now, pending, reqVars>>

\* Mutant: the id is looked up and stays.
ResponseRemove_Get(r, f) ==
    /\ copy[r][f] = "answered"
    /\ Becomes(r, f, IF req[r].id \in DOMAIN pending THEN "accepted" ELSE "ignored")
    /\ UNCHANGED <<now, pending, reqVars, answerTo>>

ResponseRemove(r, f) ==
    /\ copy[r][f] = "answered"
    /\ \/ /\ Cache!Delete(req[r].id)
          /\ Becomes(r, f, "accepted")
       \/ /\ req[r].id \notin DOMAIN pending
          /\ Becomes(r, f, "ignored")
          /\ UNCHANGED pending
    /\ UNCHANGED <<now, reqVars, answerTo>>

\* The hub topic of the response; in generic mode it may turn out that there is none.
ResponsePublish(r, f) ==
    /\ copy[r][f] = "accepted"
    /\ \/ /\ generic /\ ~Strippable(answerTo[r][f])
          /\ Becomes(r, f, "rejected")
          /\ UNCHANGED answerTo
       \/ /\ generic /\ Strippable(answerTo[r][f])
          /\ Becomes(r, f, "forwarded")
          /\ answerTo' = [answerTo EXCEPT ![r][f] = stripGatewayID(@)]
       \/ /\ ~generic
          /\ Becomes(r, f, "forwarded")
          /\ UNCHANGED answerTo
    /\ UNCHANGED <<now, pending, reqVars>>

HandleResponse(r, f) == ResponseRemove(r, f) \/ ResponsePublish(r, f)

-----------------------------------------------------------------------------
Expire(id) == Cache!Expire(id) /\ UNCHANGED <<reqVars, copy, answerTo>>

Tick ==
    /\ now < MaxTime
    /\ now' = now + 1
    /\ UNCHANGED <<pending, reqVars, copy, answerTo>>

Step ==
    \/ \E r \in Requests :
        \/ \E id \in Ids \cup {NoId}, seg \in Segments, t \in Timeouts : Deliver(r, id, seg, t)
        \/ HandleRequest(r)
        \/ \E f \in Forms : Answer(r, f) \/ HandleResponse(r, f)
    \/ \E id \in Ids : Expire(id)
    \/ Tick

Next == Step /\ UNCHANGED generic

Spec == Init /\ [][Next]_vars

-----------------------------------------------------------------------------
Taken == {"accepted", "forwarded", "rejected"}

\* The deliveries of an id that were noted, and the answers that were taken.
Noted(id) == {r \in Requests : req[r].id = id /\ req[r].deadline > 0}
Answers(id) == {x \in Requests \X Forms : req[x[1]].id = id /\ copy[x[1]][x[2]] \in Taken}

\* A command is answered at most once: a device that hears both copies and answers
\* each has one answer passed on, and a command that expects none has none.
AnsweredOnce ==
    \A id \in Ids \cup {NoId} : Cardinality(Answers(id)) <= Cardinality(Noted(id))

\* An answer that comes before the deadline of its command is ignored only if
\* another answer with this id was taken: however the handlers interleave, the
\* command is in the cache before a device can know of it.
InTimeAccepted ==
    [][\A r \in Requests, f \in Forms :
          (copy[r][f] = "answered" /\ copy'[r][f] = "ignored" /\ now <= req[r].deadline
              /\ req[r].deadline > 0)
            => Answers(req[r].id) # {}]_vars

\* A response that is passed on reaches the topic its command came from.
ReturnToSender ==
    \A r \in Requests, f \in Forms : copy[r][f] = "forwarded" => answerTo[r][f] = req[r].seg

\* The answer a device gives on the response topic of the command it got can be
\* passed on.
ReplyIsRoutable == \A r \in Requests, f \in Forms : copy[r][f] # "rejected"
=============================================================================
