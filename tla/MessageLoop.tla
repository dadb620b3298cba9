----------------------------- MODULE MessageLoop -----------------------------
(***************************************************************************)
(* A subscriber and its message loops (connector/subscriber.go and         *)
(* wrapper.go).  Subscribe creates a loop: the MQTT client calls its       *)
(* handler for each message, the handler passes the message on to the      *)
(* router over the channel out and waits until it is acknowledged; a       *)
(* goroutine waits for Close or for the end of the context, and then       *)
(* unsubscribes and closes out.  Sending on a closed channel would panic.  *)
(* The buffered subscriber waits for no ack; the dynamic one connects a    *)
(* client of its own for each loop before the loop runs.                   *)
(*                                                                         *)
(* The client dispatches the messages of a connection in one goroutine;    *)
(* one of an earlier connection may still be in a handler, therefore there *)
(* are several dispatchers.  The router (external) takes a message as soon *)
(* as it is offered and handles it in a goroutine of its own.              *)
(***************************************************************************)
EXTENDS Naturals, FiniteSets

CONSTANTS
    Loops,        \* the loops of one subscriber, one per Subscribe
    Dispatchers,  \* goroutines of the MQTT client that call handlers
    Closers,      \* goroutines that call Close
    Kinds,        \* the kinds of subscriber: "plain", "buffered", "dynamic"
    BuffSize,     \* capacity of out of the buffered one
    MaxOrphans    \* bound: where the count of abandoned messages in work stops

ASSUME LoopAssumption ==
    /\ Kinds \subseteq {"plain", "buffered", "dynamic"}
    /\ BuffSize \in Nat
    /\ MaxOrphans \in Nat
    /\ "none" \notin Dispatchers /\ "loop" \notin Dispatchers

VARIABLES
    kind,         \* which subscriber it is
    closed,       \* wrapper.closed
    closing,      \* wrapper.closing is closed
    closer,       \* closer -> "idle", "close", "wait" or "returned"
    lpc,          \* loop -> where Subscribe, then the goroutine of runMessageLoop, is
    topicClosed,  \* messageloop.topicClosed
    routed,       \* the MQTT client has a route to the handler
    lock,         \* who holds messageloop.processMessage
    ctxDone,      \* the context of Subscribe has ended
    outClosed,    \* messageloop.out is closed
    buffered,     \* number of messages in out
    consuming,    \* the router receives from out
    dpc,          \* dispatcher -> where it is in the handler
    dloop,        \* the loop whose handler it runs
    working,      \* dispatchers whose message is being handled, not yet acked
    orphans,      \* loop -> messages being handled that nobody waits for
    timedOut      \* history: some handler of the loop stopped waiting for an ack

closeVars == <<kind, closed, closing, closer>>
loopVars == <<lpc, topicClosed, routed, ctxDone, outClosed>>
routerVars == <<buffered, consuming, working, orphans, timedOut>>
dispatchVars == <<dpc, dloop>>
vars == <<closeVars, loopVars, lock, routerVars, dispatchVars>>

\* The loops processWg counts.
Counted ==
    {l \in Loops : lpc[l] \in {"connect", "select", "stop", "lock", "locked", "close", "clean"}}

\* The capacity of out; a handler that sends on a buffered channel acks at once.
Capacity == IF kind = "buffered" THEN BuffSize ELSE 0

TypeOK ==
    /\ kind \in Kinds
    /\ closed \in BOOLEAN /\ closing \in BOOLEAN
    /\ closer \in [Closers -> {"idle", "close", "wait", "returned"}]
    /\ lpc \in [Loops -> {"none", "subscribe", "connect", "refused", "done",
                          "select", "stop", "lock", "locked", "close", "clean"}]
    /\ topicClosed \in [Loops -> BOOLEAN]
    /\ routed \in [Loops -> BOOLEAN]
    /\ lock \in [Loops -> Dispatchers \cup {"none", "loop"}]
    /\ ctxDone \in [Loops -> BOOLEAN]
    /\ outClosed \in [Loops -> BOOLEAN]
    /\ buffered \in [Loops -> 0..Capacity]
    /\ consuming \in [Loops -> BOOLEAN]
    /\ dpc \in [Dispatchers -> {"idle", "lock", "check", "send", "wait", "unlock", "panicked"}]
    /\ dloop \in [Dispatchers -> Loops \cup {"none"}]
    /\ \A d \in Dispatchers : dpc[d] # "idle" => dloop[d] \in Loops
    /\ working \in SUBSET Dispatchers
    /\ orphans \in [Loops -> 0..MaxOrphans]
    /\ timedOut \in [Loops -> BOOLEAN]

Init ==
    /\ kind \in Kinds
    /\ closed = FALSE /\ closing = FALSE
    /\ closer = [x \in Closers |-> "idle"]
    /\ lpc = [l \in Loops |-> "none"]
    /\ topicClosed = [l \in Loops |-> FALSE]
    /\ routed = [l \in Loops |-> FALSE]
    /\ lock = [l \in Loops |-> "none"]
    /\ ctxDone = [l \in Loops |-> FALSE]
    /\ outClosed = [l \in Loops |-> FALSE]
    /\ buffered = [l \in Loops |-> 0]
    /\ consuming = [l \in Loops |-> FALSE]
    /\ dpc = [d \in Dispatchers |-> "idle"]
    /\ dloop = [d \in Dispatchers |-> "none"]
    /\ working = {}
    /\ orphans = [l \in Loops |-> 0]
    /\ timedOut = [l \in Loops |-> FALSE]

\* The count of orphans stops at its bound.
OneMore(n) == IF n < MaxOrphans THEN n + 1 ELSE n

Become(pc, d, s) == pc' = [pc EXCEPT ![d] = s]

-----------------------------------------------------------------------------
(* Subscribe and Close *)

\* isClosed
SubscribeCheck(l) ==
    /\ lpc[l] = "none"
    /\ Become(lpc, l, IF closed THEN "refused" ELSE "subscribe")
    /\ UNCHANGED <<closeVars, topicClosed, routed, ctxDone, outClosed, lock,
                   routerVars, dispatchVars>>

\* processWg.Add, subscribe and the start of the loop's goroutine
SubscribeStart(l) ==
    /\ lpc[l] = "subscribe" /\ kind # "dynamic"
    /\ Become(lpc, l, "select")
    /\ routed' = [routed EXCEPT ![l] = TRUE]
    /\ UNCHANGED <<closeVars, topicClosed, ctxDone, outClosed, lock, routerVars, dispatchVars>>

\* The dynamic subscriber: processWg.Add, then Connect with the handler set
DynamicConnect(l) ==
    /\ lpc[l] = "subscribe" /\ kind = "dynamic"
    /\ Become(lpc, l, "connect")
    /\ UNCHANGED <<closeVars, topicClosed, routed, ctxDone, outClosed, lock, routerVars, dispatchVars>>

\* External: the client is connected and may call the handler.
DynamicConnected(l) ==
    /\ lpc[l] = "connect" /\ ~routed[l]
    /\ routed' = [routed EXCEPT ![l] = TRUE]
    /\ UNCHANGED <<closeVars, lpc, topicClosed, ctxDone, outClosed, lock, routerVars, dispatchVars>>

\* SubscribeMultiple and the start of the loop's goroutine
DynamicStart(l) ==
    /\ lpc[l] = "connect" /\ routed[l]
    /\ Become(lpc, l, "select")
    /\ UNCHANGED <<closeVars, topicClosed, routed, ctxDone, outClosed, lock, routerVars, dispatchVars>>

\* The token has an error: loop.close and processWg.Done
DynamicFailed(l) ==
    /\ lpc[l] = "connect" /\ ~routed[l]
    /\ outClosed' = [outClosed EXCEPT ![l] = TRUE]
    /\ Become(lpc, l, "refused")
    /\ UNCHANGED <<closeVars, topicClosed, routed, ctxDone, lock, routerVars, dispatchVars>>

DynamicSubscribe(l) ==
    DynamicConnect(l) \/ DynamicConnected(l) \/ DynamicStart(l) \/ DynamicFailed(l)

\* doClose: only the first caller goes on, the others return at once
CloseBegin(x) ==
    /\ closer[x] = "idle"
    /\ Become(closer, x, IF closed THEN "returned" ELSE "close")
    /\ closed' = TRUE
    /\ UNCHANGED <<kind, closing, loopVars, lock, routerVars, dispatchVars>>

CloseClosing(x) ==
    /\ closer[x] = "close"
    /\ closing' = TRUE
    /\ Become(closer, x, "wait")
    /\ UNCHANGED <<kind, closed, loopVars, lock, routerVars, dispatchVars>>

\* processWg.Wait
CloseWait(x) ==
    /\ closer[x] = "wait"
    /\ Counted = {}
    /\ Become(closer, x, "returned")
    /\ UNCHANGED <<kind, closed, closing, loopVars, lock, routerVars, dispatchVars>>

\* The router ends the context it has subscribed with.
CancelContext(l) ==
    /\ l \in Counted /\ ~ctxDone[l]
    /\ ctxDone' = [ctxDone EXCEPT ![l] = TRUE]
    /\ UNCHANGED <<closeVars, lpc, topicClosed, routed, outClosed, lock, routerVars, dispatchVars>>

-----------------------------------------------------------------------------
(* runMessageLoop *)

\* Mutant: the context is not watched.
LoopSelect_NoContext(l) ==
    /\ lpc[l] = "select"
    /\ closing
    /\ topicClosed' = [topicClosed EXCEPT ![l] = TRUE]
    /\ Become(lpc, l, "stop")
    /\ UNCHANGED <<closeVars, routed, ctxDone, outClosed, lock, routerVars, dispatchVars>>

LoopSelect(l) ==
    /\ lpc[l] = "select"
    /\ closing \/ ctxDone[l]
    /\ topicClosed' = [topicClosed EXCEPT ![l] = TRUE]
    /\ Become(lpc, l, "stop")
    /\ UNCHANGED <<closeVars, routed, ctxDone, outClosed, lock, routerVars, dispatchVars>>

\* Mutant: the goroutine does not take the lock before it closes out.
LoopStop_NoLock(l) ==
    /\ lpc[l] = "stop"
    /\ routed' = [routed EXCEPT ![l] = FALSE]
    /\ Become(lpc, l, "close")
    /\ UNCHANGED <<closeVars, topicClosed, ctxDone, outClosed, lock, routerVars, dispatchVars>>

\* stopper: the subscription ends
LoopStop(l) ==
    /\ lpc[l] = "stop"
    /\ routed' = [routed EXCEPT ![l] = FALSE]
    /\ Become(lpc, l, "lock")
    /\ UNCHANGED <<closeVars, topicClosed, ctxDone, outClosed, lock, routerVars, dispatchVars>>

LoopLock(l) ==
    /\ lpc[l] = "lock" /\ lock[l] = "none"
    /\ lock' = [lock EXCEPT ![l] = "loop"]
    /\ Become(lpc, l, "locked")
    /\ UNCHANGED <<closeVars, topicClosed, routed, ctxDone, outClosed, routerVars, dispatchVars>>

LoopUnlock(l) ==
    /\ lpc[l] = "locked"
    /\ topicClosed' = [topicClosed EXCEPT ![l] = TRUE]
    /\ lock' = [lock EXCEPT ![l] = "none"]
    /\ Become(lpc, l, "close")
    /\ UNCHANGED <<closeVars, routed, ctxDone, outClosed, routerVars, dispatchVars>>

close(l) ==
    /\ lpc[l] = "close"
    /\ outClosed' = [outClosed EXCEPT ![l] = TRUE]
    /\ Become(lpc, l, "clean")
    /\ UNCHANGED <<closeVars, topicClosed, routed, ctxDone, lock, routerVars, dispatchVars>>

\* cleaner: processWg.Done
LoopClean(l) ==
    /\ lpc[l] = "clean"
    /\ Become(lpc, l, "done")
    /\ UNCHANGED <<closeVars, topicClosed, routed, ctxDone, outClosed, lock, routerVars, dispatchVars>>

runMessageLoop(l) ==
    LoopSelect(l) \/ LoopStop(l) \/ LoopLock(l) \/ LoopUnlock(l) \/ close(l) \/ LoopClean(l)

-----------------------------------------------------------------------------
(* handler, called by the MQTT client *)

\* External: the client has matched a message with the route of the loop.
Deliver(d, l) ==
    /\ dpc[d] = "idle" /\ routed[l]
    /\ Become(dpc, d, "lock")
    /\ Become(dloop, d, l)
    /\ UNCHANGED <<closeVars, loopVars, lock, routerVars>>

\* Mutant: processMessage is not locked.
HandlerLock_NoMutex(d) ==
    /\ dpc[d] = "lock"
    /\ Become(dpc, d, "check")
    /\ UNCHANGED <<closeVars, loopVars, lock, routerVars, dloop>>

HandlerLock(d) ==
    /\ dpc[d] = "lock" /\ lock[dloop[d]] = "none"
    /\ lock' = [lock EXCEPT ![dloop[d]] = d]
    /\ Become(dpc, d, "check")
    /\ UNCHANGED <<closeVars, loopVars, routerVars, dloop>>

\* The topicClosed test, and Unmarshal, which may fail.
HandlerCheck(d) ==
    /\ dpc[d] = "check"
    /\ \/ topicClosed[dloop[d]] /\ Become(dpc, d, "unlock")
       \/ ~topicClosed[dloop[d]] /\ Become(dpc, d, "unlock")
       \/ ~topicClosed[dloop[d]] /\ Become(dpc, d, "send")
    /\ UNCHANGED <<closeVars, loopVars, lock, routerVars, dloop>>

\* out <- msg; without a buffer the router has to be receiving.
HandlerSend(d) ==
    LET l == dloop[d]
    IN  /\ dpc[d] = "send"
        /\ \/ /\ outClosed[l]
              /\ Become(dpc, d, "panicked")
              /\ UNCHANGED <<buffered, working>>
           \/ /\ ~outClosed[l] /\ Capacity > 0
              /\ buffered[l] < Capacity
              /\ buffered' = [buffered EXCEPT ![l] = @ + 1]
              /\ Become(dpc, d, "unlock")
              /\ UNCHANGED working
           \/ /\ ~outClosed[l] /\ Capacity = 0
              /\ consuming[l]
              /\ working' = working \cup {d}
              /\ Become(dpc, d, "wait")
              /\ UNCHANGED buffered
        /\ UNCHANGED <<closeVars, loopVars, lock, consuming, orphans, timedOut, dloop>>

\* Mutant: the handler does not watch closing while it offers the message.
HandlerSendClosing_Never(d) == FALSE

HandlerSendClosing(d) ==
    /\ dpc[d] = "send" /\ closing
    /\ Become(dpc, d, "unlock")
    /\ UNCHANGED <<closeVars, loopVars, lock, routerVars, dloop>>

\* The message was acked or nacked.
HandlerAcked(d) ==
    /\ dpc[d] = "wait" /\ d \notin working
    /\ Become(dpc, d, "unlock")
    /\ UNCHANGED <<closeVars, loopVars, lock, routerVars, dloop>>

\* The ack timeout, or closing: the handler returns while the message is in work.
HandlerGiveUp(d) ==
    LET l == dloop[d]
    IN  /\ dpc[d] = "wait" /\ d \in working
        /\ working' = working \ {d}
        /\ orphans' = [orphans EXCEPT ![l] = OneMore(@)]
        /\ timedOut' = [timedOut EXCEPT ![l] = TRUE]
        /\ Become(dpc, d, "unlock")
        /\ UNCHANGED <<closeVars, loopVars, lock, buffered, consuming, dloop>>

HandlerUnlock(d) ==
    /\ dpc[d] = "unlock"
    /\ lock' = [lock EXCEPT ![dloop[d]] = "none"]
    /\ Become(dpc, d, "idle")
    /\ Become(dloop, d, "none")
    /\ UNCHANGED <<closeVars, loopVars, routerVars>>

handler(d) ==
    \/ HandlerLock(d) \/ HandlerCheck(d) \/ HandlerSend(d) \/ HandlerSendClosing(d)
    \/ HandlerAcked(d) \/ HandlerGiveUp(d) \/ HandlerUnlock(d)

-----------------------------------------------------------------------------
(* External: the router *)

StartConsuming(l) ==
    /\ lpc[l] \notin {"none", "subscribe", "connect", "refused"} /\ ~consuming[l]
    /\ consuming' = [consuming EXCEPT ![l] = TRUE]
    /\ UNCHANGED <<closeVars, loopVars, lock, buffered, working, orphans, timedOut, dispatchVars>>

\* A buffered message has no handler that waits for it.
Receive(l) ==
    /\ consuming[l] /\ buffered[l] > 0
    /\ buffered' = [buffered EXCEPT ![l] = @ - 1]
    /\ orphans' = [orphans EXCEPT ![l] = OneMore(@)]
    /\ UNCHANGED <<closeVars, loopVars, lock, consuming, working, timedOut, dispatchVars>>

Ack(d) ==
    /\ d \in working
    /\ working' = working \ {d}
    /\ UNCHANGED <<closeVars, loopVars, lock, buffered, consuming, orphans, timedOut, dispatchVars>>

AckOrphan(l) ==
    /\ orphans[l] > 0
    /\ orphans' = [orphans EXCEPT ![l] = @ - 1]
    /\ UNCHANGED <<closeVars, loopVars, lock, buffered, consuming, working, timedOut, dispatchVars>>

Next ==
    \/ \E x \in Closers : CloseBegin(x) \/ CloseClosing(x) \/ CloseWait(x)
    \/ \E l \in Loops :
        \/ SubscribeCheck(l) \/ SubscribeStart(l) \/ DynamicSubscribe(l) \/ CancelContext(l)
        \/ runMessageLoop(l)
        \/ StartConsuming(l) \/ Receive(l) \/ AckOrphan(l)
        \/ \E d \in Dispatchers : Deliver(d, l)
    \/ \E d \in Dispatchers : handler(d) \/ Ack(d)

Spec == Init /\ [][Next]_vars

\* Goroutines that can run do.  A select whose case for closing or for the ack
\* timeout is ready leaves; the mutex serves a waiter even if it is taken again
\* and again.  The router that has begun to receive goes on; messages, the end of
\* the context and the call of Close need not come, and an ack may never come.  The
\* attempt of a dynamic subscriber to connect need not end either: its client retries
\* as long as the broker cannot be reached.
Fairness ==
    /\ \A l \in Loops :
        /\ WF_vars(SubscribeStart(l) \/ DynamicConnect(l) \/ DynamicStart(l))
        /\ WF_vars(LoopSelect(l) \/ LoopStop(l) \/ LoopUnlock(l) \/ close(l) \/ LoopClean(l))
        /\ SF_vars(LoopLock(l))
        /\ WF_vars(Receive(l))
    /\ \A d \in Dispatchers :
        /\ SF_vars(HandlerLock(d))
        /\ WF_vars(handler(d))
    /\ \A x \in Closers : WF_vars(CloseClosing(x) \/ CloseWait(x))

FairSpec == Spec /\ Fairness

-----------------------------------------------------------------------------
\* No handler sends on a closed channel: when out is closed, no handler is past
\* the topicClosed test and before the end of its select.
NoSendOnClosed ==
    \A d \in Dispatchers :
        /\ dpc[d] # "panicked"
        /\ dpc[d] = "send" => ~outClosed[dloop[d]]

\* Without a buffer the messages of a loop are handled one at a time, unless an
\* ack timed out or the subscriber is closing; the log handler keeps its list
\* without a lock on the strength of this.
OneAtATime ==
    Capacity = 0 =>
        \A l \in Loops : timedOut[l] \/
            Cardinality({d \in working : dloop[d] = l}) + orphans[l] <= 1

\* Close returns, whatever the router and the dispatchers are doing, unless a dynamic
\* subscriber tries to connect for ever: Close waits for a Subscribe that has begun.
CloseReturns ==
    (\A l \in Loops : []<>(lpc[l] # "connect")) =>
        \A x \in Closers : closer[x] # "idle" ~> closer[x] = "returned"

\* The end of the context ends the loop as long as the router receives.
ContextEndsLoop ==
    \A l \in Loops : (ctxDone[l] /\ consuming[l]) ~> lpc[l] = "done"
=============================================================================
