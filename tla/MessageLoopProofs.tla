-------------------------- MODULE MessageLoopProofs --------------------------
(***************************************************************************)
(* Proofs about MessageLoop, for any number of loops, dispatchers and      *)
(* callers of Close, and for each kind of subscriber.                      *)
(***************************************************************************)
EXTENDS MessageLoop, FiniteSetTheorems, TLAPS

\* The handler's critical section, and the part of it in which it may send.
InSection == {"check", "send", "wait", "unlock"}
Handing == {"send", "wait"}

\* processMessage is a mutex: whoever is in its critical section holds it.
Mutex ==
    /\ \A d \in Dispatchers : dpc[d] \in InSection => lock[dloop[d]] = d
    /\ \A l \in Loops : lpc[l] = "locked" => lock[l] = "loop"

\* topicClosed is set from the select of runMessageLoop on; once the goroutine
\* has had the lock, no handler can be between the test and the end of its wait.
ClosedSeen ==
    \A l \in Loops :
        /\ lpc[l] \in {"stop", "lock", "locked", "close", "clean", "done"} => topicClosed[l]
        /\ lpc[l] \in {"locked", "close", "clean", "done"} =>
             \A d \in Dispatchers : dloop[d] = l => dpc[d] \notin Handing
        /\ outClosed[l] => lpc[l] \in {"clean", "done", "refused"}

\* No client has a route to the loop yet, or none will ever have one.
Unconnected(l) == lpc[l] \in {"none", "subscribe", "refused"} \/ (lpc[l] = "connect" /\ ~routed[l])

\* Until a client is connected no handler of the loop runs: a loop that is given
\* up because the client cannot connect closes its channel without the lock.
Quiet ==
    \A l \in Loops : Unconnected(l) =>
        ~routed[l] /\ \A d \in Dispatchers : dloop[d] = l => dpc[d] = "idle"

\* A message in work has a handler that waits; without a buffer the others were
\* abandoned by a handler.
InWork ==
    /\ \A d \in working : dpc[d] = "wait"
    /\ Capacity = 0 => \A l \in Loops : timedOut[l] \/ orphans[l] = 0

NobodyPanicked == \A d \in Dispatchers : dpc[d] # "panicked"

IInv == TypeOK /\ Mutex /\ ClosedSeen /\ Quiet /\ InWork /\ NobodyPanicked

LEMMA InitIInv == Init => IInv
<1> SUFFICES ASSUME Init PROVE IInv
  OBVIOUS
<1>1. TypeOK
  <2>1. 0 \in 0..Capacity /\ 0 \in 0..MaxOrphans
    BY LoopAssumption DEF Capacity
  <2>2. buffered \in [Loops -> 0..Capacity] /\ orphans \in [Loops -> 0..MaxOrphans]
    BY <2>1 DEF Init
  <2>3. /\ closer \in [Closers -> {"idle", "close", "wait", "returned"}]
        /\ lpc \in [Loops -> {"none", "subscribe", "connect", "refused", "done",
                              "select", "stop", "lock", "locked", "close", "clean"}]
        /\ dpc \in [Dispatchers -> {"idle", "lock", "check", "send", "wait", "unlock", "panicked"}]
    BY DEF Init
  <2>4. /\ lock \in [Loops -> Dispatchers \cup {"none", "loop"}]
        /\ dloop \in [Dispatchers -> Loops \cup {"none"}]
    BY DEF Init
  <2>5. /\ kind \in Kinds
        /\ closed \in BOOLEAN /\ closing \in BOOLEAN
        /\ topicClosed \in [Loops -> BOOLEAN] /\ routed \in [Loops -> BOOLEAN]
        /\ ctxDone \in [Loops -> BOOLEAN] /\ outClosed \in [Loops -> BOOLEAN]
        /\ consuming \in [Loops -> BOOLEAN] /\ timedOut \in [Loops -> BOOLEAN]
    BY DEF Init
  <2>6. \A d \in Dispatchers : dpc[d] = "idle"
    BY DEF Init
  <2>7. working \in SUBSET Dispatchers
    BY DEF Init
  <2>8. QED
    BY <2>2, <2>3, <2>4, <2>5, <2>6, <2>7 DEF TypeOK
<1>2. Mutex /\ InWork /\ NobodyPanicked
  BY DEF Init, Mutex, InWork, NobodyPanicked, InSection
<1>3. ClosedSeen /\ Quiet
  BY DEF Init, ClosedSeen, Quiet
<1>4. QED
  BY <1>1, <1>2, <1>3 DEF IInv

\* Subscribe, Close and the end of the context.
LEMMA OuterStep ==
    ASSUME IInv,
           \/ \E x \in Closers : CloseBegin(x) \/ CloseClosing(x) \/ CloseWait(x)
           \/ \E l \in Loops : SubscribeCheck(l) \/ SubscribeStart(l)
                               \/ CancelContext(l) \/ DynamicSubscribe(l)
    PROVE  IInv'
<1>1. ASSUME NEW x \in Closers, CloseBegin(x) \/ CloseClosing(x) \/ CloseWait(x)
      PROVE  IInv'
  <2>1. TypeOK'
    BY <1>1 DEF IInv, TypeOK, Capacity, CloseBegin, CloseClosing, CloseWait, Become,
                loopVars, routerVars, dispatchVars
  <2>2. (Mutex /\ ClosedSeen /\ Quiet /\ InWork /\ NobodyPanicked)'
    BY <1>1 DEF IInv, Mutex, ClosedSeen, Quiet, Unconnected, InWork, NobodyPanicked,
                CloseBegin, CloseClosing,
                CloseWait, loopVars, routerVars, dispatchVars, Capacity, closeVars
  <2>3. QED
    BY <2>1, <2>2 DEF IInv
<1>2. ASSUME NEW l \in Loops, SubscribeCheck(l) \/ SubscribeStart(l)
                              \/ CancelContext(l) \/ DynamicSubscribe(l)
      PROVE  IInv'
  <2>1. TypeOK'
    <3>1. CASE SubscribeCheck(l)
      BY <3>1 DEF IInv, TypeOK, Capacity, SubscribeCheck, Become, closeVars, routerVars,
                  dispatchVars
    <3>2. CASE SubscribeStart(l)
      BY <3>2 DEF IInv, TypeOK, Capacity, SubscribeStart, Become, closeVars, routerVars,
                  dispatchVars
    <3>3. CASE CancelContext(l)
      BY <3>3 DEF IInv, TypeOK, Capacity, CancelContext, Become, closeVars, routerVars,
                  dispatchVars
    <3>4. CASE DynamicSubscribe(l)
      <4>1. CASE DynamicConnect(l) \/ DynamicStart(l)
        BY <4>1 DEF IInv, TypeOK, Capacity, DynamicConnect, DynamicStart, Become,
                    closeVars, routerVars, dispatchVars
      <4>2. CASE DynamicConnected(l)
        BY <4>2 DEF IInv, TypeOK, Capacity, DynamicConnected, closeVars, routerVars,
                    dispatchVars
      <4>3. CASE DynamicFailed(l)
        BY <4>3 DEF IInv, TypeOK, Capacity, DynamicFailed, Become,
                    closeVars, routerVars, dispatchVars
      <4>4. QED
        BY <3>4, <4>1, <4>2, <4>3 DEF DynamicSubscribe
    <3>5. QED
      BY <1>2, <3>1, <3>2, <3>3, <3>4
  <2>2. (Mutex /\ InWork /\ NobodyPanicked)'
    BY <1>2 DEF IInv, TypeOK, Mutex, InWork, NobodyPanicked, SubscribeCheck, SubscribeStart,
                CancelContext, DynamicSubscribe, DynamicConnect, DynamicConnected, DynamicStart,
                DynamicFailed, Become, Capacity, closeVars, routerVars, dispatchVars
  <2>3. (ClosedSeen /\ Quiet)'
    BY <1>2 DEF IInv, TypeOK, ClosedSeen, Quiet, Unconnected, SubscribeCheck, SubscribeStart,
                CancelContext, DynamicSubscribe, DynamicConnect, DynamicConnected, DynamicStart,
                DynamicFailed, Become, dispatchVars
  <2>4. QED
    BY <2>1, <2>2, <2>3 DEF IInv
<1>3. QED
  BY <1>1, <1>2

\* The goroutine of runMessageLoop.
LEMMA LoopStep ==
    ASSUME IInv, NEW l \in Loops, runMessageLoop(l)
    PROVE  IInv'
<1> USE DEF Become
<1>1. CASE LoopSelect(l)
  BY <1>1 DEF IInv, TypeOK, Capacity, Mutex, ClosedSeen, Quiet, Unconnected, InWork,
              NobodyPanicked, LoopSelect,
              closeVars, routerVars, dispatchVars
<1>2. CASE LoopStop(l)
  BY <1>2 DEF IInv, TypeOK, Capacity, Mutex, ClosedSeen, Quiet, Unconnected, InWork,
              NobodyPanicked, LoopStop,
              closeVars, routerVars, dispatchVars
<1>3. CASE LoopLock(l)
  <2>1. TypeOK'
    BY <1>3 DEF IInv, TypeOK, Capacity, LoopLock, closeVars, routerVars, dispatchVars
  <2>2. \A d \in Dispatchers : dloop[d] = l => dpc[d] \notin InSection
    BY <1>3, LoopAssumption DEF IInv, Mutex, LoopLock
  <2>3. Mutex'
    BY <1>3, <2>2 DEF IInv, TypeOK, Mutex, LoopLock, dispatchVars, InSection
  <2>4. (ClosedSeen /\ Quiet)'
    BY <1>3, <2>2 DEF IInv, TypeOK, ClosedSeen, Quiet, Unconnected, LoopLock, dispatchVars,
                      InSection, Handing
  <2>5. (InWork /\ NobodyPanicked)'
    BY <1>3 DEF IInv, InWork, NobodyPanicked, LoopLock, routerVars, dispatchVars, Capacity,
                closeVars
  <2>6. QED
    BY <2>1, <2>3, <2>4, <2>5 DEF IInv
<1>4. CASE LoopUnlock(l)
  <2>1. TypeOK'
    BY <1>4 DEF IInv, TypeOK, Capacity, LoopUnlock, closeVars, routerVars, dispatchVars
  <2>2. lock[l] = "loop" /\ \A d \in Dispatchers : d # "loop"
    BY <1>4, LoopAssumption DEF IInv, Mutex, LoopUnlock
  <2>3. Mutex'
    BY <1>4, <2>2 DEF IInv, TypeOK, Mutex, LoopUnlock, dispatchVars, InSection
  <2>4. (ClosedSeen /\ Quiet)'
    BY <1>4 DEF IInv, TypeOK, ClosedSeen, Quiet, Unconnected, LoopUnlock, dispatchVars
  <2>5. (InWork /\ NobodyPanicked)'
    BY <1>4 DEF IInv, InWork, NobodyPanicked, LoopUnlock, routerVars, dispatchVars, Capacity,
                closeVars
  <2>6. QED
    BY <2>1, <2>3, <2>4, <2>5 DEF IInv
<1>5. CASE close(l)
  BY <1>5 DEF IInv, TypeOK, Capacity, Mutex, ClosedSeen, Quiet, Unconnected, InWork,
              NobodyPanicked, close,
              closeVars, routerVars, dispatchVars
<1>6. CASE LoopClean(l)
  BY <1>6 DEF IInv, TypeOK, Capacity, Mutex, ClosedSeen, Quiet, Unconnected, InWork,
              NobodyPanicked, LoopClean,
              closeVars, routerVars, dispatchVars
<1>7. QED
  BY <1>1, <1>2, <1>3, <1>4, <1>5, <1>6 DEF runMessageLoop

\* The handler, called by a dispatcher.
LEMMA HandlerStep ==
    ASSUME IInv, NEW d \in Dispatchers, handler(d) \/ \E l \in Loops : Deliver(d, l)
    PROVE  IInv'
<1> USE DEF Become
<1>1. ASSUME NEW l \in Loops, Deliver(d, l)
      PROVE  IInv'
  <2>1. TypeOK'
    BY <1>1 DEF IInv, TypeOK, Capacity, Deliver, closeVars, loopVars, routerVars
  <2>2. (Mutex /\ InWork /\ NobodyPanicked)'
    BY <1>1 DEF IInv, TypeOK, Mutex, InWork, NobodyPanicked, Deliver, loopVars, routerVars,
                InSection, Capacity, closeVars
  <2>3. (ClosedSeen /\ Quiet)'
    BY <1>1 DEF IInv, TypeOK, ClosedSeen, Quiet, Unconnected, Deliver, loopVars, Handing
  <2>4. QED
    BY <2>1, <2>2, <2>3 DEF IInv
<1>2. CASE HandlerLock(d)
  <2>0. dloop[d] \in Loops
    BY <1>2 DEF IInv, TypeOK, HandlerLock
  <2>1. TypeOK'
    BY <1>2, <2>0 DEF IInv, TypeOK, Capacity, HandlerLock, closeVars, loopVars, routerVars
  <2>2. \A e \in Dispatchers : dpc[e] \in InSection => dloop[e] # dloop[d]
    BY <1>2, LoopAssumption DEF IInv, Mutex, HandlerLock
  <2>3. \A l \in Loops : lpc[l] = "locked" => l # dloop[d]
    BY <1>2, <2>0 DEF IInv, Mutex, HandlerLock
  <2>4. Mutex'
    <3>1. \A e \in Dispatchers : dpc'[e] \in InSection => lock'[dloop'[e]] = e
      <4> SUFFICES ASSUME NEW e \in Dispatchers, dpc'[e] \in InSection
                   PROVE  lock'[dloop[e]] = e
        BY <1>2 DEF HandlerLock
      <4>1. CASE e = d
        BY <1>2, <2>0, <4>1 DEF IInv, TypeOK, HandlerLock
      <4>2. CASE e # d
        <5>1. dpc[e] \in InSection /\ dloop[e] \in Loops
          BY <1>2, <4>2 DEF IInv, TypeOK, HandlerLock, InSection
        <5>2. QED
          BY <1>2, <2>2, <5>1 DEF IInv, TypeOK, Mutex, HandlerLock
      <4>3. QED
        BY <4>1, <4>2
    <3>2. \A l \in Loops : lpc'[l] = "locked" => lock'[l] = "loop"
      BY <1>2, <2>3 DEF IInv, TypeOK, Mutex, HandlerLock, loopVars
    <3>3. QED
      BY <3>1, <3>2 DEF Mutex
  <2>5. (ClosedSeen /\ Quiet)'
    BY <1>2 DEF IInv, TypeOK, ClosedSeen, Quiet, Unconnected, HandlerLock, loopVars, Handing
  <2>6. (InWork /\ NobodyPanicked)'
    BY <1>2 DEF IInv, TypeOK, InWork, NobodyPanicked, HandlerLock, routerVars, Capacity,
                closeVars
  <2>7. QED
    BY <2>1, <2>4, <2>5, <2>6 DEF IInv
<1>3. CASE HandlerCheck(d)
  <2>0. dloop[d] \in Loops
    BY <1>3 DEF IInv, TypeOK, HandlerCheck
  <2>1. TypeOK'
    BY <1>3 DEF IInv, TypeOK, Capacity, HandlerCheck, closeVars, loopVars, routerVars
  <2>2. (Mutex /\ InWork /\ NobodyPanicked)'
    BY <1>3 DEF IInv, TypeOK, Mutex, InWork, NobodyPanicked, HandlerCheck, loopVars,
                routerVars, InSection, Capacity, closeVars
  <2>3. (ClosedSeen /\ Quiet)'
    BY <1>3, <2>0 DEF IInv, TypeOK, ClosedSeen, Quiet, Unconnected, HandlerCheck, loopVars,
                      Handing
  <2>4. QED
    BY <2>1, <2>2, <2>3 DEF IInv
<1>4. CASE HandlerSend(d)
  <2>0. dloop[d] \in Loops /\ dpc[d] = "send"
    BY <1>4 DEF IInv, TypeOK, HandlerSend
  <2>1. ~outClosed[dloop[d]]
    BY <2>0 DEF IInv, TypeOK, ClosedSeen, Quiet, Unconnected, Handing
  <2>2. /\ dpc' \in {[dpc EXCEPT ![d] = "unlock"], [dpc EXCEPT ![d] = "wait"]}
        /\ working' = working \/ (working' = working \cup {d} /\ dpc' = [dpc EXCEPT ![d] = "wait"])
        /\ UNCHANGED <<closeVars, loopVars, lock, consuming, orphans, timedOut, dloop>>
    BY <1>4, <2>1 DEF HandlerSend
  <2>3. buffered' \in [Loops -> 0..Capacity]
    BY <1>4, <2>0, <2>1, LoopAssumption DEF HandlerSend, IInv, TypeOK, Capacity, closeVars
  <2>4. TypeOK'
    BY <2>0, <2>2, <2>3 DEF IInv, TypeOK, Capacity, closeVars, loopVars
  <2>5. (Mutex /\ NobodyPanicked)'
    BY <2>0, <2>2 DEF IInv, TypeOK, Mutex, NobodyPanicked, loopVars, InSection
  <2>6. (ClosedSeen /\ Quiet)'
    BY <2>0, <2>2 DEF IInv, TypeOK, ClosedSeen, Quiet, Unconnected, loopVars, Handing
  <2>7. InWork'
    BY <2>0, <2>2 DEF IInv, TypeOK, InWork, Capacity, closeVars
  <2>8. QED
    BY <2>4, <2>5, <2>6, <2>7 DEF IInv
<1>5. CASE HandlerSendClosing(d) \/ HandlerAcked(d)
  <2>1. /\ dpc[d] \in Handing /\ d \notin working
        /\ dpc' = [dpc EXCEPT ![d] = "unlock"]
        /\ UNCHANGED <<closeVars, loopVars, lock, routerVars, dloop>>
    BY <1>5 DEF HandlerSendClosing, HandlerAcked, Handing, IInv, InWork
  <2>2. TypeOK'
    BY <2>1 DEF IInv, TypeOK, Capacity, closeVars, loopVars, routerVars, Handing
  <2>3. (Mutex /\ NobodyPanicked /\ InWork)'
    BY <2>1 DEF IInv, TypeOK, Mutex, NobodyPanicked, InWork, loopVars, routerVars, InSection,
                Handing, Capacity, closeVars
  <2>4. (ClosedSeen /\ Quiet)'
    BY <2>1 DEF IInv, TypeOK, ClosedSeen, Quiet, Unconnected, loopVars, Handing
  <2>5. QED
    BY <2>2, <2>3, <2>4 DEF IInv
<1>6. CASE HandlerGiveUp(d)
  <2>0. dloop[d] \in Loops
    BY <1>6 DEF IInv, TypeOK, HandlerGiveUp
  <2>1. orphans' \in [Loops -> 0..MaxOrphans]
    BY <1>6, <2>0, LoopAssumption DEF IInv, TypeOK, HandlerGiveUp, OneMore
  <2>2. TypeOK'
    BY <1>6, <2>0, <2>1 DEF IInv, TypeOK, Capacity, HandlerGiveUp, closeVars, loopVars
  <2>3. (Mutex /\ NobodyPanicked)'
    BY <1>6 DEF IInv, TypeOK, Mutex, NobodyPanicked, HandlerGiveUp, loopVars, InSection
  <2>4. (ClosedSeen /\ Quiet)'
    BY <1>6 DEF IInv, TypeOK, ClosedSeen, Quiet, Unconnected, HandlerGiveUp, loopVars, Handing
  <2>5. InWork'
    BY <1>6, <2>0 DEF IInv, TypeOK, InWork, HandlerGiveUp, Capacity, closeVars
  <2>6. QED
    BY <2>2, <2>3, <2>4, <2>5 DEF IInv
<1>7. CASE HandlerUnlock(d)
  <2>0. dloop[d] \in Loops /\ lock[dloop[d]] = d
    BY <1>7 DEF IInv, TypeOK, Mutex, HandlerUnlock, InSection
  <2>1. TypeOK'
    BY <1>7 DEF IInv, TypeOK, Capacity, HandlerUnlock, closeVars, loopVars, routerVars
  <2>2. Mutex'
    <3>1. \A e \in Dispatchers : dpc'[e] \in InSection => lock'[dloop'[e]] = e
      <4> SUFFICES ASSUME NEW e \in Dispatchers, dpc'[e] \in InSection
                   PROVE  lock'[dloop'[e]] = e
        OBVIOUS
      <4>1. e # d
        BY <1>7 DEF IInv, TypeOK, HandlerUnlock, InSection
      <4>2. /\ dpc[e] \in InSection /\ dloop'[e] = dloop[e]
            /\ dloop[e] \in Loops /\ lock[dloop[e]] = e
        BY <1>7, <4>1 DEF IInv, TypeOK, Mutex, HandlerUnlock, InSection
      <4>3. QED
        BY <1>7, <2>0, <4>1, <4>2 DEF IInv, TypeOK, HandlerUnlock
    <3>2. \A l \in Loops : lpc'[l] = "locked" => lock'[l] = "loop"
      BY <1>7, <2>0, LoopAssumption DEF IInv, TypeOK, Mutex, HandlerUnlock, loopVars
    <3>3. QED
      BY <3>1, <3>2 DEF Mutex
  <2>3. (ClosedSeen /\ Quiet)'
    BY <1>7 DEF IInv, TypeOK, ClosedSeen, Quiet, Unconnected, HandlerUnlock, loopVars, Handing
  <2>4. (InWork /\ NobodyPanicked)'
    BY <1>7 DEF IInv, TypeOK, InWork, NobodyPanicked, HandlerUnlock, routerVars, Capacity,
                closeVars
  <2>5. QED
    BY <2>1, <2>2, <2>3, <2>4 DEF IInv
<1>8. QED
  BY <1>1, <1>2, <1>3, <1>4, <1>5, <1>6, <1>7 DEF handler

\* The router.
LEMMA RouterStep ==
    ASSUME IInv,
           \/ \E l \in Loops : StartConsuming(l) \/ Receive(l) \/ AckOrphan(l)
           \/ \E d \in Dispatchers : Ack(d)
    PROVE  IInv'
<1>1. UNCHANGED <<closeVars, loopVars, lock, dispatchVars>>
  BY DEF StartConsuming, Receive, AckOrphan, Ack
<1>2. TypeOK'
  <2>1. consuming' \in [Loops -> BOOLEAN] /\ timedOut' = timedOut /\ working' \in SUBSET Dispatchers
    BY DEF IInv, TypeOK, StartConsuming, Receive, AckOrphan, Ack
  <2>2. orphans' \in [Loops -> 0..MaxOrphans]
    BY LoopAssumption DEF IInv, TypeOK, StartConsuming, Receive, AckOrphan, Ack, OneMore
  <2>3. buffered' \in [Loops -> 0..Capacity]
    BY LoopAssumption DEF IInv, TypeOK, StartConsuming, Receive, AckOrphan, Ack, Capacity,
                          closeVars
  <2>4. QED
    BY <1>1, <2>1, <2>2, <2>3 DEF IInv, TypeOK, closeVars, loopVars, dispatchVars, Capacity
<1>3. (Mutex /\ ClosedSeen /\ Quiet /\ NobodyPanicked)'
  BY <1>1 DEF IInv, Mutex, ClosedSeen, Quiet, Unconnected, NobodyPanicked, loopVars,
              dispatchVars
<1>4. InWork'
  <2>1. working' \subseteq working /\ timedOut' = timedOut
    BY DEF StartConsuming, Receive, AckOrphan, Ack
  <2>2. ASSUME Capacity = 0, NEW l \in Loops, orphans[l] = 0
        PROVE  orphans'[l] = 0
    BY <2>2, LoopAssumption DEF IInv, TypeOK, StartConsuming, Receive, AckOrphan, Ack
  <2>3. QED
    BY <1>1, <2>1, <2>2 DEF IInv, InWork, dispatchVars, Capacity, closeVars
<1>5. QED
  BY <1>2, <1>3, <1>4 DEF IInv

LEMMA NextIInv == IInv /\ [Next]_vars => IInv'
<1> SUFFICES ASSUME IInv, [Next]_vars PROVE IInv'
  OBVIOUS
<1>1. CASE Next
  BY <1>1, OuterStep, LoopStep, HandlerStep, RouterStep DEF Next
<1>2. CASE UNCHANGED vars
  BY <1>2 DEF IInv, TypeOK, Capacity, Mutex, ClosedSeen, Quiet, Unconnected, InWork,
              NobodyPanicked, vars,
              closeVars, loopVars, routerVars, dispatchVars
<1>3. QED
  BY <1>1, <1>2

\* The inductive invariant holds in every reachable state.
THEOREM Invariance == Spec => []IInv
<1>1. QED
  BY InitIInv, NextIInv, PTL DEF Spec

\* Every variable keeps its type; in particular a channel never holds more messages
\* than its capacity.
THEOREM TypeCorrect == Spec => []TypeOK
<1>1. IInv => TypeOK
  BY DEF IInv
<1>2. QED
  BY <1>1, Invariance, PTL

\* No handler ever sends on the channel its loop has closed: the shutdown of a
\* subscriber cannot make the program panic.
THEOREM NeverSendsOnClosed == Spec => []NoSendOnClosed
<1>1. IInv => NoSendOnClosed
  BY DEF IInv, TypeOK, ClosedSeen, Quiet, Unconnected, NobodyPanicked, NoSendOnClosed, Handing
<1>2. QED
  BY <1>1, Invariance, PTL

\* Without a buffer, and until an ack times out or the subscriber closes, the
\* router works on one message of a loop at a time.
THEOREM HandledOneAtATime == Spec => []OneAtATime
<1>1. IInv => OneAtATime
  <2> SUFFICES ASSUME IInv, Capacity = 0, NEW l \in Loops, ~timedOut[l]
               PROVE  Cardinality({d \in working : dloop[d] = l}) + orphans[l] <= 1
    BY DEF OneAtATime
  <2>1. orphans[l] = 0
    BY DEF IInv, InWork
  <2>2. {d \in working : dloop[d] = l} \in SUBSET {lock[l]}
    BY DEF IInv, TypeOK, InWork, Mutex, InSection
  <2>3. IsFiniteSet({lock[l]}) /\ Cardinality({lock[l]}) = 1
    BY FS_Singleton
  <2>4. /\ Cardinality({d \in working : dloop[d] = l}) <= 1
        /\ Cardinality({d \in working : dloop[d] = l}) \in Nat
    BY <2>2, <2>3, FS_Subset, FS_CardinalityType
  <2>5. QED
    BY <2>1, <2>4
<1>2. QED
  BY <1>1, Invariance, PTL
=============================================================================
