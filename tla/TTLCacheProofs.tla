---------------------------- MODULE TTLCacheProofs ----------------------------
(***************************************************************************)
(* Proofs about the cache: for any number of keys, callers and changes in  *)
(* the control channel the root of the heap is the first to expire, no     *)
(* operation panics if Close comes last, and the cache implements          *)
(* PendingCommands.                                                        *)
(***************************************************************************)
EXTENDS TTLCache, FiniteSetTheorems, TLAPS

-----------------------------------------------------------------------------
(* Facts about heaps *)

\* A set of naturals that is not empty has a least element.
LEMMA LeastNatural ==
    ASSUME NEW T \in SUBSET Nat, T # {}
    PROVE  \E x \in T : \A y \in T : x <= y
<1>1. PICK x \in T : \A y \in T : ~(<<y, x>> \in OpToRel(<, Nat))
    BY NatLessThanWellFounded, WFMin, T \subseteq Nat
<1>2. \A y \in T : ~(y < x)
    BY <1>1 DEF OpToRel
<1> QED
    BY <1>2

\* What heap.Push, heap.Remove and heap.Fix leave holds each element once.
LEMMA HeapHoldsAll ==
    ASSUME NEW es, IsFiniteSet(DOMAIN es), NEW q \in HeapOrders(es)
    PROVE  /\ q \in Seq(DOMAIN es)
           /\ Len(q) = Cardinality(DOMAIN es)
           /\ DOMAIN q = 1..Len(q)
           /\ Range(q) = DOMAIN es
<1> DEFINE n == Cardinality(DOMAIN es)
<1>1. n \in Nat
    BY FS_CardinalityType
<1>2. q \in [1..n -> DOMAIN es] /\ IsInjective(q)
    BY DEF HeapOrders
<1>3. q \in Seq(DOMAIN es) /\ Len(q) = n /\ DOMAIN q = 1..n
    BY <1>1, <1>2
<1>4. IsFiniteSet(1..n) /\ Cardinality(1..n) = n
    BY <1>1, FS_Interval
<1>5. q \in Injection(1..n, DOMAIN es)
    BY <1>2 DEF Injection
<1>6. q \in Surjection(1..n, DOMAIN es)
    BY <1>4, <1>5, FS_Injection
<1>7. Range(q) = DOMAIN es
    BY <1>2, <1>6 DEF Surjection, Range
<1> QED
    BY <1>3, <1>7

\* The root of a heap is the element that expires first.
LEMMA HeapRootIsFirst ==
    ASSUME NEW es, IsFiniteSet(DOMAIN es), NEW q \in HeapOrders(es),
           \A k \in DOMAIN es : es[k].expTime \in Nat
    PROVE  \A k \in DOMAIN es : es[q[1]].expTime <= es[k].expTime
<1> DEFINE time(i) == es[q[i]].expTime
           Early == {i \in DOMAIN q : time(i) < time(1)}
<1>1. q \in Seq(DOMAIN es) /\ DOMAIN q = 1..Len(q) /\ Len(q) \in Nat
      /\ Range(q) = DOMAIN es
    BY HeapHoldsAll
<1>2. \A i \in DOMAIN q : time(i) \in Nat
    BY <1>1
<1>3. \A i \in DOMAIN q : i > 1 => time(i \div 2) <= time(i)
    BY DEF HeapOrders
<1>4. Early = {}
    <2>1. SUFFICES ASSUME Early # {} PROVE FALSE
        OBVIOUS
    <2>2. Early \in SUBSET Nat
        BY <1>1
    <2> HIDE DEF Early
    <2>3. PICK i \in Early : \A j \in Early : i <= j
        BY <2>1, <2>2, LeastNatural
    <2> USE DEF Early
    <2>4. i \in DOMAIN q /\ time(i) < time(1)
        BY <2>3
    <2>5. i > 1 /\ i \in Nat
        BY <1>1, <1>2, <2>4
    <2>6. i \div 2 \in Nat /\ i \div 2 >= 1 /\ i \div 2 < i
        BY <2>5
    <2>7. i \div 2 \in DOMAIN q /\ 1 \in DOMAIN q
        BY <1>1, <2>4, <2>6
    <2>8. time(i \div 2) < time(1)
        BY <1>2, <1>3, <2>4, <2>5, <2>7
    <2>9. i \div 2 \in Early
        BY <2>7, <2>8
    <2> QED
        BY <2>3, <2>5, <2>6, <2>9
<1>5. \A i \in DOMAIN q : time(1) <= time(i)
    <2>1. TAKE i \in DOMAIN q
    <2>2. 1 \in DOMAIN q
        BY <1>1
    <2> QED
        BY <1>2, <1>4, <2>2
<1>6. \A k \in DOMAIN es : \E i \in DOMAIN q : q[i] = k
    BY <1>1 DEF Range
<1> QED
    BY <1>5, <1>6

-----------------------------------------------------------------------------
(* The inductive invariant *)

\* The queue is a heap of the elements of the map.
Heap ==
    /\ IsFiniteSet(DOMAIN elements)
    /\ queue \in HeapOrders(elements)
    /\ index # 0

\* Close comes after the operations, and closes the channel after the cache.
Drained ==
    /\ controlClosed => closed
    /\ DrainBeforeClose =>
         \A c \in Callers : caller[c] # "panicked" /\ (closed => caller[c] = "idle")

IInv == TypeOK /\ Heap /\ Drained

ElementsOK == \A k \in DOMAIN elements : elements[k].expTime \in Nat /\ elements[k].ttl \in TTLs

\* The empty map and the empty queue are a heap.
LEMMA InitInv == Init => IInv
<1> SUFFICES ASSUME Init PROVE IInv
    OBVIOUS
<1> USE CacheAssumption DEF Init
<1>1. DOMAIN elements = {}
    OBVIOUS
<1>2. TypeOK
    <2>1. caller \in [Callers -> {"idle", "notify", "panicked"}]
        OBVIOUS
    <2>2. closed \in BOOLEAN /\ controlClosed \in BOOLEAN /\ tick \in BOOLEAN
        OBVIOUS
    <2>3. queue \in Seq(Keys) /\ index \in Nat /\ control \in 0..ControlCap
        OBVIOUS
    <2>4. now \in 0..MaxTime /\ wake \in Nat
        BY DEF Never
    <2> QED
        BY <1>1, <2>1, <2>2, <2>3, <2>4 DEF TypeOK
<1>3. IsFiniteSet(DOMAIN elements) /\ Cardinality(DOMAIN elements) = 0
    BY <1>1, FS_EmptySet
<1>4. queue \in HeapOrders(elements)
    <2>1. queue \in [1..0 -> DOMAIN elements]
        OBVIOUS
    <2>2. IsInjective(queue)
        BY DEF IsInjective
    <2>3. \A i \in DOMAIN queue :
            i > 1 => elements[queue[i \div 2]].expTime <= elements[queue[i]].expTime
        BY <2>1
    <2> QED
        BY <1>3, <2>1, <2>2, <2>3 DEF HeapOrders
<1>5. Heap
    BY <1>3, <1>4 DEF Heap
<1>6. Drained
    BY DEF Drained
<1> QED
    BY <1>2, <1>5, <1>6 DEF IInv

\* The queue is a sequence of the keys of the map.
LEMMA QueueOfElements ==
    ASSUME IInv
    PROVE  /\ DOMAIN queue = 1..Len(queue) /\ Len(queue) \in Nat
           /\ \A i \in 1..Len(queue) : queue[i] \in DOMAIN elements
           /\ Len(queue) = Cardinality(DOMAIN elements)
           /\ Range(queue) = DOMAIN elements
<1>1. queue \in Seq(DOMAIN elements) /\ DOMAIN queue = 1..Len(queue)
      /\ Len(queue) = Cardinality(DOMAIN elements) /\ Range(queue) = DOMAIN elements
    BY HeapHoldsAll DEF IInv, Heap
<1> QED
    BY <1>1

\* Put keeps the invariant.
LEMMA PutInv ==
    ASSUME IInv, NEW c \in Callers, NEW k \in Keys, NEW ttl \in TTLs, Put(c, k, ttl)
    PROVE  IInv'
<1> USE CacheAssumption DEF IInv
<1>1. /\ DOMAIN elements' = DOMAIN elements \cup {k}
      /\ \A j \in DOMAIN elements' :
            elements'[j] = IF j = k THEN [expTime |-> now + ttl, ttl |-> ttl] ELSE elements[j]
    BY DEF Put, Store
<1>2. DOMAIN elements' \subseteq Keys
    BY <1>1 DEF TypeOK
<1>3. ElementsOK'
    BY <1>1 DEF TypeOK, ElementsOK
<1>4. IsFiniteSet(DOMAIN elements')
    BY <1>1, FS_AddElement DEF Heap
<1>5. Heap'
    BY <1>4 DEF Put, Heap, cleanerVars
<1>6. queue' \in Seq(Keys)
    BY <1>2, <1>4, <1>5, HeapHoldsAll DEF Heap
<1>7. caller' \in [Callers -> {"idle", "notify", "panicked"}]
    BY DEF Put, TypeOK
<1>8. TypeOK'
    BY <1>2, <1>3, <1>6, <1>7
       DEF Put, TypeOK, ElementsOK, clockVars, controlVars, cleanerVars
<1>9. Drained'
    BY DEF Put, TypeOK, Drained, controlVars
<1> QED
    BY <1>5, <1>8, <1>9

\* Taking an element out of the map and the heap, as Remove and the cleaner do.
LEMMA remove0Inv ==
    ASSUME IInv, NEW k, remove0(k), UNCHANGED now, index' \in Nat \ {0}
    PROVE  /\ DOMAIN elements' \subseteq Keys
           /\ ElementsOK'
           /\ queue' \in Seq(Keys)
           /\ Heap'
<1> USE DEF IInv
<1>1. /\ DOMAIN elements' = DOMAIN elements \ {k}
      /\ \A j \in DOMAIN elements' : elements'[j] = elements[j]
    BY DEF remove0
<1>2. DOMAIN elements' \subseteq Keys /\ ElementsOK'
    BY <1>1 DEF TypeOK, ElementsOK
<1>3. IsFiniteSet(DOMAIN elements')
    BY <1>1, FS_RemoveElement DEF Heap
<1>4. Heap'
    BY <1>3 DEF remove0, Heap
<1>5. queue' \in Seq(Keys)
    BY <1>2, <1>3, <1>4, HeapHoldsAll DEF Heap
<1> QED
    BY <1>2, <1>4, <1>5

\* Remove keeps the invariant.
LEMMA RemoveInv ==
    ASSUME IInv, NEW c \in Callers, NEW k \in Keys, Remove(c, k)
    PROVE  IInv'
<1> USE DEF IInv
<1>1. DOMAIN elements' \subseteq Keys /\ ElementsOK' /\ queue' \in Seq(Keys) /\ Heap'
    BY remove0Inv DEF Remove, clockVars, cleanerVars, TypeOK, Heap
<1>2. caller' \in [Callers -> {"idle", "notify", "panicked"}]
    BY DEF Remove, TypeOK
<1>3. TypeOK'
    BY <1>1, <1>2 DEF Remove, TypeOK, ElementsOK, clockVars, controlVars, cleanerVars
<1>4. Drained'
    BY DEF Remove, TypeOK, Drained, controlVars
<1> QED
    BY <1>1, <1>3, <1>4

\* A round of the cleaner's loop keeps the invariant.
LEMMA clearExpiredInv ==
    ASSUME IInv, clearExpired
    PROVE  IInv'
<1> USE DEF IInv
<1>1. DOMAIN elements' \subseteq Keys /\ ElementsOK' /\ queue' \in Seq(Keys) /\ Heap'
    <2>1. CASE index <= Len(queue) /\ hasExpired(elements[queue[index]])
        <3>1. remove0(queue[index]) /\ index' = index + 1 /\ UNCHANGED now
            BY <2>1 DEF clearExpired, clockVars
        <3>2. index' \in Nat \ {0}
            BY <3>1 DEF TypeOK
        <3> QED
            BY <3>1, <3>2, remove0Inv
    <2>2. CASE ~(index <= Len(queue) /\ hasExpired(elements[queue[index]]))
        BY <2>2 DEF clearExpired, dataVars, TypeOK, ElementsOK, Heap
    <2> QED
        BY <2>1, <2>2
<1>2. index' \in Nat /\ cleaner' \in {"pause", "select", "clear", "done"}
    BY DEF clearExpired, TypeOK
<1>3. TypeOK'
    BY <1>1, <1>2 DEF clearExpired, TypeOK, ElementsOK, clockVars, controlVars
<1>4. Drained'
    BY DEF clearExpired, Drained, controlVars
<1> QED
    BY <1>1, <1>3, <1>4

\* The steps that leave map and heap alone keep them.
LEMMA HeapUntouched ==
    ASSUME IInv, UNCHANGED dataVars, index' \in Nat \ {0}
    PROVE  /\ Heap'
           /\ DOMAIN elements' \subseteq Keys /\ ElementsOK' /\ queue' \in Seq(Keys)
    BY DEF IInv, Heap, dataVars, TypeOK, ElementsOK

\* The announcement of a change keeps the invariant.
LEMMA setchangesInv ==
    ASSUME IInv, NEW c \in Callers, setchanges(c)
    PROVE  IInv'
<1> USE CacheAssumption DEF IInv
<1>1. Heap' /\ DOMAIN elements' \subseteq Keys /\ ElementsOK' /\ queue' \in Seq(Keys)
    BY HeapUntouched DEF setchanges, cleanerVars, Heap, TypeOK
<1>2. /\ caller' \in [Callers -> {"idle", "notify", "panicked"}]
      /\ control' \in 0..ControlCap
    BY DEF setchanges, TypeOK
<1>3. TypeOK'
    BY <1>1, <1>2 DEF setchanges, TypeOK, ElementsOK, clockVars, cleanerVars
<1>4. Drained'
    BY DEF setchanges, TypeOK, Drained
<1> QED
    BY <1>1, <1>3, <1>4

\* Close keeps the invariant: the operations have ended before it.
LEMMA CloseInv ==
    ASSUME IInv, Close
    PROVE  IInv'
<1> USE DEF IInv
<1>1. Heap' /\ DOMAIN elements' \subseteq Keys /\ ElementsOK' /\ queue' \in Seq(Keys)
    BY HeapUntouched DEF Close, doClose, CloseControl, cleanerVars, Heap, TypeOK
<1>2. closed' \in BOOLEAN /\ controlClosed' \in BOOLEAN
    BY DEF Close, doClose, CloseControl, TypeOK
<1>3. TypeOK'
    BY <1>1, <1>2
       DEF Close, doClose, CloseControl, TypeOK, ElementsOK, clockVars, cleanerVars
<1>4. Drained'
    BY DEF Close, doClose, CloseControl, TypeOK, Drained
<1> QED
    BY <1>1, <1>3, <1>4

\* The other steps of the cleaner, the timer and the clock keep the invariant.
LEMMA CleanerInv ==
    ASSUME IInv, Pause \/ OnControl \/ OnControlClosed \/ OnTick \/ TimerFires \/ Tick
    PROVE  IInv'
<1> USE CacheAssumption DEF IInv
<1>1. Heap' /\ DOMAIN elements' \subseteq Keys /\ ElementsOK' /\ queue' \in Seq(Keys)
    <2>1. UNCHANGED dataVars /\ index' \in Nat \ {0}
        BY DEF Pause, OnControl, OnControlClosed, OnTick, TimerFires, Tick, cleanerVars,
               Heap, TypeOK
    <2> QED
        BY <2>1, HeapUntouched
<1>2. pauseTime \in Nat
    <2>1. queue # <<>> => queue[1] \in DOMAIN elements
        BY QueueOfElements DEF TypeOK
    <2> QED
        BY <2>1 DEF pauseTime, TypeOK
<1>3. wake' \in Nat /\ index' \in Nat /\ now' \in 0..MaxTime /\ control' \in 0..ControlCap
    BY <1>2
       DEF Pause, OnControl, OnControlClosed, OnTick, TimerFires, Tick, TypeOK, Never,
           clockVars, controlVars, cleanerVars
<1>4. tick' \in BOOLEAN /\ cleaner' \in {"pause", "select", "clear", "done"}
    BY DEF Pause, OnControl, OnControlClosed, OnTick, TimerFires, Tick, TypeOK, cleanerVars
<1>5. UNCHANGED <<closed, controlClosed, caller>>
    BY DEF Pause, OnControl, OnControlClosed, OnTick, TimerFires, Tick, controlVars
<1>6. TypeOK'
    BY <1>1, <1>3, <1>4, <1>5 DEF TypeOK, ElementsOK
<1>7. Drained'
    BY <1>5 DEF Drained
<1> QED
    BY <1>1, <1>6, <1>7

\* Every step keeps the invariant.
LEMMA StepInv == IInv /\ [Next]_vars => IInv'
<1> SUFFICES ASSUME IInv, [Next]_vars PROVE IInv'
    OBVIOUS
<1>1. CASE Operate
    BY <1>1, PutInv, RemoveInv, setchangesInv DEF Operate
<1>2. CASE Close
    BY <1>2, CloseInv
<1>3. CASE startCleaner
    BY <1>3, CleanerInv, clearExpiredInv DEF startCleaner
<1>4. CASE TimerFires \/ Tick
    BY <1>4, CleanerInv
<1>5. CASE UNCHANGED vars
    BY <1>5
       DEF vars, clockVars, dataVars, controlVars, cleanerVars, IInv, TypeOK, Heap, Drained
<1> QED
    BY <1>1, <1>2, <1>3, <1>4, <1>5 DEF Next

-----------------------------------------------------------------------------
\* In every reachable state the queue is a heap of the elements of the map, and
\* with a Close that comes last nobody is in an operation of a closed cache.
THEOREM Invariance == Spec => []IInv
<1>1. Init => IInv
    BY InitInv
<1>2. IInv /\ [Next]_vars => IInv'
    BY StepInv
<1> QED
    BY <1>1, <1>2, PTL DEF Spec

\* Every variable keeps its type; the control channel keeps its capacity.
THEOREM TypeCorrect == Spec => []TypeOK
<1>1. IInv => TypeOK
    BY DEF IInv
<1> QED
    BY <1>1, Invariance, PTL

\* The root of the queue, towards which the cleaner sleeps, is the element that
\* expires first, however Put, Remove and the cleaner have rearranged the heap.
THEOREM RootExpiresFirst == Spec => []FirstExpiresFirst
<1>1. IInv => FirstExpiresFirst
    <2> SUFFICES ASSUME IInv PROVE FirstExpiresFirst
        OBVIOUS
    <2>1. Range(queue) = DOMAIN elements /\ Len(queue) = Cardinality(DOMAIN elements)
        BY QueueOfElements
    <2>2. \A k \in DOMAIN elements : elements[queue[1]].expTime <= elements[k].expTime
        BY HeapRootIsFirst DEF IInv, Heap, TypeOK
    <2> QED
        BY <2>1, <2>2 DEF FirstExpiresFirst
<1> QED
    BY <1>1, Invariance, PTL

\* No caller of setchanges meets a closed channel when the handlers have ended
\* before Close.
THEOREM NeverPanics == Spec => []NoPanic
<1>1. IInv => NoPanic
    BY DEF IInv, Drained, NoPanic
<1> QED
    BY <1>1, Invariance, PTL

-----------------------------------------------------------------------------
(* The refinement *)

\* What the abstract specification sees of the callers.
Calls == [c \in Callers |-> IF caller[c] = "idle" THEN "idle" ELSE "returning"]

\* An operation is a Put, a Remove or a Return of PendingCommands, or invisible:
\* a caller that panics does not return.
LEMMA OperateRefines ==
    ASSUME IInv, Operate
    PROVE  Pending!Next \/ UNCHANGED <<now, elements, Calls>>
<1>1. ASSUME NEW c \in Callers, NEW k \in Keys, NEW ttl \in TTLs, Put(c, k, ttl)
      PROVE  Pending!Put(c, k, ttl)
    <2>1. Calls[c] = "idle" /\ Calls' = [Calls EXCEPT ![c] = "returning"]
        BY <1>1 DEF Put, Calls, IInv, TypeOK
    <2> QED
        BY <1>1, <2>1 DEF Put, Store, clockVars, Calls, Pending!Put, Pending!Insert
<1>2. ASSUME NEW c \in Callers, NEW k \in Keys, Remove(c, k)
      PROVE  Pending!Remove(c, k)
    <2>1. Calls[c] = "idle" /\ Calls' = [Calls EXCEPT ![c] = "returning"]
        BY <1>2 DEF Remove, Calls, IInv, TypeOK
    <2> QED
        BY <1>2, <2>1 DEF Remove, remove0, clockVars, Calls, Pending!Remove, Pending!Delete
<1>3. ASSUME NEW c \in Callers, setchanges(c)
      PROVE  Pending!Return(c) \/ UNCHANGED <<now, elements, Calls>>
    <2>1. UNCHANGED <<now, elements>>
        BY <1>3 DEF setchanges, clockVars, dataVars
    <2>2. CASE controlClosed
        <3>1. UNCHANGED Calls
            BY <1>3, <2>2 DEF setchanges, Calls, IInv, TypeOK
        <3> QED
            BY <2>1, <3>1
    <2>3. CASE ~controlClosed
        <3>1. Calls[c] = "returning" /\ Calls' = [Calls EXCEPT ![c] = "idle"]
            BY <1>3, <2>3 DEF setchanges, Calls, IInv, TypeOK
        <3> QED
            BY <2>1, <3>1 DEF Calls, Pending!Return
    <2> QED
        BY <2>2, <2>3
<1> QED
    BY <1>1, <1>2, <1>3 DEF Operate, Pending!Next

\* A round of the cleaner's loop takes nothing but an expired element.
LEMMA clearExpiredRefines ==
    ASSUME IInv, clearExpired
    PROVE  Pending!Next \/ UNCHANGED <<now, elements, Calls>>
<1>1. UNCHANGED <<now, Calls>>
    BY DEF clearExpired, clockVars, Calls
<1>2. CASE index <= Len(queue) /\ hasExpired(elements[queue[index]])
    <2> DEFINE k == queue[index]
    <2>1. k \in DOMAIN elements /\ k \in Keys
        BY <1>2, QueueOfElements DEF IInv, TypeOK, Heap
    <2>2. Pending!Expire(k)
        BY <1>1, <1>2, <2>1
           DEF clearExpired, remove0, hasExpired, Calls, Pending!Expire, Pending!Delete,
               Pending!hasExpired
    <2> QED
        BY <2>1, <2>2 DEF Pending!Next
<1>3. CASE ~(index <= Len(queue) /\ hasExpired(elements[queue[index]]))
    BY <1>1, <1>3 DEF clearExpired, dataVars
<1> QED
    BY <1>2, <1>3

\* The cache implements PendingCommands: whatever the heap, the control channel,
\* the timer and the cleaner do, an element leaves the cache only if a caller
\* removes it or it has expired.
THEOREM Refinement == Spec => ImplementsPending
<1>1. Init => Pending!Init
    BY DEF Init, Pending!Init
<1>2. IInv /\ [Next]_vars => [Pending!Next]_(Pending!vars)
    <2> SUFFICES ASSUME IInv, [Next]_vars
                 PROVE  Pending!Next \/ UNCHANGED <<now, elements, Calls>>
        BY DEF Pending!vars, Calls
    <2>1. CASE Operate
        BY <2>1, OperateRefines
    <2>2. CASE clearExpired
        BY <2>2, clearExpiredRefines
    <2>3. CASE Tick
        BY <2>3
           DEF Tick, dataVars, Calls, Pending!Next, Pending!Tick
    <2>4. CASE Close \/ Pause \/ OnControl \/ OnControlClosed \/ OnTick \/ TimerFires
        BY <2>4
           DEF Close, doClose, CloseControl, Pause, OnControl, OnControlClosed, OnTick,
               TimerFires, clockVars, dataVars, Calls
    <2>5. CASE UNCHANGED vars
        BY <2>5 DEF vars, clockVars, dataVars, Calls
    <2> QED
        BY <2>1, <2>2, <2>3, <2>4, <2>5 DEF Next, startCleaner
<1> QED
    BY <1>1, <1>2, Invariance, PTL DEF Spec, ImplementsPending, Pending!Spec
=============================================================================
