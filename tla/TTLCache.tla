------------------------------- MODULE TTLCache -------------------------------
(***************************************************************************)
(* The cache of the pending commands (cache/cache.go): a map of elements   *)
(* that expire, a heap ordered by expiry time, and a cleaner goroutine     *)
(* that sleeps until the first expiry.  Put and Remove tell the cleaner    *)
(* about a change through the control channel, after they have released    *)
(* the mutex.                                                              *)
(*                                                                         *)
(* A critical section of the mutex is one step, but for the loop of the    *)
(* cleaner, during which time goes on.  container/heap is external: every  *)
(* operation leaves some arrangement of the elements that is a heap.       *)
(***************************************************************************)
EXTENDS Naturals, FiniteSets, Sequences, Functions

CONSTANTS
    Keys,           \* correlation ids
    Callers,        \* goroutines that call Put and Remove
    TTLs,           \* the ttl arguments
    ControlCap,     \* capacity of the control channel
    MaxTime,        \* bound: the clock stops here, after every expiry
    IdlePause,      \* the pause of the cleaner when there is no element
    DrainBeforeClose \* Close is called only when no caller is in an operation

ASSUME CacheAssumption ==
    /\ TTLs \subseteq Nat
    /\ ControlCap \in Nat \ {0}
    /\ MaxTime \in Nat
    /\ IdlePause \in Nat
    /\ DrainBeforeClose \in BOOLEAN

VARIABLES
    now,            \* the clock
    elements,       \* Cache.elements: key -> expiry time and ttl
    queue,          \* Cache.queue, as the keys of its elements
    closed,         \* Cache.closed
    control,        \* number of values in Cache.control
    controlClosed,  \* Cache.control is closed
    caller,         \* caller -> "idle", "notify" (in setchanges) or "panicked"
    cleaner,        \* "pause", "select", "clear" (holds the mutex) or "done"
    index,          \* the loop variable of clearExpired
    wake,           \* when the timer fires, Never if it is stopped
    tick            \* there is a value in timer.C

clockVars == <<now>>
dataVars == <<elements, queue>>
controlVars == <<closed, control, controlClosed>>
cleanerVars == <<cleaner, index, wake, tick>>
vars == <<clockVars, dataVars, controlVars, caller, cleanerVars>>

Never == MaxTime + 1 + IdlePause

TypeOK ==
    /\ now \in 0..MaxTime
    /\ DOMAIN elements \subseteq Keys
    /\ \A k \in DOMAIN elements : elements[k].expTime \in Nat /\ elements[k].ttl \in TTLs
    /\ queue \in Seq(Keys)
    /\ closed \in BOOLEAN /\ controlClosed \in BOOLEAN
    /\ control \in 0..ControlCap
    /\ caller \in [Callers -> {"idle", "notify", "panicked"}]
    /\ cleaner \in {"pause", "select", "clear", "done"}
    /\ index \in Nat
    /\ wake \in Nat
    /\ tick \in BOOLEAN

Init ==
    /\ now = 0
    /\ elements = <<>>
    /\ queue = <<>>
    /\ closed = FALSE
    /\ control = 0
    /\ controlClosed = FALSE
    /\ caller = [c \in Callers |-> "idle"]
    /\ cleaner = "pause"
    /\ index = 1
    /\ wake = Never
    /\ tick = FALSE

\* Mutant: the change is announced inside the critical section.
MutexFree_NotifyInside == cleaner # "clear" /\ \A c \in Callers : caller[c] # "notify"

\* The cleaner's loop is the only critical section of more than one step.
MutexFree == cleaner # "clear"

\* External: what heap.Push, heap.Remove and heap.Fix can leave for the elements es.
HeapOrders(es) ==
    {q \in [1..Cardinality(DOMAIN es) -> DOMAIN es] :
        /\ IsInjective(q)
        /\ \A i \in DOMAIN q : i > 1 => es[q[i \div 2]].expTime <= es[q[i]].expTime}

hasExpired(e) == e.ttl = 0 \/ e.expTime < now

-----------------------------------------------------------------------------
(* The operations *)

\* update0 and add0: the element of the key has the time to live from now on.
Store(k, ttl) ==
    elements' = [j \in DOMAIN elements \cup {k} |->
                    IF j = k THEN [expTime |-> now + ttl, ttl |-> ttl] ELSE elements[j]]

\* Mutant: the change is not announced.
Put_Silent(c, k, ttl) ==
    /\ caller[c] = "idle" /\ MutexFree /\ ~closed
    /\ now + ttl < MaxTime
    /\ Store(k, ttl) /\ queue' \in HeapOrders(elements')
    /\ UNCHANGED <<clockVars, controlVars, caller, cleanerVars>>

\* Mutant: closed is not tested.
Put_NoClosedCheck(c, k, ttl) ==
    /\ caller[c] = "idle" /\ MutexFree
    /\ now + ttl < MaxTime
    /\ Store(k, ttl) /\ queue' \in HeapOrders(elements')
    /\ caller' = [caller EXCEPT ![c] = "notify"]
    /\ UNCHANGED <<clockVars, controlVars, cleanerVars>>

\* Mutant: an updated element keeps its place in the heap.
Put_NoFix(c, k, ttl) ==
    /\ caller[c] = "idle" /\ MutexFree /\ ~closed
    /\ now + ttl < MaxTime
    /\ Store(k, ttl)
    /\ IF k \in DOMAIN elements THEN UNCHANGED queue ELSE queue' \in HeapOrders(elements')
    /\ caller' = [caller EXCEPT ![c] = "notify"]
    /\ UNCHANGED <<clockVars, controlVars, cleanerVars>>

Put(c, k, ttl) ==
    /\ caller[c] = "idle" /\ MutexFree /\ ~closed
    /\ now + ttl < MaxTime
    /\ Store(k, ttl) /\ queue' \in HeapOrders(elements')
    /\ caller' = [caller EXCEPT ![c] = "notify"]
    /\ UNCHANGED <<clockVars, controlVars, cleanerVars>>

\* delete and heapremove
remove0(k) ==
    /\ elements' = [j \in DOMAIN elements \ {k} |-> elements[j]]
    /\ queue' \in HeapOrders(elements')

Remove(c, k) ==
    /\ caller[c] = "idle" /\ MutexFree /\ ~closed
    /\ k \in DOMAIN elements
    /\ remove0(k)
    /\ caller' = [caller EXCEPT ![c] = "notify"]
    /\ UNCHANGED <<clockVars, controlVars, cleanerVars>>

\* The deferred send of Put and Remove; it blocks while the channel is full and
\* panics once the channel is closed.
setchanges(c) ==
    /\ caller[c] = "notify"
    /\ IF controlClosed
       THEN caller' = [caller EXCEPT ![c] = "panicked"] /\ UNCHANGED control
       ELSE /\ control < ControlCap
            /\ control' = control + 1
            /\ caller' = [caller EXCEPT ![c] = "idle"]
    /\ UNCHANGED <<clockVars, dataVars, closed, controlClosed, cleanerVars>>

doClose ==
    /\ MutexFree /\ ~closed
    /\ DrainBeforeClose => \A c \in Callers : caller[c] = "idle"
    /\ closed' = TRUE
    /\ UNCHANGED <<clockVars, dataVars, control, controlClosed, caller, cleanerVars>>

CloseControl ==
    /\ closed /\ ~controlClosed
    /\ controlClosed' = TRUE
    /\ UNCHANGED <<clockVars, dataVars, closed, control, caller, cleanerVars>>

Close == doClose \/ CloseControl

-----------------------------------------------------------------------------
(* The cleaner *)

\* When the cleaner wakes up: the first expiry, at once (a millisecond, less than
\* a unit of the clock) if it has passed, much later without elements.
pauseTime ==
    IF queue = <<>> THEN now + IdlePause
    ELSE IF elements[queue[1]].expTime < now THEN now
    ELSE elements[queue[1]].expTime

Pause ==
    /\ cleaner = "pause" /\ MutexFree
    /\ wake' = pauseTime
    /\ cleaner' = "select"
    /\ UNCHANGED <<clockVars, dataVars, controlVars, caller, index, tick>>

\* Stopping or resetting the timer does not take a value out of timer.C.
TimerFires ==
    /\ wake <= now
    /\ tick' = TRUE
    /\ wake' = Never
    /\ UNCHANGED <<clockVars, dataVars, controlVars, caller, cleaner, index>>

OnControl ==
    /\ cleaner = "select" /\ control > 0
    /\ control' = control - 1
    /\ wake' = Never
    /\ cleaner' = "pause"
    /\ UNCHANGED <<clockVars, dataVars, closed, controlClosed, caller, index, tick>>

\* Mutant: the closed channel is taken for a change.
OnControlClosed_Continues ==
    /\ cleaner = "select" /\ controlClosed /\ control = 0
    /\ cleaner' = "pause"
    /\ wake' = Never
    /\ UNCHANGED <<clockVars, dataVars, controlVars, caller, index, tick>>

OnControlClosed ==
    /\ cleaner = "select" /\ controlClosed /\ control = 0
    /\ cleaner' = "done"
    /\ wake' = Never
    /\ UNCHANGED <<clockVars, dataVars, controlVars, caller, index, tick>>

OnTick ==
    /\ cleaner = "select" /\ tick
    /\ tick' = FALSE
    /\ wake' = Never
    /\ cleaner' = "clear"
    /\ index' = 1
    /\ UNCHANGED <<clockVars, dataVars, controlVars, caller>>

\* Mutant: every element of the queue is removed.
clearExpired_All ==
    /\ cleaner = "clear"
    /\ IF index <= Len(queue)
       THEN remove0(queue[index]) /\ index' = index + 1 /\ UNCHANGED cleaner
       ELSE cleaner' = "pause" /\ index' = 1 /\ UNCHANGED dataVars
    /\ UNCHANGED <<clockVars, controlVars, caller, wake, tick>>

\* One round of the loop.  The index advances although the removal moves another
\* element to its place: the pass may skip expired elements.
clearExpired ==
    /\ cleaner = "clear"
    /\ IF index <= Len(queue) /\ hasExpired(elements[queue[index]])
       THEN remove0(queue[index]) /\ index' = index + 1 /\ UNCHANGED cleaner
       ELSE cleaner' = "pause" /\ index' = 1 /\ UNCHANGED dataVars
    /\ UNCHANGED <<clockVars, controlVars, caller, wake, tick>>

Tick ==
    /\ now < MaxTime
    /\ now' = now + 1
    /\ UNCHANGED <<dataVars, controlVars, caller, cleanerVars>>

Operate ==
    \E c \in Callers :
        \/ \E k \in Keys : (\E ttl \in TTLs : Put(c, k, ttl)) \/ Remove(c, k)
        \/ setchanges(c)

startCleaner == Pause \/ OnControl \/ OnControlClosed \/ OnTick \/ clearExpired

Next == Operate \/ Close \/ startCleaner \/ TimerFires \/ Tick

\* Time passes, the cleaner keeps running and timers fire; a select with several ready cases
\* picks one at random, so that none is passed over for ever; a blocked sender
\* is served in the order of arrival.  Strong fairness of the timer says that
\* the calls do not come faster than the cleaner's shortest pause for ever: each
\* one resets the timer.  Nobody has to call Put, Remove or Close.
Fairness ==
    /\ WF_vars(Pause \/ clearExpired)
    /\ SF_vars(TimerFires)
    /\ SF_vars(OnTick)
    /\ SF_vars(OnControl)
    /\ WF_vars(OnControlClosed)
    /\ \A c \in Callers : SF_vars(setchanges(c))
    /\ WF_vars(CloseControl)
    /\ WF_vars(Tick)

Spec == Init /\ [][Next]_vars

FairSpec == Spec /\ Fairness

-----------------------------------------------------------------------------
\* What the callers see of the cache.
Pending ==
    INSTANCE PendingCommands
        WITH pending <- elements,
             calls <- [c \in Callers |-> IF caller[c] = "idle" THEN "idle" ELSE "returning"]

\* The cache implements PendingCommands: an element leaves it only if a caller
\* removes it or it has expired, so that a response that comes in time finds its
\* request, whatever the cleaner, its timer and the heap are doing.
ImplementsPending == Pending!Spec

\* The queue holds each element of the map once, and its root is the element that
\* expires first, so that the cleaner sleeps towards it.
FirstExpiresFirst ==
    /\ Range(queue) = DOMAIN elements
    /\ Len(queue) = Cardinality(DOMAIN elements)
    /\ \A k \in DOMAIN elements : elements[queue[1]].expTime <= elements[k].expTime

\* Put and Remove return: the mutex, the full control channel and the cleaner
\* that drains it do not wait for each other.
OperationsReturn == \A c \in Callers : caller[c] = "notify" ~> caller[c] # "notify"

\* An element that has expired does not stay: the cleaner removes it, although it
\* may have slept towards another expiry and its passes may skip elements.
ExpiredIsCleared ==
    \A k \in Keys :
        (k \in DOMAIN elements /\ hasExpired(elements[k])) ~>
            (closed \/ k \notin DOMAIN elements \/ ~hasExpired(elements[k]))

\* The cleaner goroutine ends after Close.
CleanerEnds == controlClosed ~> cleaner = "done"

\* No operation panics on the closed channel when the handlers that call it have
\* ended before Close, as they have when the router is closed first.
NoPanic == DrainBeforeClose => \A c \in Callers : caller[c] # "panicked"
=============================================================================
