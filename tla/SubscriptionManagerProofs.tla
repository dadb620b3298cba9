----------------------- MODULE SubscriptionManagerProofs -----------------------
(***************************************************************************)
(* Proofs about SubscriptionManager, for any number of clients, topics,    *)
(* hub connections and list elements.                                      *)
(***************************************************************************)
EXTENDS SubscriptionManager, FiniteSetTheorems, SequenceTheorems, TLAPS

-----------------------------------------------------------------------------
(* The list of subscriptions and its occurrences of a topic. *)

\* Removing the element at position i closes the gap: the elements before it
\* keep their position, the ones after it move up by one.
LEMMA RemoveAtProperties ==
    ASSUME NEW S, NEW s \in Seq(S), NEW i \in 1..Len(s)
    PROVE  /\ RemoveAt(s, i) \in Seq(S)
           /\ Len(RemoveAt(s, i)) = Len(s) - 1
           /\ \A j \in 1..(Len(s) - 1) :
                RemoveAt(s, i)[j] = IF j < i THEN s[j] ELSE s[j + 1]
<1> DEFINE a == SubSeq(s, 1, i - 1)
           b == SubSeq(s, i + 1, Len(s))
<1>0. Len(s) \in Nat /\ \A j \in 1..Len(s) : s[j] \in S
  OBVIOUS
<1>1. /\ a \in Seq(S)
      /\ Len(a) = i - 1
      /\ \A j \in 1..(i - 1) : a[j] = s[j]
  <2>1. \A j \in 1..(i - 1) : s[j] \in S
    BY <1>0
  <2>2. QED
    BY <2>1, <1>0, SubSeqProperties
<1>2. /\ b \in Seq(S)
      /\ Len(b) = Len(s) - i
      /\ \A j \in 1..(Len(s) - i) : b[j] = s[i + j]
  <2>1. \A j \in (i + 1)..Len(s) : s[j] \in S
    BY <1>0
  <2>2. /\ b \in Seq(S)
        /\ Len(b) = IF i + 1 <= Len(s) THEN Len(s) - (i + 1) + 1 ELSE 0
        /\ \A j \in 1..(Len(s) - (i + 1) + 1) : b[j] = s[(i + 1) + j - 1]
    <3> HIDE DEF a
    <3>1. i + 1 \in Int /\ Len(s) \in Int
      BY <1>0
    <3>2. QED
      BY <2>1, <3>1, SubSeqProperties
  <2>3. QED
    BY <2>2, <1>0
<1>3. RemoveAt(s, i) = a \o b
  BY DEF RemoveAt
<1> HIDE DEF a, b
<1>4. /\ a \o b \in Seq(S)
      /\ Len(a \o b) = Len(a) + Len(b)
      /\ \A j \in 1..(Len(a) + Len(b)) : (a \o b)[j] =
            IF j <= Len(a) THEN a[j] ELSE b[j - Len(a)]
  BY <1>1, <1>2, ConcatProperties
<1>5. QED
  BY <1>0, <1>1, <1>2, <1>3, <1>4

LEMMA OccurrencesFinite ==
    ASSUME NEW s \in Seq(Items), NEW n
    PROVE  /\ IsFiniteSet(Occurrences(s, n))
           /\ Cardinality(Occurrences(s, n)) \in Nat
<1>1. IsFiniteSet(1..Len(s))
  BY FS_Interval
<1>2. Occurrences(s, n) \in SUBSET (1..Len(s))
  BY DEF Occurrences
<1>3. QED
  BY <1>1, <1>2, FS_Subset, FS_CardinalityType

LEMMA OccurrencesAppend ==
    ASSUME NEW s \in Seq(Items), NEW e \in Items, NEW n
    PROVE  Cardinality(Occurrences(Append(s, e), n)) =
             IF NormalizeTopic(e.topic) = n THEN Cardinality(Occurrences(s, n)) + 1
                                            ELSE Cardinality(Occurrences(s, n))
<1>1. /\ Append(s, e) \in Seq(Items)
      /\ Len(Append(s, e)) = Len(s) + 1
      /\ \A i \in 1..Len(s) : Append(s, e)[i] = s[i]
      /\ Append(s, e)[Len(s) + 1] = e
  BY AppendProperties
<1>2. Len(s) \in Nat /\ Len(s) + 1 \notin Occurrences(s, n)
  BY DEF Occurrences
<1>3. CASE NormalizeTopic(e.topic) = n
  <2>1. Occurrences(Append(s, e), n) = Occurrences(s, n) \cup {Len(s) + 1}
    BY <1>1, <1>2, <1>3 DEF Occurrences
  <2>2. QED
    BY <1>2, <1>3, <2>1, OccurrencesFinite, FS_AddElement
<1>4. CASE NormalizeTopic(e.topic) # n
  <2>1. Occurrences(Append(s, e), n) = Occurrences(s, n)
    BY <1>1, <1>2, <1>4 DEF Occurrences
  <2>2. QED
    BY <1>4, <2>1
<1>5. QED
  BY <1>3, <1>4

LEMMA OccurrencesRemoveAt ==
    ASSUME NEW s \in Seq(Items), NEW i \in 1..Len(s), NEW n
    PROVE  Cardinality(Occurrences(RemoveAt(s, i), n)) =
             IF NormalizeTopic(s[i].topic) = n THEN Cardinality(Occurrences(s, n)) - 1
                                               ELSE Cardinality(Occurrences(s, n))
<1> DEFINE r == RemoveAt(s, i)
           A == Occurrences(s, n) \ {i}
           B == Occurrences(r, n)
           f == [j \in A |-> IF j < i THEN j ELSE j - 1]
<1>1. /\ r \in Seq(Items)
      /\ Len(r) = Len(s) - 1
      /\ \A j \in 1..(Len(s) - 1) : r[j] = IF j < i THEN s[j] ELSE s[j + 1]
  BY RemoveAtProperties
<1> HIDE DEF r
<1>2. /\ A \subseteq (1..Len(s)) \ {i}
      /\ \A j \in (1..Len(s)) \ {i} : j \in A <=> NormalizeTopic(s[j].topic) = n
      /\ B \subseteq 1..(Len(s) - 1)
      /\ \A j \in 1..(Len(s) - 1) : j \in B <=> NormalizeTopic(r[j].topic) = n
  BY <1>1 DEF Occurrences
<1> HIDE DEF A, B
<1>3. \A j \in A : f[j] \in B
  BY <1>1, <1>2
<1>4. \A j, k \in A : f[j] = f[k] => j = k
  BY <1>2
<1>5. \A k \in B : \E j \in A : f[j] = k
  <2> SUFFICES ASSUME NEW k \in B
               PROVE  \E j \in A : f[j] = k
    OBVIOUS
  <2>1. CASE k < i
    <3>1. k \in A
      BY <1>1, <1>2, <2>1
    <3>2. QED
      BY <3>1, <2>1
  <2>2. CASE k >= i
    <3>1. k + 1 \in A /\ k + 1 >= i /\ k + 1 - 1 = k
      BY <1>1, <1>2, <2>2
    <3>2. QED
      BY <3>1, <1>2
  <2>3. QED
    BY <2>1, <2>2, <1>2
<1>6. f \in Bijection(A, B)
  <2>1. f \in [A -> B]
    BY <1>3
  <2>2. f \in Injection(A, B)
    BY <2>1, <1>4 DEF Injection, IsInjective
  <2>3. f \in Surjection(A, B)
    BY <2>1, <1>5 DEF Surjection
  <2>4. QED
    BY <2>2, <2>3 DEF Bijection
<1>7. IsFiniteSet(A) /\ Cardinality(A) =
        IF i \in Occurrences(s, n) THEN Cardinality(Occurrences(s, n)) - 1
                                   ELSE Cardinality(Occurrences(s, n))
  BY OccurrencesFinite, FS_RemoveElement DEF A
<1>8. Cardinality(B) = Cardinality(A)
  BY <1>6, <1>7, FS_Bijection DEF ExistsBijection
<1>9. i \in Occurrences(s, n) <=> NormalizeTopic(s[i].topic) = n
  BY DEF Occurrences
<1>10. QED
  BY <1>7, <1>8, <1>9 DEF B, r

-----------------------------------------------------------------------------
(* The inductive invariant. *)

\* What the two goroutines know while they are between their steps: the log
\* handler's pending topic is still counted (Add) or still uncounted (Remove),
\* no goroutine knows a connection that was not stored yet.
Pending ==
    /\ hpc \in {"addLoad", "addSubscribe"} => topics[htopic] > 0
    /\ hpc \in {"removeLoad", "removeUnsubscribe"} => topics[htopic] = 0
    /\ htarget <= conn
    /\ fpc # "subscribe" => ftopics = {}
    /\ \A c \in 1..Conns : c > conn => forwarded[c] = {}

\* A counted topic is on the current connection, or somebody will yet put it there.
CountedOrPending ==
    conn # 0 => \A n \in NormTopics : topics[n] > 0 =>
        \/ n \in forwarded[conn]
        \/ fpc = "copy"
        \/ n \in ftopics
        \/ hpc = "addLoad" /\ htopic = n
        \/ hpc = "addSubscribe" /\ htopic = n /\ htarget = conn

\* An uncounted topic on the current connection, or about to be put there, was
\* overtaken, or the log handler will yet take it away.
StaleOrPending ==
    /\ \A n \in ftopics : topics[n] > 0 \/ n \in overtaken
    /\ conn # 0 => \A n \in forwarded[conn] :
        \/ topics[n] > 0
        \/ n \in overtaken
        \/ hpc = "removeLoad" /\ htopic = n
        \/ hpc = "removeUnsubscribe" /\ htopic = n /\ htarget = conn

ManagerInv == Pending /\ CountedOrPending /\ StaleOrPending

ListInv == RefCount /\ LiveListed

IInv == TypeOK /\ ManagerInv /\ ListInv

\* The variables ManagerInv depends on.
mvars == <<topics, conn, forwarded, hvars, fvars, overtaken>>

LEMMA NormalizedTopic ==
    ASSUME NEW t \in Topics
    PROVE  NormalizeTopic(t) \in NormTopics
BY DEF NormTopics

LEMMA InitIInv == Init => IInv
<1> SUFFICES ASSUME Init PROVE IInv
  OBVIOUS
<1>1. TypeOK
  BY ConstantsAssumption DEF Init, TypeOK
<1>2. ManagerInv
  BY ConstantsAssumption DEF Init, ManagerInv, Pending, CountedOrPending, StaleOrPending
<1>3. RefCount
  <2>1. \A n \in NormTopics : Occurrences(list, n) = {}
    BY DEF Init, Occurrences
  <2>2. QED
    BY <2>1, FS_EmptySet DEF Init, RefCount
<1>4. LiveListed
  BY DEF Init, LiveListed
<1>5. QED
  BY <1>1, <1>2, <1>3, <1>4 DEF IInv, ListInv

-----------------------------------------------------------------------------
(* The steps of the log handler inside the mutex. *)

\* Counting a topic while the handler is idle keeps the manager's invariant.
LEMMA AddManagerInv ==
    ASSUME TypeOK, ManagerInv, NEW n \in NormTopics, hpc = "idle", add0(n),
           UNCHANGED <<conn, forwarded, fvars>>
    PROVE  ManagerInv'
<1>1. CASE topics[n] = 0
  <2>1. /\ topics' = [topics EXCEPT ![n] = @ + 1]
        /\ hpc' = "addLoad" /\ htopic' = n
        /\ UNCHANGED <<htarget, overtaken, conn, forwarded, fpc, ftopics>>
    BY <1>1 DEF add0, fvars
  <2>2. Pending'
    BY <2>1 DEF TypeOK, ManagerInv, Pending
  <2>3. CountedOrPending'
    BY <2>1 DEF TypeOK, ManagerInv, CountedOrPending
  <2>4. StaleOrPending'
    BY <2>1 DEF TypeOK, ManagerInv, StaleOrPending
  <2>5. QED
    BY <2>2, <2>3, <2>4 DEF ManagerInv
<1>2. CASE topics[n] # 0
  <2>1. /\ topics' = [topics EXCEPT ![n] = @ + 1]
        /\ UNCHANGED <<hpc, htopic, htarget, overtaken, conn, forwarded, fpc, ftopics>>
    BY <1>2 DEF add0, fvars
  <2>2. Pending'
    BY <2>1 DEF TypeOK, ManagerInv, Pending
  <2>3. CountedOrPending'
    BY <1>2, <2>1 DEF TypeOK, ManagerInv, CountedOrPending
  <2>4. StaleOrPending'
    BY <1>2, <2>1 DEF TypeOK, ManagerInv, StaleOrPending
  <2>5. QED
    BY <2>2, <2>3, <2>4 DEF ManagerInv
<1>3. QED
  BY <1>1, <1>2

\* Uncounting a topic while the handler is idle keeps the manager's invariant:
\* the topic that goes away is pending, or it is marked as overtaken.
LEMMA RemoveManagerInv ==
    ASSUME TypeOK, ManagerInv, NEW n \in NormTopics, hpc = "idle", remove0(n),
           UNCHANGED <<conn, forwarded, fvars>>
    PROVE  ManagerInv'
<1>1. CASE topics[n] = 1
  <2>1. /\ topics' = [topics EXCEPT ![n] = 0]
        /\ hpc' = "removeLoad" /\ htopic' = n
        /\ overtaken' = IF n \in ftopics THEN overtaken \cup {n} ELSE overtaken
        /\ UNCHANGED <<htarget, conn, forwarded, fpc, ftopics>>
    BY <1>1 DEF remove0, fvars, TypeOK
  <2>2. Pending'
    BY <2>1 DEF TypeOK, ManagerInv, Pending
  <2>3. CountedOrPending'
    BY <2>1 DEF TypeOK, ManagerInv, CountedOrPending
  <2>4. StaleOrPending'
    BY <2>1 DEF TypeOK, ManagerInv, StaleOrPending
  <2>5. QED
    BY <2>2, <2>3, <2>4 DEF ManagerInv
<1>2. CASE topics[n] # 1
  <2>1. /\ topics' = IF topics[n] = 0 THEN topics ELSE [topics EXCEPT ![n] = @ - 1]
        /\ UNCHANGED <<hpc, htopic, htarget, overtaken, conn, forwarded, fpc, ftopics>>
    BY <1>2 DEF remove0, fvars
  <2>2. \A m \in NormTopics : topics[m] > 0 <=> topics'[m] > 0
    BY <1>2, <2>1 DEF TypeOK
  <2>3. Pending'
    BY <2>1 DEF TypeOK, ManagerInv, Pending
  <2>4. CountedOrPending'
    BY <2>1, <2>2 DEF TypeOK, ManagerInv, CountedOrPending
  <2>5. StaleOrPending'
    BY <2>1, <2>2 DEF TypeOK, ManagerInv, StaleOrPending
  <2>6. QED
    BY <2>3, <2>4, <2>5 DEF ManagerInv
<1>3. QED
  BY <1>1, <1>2

\* A step that leaves the manager's variables alone keeps its invariant.
LEMMA StutterManagerInv ==
    ASSUME ManagerInv, UNCHANGED mvars
    PROVE  ManagerInv'
BY DEF ManagerInv, Pending, CountedOrPending, StaleOrPending, mvars, hvars, fvars

\* The type invariant over a step of add0 or remove0.
LEMMA CountTypes ==
    ASSUME TypeOK, NEW n \in NormTopics, hpc = "idle", add0(n) \/ remove0(n)
    PROVE  /\ topics' \in [NormTopics -> Nat]
           /\ hpc' \in {"idle", "addLoad", "removeLoad"}
           /\ hpc' # "idle" => htopic' \in NormTopics
           /\ htarget' \in 0..Conns
           /\ overtaken' \in SUBSET NormTopics
<1>1. CASE add0(n)
  BY <1>1 DEF add0, TypeOK
<1>2. CASE remove0(n)
  <2>1. topics' \in [NormTopics -> Nat]
    BY <1>2 DEF remove0, TypeOK
  <2>2. QED
    BY <1>2, <2>1 DEF remove0, TypeOK
<1>3. QED
  BY <1>1, <1>2

\* A new subscription: its element is pushed and its topic counted.
LEMMA AddStep ==
    ASSUME IInv, NEW c \in Clients, NEW t \in Topics, addSubscription(c, t)
    PROVE  IInv'
<1> DEFINE n == NormalizeTopic(t)
           e == [client |-> c, topic |-> t]
<1>0. TypeOK /\ ManagerInv /\ RefCount /\ LiveListed /\ n \in NormTopics /\ e \in Items
  BY NormalizedTopic DEF IInv, ListInv, Items
<1>1. CASE filterTopic(n)
  <2>1. /\ live' = live \cup {<<c, t>>}
        /\ present' = present \cup {c}
        /\ UNCHANGED <<list, topics, conn, forwarded, hvars, fvars, overtaken>>
    BY <1>1 DEF addSubscription
  <2>2. TypeOK'
    BY <1>0, <2>1 DEF TypeOK, hvars, fvars
  <2>3. ManagerInv'
    BY <1>0, <2>1, StutterManagerInv DEF mvars
  <2>4. RefCount'
    BY <1>0, <2>1 DEF RefCount, Occurrences
  <2>5. LiveListed'
    BY <1>0, <1>1, <2>1 DEF LiveListed
  <2>6. QED
    BY <2>2, <2>3, <2>4, <2>5 DEF IInv, ListInv
<1>2. CASE ~filterTopic(n)
  <2> HIDE DEF n, e
  <2>1. /\ hpc = "idle"
        /\ live' = live \cup {<<c, t>>}
        /\ present' = present \cup {c}
        /\ list' = Append(list, e)
        /\ add0(n)
        /\ UNCHANGED <<conn, forwarded, fvars>>
    BY <1>2 DEF addSubscription, n, e
  <2>2. list \in Seq(Items)
    BY <1>0 DEF TypeOK
  <2>3. /\ list' \in Seq(Items)
        /\ Len(list') = Len(list) + 1
        /\ \A i \in 1..Len(list) : list'[i] = list[i]
        /\ list'[Len(list) + 1] = e
    BY <1>0, <2>1, <2>2, AppendProperties
  <2>4. TypeOK'
    <3>1. /\ topics' \in [NormTopics -> Nat]
          /\ hpc' \in {"idle", "addLoad", "removeLoad"}
          /\ hpc' # "idle" => htopic' \in NormTopics
          /\ htarget' \in 0..Conns
          /\ overtaken' \in SUBSET NormTopics
      BY <1>0, <2>1, CountTypes
    <3>2. live' \in SUBSET (Clients \X Topics) /\ present' \in SUBSET Clients
      BY <1>0, <2>1 DEF TypeOK
    <3>3. QED
      BY <1>0, <2>1, <2>3, <3>1, <3>2 DEF TypeOK, fvars
  <2>5. ManagerInv'
    BY <1>0, <2>1, AddManagerInv
  <2>6. RefCount'
    <3> SUFFICES ASSUME NEW m \in NormTopics
                 PROVE  topics'[m] = Cardinality(Occurrences(list', m))
      BY DEF RefCount
    <3>1. Cardinality(Occurrences(list', m)) =
            IF n = m THEN Cardinality(Occurrences(list, m)) + 1
                     ELSE Cardinality(Occurrences(list, m))
      BY <1>0, <2>1, <2>2, OccurrencesAppend DEF n, e
    <3>2. topics'[m] = IF n = m THEN topics[m] + 1 ELSE topics[m]
      BY <1>0, <2>1 DEF add0, TypeOK
    <3>3. QED
      BY <1>0, <3>1, <3>2 DEF RefCount
  <2>7. LiveListed'
    <3> SUFFICES ASSUME NEW s \in live', ~filterTopic(NormalizeTopic(s[2]))
                 PROVE  \E i \in DOMAIN list' : list'[i] = [client |-> s[1], topic |-> s[2]]
      BY DEF LiveListed
    <3>1. DOMAIN list = 1..Len(list) /\ DOMAIN list' = 1..(Len(list) + 1) /\ Len(list) \in Nat
      BY <2>2, <2>3
    <3>2. CASE s \in live
      BY <1>0, <2>3, <3>1, <3>2 DEF LiveListed
    <3>3. CASE s = <<c, t>>
      BY <2>3, <3>1, <3>3 DEF e
    <3>4. QED
      BY <2>1, <3>2, <3>3
  <2>8. QED
    BY <2>4, <2>5, <2>6, <2>7 DEF IInv, ListInv
<1>3. QED
  BY <1>1, <1>2

\* The counter and the list agree after the removal of the element at position i.
LEMMA RemoveRefCount ==
    ASSUME TypeOK, RefCount, NEW i \in DOMAIN list,
           list' = RemoveAt(list, i), remove0(NormalizeTopic(list[i].topic))
    PROVE  RefCount'
<1> DEFINE n == NormalizeTopic(list[i].topic)
<1>1. list \in Seq(Items) /\ i \in 1..Len(list) /\ list[i] \in Items
  BY DEF TypeOK
<1>2. n \in NormTopics
  BY <1>1, NormalizedTopic DEF Items
<1>3. topics[n] # 0
  <2>1. i \in Occurrences(list, n)
    BY DEF Occurrences
  <2>2. QED
    BY <1>1, <1>2, <2>1, OccurrencesFinite, FS_EmptySet DEF RefCount
<1> SUFFICES ASSUME NEW m \in NormTopics
             PROVE  topics'[m] = Cardinality(Occurrences(list', m))
  BY DEF RefCount
<1>4. Cardinality(Occurrences(list', m)) =
        IF n = m THEN Cardinality(Occurrences(list, m)) - 1
                 ELSE Cardinality(Occurrences(list, m))
  BY <1>1, OccurrencesRemoveAt
<1> HIDE DEF n
<1>5. topics'[m] = IF n = m THEN topics[m] - 1 ELSE topics[m]
  BY <1>2, <1>3 DEF remove0, TypeOK, n
<1>6. QED
  BY <1>4, <1>5 DEF RefCount

\* Every element but the one at position i is still in the list afterwards.
LEMMA RemoveKeepsOthers ==
    ASSUME NEW s \in Seq(Items), NEW i \in 1..Len(s), NEW j \in 1..Len(s), j # i
    PROVE  \E k \in DOMAIN RemoveAt(s, i) : RemoveAt(s, i)[k] = s[j]
<1> DEFINE r == RemoveAt(s, i)
<1>1. /\ r \in Seq(Items)
      /\ Len(r) = Len(s) - 1
      /\ \A k \in 1..(Len(s) - 1) : r[k] = IF k < i THEN s[k] ELSE s[k + 1]
  BY RemoveAtProperties
<1> HIDE DEF r
<1>2. CASE j < i
  <2>1. j \in 1..(Len(s) - 1) /\ r[j] = s[j]
    BY <1>1, <1>2
  <2>2. QED
    BY <1>1, <2>1 DEF r
<1>3. CASE j > i
  <2>1. j - 1 \in 1..(Len(s) - 1) /\ r[j - 1] = s[j]
    BY <1>1, <1>3
  <2>2. QED
    BY <1>1, <2>1 DEF r
<1>4. QED
  BY <1>2, <1>3

\* Both removals: nothing matches, or the first match is removed.  The live
\* subscriptions that remain match none of the removed elements.
LEMMA RemoveStep ==
    ASSUME IInv, NEW matching \in SUBSET DOMAIN list, hpc = "idle",
           RemoveFirstOf(matching),
           live' \subseteq live, present' \in SUBSET Clients,
           \A i \in matching : <<list[i].client, list[i].topic>> \notin live',
           UNCHANGED <<conn, forwarded, fvars>>
    PROVE  IInv'
<1>0. TypeOK /\ ManagerInv /\ RefCount /\ LiveListed /\ list \in Seq(Items)
  BY DEF IInv, ListInv, TypeOK
<1>1. CASE UNCHANGED <<list, topics, hvars, overtaken>>
  <2>1. TypeOK'
    BY <1>0, <1>1 DEF TypeOK, hvars, fvars
  <2>2. ManagerInv'
    BY <1>0, <1>1, StutterManagerInv DEF mvars
  <2>3. RefCount'
    BY <1>0, <1>1 DEF RefCount, Occurrences
  <2>4. LiveListed'
    BY <1>0, <1>1 DEF LiveListed
  <2>5. QED
    BY <2>1, <2>2, <2>3, <2>4 DEF IInv, ListInv
<1>2. ASSUME NEW i \in matching, list' = RemoveAt(list, i),
             remove0(NormalizeTopic(list[i].topic))
      PROVE  IInv'
  <2>1. i \in 1..Len(list) /\ list[i] \in Items /\ NormalizeTopic(list[i].topic) \in NormTopics
    <3>1. i \in 1..Len(list) /\ list[i] \in Items
      BY <1>0
    <3>2. list[i].topic \in Topics
      BY <3>1 DEF Items
    <3>3. QED
      BY <3>1, <3>2, NormalizedTopic
  <2>2. TypeOK'
    <3>1. list' \in Seq(Items)
      BY <1>0, <1>2, <2>1, RemoveAtProperties
    <3>2. /\ topics' \in [NormTopics -> Nat]
          /\ hpc' \in {"idle", "addLoad", "removeLoad"}
          /\ hpc' # "idle" => htopic' \in NormTopics
          /\ htarget' \in 0..Conns
          /\ overtaken' \in SUBSET NormTopics
      BY <1>0, <1>2, <2>1, CountTypes
    <3>3. live' \in SUBSET (Clients \X Topics)
      BY <1>0 DEF TypeOK
    <3>4. QED
      BY <1>0, <3>1, <3>2, <3>3 DEF TypeOK, fvars
  <2>3. ManagerInv'
    BY <1>0, <1>2, <2>1, RemoveManagerInv
  <2>4. RefCount'
    BY <1>0, <1>2, RemoveRefCount
  <2>5. LiveListed'
    <3> SUFFICES ASSUME NEW s \in live', ~filterTopic(NormalizeTopic(s[2]))
                 PROVE  \E k \in DOMAIN list' : list'[k] = [client |-> s[1], topic |-> s[2]]
      BY DEF LiveListed
    <3>1. s \in Clients \X Topics /\ s \in live
      BY <1>0 DEF TypeOK
    <3>2. PICK j \in DOMAIN list : list[j] = [client |-> s[1], topic |-> s[2]]
      BY <1>0, <3>1 DEF LiveListed
    <3>3. <<list[j].client, list[j].topic>> = s
      BY <3>1, <3>2
    <3>4. j # i
      BY <1>2, <3>3
    <3>5. j \in 1..Len(list)
      BY <1>0
    <3>6. QED
      BY <1>0, <1>2, <2>1, <3>2, <3>4, <3>5, RemoveKeepsOthers
  <2>6. QED
    BY <2>2, <2>3, <2>4, <2>5 DEF IInv, ListInv
<1>3. QED
  BY <1>1, <1>2 DEF RemoveFirstOf

-----------------------------------------------------------------------------
(* The steps outside the mutex, and the theorems. *)

\* Every action keeps the inductive invariant.
LEMMA NextIInv == IInv /\ [Next]_vars => IInv'
<1> SUFFICES ASSUME IInv, [Next]_vars PROVE IInv'
  OBVIOUS
<1>0. TypeOK /\ ManagerInv /\ ListInv /\ list \in Seq(Items)
  BY DEF IInv, TypeOK
<1>1. ASSUME NEW c \in Clients, NEW t \in Topics, addSubscription(c, t)
      PROVE  IInv'
  BY <1>1, AddStep
<1>2. ASSUME NEW c \in Clients, NEW t \in Topics, removeSubscription(c, t)
      PROVE  IInv'
  <2> DEFINE matching == {i \in DOMAIN list : list[i].client = c /\ list[i].topic = t}
  <2>1. /\ hpc = "idle" /\ RemoveFirstOf(matching)
        /\ live' = live \ {<<c, t>>}
        /\ UNCHANGED <<conn, forwarded, fvars, present>>
    BY <1>2 DEF removeSubscription
  <2>2. \A i \in matching : <<list[i].client, list[i].topic>> \notin live'
    BY <2>1
  <2>3. present' \in SUBSET Clients /\ matching \in SUBSET DOMAIN list
    BY <1>0, <2>1 DEF TypeOK
  <2> HIDE DEF matching
  <2>4. QED
    BY <2>1, <2>2, <2>3, RemoveStep
<1>3. ASSUME NEW c \in Clients, removeAllSubscriptions(c)
      PROVE  IInv'
  <2> DEFINE matching == {i \in DOMAIN list : list[i].client = c}
  <2>1. /\ hpc = "idle" /\ RemoveFirstOf(matching)
        /\ live' = {s \in live : s[1] # c}
        /\ present' = present \ {c}
        /\ UNCHANGED <<conn, forwarded, fvars>>
    BY <1>3 DEF removeAllSubscriptions
  <2>2. \A i \in matching : <<list[i].client, list[i].topic>> \notin live'
    BY <2>1
  <2>3. present' \in SUBSET Clients /\ matching \in SUBSET DOMAIN list
    BY <1>0, <2>1 DEF TypeOK
  <2> HIDE DEF matching
  <2>4. QED
    BY <2>1, <2>2, <2>3, RemoveStep
<1>4. ASSUME UNCHANGED <<list, topics, live>>
      PROVE  ListInv'
  BY <1>0, <1>4 DEF ListInv, RefCount, LiveListed, Occurrences
<1>5. CASE LoadConn
  <2>1. TypeOK'
    BY <1>0, <1>5 DEF LoadConn, TypeOK, fvars, bvars
  <2>2. ManagerInv'
    <3>1. Pending'
      BY <1>0, <1>5 DEF LoadConn, ManagerInv, Pending, TypeOK, fvars, bvars
    <3>2. CountedOrPending'
      BY <1>0, <1>5 DEF LoadConn, ManagerInv, CountedOrPending, TypeOK, fvars, bvars
    <3>3. StaleOrPending'
      BY <1>0, <1>5 DEF LoadConn, ManagerInv, StaleOrPending, TypeOK, fvars, bvars
    <3>4. QED
      BY <3>1, <3>2, <3>3 DEF ManagerInv
  <2>3. ListInv'
    BY <1>4, <1>5 DEF LoadConn, bvars
  <2>4. QED
    BY <2>1, <2>2, <2>3 DEF IInv
<1>6. CASE AddSubscribe
  <2>1. TypeOK'
    <3>1. forwarded' \in [1..Conns -> SUBSET NormTopics]
      BY <1>0, <1>6 DEF AddSubscribe, TypeOK
    <3>2. htarget' \in 0..Conns
      BY <1>6, ConstantsAssumption DEF AddSubscribe, Return
    <3>3. QED
      BY <1>0, <1>6, <3>1, <3>2 DEF AddSubscribe, Return, TypeOK, fvars, bvars
  <2>2. ManagerInv'
    <3>1. Pending'
      BY <1>0, <1>6 DEF AddSubscribe, Return, ManagerInv, Pending, TypeOK, fvars, bvars
    <3>2. CountedOrPending'
      BY <1>0, <1>6 DEF AddSubscribe, Return, ManagerInv, CountedOrPending, TypeOK, fvars, bvars
    <3>3. StaleOrPending'
      BY <1>0, <1>6 DEF AddSubscribe, Return, ManagerInv, Pending, StaleOrPending, TypeOK, fvars, bvars
    <3>4. QED
      BY <3>1, <3>2, <3>3 DEF ManagerInv
  <2>3. ListInv'
    BY <1>4, <1>6 DEF AddSubscribe, bvars
  <2>4. QED
    BY <2>1, <2>2, <2>3 DEF IInv
<1>7. CASE RemoveUnsubscribe
  <2>1. TypeOK'
    <3>1. forwarded' \in [1..Conns -> SUBSET NormTopics]
      BY <1>0, <1>7 DEF RemoveUnsubscribe, TypeOK
    <3>2. htarget' \in 0..Conns
      BY <1>7, ConstantsAssumption DEF RemoveUnsubscribe, Return
    <3>3. QED
      BY <1>0, <1>7, <3>1, <3>2 DEF RemoveUnsubscribe, Return, TypeOK, fvars, bvars
  <2>2. ManagerInv'
    <3>1. Pending'
      BY <1>0, <1>7 DEF RemoveUnsubscribe, Return, ManagerInv, Pending, TypeOK, fvars, bvars
    <3>2. CountedOrPending'
      BY <1>0, <1>7 DEF RemoveUnsubscribe, Return, ManagerInv, Pending, CountedOrPending, TypeOK, fvars, bvars
    <3>3. StaleOrPending'
      BY <1>0, <1>7 DEF RemoveUnsubscribe, Return, ManagerInv, StaleOrPending, TypeOK, fvars, bvars
    <3>4. QED
      BY <3>1, <3>2, <3>3 DEF ManagerInv
  <2>3. ListInv'
    BY <1>4, <1>7 DEF RemoveUnsubscribe, bvars
  <2>4. QED
    BY <2>1, <2>2, <2>3 DEF IInv
<1>8. CASE ForwardStore
  <2>1. TypeOK'
    BY <1>0, <1>8, ConstantsAssumption DEF ForwardStore, TypeOK, hvars, bvars
  <2>2. ManagerInv'
    <3>1. Pending'
      BY <1>0, <1>8 DEF ForwardStore, ManagerInv, Pending, TypeOK, hvars, bvars
    <3>2. CountedOrPending'
      BY <1>8 DEF ForwardStore, CountedOrPending
    <3>3. StaleOrPending'
      <4>1. ftopics' = {}
        BY <1>0, <1>8 DEF ForwardStore, ManagerInv, Pending
      <4>2. conn' \in 1..Conns /\ forwarded'[conn'] = {}
        BY <1>0, <1>8, ConstantsAssumption DEF ForwardStore, ManagerInv, Pending, TypeOK
      <4>3. QED
        BY <4>1, <4>2 DEF StaleOrPending
    <3>4. QED
      BY <3>1, <3>2, <3>3 DEF ManagerInv
  <2>3. ListInv'
    BY <1>4, <1>8 DEF ForwardStore, bvars
  <2>4. QED
    BY <2>1, <2>2, <2>3 DEF IInv
<1>9. CASE copyTopics
  <2>1. TypeOK'
    BY <1>0, <1>9 DEF copyTopics, TypeOK, hvars, bvars
  <2>2. ManagerInv'
    <3>1. Pending'
      BY <1>0, <1>9 DEF copyTopics, ManagerInv, Pending, TypeOK, hvars, bvars
    <3>2. CountedOrPending'
      BY <1>0, <1>9 DEF copyTopics, ManagerInv, CountedOrPending, TypeOK, hvars, bvars
    <3>3. StaleOrPending'
      BY <1>0, <1>9 DEF copyTopics, ManagerInv, StaleOrPending, TypeOK, hvars, bvars
    <3>4. QED
      BY <3>1, <3>2, <3>3 DEF ManagerInv
  <2>3. ListInv'
    BY <1>4, <1>9 DEF copyTopics, bvars
  <2>4. QED
    BY <2>1, <2>2, <2>3 DEF IInv
<1>10. CASE ForwardSubscribe
  <2>1. PICK n \in ftopics :
          /\ forwarded' = [forwarded EXCEPT ![conn] = @ \cup {n}]
          /\ ftopics' = ftopics \ {n}
    BY <1>10 DEF ForwardSubscribe
  <2>2. /\ fpc = "subscribe"
        /\ fpc' = IF ftopics' = {} THEN "idle" ELSE "subscribe"
        /\ UNCHANGED <<list, topics, conn, hpc, htopic, htarget, live, present, overtaken>>
    BY <1>10 DEF ForwardSubscribe, hvars, bvars
  <2>3. TypeOK'
    BY <1>0, <2>1, <2>2 DEF TypeOK
  <2>4. ManagerInv'
    <3>1. Pending'
      BY <1>0, <2>1, <2>2 DEF ManagerInv, Pending, TypeOK
    <3>2. CountedOrPending'
      BY <1>0, <2>1, <2>2 DEF ManagerInv, CountedOrPending, TypeOK
    <3>3. StaleOrPending'
      BY <1>0, <2>1, <2>2 DEF ManagerInv, StaleOrPending, TypeOK
    <3>4. QED
      BY <3>1, <3>2, <3>3 DEF ManagerInv
  <2>5. ListInv'
    BY <1>4, <2>2
  <2>6. QED
    BY <2>3, <2>4, <2>5 DEF IInv
<1>11. CASE UNCHANGED vars
  <2>1. TypeOK'
    BY <1>0, <1>11 DEF TypeOK, vars, hvars, fvars, bvars
  <2>2. ManagerInv'
    BY <1>0, <1>11, StutterManagerInv DEF vars, mvars
  <2>3. ListInv'
    BY <1>4, <1>11 DEF vars, bvars
  <2>4. QED
    BY <2>1, <2>2, <2>3 DEF IInv
<1>12. QED
  BY <1>1, <1>2, <1>3, <1>5, <1>6, <1>7, <1>8, <1>9, <1>10, <1>11
     DEF Next, ProcessLogs, Manage, ForwardTo

\* The inductive invariant holds in every reachable state.
THEOREM Invariance == Spec => []IInv
<1>1. QED
  BY InitIInv, NextIInv, PTL DEF Spec

\* Every variable keeps its type: in particular no step of Add or Remove uses a
\* connection that is not there.
THEOREM TypeCorrect == Spec => []TypeOK
<1>1. IInv => TypeOK
  BY DEF IInv
<1>2. QED
  BY <1>1, Invariance, PTL

\* The manager counts a topic exactly as often as the log handler lists it.
THEOREM RefCountCorrect == Spec => []RefCount
<1>1. IInv => RefCount
  BY DEF IInv, ListInv
<1>2. QED
  BY <1>1, Invariance, PTL

\* Every live local subscription is on the current hub connection once the log
\* handler and ForwardTo have nothing left to do.
THEOREM NoSubscriptionLost == Spec => []LiveForwarded
<1>1. IInv => LiveForwarded
  <2> SUFFICES ASSUME IInv, Quiet, NEW s \in live, ~filterTopic(NormalizeTopic(s[2]))
               PROVE  NormalizeTopic(s[2]) \in forwarded[conn]
    BY DEF LiveForwarded
  <2> DEFINE n == NormalizeTopic(s[2])
  <2>0. TypeOK /\ ManagerInv /\ RefCount /\ LiveListed
    BY DEF IInv, ListInv
  <2>1. s[2] \in Topics /\ n \in NormTopics
    BY <2>0, NormalizedTopic DEF TypeOK
  <2>2. PICK i \in DOMAIN list : list[i] = [client |-> s[1], topic |-> s[2]]
    BY <2>0 DEF LiveListed
  <2>3. i \in Occurrences(list, n)
    BY <2>2 DEF Occurrences
  <2> HIDE DEF n
  <2>4. topics[n] # 0
    BY <2>0, <2>1, <2>3, OccurrencesFinite, FS_EmptySet DEF RefCount, TypeOK
  <2>5. topics[n] > 0
    BY <2>0, <2>1, <2>4 DEF TypeOK
  <2>6. ftopics = {}
    BY <2>0 DEF Quiet, ManagerInv, Pending
  <2>7. n \in forwarded[conn]
    BY <2>0, <2>1, <2>5, <2>6 DEF Quiet, ManagerInv, CountedOrPending
  <2>8. QED
    BY <2>7 DEF n
<1>2. QED
  BY <1>1, Invariance, PTL

\* A topic that is forwarded but not counted any more was removed between
\* ForwardTo's copy of the topics and its subscription.
THEOREM StaleCause == Spec => []StaleOnlyIfOvertaken
<1>1. IInv => StaleOnlyIfOvertaken
  BY DEF IInv, ManagerInv, StaleOrPending, StaleOnlyIfOvertaken, Quiet
<1>2. QED
  BY <1>1, Invariance, PTL
=============================================================================
