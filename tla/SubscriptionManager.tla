-------------------------- MODULE SubscriptionManager --------------------------
(***************************************************************************)
(* Forwarding of the local command subscriptions to the hub.               *)
(*                                                                         *)
(* Mosquitto publishes a log line for every subscription, unsubscription   *)
(* and disconnection of a local client.  The log handler                   *)
(* (routing/subscription.go) keeps a list of the live subscriptions, the   *)
(* subscription manager (connector/subscription_manager.go) a counter per  *)
(* normalised topic and the hub connection the topics are forwarded to.    *)
(* Every launch creates a new hub connection and hands it to ForwardTo,    *)
(* which runs in the launcher's goroutine while the log handler goes on.   *)
(*                                                                         *)
(* Log lines are processed one at a time: the subscriber of the log topic  *)
(* is not buffered and waits for the acknowledgement of each message.  The *)
(* atomic steps are the critical sections of the manager's mutex and the   *)
(* accesses to its atomic connection reference.                            *)
(***************************************************************************)
EXTENDS Naturals, FiniteSets, Sequences, SequencesExt

CONSTANTS
    Clients,      \* identifiers of the MQTT clients of the local broker
    OwnClients,   \* the connector's own clients, localClientID and cloudClientID
    Mids,         \* the part of a command topic between "command//" and "/req/#"
    WildMids,     \* the ones with a level that is just "+"
    Topics,       \* the command topics the clients subscribe to
    Conns,        \* the number of hub connections created, one per launch
    MaxList       \* bound: length of the subscription list

\* A command topic as the log regular expressions accept it: a short or long
\* prefix, the device part and a short or long suffix.
CommandTopics == [pre : {"c//", "command//"}, mid : Mids, suf : {"/q/#", "/req/#"}]

ASSUME ConstantsAssumption ==
    /\ OwnClients \subseteq Clients
    /\ WildMids \subseteq Mids
    /\ Topics \subseteq CommandTopics
    /\ Conns \in Nat
    /\ MaxList \in Nat

\* Command topics in their long form.
NormalizeTopic(t) == [t EXCEPT !.pre = "command//", !.suf = "/req/#"]

NormTopics == {NormalizeTopic(t) : t \in Topics}

\* A topic with a single-level wildcard between two slashes is not forwarded.
filterTopic(n) == n.mid \in WildMids

Items == [client : Clients, topic : Topics]

VARIABLES
    list,         \* LogHandler.SubcriptionList
    topics,       \* subscriptionManager.topics, 0 for a topic not in the map
    conn,         \* subscriptionManager.conn, 0 when nothing is stored yet
    forwarded,    \* the topics map of each hub connection
    hpc,          \* the log handler: where it is in Manager.Add or Manager.Remove
    htopic,       \* its argument, a normalised topic
    htarget,      \* the connection it loaded
    fpc,          \* ForwardTo: "idle", "copy" or "subscribe"
    ftopics,      \* the copied topics it has yet to subscribe
    live,         \* what is subscribed at the local broker as of the last line
    present,      \* the clients that subscribed and did not go away since
    overtaken     \* history: topics removed after ForwardTo had copied them

bvars == <<live, present>>
hvars == <<hpc, htopic, htarget>>
fvars == <<fpc, ftopics>>
vars == <<list, topics, conn, forwarded, hvars, fvars, bvars, overtaken>>

NoTopic == "none"

TypeOK ==
    /\ list \in Seq(Items)
    /\ topics \in [NormTopics -> Nat]
    /\ conn \in 0..Conns
    /\ forwarded \in [1..Conns -> SUBSET NormTopics]
    /\ hpc \in {"idle", "addLoad", "addSubscribe", "removeLoad", "removeUnsubscribe"}
    /\ hpc # "idle" => htopic \in NormTopics
    /\ htarget \in 0..Conns
    /\ hpc \in {"addSubscribe", "removeUnsubscribe"} => htarget # 0
    /\ fpc \in {"idle", "copy", "subscribe"}
    /\ fpc # "idle" => conn # 0
    /\ ftopics \in SUBSET NormTopics
    /\ live \in SUBSET (Clients \X Topics)
    /\ present \in SUBSET Clients
    /\ overtaken \in SUBSET NormTopics

Init ==
    /\ list = <<>>
    /\ topics = [n \in NormTopics |-> 0]
    /\ conn = 0
    /\ forwarded = [c \in 1..Conns |-> {}]
    /\ hpc = "idle"
    /\ htopic = NoTopic
    /\ htarget = 0
    /\ fpc = "idle"
    /\ ftopics = {}
    /\ live = {}
    /\ present = {}
    /\ overtaken = {}

(***************************************************************************)
(* The manager's critical sections, as seen by the log handler.            *)
(***************************************************************************)

\* Count the topic; only its first subscription goes on to the connection.
add0(n) ==
    /\ topics' = [topics EXCEPT ![n] = @ + 1]
    /\ IF topics[n] = 0
       THEN hpc' = "addLoad" /\ htopic' = n
       ELSE UNCHANGED <<hpc, htopic>>
    /\ UNCHANGED <<htarget, overtaken>>

\* Mutant: the topic is deleted whatever its counter says.
remove0_Deletes(n) ==
    /\ topics' = [topics EXCEPT ![n] = 0]
    /\ hpc' = "removeLoad"
    /\ htopic' = n
    /\ overtaken' = IF n \in ftopics THEN overtaken \cup {n} ELSE overtaken
    /\ UNCHANGED htarget

\* Mutant: the last but one subscription is already forwarded as an unsubscription.
remove0_OffByOne(n) ==
    /\ topics' = [topics EXCEPT ![n] = @ - 1]
    /\ IF topics[n] <= 2
       THEN /\ hpc' = "removeLoad"
            /\ htopic' = n
            /\ overtaken' = IF n \in ftopics THEN overtaken \cup {n} ELSE overtaken
       ELSE UNCHANGED <<hpc, htopic, overtaken>>
    /\ UNCHANGED htarget

\* Mutant: the deletion of the topic is not reported.
remove0_NotReported(n) ==
    /\ topics' = [topics EXCEPT ![n] = @ - 1]
    /\ UNCHANGED <<hvars, overtaken>>

\* Uncount the topic; only its last subscription goes on to the connection.
remove0(n) ==
    /\ topics' = IF topics[n] = 0 THEN topics ELSE [topics EXCEPT ![n] = @ - 1]
    /\ IF topics[n] = 1
       THEN /\ hpc' = "removeLoad"
            /\ htopic' = n
            /\ overtaken' = IF n \in ftopics THEN overtaken \cup {n} ELSE overtaken
       ELSE UNCHANGED <<hpc, htopic, overtaken>>
    /\ UNCHANGED htarget

(***************************************************************************)
(* LogHandler.ProcessLogs, one action per type of log line.  The lines of  *)
(* the connector's own clients are skipped.                                *)
(***************************************************************************)
addSubscription(c, t) ==
    /\ hpc = "idle"
    /\ c \notin OwnClients
    /\ Len(list) < MaxList
    /\ live' = live \cup {<<c, t>>}
    /\ present' = present \cup {c}
    /\ IF filterTopic(NormalizeTopic(t))
       THEN UNCHANGED <<list, topics, hvars, overtaken>>
       ELSE /\ list' = Append(list, [client |-> c, topic |-> t])
            /\ add0(NormalizeTopic(t))
    /\ UNCHANGED <<conn, forwarded, fvars>>

\* Of the list elements that match, the first one, if any, is removed and its
\* topic is uncounted.
RemoveFirstOf(matching) ==
    \/ /\ matching = {}
       /\ UNCHANGED <<list, topics, hvars, overtaken>>
    \/ \E i \in matching :
        /\ \A j \in matching : i <= j
        /\ list' = RemoveAt(list, i)
        /\ remove0(NormalizeTopic(list[i].topic))

removeSubscription(c, t) ==
    /\ hpc = "idle"
    /\ c \notin OwnClients
    /\ live' = live \ {<<c, t>>}
    /\ RemoveFirstOf({i \in DOMAIN list : list[i].client = c /\ list[i].topic = t})
    /\ UNCHANGED <<conn, forwarded, fvars, present>>

\* The loop removes the element it stands on; a removed element of a Go list
\* has no successor, so that the first element of the client ends the loop.
removeAllSubscriptions(c) ==
    /\ hpc = "idle"
    /\ c \notin OwnClients
    /\ live' = {s \in live : s[1] # c}
    /\ present' = present \ {c}
    /\ RemoveFirstOf({i \in DOMAIN list : list[i].client = c})
    /\ UNCHANGED <<conn, forwarded, fvars>>

(***************************************************************************)
(* The rest of Manager.Add and Manager.Remove: load the connection; if     *)
(* there is one, subscribe or unsubscribe the topic there.                 *)
(***************************************************************************)
LoadConn ==
    /\ hpc \in {"addLoad", "removeLoad"}
    /\ htarget' = conn
    /\ IF conn = 0
       THEN hpc' = "idle" /\ htopic' = NoTopic
       ELSE /\ hpc' = IF hpc = "addLoad" THEN "addSubscribe" ELSE "removeUnsubscribe"
            /\ UNCHANGED htopic
    /\ UNCHANGED <<list, topics, conn, forwarded, fvars, bvars, overtaken>>

Return == hpc' = "idle" /\ htopic' = NoTopic /\ htarget' = 0

AddSubscribe ==
    /\ hpc = "addSubscribe"
    /\ forwarded' = [forwarded EXCEPT ![htarget] = @ \cup {htopic}]
    /\ Return
    /\ UNCHANGED <<list, topics, conn, fvars, bvars, overtaken>>

RemoveUnsubscribe ==
    /\ hpc = "removeUnsubscribe"
    /\ forwarded' = [forwarded EXCEPT ![htarget] = @ \ {htopic}]
    /\ Return
    /\ UNCHANGED <<list, topics, conn, fvars, bvars, overtaken>>

(***************************************************************************)
(* ForwardTo, called by the launcher with the connection of a new launch.  *)
(***************************************************************************)
ForwardStore ==
    /\ fpc = "idle"
    /\ conn < Conns
    /\ conn' = conn + 1
    /\ fpc' = "copy"
    /\ overtaken' = {}
    /\ UNCHANGED <<list, topics, forwarded, hvars, ftopics, bvars>>

copyTopics ==
    /\ fpc = "copy"
    /\ ftopics' = {n \in NormTopics : topics[n] > 0}
    /\ fpc' = IF ftopics' = {} THEN "idle" ELSE "subscribe"
    /\ UNCHANGED <<list, topics, conn, forwarded, hvars, bvars, overtaken>>

\* Mutant: the loop stops after its first topic.
ForwardSubscribe_First ==
    /\ fpc = "subscribe"
    /\ \E n \in ftopics : forwarded' = [forwarded EXCEPT ![conn] = @ \cup {n}]
    /\ ftopics' = {}
    /\ fpc' = "idle"
    /\ UNCHANGED <<list, topics, conn, hvars, bvars, overtaken>>

ForwardSubscribe ==
    /\ fpc = "subscribe"
    /\ \E n \in ftopics :
        /\ forwarded' = [forwarded EXCEPT ![conn] = @ \cup {n}]
        /\ ftopics' = ftopics \ {n}
    /\ fpc' = IF ftopics' = {} THEN "idle" ELSE "subscribe"
    /\ UNCHANGED <<list, topics, conn, hvars, bvars, overtaken>>

ProcessLogs ==
    \E c \in Clients :
        \/ \E t \in Topics : addSubscription(c, t) \/ removeSubscription(c, t)
        \/ removeAllSubscriptions(c)

Manage == LoadConn \/ AddSubscribe \/ RemoveUnsubscribe

ForwardTo == ForwardStore \/ copyTopics \/ ForwardSubscribe

Next == ProcessLogs \/ Manage \/ ForwardTo

Spec == Init /\ [][Next]_vars

\* The goroutines of the log handler and of the launcher keep running; log lines
\* and new launches need not come.
FairSpec == Spec /\ WF_vars(Manage) /\ WF_vars(copyTopics \/ ForwardSubscribe)

-----------------------------------------------------------------------------
Occurrences(s, n) == {i \in DOMAIN s : NormalizeTopic(s[i].topic) = n}

\* The counter of a topic is the number of list elements that normalise to it:
\* add0 and remove0 run once for every element pushed to or removed from the
\* list, whatever spelling of the topic the client used.
RefCount == \A n \in NormTopics : topics[n] = Cardinality(Occurrences(list, n))

\* A subscription that lives at the local broker and is not filtered has an
\* element in the list, so that its topic is counted.
LiveListed ==
    \A s \in live : filterTopic(NormalizeTopic(s[2])) \/
        \E i \in DOMAIN list : list[i] = [client |-> s[1], topic |-> s[2]]

Quiet == hpc = "idle" /\ fpc = "idle" /\ conn # 0

\* No subscription is lost between Manager.Add and ForwardTo: once neither has
\* work left, the current hub connection has every topic a local client is
\* subscribed to, although a new connection may have been stored, or the topics
\* copied, at any point of Add or Remove.
LiveForwarded ==
    Quiet => \A s \in live : filterTopic(NormalizeTopic(s[2])) \/
                             NormalizeTopic(s[2]) \in forwarded[conn]

\* A topic the manager no longer counts stays forwarded for one reason only:
\* Remove overtook ForwardTo between the copy and the subscription.  The reason
\* does occur: Remove then returns true although the topic stays subscribed.
StaleOnlyIfOvertaken ==
    Quiet => \A n \in forwarded[conn] : topics[n] > 0 \/ n \in overtaken

\* A client that went away has no subscription in the list.
GoneClientUnlisted ==
    \A i \in DOMAIN list : list[i].client \in present

\* A topic that stays counted is eventually forwarded to the connection stored
\* last (or another connection is stored).
EventuallyForwarded ==
    \A n \in NormTopics :
        (topics[n] > 0 /\ conn # 0) ~>
            (topics[n] = 0 \/ (conn # 0 /\ n \in forwarded[conn]))
=============================================================================
