# A TLA+ model of the suite connector

The suite connector is a bridge: devices talk MQTT to a local broker, the
connector passes their events, telemetry and command responses on to a hub in
the cloud, and the commands of the hub on to the devices. The hub connection
comes from a provisioning file that may change at any time. Nearly all of the
difficulty is in the concurrency around this: MQTT callbacks in goroutines of
their own, reconnects, a file watcher, a signal, a cache with a cleaner
goroutine, a message router with one goroutine per message.

The modules here model that concurrency. TLC checks them on small instances,
TLAPS proves the main safety properties for every value of the constants.
All names in the modules are those of the code where TLA+ allows it.

## 1. Inventory

| component | code | state | operations | interacts with |
|---|---|---|---|---|
| main goroutine | `cmd/connector/app/eventloop.go`, `config/settings.go`, `util/file_watcher.go` | current launcher, batch of events, signal channel | LocalConnect, watcher, launch on an event, Stop, exit | launcher (calls, `signals`/`done` channels), file system, OS signals |
| launcher | `cmd/connector/launcher.go` | clients, listeners, `signals`, `done` | Run, its goroutine, Stop | everything below is created by a launch |
| MQTT connection | `connector/connection.go` | `running`, `reconnecting`, `stopGroup`, listeners, map of topics | Connect, Disconnect, onConnected, onConnectionLost, externalReconnect, subscribe, unsubscribe | paho client (callbacks), listeners |
| hub to cloud coupling | `routing/service.go`, `config/connections.go` | retained status | listeners' Connected, SendStatus, HonoConnect | both connections, local broker |
| subscription manager | `connector/subscription_manager.go` | topic counters, current hub connection | Add, Remove, ForwardTo | log handler, launcher, hub connection |
| log handler | `routing/subscription.go` | list of client and topic | ProcessLogs: add, remove, remove all | log lines of the local broker, manager |
| subscriber, message loop | `connector/subscriber.go`, `connector/wrapper.go` | `out` channel, `topicClosed`, `processMessage`, `closing`, wait group | Subscribe, handler, runMessageLoop, Close | paho client (calls handler), router (reads `out`, acknowledges) |
| TTL cache | `cache/cache.go` | map, heap, control channel, timer | Put, Remove, Close, cleaner | command buses |
| command buses | `routing/commands.go`, `routing/utils.go`, `util/utils.go` | none but the cache | HandleRequest, HandleResponse | cache, both brokers |
| events and telemetry buses | `routing/events.go`, `routing/timestamp.go` | none; the local broker keeps the events | HandleEvent, AddTimestamp | message loop, router, publisher of the hub |
| publishers, rate limiter | `connector/publisher.go`, `connector/ratelimiter.go` | limiter | Publish | MQTT connection |
| TLS and TPM | `config/tls_config.go`, `tpmtls/` | TPM descriptor, its owner, the key loaded, `genLock` | open, GetRW, ReleaseRW, Close, Sign, the cleaner | CreateHubConnection, handshakes of the hub client, end of a launch |
| settings, flags, logger, helpers | `config/`, `flags/`, `logger/`, `connector/*` | data | parsing, validation, output | all |

Hard behaviours and what correctness means:

* *main goroutine*: the file is written while a launch is being stopped or the
  file is being read; a signal arrives in any phase. No content is lost, launches
  do not overlap, the retained status says why there is no connection, a signal
  ends the process.
* *MQTT connection, coupling*: the callbacks of a connection, of its loss and of
  the next connection overlap. The cloud client runs exactly while the hub is
  connected, the status is true, Stop returns and leaves nothing behind.
* *subscriptions*: the map of topics, the manager's counters, the log handler's
  list and the hub's session change in different goroutines. Nothing a local
  client is subscribed to is missed, nothing removed comes back.
* *message loop*: a channel is closed while handlers send on it. No send on the
  closed channel, no deadlock between the mutex, the channel and Close.
* *cache*: mutex, bounded channel, timer and heap. Nothing is removed too early,
  everything expired is removed in the end, nobody blocks for ever.
* *command buses*: a device may answer on both topics, before the handler of the
  command is done, or too late. One answer passes, and none in time is refused.
* *event buses*: an event is acknowledged to the local broker when its handler is
  done, not when the hub has it; connections are lost, launches end and timeouts
  expire in between. No event is lost or overtaken but where the code accepts it.
* *TPM*: a handshake may sign while the launch ends. Its key is not taken from
  it, and nothing is left in the TPM for the next launch to trip over.
* *local connection*: its loss replaces the status by a will, and the statuses of
  that time come later. The status never gives a wrong reason.

The hazards behind these properties are listed in `PROJECT.json` with the line
where each one bites.

## 2. Modules

Every module says in its head comment what a step is and what is left out.
`MC*` modules hold the model values and symmetry sets of the runs; definitions
named `X_...` right before `X` are mutated forms of `X`, used only to show that
the properties can fail.

| module | models | proofs |
|---|---|---|
| `SubscriptionManager` | log handler, manager, ForwardTo of the launches | `SubscriptionManagerProofs` |
| `HubSession` | subscribe, unsubscribe and onConnected's re-subscription against the hub's session | `HubConnectionProofs` |
| `MessageLoop` | a plain, buffered or dynamic subscriber, its loops, handlers and Close | `MessageLoopProofs` |
| `EventLoop` | main goroutine, local connection, watcher, settings, launches, signal | `EventLoopProofs` |
| `HubTLS` | TLS configuration and TPM of the hub connection over launches, the cleaner, handshakes | `HubConnectionProofs` |
| `EventBus` | an event from the local broker through message loop, router, rate limiter and publisher to the hub client | `EventBusProofs` |
| `TTLCache` | cache with cleaner, heap, control channel | `TTLCacheProofs` |
| `PendingCommands` | abstract specification of the cache, implemented by `TTLCache`, used by `CommandBus` | the refinement, in `TTLCacheProofs` |
| `Bridge` | hub and cloud connections of one launch, reconnect, listeners, HonoConnect, Stop | `BridgeProofs` |
| `LaunchContract` | abstract specification of a launch, implemented by `Bridge`, assumed by `EventLoop` | the refinement, in `BridgeProofs` |
| `CommandBus` | HandleRequest and HandleResponse with the cache and the topics | `CommandBusProofs` |

How the modules fit together: `CommandBus` takes the cache as `PendingCommands`
specifies it, and `TTLCache` is proved to implement that. `EventLoop` uses of a
launch what `LaunchContract` says of its status and of the reasons for its end,
which `Bridge` is proved to implement, and that after Stop its goroutine comes to
an end (`StopReturns`). `SubscriptionManager` says what ends up in the map of a
connection, `HubSession` what becomes of the map at the hub, and `MessageLoop`
(`OneAtATime`) justifies that the log handler's calls come one after the other.
`EventBus` takes of `MessageLoop` the handler of one loop, and of `Bridge` that
the cloud client follows the hub connection, with the races `late` and
`abandoned`, by which a cloud client outlives its launch. `HubTLS` takes of
`EventLoop` that a launch begins after the last one has ended (`OneLaunch`), and
adds what `Bridge` leaves out: CreateHubConnection before, and the cleaner after,
the life of a launch.

### State and steps

* `SubscriptionManager`: `topics` are the counters, `list` the log handler's
  list, `forwarded` the map of topics of each hub connection, `live` and
  `present` what the local broker knows (external). A log line that the regular
  expressions accept is one action; the manager's calls are split where the lock
  is released: counter, load of the connection, subscribe. A topic is a record of
  its spelling, `NormalizeTopic` and `filterTopic` are what the code does to it.
* `HubSession`: `topics` maps a topic to its subscriptioninfo, `resub[n]` is the
  onConnected callback of connection *n*: Range visits a key (reads the info),
  then locks the info and subscribes unless it is disposed. `Store` puts a new info
  into the map whether or not the topic has one; the one it replaces is never
  disposed. The log handler and ForwardTo may both call subscribe. `session` is the
  session once all that was sent has arrived, `arrived` the sessions the hub may
  have if the connection breaks now: a loss of packets is a choice among them.
* `MessageLoop`: `lpc` is runMessageLoop's goroutine, `dpc` a goroutine of the
  MQTT client in handler, `closer` a caller of Close. A step is a select, a lock,
  a test of `topicClosed`, a send. `kind` is the subscriber: the dynamic one has a
  client of its own, is counted before that is connected, and is delivered to
  between the connection and the start of the loop; its connect is retried by the
  client and may never end.
* `TTLCache`: map and heap separately; an operation of a caller is the part under
  the mutex, then the send on the control channel; the cleaner is pause, select,
  clear. What `container/heap` leaves is any order with the heap property. `Reset`
  and `Stop` of the timer follow the Go versions before 1.23, which leave a tick
  in the channel.
* `Bridge`: `up[n]`, `lost[n]` and `cup[m]` are the callbacks of the *n*-th hub
  and the *m*-th cloud connection, `main` the launch's goroutine. History
  variables name the races that the code has and the properties except, see 5.
* `CommandBus`: `rpc` and `copy` follow each command and each of its two copies
  through the handlers. Device ids are sequences of characters, because the
  removal of the gateway's prefix is what can go wrong with them.
* `EventLoop`: `file` is the provisioning file's content (missing, broken,
  unusable or a good version), `watched` events not yet read, `work[n]` the
  goroutine of launch *n*, `applied` what the last launch was made from. `local`
  is the local connection; `unsent` the last status given to the client while it
  was down, which it sends after it has reconnected (external: the client's store
  of messages of QoS 1 and the broker's handling of the will). Run of a launch may
  fail in three places, of which CreateCloudConnection reports no status (`silent`).
* `EventBus`: `message` is what local devices have published, an event is the
  number of a message; `queue` the events the local broker has for the session of
  the cloud client, of which the client has acknowledged the first `acks`: the
  broker takes an acknowledgement later, or it is lost with the connection, and
  the event is sent again. A message of QoS 0 is sent once and kept by nobody
  (`unkept`). `phase` is where the current launch is, with the `settings` it was
  made from; the next launch may have others. `cloud[n]` is the cloud client of
  launch *n*: all of them have the same client id, so that one that connects ends
  the connection of another. `told` are the callbacks that have read the listeners
  and will tell CloudConnectionHandler, also after its removal. A launch ends by a
  signal (listeners removed, cloud client disconnected, router stopped), or because
  HonoConnect was cancelled or has given up: then the router is stopped with the
  listeners in place, and the cloud client is left to itself (`stray`).
  `handler` is the handler of the message loop, `worker[w]` a goroutine of the
  router, `passed` what the hub client took, by which settings and with which
  topic. Topics are sequences of segments, segments sequences of characters, so
  that HandleEvent and stripGatewayID cut them where the code does. `lost` names
  the events that were lost, in one of three ways, see 5.
* `HubTLS`: `pc[n]` follows launch *n* through NewHubTLSConfig, CreateHubConnection,
  its life and its cleaner, `fd`, `keys` and `rw` are the descriptor, the key and
  the field `rw` of the launch, `signer[n]` a handshake of its client, which may
  outlive the launch. The methods of `tpmConnection` and `tpmTLSContext` have value
  receivers, so what they assign to fields is not in the model's state: `rw` stays
  empty.

## 3. Runs

| run | shows | bounds |
|---|---|---|
| `SubscriptionManager` | `RefCount`, `LiveForwarded`, `StaleOnlyIfOvertaken`, `EventuallyForwarded` | three clients (one filtered), four topics of which two are the same after normalisation and one is filtered, list of 2, two launches |
| `SubscriptionManagerGone` | finding, see 5 | list of 3: a client needs two subscriptions |
| `HubSession` | `ToldIsSubscribed`, `LeftoverIsOrphan`, `EventuallySubscribed` | two topics, 3 infos (so that a topic is subscribed twice, or unsubscribed and subscribed again, while another is there), 2 connections |
| `MessageLoop` | `NoSendOnClosed`, `OneAtATime`, `CloseReturns`, `ContextEndsLoop` | one loop of each of the three kinds, two dispatchers, two callers of Close, a buffer of 2 |
| `TTLCache` | `FirstExpiresFirst`, `NoPanic`, `ImplementsPending`, `OperationsReturn`, `ExpiredIsCleared`, `CleanerEnds` | two keys, two callers, a control channel of 1, times to live 0 to 2 |
| `Bridge` | the limit of the retries (`TypeOK`), `CloudFollowsHub`, `StatusTruthful`, `StoppedClean` | two hub connections, one cloud connection, 2 retries |
| `BridgeLive` | `StopReturns`, `ReconnectGoesOn` | two hub connections, no cloud connection, 1 retry |
| `CommandBus` | `AnsweredOnce`, `ReturnToSender`, `InTimeAccepted` | both modes, two deliveries, two ids, the gateway, a device and one with a colon in its name |
| `CommandBusGateway` | finding, see 5 | generic mode, one delivery |
| `EventLoop` | `OneLaunch`, `NoUpdateLost`, `StatusTellsWhy`, `ExitedClean`, `UpdateApplied`, `SignalEnds` | three writes, any number of losses of the local connection |
| `EventBus` | `AckedIsPassedOn`, `InOrder`, `Addressed`, `EventuallySettled` | two launches with one of two settings each, of which one has generic mode and which differ in tenant and gateway, two events (telemetry of a device with an empty tenant and a suffix, of QoS 1, and an event of the gateway itself that cannot be extended, of QoS 0), one loss of the hub or of the cloud connection, two goroutines of the router; every other topic is covered by the theorem |
| `HubTLS` | `SignsUntilClosed`, `OnlyLeaksRemain`, `LaunchEnds` | a raw and a managed TPM with one place for keys, three launches with any TLS settings |

Why the bounds are enough: each race listed as a hazard is between two parties
(two callbacks, a call and a callback, a write and a read), so two of each kind
meet; the counts above one (retries, list items, infos, writes) are those at which
the next case, a repetition, first occurs: two events are what order is about, the
third launch is the first that meets both a leak and an orderly end before it.
What is proved holds without the bounds. Deadlock is not checked, as all systems
may rest: no file is written, no message comes, and the bounds end the
environment's actions.

### Fairness

Weak fairness is given to steps of goroutines that are ready to run, and to
nothing the environment decides: messages, losses, writes and signals need not
come, an acknowledgement need not come, a hub need not be reachable, and the
connect of a dynamic subscriber, which its client retries, need not end. Strong
fairness stands where the Go runtime serves a waiter that is not always ready: a
mutex that is taken again and again (`sync.Mutex` is starvation free), a select
that has one of several cases ready again and again (it chooses at random). In
`TTLCache` the timer and the cleaner's receive have it, which assumes that
operations on the cache do not come faster than the cleaner's shortest pause for
ever: the code restarts the timer on every one of them. `EventBus` has no fairness
on the hub connection, on the connect of a cloud client or on the end of a launch,
as the connector may fail to reconnect (`missed` and the limit of the retries,
`connector/connection.go:415,550`): `EventuallySettled` says instead what follows
when a launch has its hub connection again and again and the local broker can be
reached. In the same way `CloseReturns` has the condition that no connect of a
dynamic subscriber goes on for ever. `HubTLS` assumes that the TPM answers every
command, since Sign holds the lock meanwhile, and that a waiting writer of
`sync.RWMutex` keeps new readers out, which its documentation says.

## 4. Proofs

All invariants are proved by an inductive invariant `IInv` (`Invariance`), from
which the theorems of the properties are read. Assumptions are the named
`ASSUME`s of the component modules: bounds are natural numbers, "no value"
constants lie outside the sets. `CommandBus` assumes in addition that device
names and the gateway's are sequences over one alphabet `Characters` with the
colon in it, and that the deliveries are finitely many, as `AnsweredOnce` counts
them. `EventBus` assumes that segments are sequences over one alphabet with the
colon in it, that a local topic has a segment (it matches one of the
subscriptions), and that tenant and gateway are not empty, which
`HubConnectionSettings.Validate` sees to. `HubConnectionProofs` extends both
modules about the hub connection, `HubTLS` and `HubSession`, which share no state;
the specification of the latter is therefore called `SessionSpec`, and its
invariant `SessionIInv`.

* `SubscriptionManagerProofs`: the properties speak of moments when nobody has
  work left; `IInv` says for every moment who will put a counted topic on the
  connection (`CountedOrPending`) or take an uncounted one away
  (`StaleOrPending`). `RefCount` and `LiveListed` need lemmas on adding to and
  removing from the list and the cardinality of positions.
* `HubConnectionProofs`, session: a topic of the map that is not in the session is
  ahead of the current onConnected or in the hand of subscribe (`Covered`); an
  info that any onConnected holds is in the map, being disposed, disposed or
  replaced (`VisitSound`), which needs that infos are used once (`MapSound`). The
  lemma `StoreSound` says that a Store, by subscribe or by ForwardTo, keeps both.
* `MessageLoopProofs`: `processMessage` is a mutex, and once the loop's goroutine
  has had it after `topicClosed` was set, no handler is between the test and the
  end of its wait (`ClosedSeen`).
  A dynamic subscription that has not started its loop has neither a closed
  channel nor a waiting message (`Quiet`).
* `EventLoopProofs`: an unread content is announced by an event (`Fresh`), only
  the current launch runs and only outside Run (`Launched`), and every event
  comes from a write (`Budget`), so that launches can be numbered. While the local
  connection is down the status is the will, and while it is up nothing is left to
  be sent (`Connected`), so that the last word of a launch (`Said`) is followed by
  no other (`Told`); before a launch that fails silently it is the announcement of
  the update.
* `HubConnectionProofs`, TLS: where a launch is says whether it holds the
  descriptor and the key (`Holding`), all launches but the current one have ended
  (`InTurn`), and what a handshake has seen when it took the lock is still so
  (`Signing`), because the cleaner flushes the key only with the lock.
* `TTLCacheProofs`: the queue is a heap of the elements of the map (`Heap`), and a
  Close that comes last finds no caller in an operation (`Drained`).
  `FirstExpiresFirst` does not follow by looking at parents alone: the lemma
  `HeapRootIsFirst` takes the least position whose element expires before the
  root, and its parent is a smaller one. For `ImplementsPending` every
  part of an operation under the mutex maps to the operation of `PendingCommands`,
  a round of `clearExpired` to an expiry, and all that the channel, the timer and
  the cleaner do beside that to a stutter.
* `CommandBusProofs`: what the cache still holds for an id and the answers taken
  add up to no more than the deliveries noted (`Once`); a noted delivery that is
  neither answered nor past its deadline is in the cache, with an expiry not
  before the deadline (`Kept`), which needs that deliveries with the same id are
  of the same command (`SameCommand`) and how far each handler has come (`Phase`).
  `Sender` rests on the lemma `StripUndoesFix`: `stripGatewayID` undoes
  `fixCommand` for every name, also one that contains colons.
* `BridgeProofs`: the three properties speak of moments at which all callbacks
  rest. In between, only the last link is alive, its predecessors are over
  (`LinkInv`); its callbacks take the cloud client up and down (`FollowInv`); a
  cloud client that does not run is down and has no callback under way, or
  somebody in Disconnect waits for that (`ClosingInv`), so that the status of a
  loss cannot be overwritten by a late "connected" (`StatusInv`); the refusals stay
  below the limit and are told to all listeners (`RefusalInv`); the launcher removes
  the listeners first, then disconnects the cloud client, then the hub (`MainInv`,
  `EndInv`), and after that no reconnection begins (`StopInv`). TLC checked this
  invariant on the instance of the run `Bridge` before it was proved.
  `LaunchKeepsContract`: a launch that has served counts as serving until both
  clients are disconnected (`Work`), and only then as having taken its signal
  (`Taken`), since callbacks may report till then. That none reports later is
  `QuietInv`: Disconnect has waited for the callbacks of the cloud client, one that
  begins afterwards is `overrun`, and a listener of the hub that is told after its
  removal is `late`. A launch that HonoConnect has given up has had no connection,
  or is `abandoned`. The theorem excepts these three races and no other; TLC finds
  a violation of the contract as soon as one of them is left out, and none when
  all are there.
* `EventBusProofs`: the events the broker keeps are in the order of publication
  (`QueueInv`), and a handler whose connection is still there works on the first
  that is not acknowledged (`LiveInv`). What is acknowledged, or about to be, is
  settled (`SettledInv`): the handler waits for a goroutine that works on the same
  event under a context that lasts (`BusyInv`), so that the goroutine can end only
  by settling it; one that is no longer waited for may drop it, but then the event
  is lost or the connection is gone, and the broker sends it again. A closing
  subscriber gives up only when the cloud client is already disconnected, or else
  that client is one left to itself (`StrayInv`), which is the order of the
  launcher's shutdown and its one exception. `AckedIsPassedOn` follows. `InOrder`
  does not follow from the queue alone, as a goroutine left behind by a lost
  connection or an earlier timeout may publish at any time later: it needs that
  all events before the one of *any* goroutine are settled from the moment it
  began (`ClearInv`), and that what is settled stays so (`StaysSettled`).
  `Addressed` rests on `PassedInv`, on `HubTopic`, which finds the segments in the
  concatenation that HandleEvent makes, and on `StripInverse`: putting gateway and
  colon in front undoes `stripGatewayID` for ids of the documented form. TLC
  checked all parts on the instance of the run `EventBus` first. The settings may
  change with every launch, so nothing is claimed of an event that was rejected
  once: the next launch may pass it on.

The type invariants of all nine component modules are theorems (`TypeCorrect`,
`SessionTypeCorrect`); of the runs only `Bridge` checks `TypeOK`, where it bounds
the retries. `LiveListed` is a part of the proof and implied, as far as it matters
outside, by `LiveForwarded`.

Every invariant and every action property of a passing run is a theorem. Only
model-checked are the liveness properties: fairness and ENABLED are out of the
prover's reach. The two findings are counterexamples of TLC. Nothing is proved by
induction over data; where an argument about all positions of a sequence is
needed, as for the heap, it is made with a least counterexample (`LeastNatural`).

## 5. What the runs found

* `SubscriptionManagerGone`: when a client goes away, only its first subscription
  is removed (`routing/subscription.go:324`): the list is walked with `e.Next()`
  after `e` was removed.
* `CommandBusGateway`: in generic mode the reply to a command for the gateway
  itself is rejected after its id was removed from the cache
  (`routing/utils.go:51`).

Races that the code has and that properties therefore except by name:

* `StaleOnlyIfOvertaken`, `overtaken`: a Remove between the copy and the
  subscription of ForwardTo leaves the topic subscribed
  (`connector/subscription_manager.go:104`).
* `LeftoverIsOrphan`, `orphans`: a topic unsubscribed while the hub connection is
  down, or whose UNSUBSCRIBE is lost with it, stays in the session the hub keeps
  (`connector/connection.go:485`; CleanSession is false), although Remove returns
  true, and nothing removes it after the reconnect.
* `LeftoverIsOrphan`, `revived`: subscribe replaces the info of a topic that is in
  the map and does not dispose the old one (`connector/connection.go:445`). An
  onConnected that has loaded it subscribes the topic also after it was
  unsubscribed. The log handler and ForwardTo can meet like this before the first
  connection.
* `ToldIsSubscribed` and `EventuallySubscribed`, `overtaken`: a topic that ForwardTo
  puts into the map between the two halves of its unsubscribe is in the map, and
  unsubscribed with the hub if the connection has come up meanwhile.
* `CloseReturns`: Close waits for a Subscribe of the dynamic subscriber that is in
  its connect (`connector/subscriber.go:218-223`), which the client retries until
  the broker can be reached.
* `AckedIsPassedOn` and `InOrder`, `lost`: there are three ways to lose an event
  that is acknowledged. It is published after the loss of the hub connection and
  before CloudConnectionHandler has disconnected the cloud client
  (`connector/publisher.go:84`). The rate limiter or the hub client holds it
  longer than the acknowledgement timeout (`connector/subscriber.go:328`,
  `connector/ratelimiter.go:49`); it may then also be overtaken. Or it comes by a
  cloud client that is left to itself, because the launch ended in HonoConnect
  (`cmd/connector/launcher.go:161-164`) or because a callback told
  CloudConnectionHandler after its removal (`connector/connection.go:317-323`):
  the subscriber is closed, or the default handler logs the event, and the client
  acknowledges it.
* `OnlyLeaksRemain`, `Left`: an error of NewTPMTlsConfig after the TPM was opened
  leaves the descriptor to the garbage collector, and an error of `loadPubKey`
  leaves the key in a raw TPM for good (`config/tls_config.go:124-154`).
* `StatusTellsWhy`, `silent`: an error of CreateCloudConnection, which reads the
  files for TLS with the local broker at every launch, ends Run without a status
  (`cmd/connector/launcher.go:69-72`); what is retained stays the announcement of
  the update, or nothing at the first launch.
* `StatusTellsWhy`, `"unknown"`: nothing publishes the status again after the local
  connection was lost and has come back (`config/connections.go:246`).
* `Bridge`, `crossed`: the callback of a connection tells its listeners after the
  callback of its loss did. `overrun`: a callback of the cloud client begins
  after Disconnect has waited. `late`: a listener is told after its removal.
  `abandoned`: a signal ends HonoConnect while an attempt is under way. `missed`:
  a loss is reported while `reconnecting` is still set, and nobody reconnects.
* `EventLoop`, `signal = "lost"`: LocalConnect's select takes another case and its
  signal channel is dropped.

The comment of `First` in `cache/cache.go:53` says that it removes the element;
it only reads it. The comment of `Connection.Close` in `tpmtls/tpm_connection.go:38`
says that it is not possible while the io.ReadWriter of GetRW is not released; as
GetRW, ReleaseRW and Close work on copies, ReleaseRW is always refused and Close
always closes. The cleaner ignores the one error and profits from the other; what
protects a signature under way is `genLock` alone (`SignsUntilClosed`).

## 6. Not modelled

* RemoveAll of the subscription manager and SubscribeInitialize of the dynamic
  subscriber: the first has no caller, the second keeps nothing.
* The gateway parameters bus and ReconnectHandler: a constant message.
* The synchronous and the online publisher: no state; no promise of the code is
  built on their result.
* Settings, flags, logger: data and output. NewLocalTLSConfig reads files and
  keeps nothing.
* Cryptography and certificates. FlushContext of a loaded key is taken to succeed
  (its error is not looked at).
* External libraries: the MQTT client, the router, fsnotify, timers, the TPM and
  the two brokers are modelled by what the code relies on; the actions are marked
  external.
* `EventLoop` takes launches that keep `LaunchContract`. In the races `late`,
  `overrun` and `abandoned` of `Bridge` a launch may still publish a status after
  its last word; what that does to the status of the next launch is not looked at.
* `EventBus` is coarser than the client in one place, on the safe side: also an
  orderly Disconnect may lose the acknowledgements on their way. Duplicates that
  this gives are allowed by QoS 1 and by the properties. Which of the local messages
  that were given to a hub client, or are published in the gap after its loss, reach
  the hub is the client's matter. The hub client of a launch that was ended in
  HonoConnect is not followed after the next launch has begun: the listeners are
  removed by then, and what it does to the connection of the next launch is a loss.

## 7. Plan

Done, in this order: subscriptions (manager, log handler), cache and its
abstract specification, message loop, bridge, command buses, event loop, hub
session; then the dynamic subscriber, the event buses with publisher and rate
limiter, the TPM, the local connection.

The proofs followed the same order; then came the contract of a launch,
`LaunchContract`, and its refinement. Nothing of the plan is left;
a further step would be to let `EventLoop` include the three races of `Bridge` that
break the contract (see 6).
