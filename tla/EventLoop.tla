------------------------------ MODULE EventLoop ------------------------------
(***************************************************************************)
(* The main goroutine of the connector (cmd/connector/app/eventloop.go,    *)
(* main.go): it connects to the local broker, watches the provisioning     *)
(* file, runs a launch with the settings of the file, and replaces the     *)
(* launch when the file changes.  Of a launch (cmd/connector/launcher.go)  *)
(* this module has Run, Stop and what its goroutine does with the status   *)
(* and with the channels signals and done; Bridge has the rest.            *)
(*                                                                         *)
(* The file is written by somebody else at any time.  Its content is what  *)
(* ApplySettings makes of it: "broken" is no JSON or lacks a setting,      *)
(* "unusable" are settings no connection can be created from.  Events of   *)
(* other files of the directory, which the loop skips, are left out, and   *)
(* so is the end of the context, which main never cancels.                 *)
(*                                                                         *)
(* The local client, which publishes the status, may lose its connection   *)
(* and reconnects by itself.  External: the broker then publishes the      *)
(* retained will, and the client sends after it what it was given since.   *)
(***************************************************************************)
EXTENDS Naturals, FiniteSets

CONSTANTS
    Versions,      \* usable contents of the provisioning file
    StaticValid,   \* the settings are complete without the file
    MaxWrites      \* bound: writes to the file

Failures == {"broken", "unusable", "missing"}

ASSUME LoopAssumption ==
    /\ StaticValid \in BOOLEAN
    /\ MaxWrites \in Nat
    /\ Versions \cap Failures = {}

Contents == Versions \cup Failures
Launches == 1..(MaxWrites + 1)

VARIABLES
    file,          \* the content of the provisioning file
    writes,        \* number of writes so far
    watching,      \* the directory of the file is watched
    watched,       \* number of events of the file the watcher has to deliver
    pc,            \* where the main goroutine is
    looping,       \* it has entered EventLoop
    quitting,      \* it has left EventLoop
    batch,         \* the events since the last launch are not empty
    seen,          \* FileExists of ApplySettings
    applied,       \* what ApplySettings has read last, "none" before
    silent,        \* history: the last Run has failed and has reported nothing
    launcher,      \* the number of the current launch, 0 for nil
    launches,      \* number of launches so far
    work,          \* launch -> where its goroutine is
    signals,       \* launch -> number of values in launcher.signals
    done,          \* launch -> number of values in launcher.done
    status,        \* the retained connection status
    local,         \* the local client is connected
    unsent,        \* the last status it was given since it lost the connection
    signal         \* SIGINT or SIGTERM: "none", "pending", "taken" or "lost"

fileVars == <<file, writes, watching, watched>>
loopVars == <<looping, quitting, batch, seen, applied, silent>>
launchVars == <<work, signals, done>>
statusVars == <<status, local, unsent>>
vars == <<fileVars, pc, loopVars, launcher, launches, launchVars, statusVars, signal>>

Live == {"connecting", "serving", "closing", "closed"}
Ends == {"exited", "killed"}

\* "connectionError" stands also for the one that says: not authenticated.
Statuses ==
    {"none", "connected", "connectionError", "closed", "unknown", "configError",
     "provisioningMissing", "provisioningError", "provisioningUpdate"}

TypeOK ==
    /\ file \in Contents /\ writes \in 0..MaxWrites
    /\ watching \in BOOLEAN /\ watched \in 0..MaxWrites
    /\ pc \in {"connect", "pause", "watch", "exists", "read", "create", "select",
               "stop", "stopping", "exit"} \cup Ends
    /\ looping \in BOOLEAN /\ quitting \in BOOLEAN /\ batch \in BOOLEAN
    /\ seen \in BOOLEAN /\ silent \in BOOLEAN
    /\ applied \in Contents \cup {"none"}
    /\ launcher \in {0} \cup Launches
    /\ launches \in {0} \cup Launches
    /\ work \in [Launches -> {"none", "ended"} \cup Live]
    /\ signals \in [Launches -> 0..2] /\ done \in [Launches -> 0..2]
    /\ status \in Statuses /\ local \in BOOLEAN /\ unsent \in Statuses
    /\ signal \in {"none", "pending", "taken", "lost"}
    /\ (launcher # 0 /\ pc \notin {"exists", "read", "create"} \cup Ends) => work[launcher] # "none"

Init ==
    /\ file \in Contents /\ writes = 0
    /\ watching = FALSE /\ watched = 0
    /\ pc = "connect"
    /\ looping = FALSE /\ quitting = FALSE /\ batch = FALSE /\ seen = FALSE
    /\ applied = "none" /\ silent = FALSE
    /\ launcher = 0 /\ launches = 0
    /\ work = [n \in Launches |-> "none"]
    /\ signals = [n \in Launches |-> 0] /\ done = [n \in Launches |-> 0]
    /\ status = "none" /\ local = FALSE /\ unsent = "none"
    /\ signal = "none"

\* The publisher waits for no token: a lost connection is not noticed.
SendStatus(s) ==
    /\ IF local THEN status' = s /\ UNCHANGED unsent ELSE unsent' = s /\ UNCHANGED status
    /\ UNCHANGED local

-----------------------------------------------------------------------------
(* External: the file, the signals and the end of the process *)

\* Somebody writes, creates, removes or touches the file.
WriteFile(c) ==
    /\ writes < MaxWrites /\ pc \notin Ends
    /\ file' = c
    /\ writes' = writes + 1
    /\ watched' = IF watching THEN watched + 1 ELSE watched
    /\ UNCHANGED <<watching, pc, loopVars, launcher, launches, launchVars, statusVars, signal>>

\* signal.Notify is in force in LocalConnect and in EventLoop.
Notified == pc \in {"connect", "pause"} \/ (looping /\ ~quitting)

Signal ==
    /\ signal = "none" /\ pc \notin Ends /\ Notified
    /\ signal' = "pending"
    /\ UNCHANGED <<fileVars, pc, loopVars, launcher, launches, launchVars, statusVars>>

\* The process is killed, by a signal nobody waits for or otherwise; if it was
\* connected, the local broker publishes the last will.
Kill ==
    /\ pc \notin Ends
    /\ pc' = "killed"
    /\ status' = IF local THEN "unknown" ELSE status
    /\ work' = [n \in Launches |-> IF work[n] \in Live THEN "ended" ELSE work[n]]
    /\ UNCHANGED <<fileVars, loopVars, launcher, launches, signals, done, local, unsent, signal>>

\* The local connection is lost: the broker publishes the will of CreateLocalConnection.
LocalLost ==
    /\ local /\ pc \notin Ends
    /\ local' = FALSE
    /\ status' = "unknown"
    /\ UNCHANGED <<fileVars, pc, loopVars, launcher, launches, launchVars, unsent, signal>>

\* The client has reconnected, and sends what it has kept.
LocalReconnect ==
    /\ ~local /\ pc \notin {"connect", "pause"} \cup Ends
    /\ local' = TRUE
    /\ status' = IF unsent = "none" THEN status ELSE unsent
    /\ unsent' = "none"
    /\ UNCHANGED <<fileVars, pc, loopVars, launcher, launches, launchVars, signal>>

-----------------------------------------------------------------------------
(* Run, up to the first launch *)

\* The attempt may end and the signal be there at the same time; if the select
\* takes the attempt, the signal is forgotten.
LocalConnect ==
    /\ pc = "connect"
    /\ \/ /\ pc' = "watch" /\ local' = TRUE
          /\ signal' = IF signal = "pending" THEN "lost" ELSE signal
       \/ pc' = "pause" /\ UNCHANGED <<local, signal>>
    /\ UNCHANGED <<fileVars, loopVars, launcher, launches, launchVars, status, unsent>>

LocalPause ==
    /\ pc = "pause"
    /\ pc' = "connect"
    /\ UNCHANGED <<fileVars, loopVars, launcher, launches, launchVars, statusVars, signal>>

LocalCancelled ==
    /\ pc \in {"connect", "pause"} /\ signal = "pending"
    /\ signal' = "taken"
    /\ pc' = "exited"
    /\ UNCHANGED <<fileVars, loopVars, launcher, launches, launchVars, statusVars>>

\* Mutant: the watcher is set up after the first launch has read the file.
SetupProvisioningWatcher_NotYet ==
    /\ pc = "watch"
    /\ pc' = "exists"
    /\ UNCHANGED <<fileVars, loopVars, launcher, launches, launchVars, statusVars, signal>>

\* An error ends Run.
SetupProvisioningWatcher ==
    /\ pc = "watch"
    /\ \/ pc' = "exists" /\ watching' = TRUE /\ UNCHANGED statusVars
       \/ pc' = "exited" /\ SendStatus("configError") /\ UNCHANGED watching
    /\ UNCHANGED <<file, writes, watched, loopVars, launcher, launches, launchVars, signal>>

-----------------------------------------------------------------------------
(* Run of a launch: a failure sets the launcher to nil *)

\* Mutant: the launcher that could not run is kept.
RunFails_Kept ==
    /\ launcher' = launches + 1
    /\ launches' = launches + 1
    /\ pc' = "select"
    /\ looping' = TRUE
    /\ UNCHANGED launchVars

RunFails ==
    /\ launcher' = 0
    /\ launches' = launches + 1
    /\ pc' = "select"
    /\ looping' = TRUE
    /\ UNCHANGED launchVars

ApplyExists ==
    /\ pc = "exists"
    /\ seen' = (file # "missing")
    /\ pc' = "read"
    /\ UNCHANGED <<fileVars, looping, quitting, batch, applied, silent, launcher, launches, launchVars,
                   statusVars, signal>>

\* The settings of the file over the static ones.  The file may have gone since:
\* reading it fails, unless ReadProvisioning has found out before.
ApplySettings ==
    LET got == IF seen THEN file ELSE "missing"
        valid == got \in Versions \cup {"unusable"} \/ (got = "missing" /\ StaticValid)
    IN  /\ pc = "read"
        /\ applied' = got /\ silent' = FALSE
        /\ \/ /\ valid
              /\ IF looping THEN SendStatus("provisioningUpdate") ELSE UNCHANGED statusVars
              /\ pc' = "create"
              /\ UNCHANGED <<looping, launcher, launches, launchVars>>
           \/ /\ ~valid \/ (seen /\ got = "missing")
              /\ SendStatus(IF seen THEN "provisioningError" ELSE "provisioningMissing")
              /\ RunFails
        /\ UNCHANGED <<fileVars, quitting, batch, seen, signal>>

\* CreateCloudConnection, which reads the files for TLS with the local broker and
\* whose error is reported to nobody, CreateHubConnection, and the start of the
\* goroutine of the launch
RunLaunch ==
    /\ pc = "create"
    /\ \/ /\ silent' = TRUE
          /\ RunFails
          /\ UNCHANGED statusVars
       \/ /\ applied = "unusable"
          /\ SendStatus("connectionError")
          /\ RunFails
          /\ UNCHANGED silent
       \/ /\ applied # "unusable"
          /\ launcher' = launches + 1
          /\ launches' = launches + 1
          /\ work' = [work EXCEPT ![launches + 1] = "connecting"]
          /\ pc' = "select"
          /\ looping' = TRUE
          /\ UNCHANGED <<signals, done, statusVars, silent>>
    /\ UNCHANGED <<fileVars, quitting, batch, seen, applied, signal>>

-----------------------------------------------------------------------------
(* EventLoop *)

OnEvent ==
    /\ pc = "select" /\ watched > 0
    /\ watched' = watched - 1
    /\ batch' = TRUE
    /\ UNCHANGED <<file, writes, watching, pc, looping, quitting, seen, applied, silent, launcher, launches,
                   launchVars, statusVars, signal>>

\* Mutant: an event is ignored while no launch is running.
OnTick_NeedsLaunch ==
    /\ pc = "select" /\ batch
    /\ batch' = FALSE
    /\ pc' = IF launcher = 0 THEN "select" ELSE "stop"
    /\ UNCHANGED <<fileVars, looping, quitting, seen, applied, silent, launcher, launches, launchVars,
                   statusVars, signal>>

\* The ticker: a launch for all the events since the last one
OnTick ==
    /\ pc = "select" /\ batch
    /\ batch' = FALSE
    /\ pc' = "stop"
    /\ UNCHANGED <<fileVars, looping, quitting, seen, applied, silent, launcher, launches, launchVars,
                   statusVars, signal>>

OnSignal ==
    /\ pc = "select" /\ signal = "pending"
    /\ signal' = "taken"
    /\ quitting' = TRUE
    /\ pc' = "stop"
    /\ UNCHANGED <<fileVars, looping, batch, seen, applied, silent, launcher, launches, launchVars,
                   statusVars>>

AfterStop == IF quitting THEN "exit" ELSE "exists"

\* Mutant: the end of the launch is not awaited.
stopLauncher_NoWait ==
    /\ pc = "stop"
    /\ pc' = AfterStop
    /\ IF launcher = 0 THEN UNCHANGED signals ELSE signals' = [signals EXCEPT ![launcher] = @ + 1]
    /\ UNCHANGED <<fileVars, loopVars, launcher, launches, work, done, statusVars, signal>>

\* stopLauncher and Stop: a nil launcher is skipped, another one is signalled ...
stopLauncher ==
    /\ pc = "stop"
    /\ \/ launcher = 0 /\ pc' = AfterStop /\ UNCHANGED signals
       \/ /\ launcher # 0
          /\ signals' = [signals EXCEPT ![launcher] = @ + 1]
          /\ pc' = "stopping"
    /\ UNCHANGED <<fileVars, loopVars, launcher, launches, work, done, statusVars, signal>>

\* ... and awaited, although it may have ended long ago.
StopDone ==
    /\ pc = "stopping" /\ done[launcher] > 0
    /\ done' = [done EXCEPT ![launcher] = @ - 1]
    /\ pc' = AfterStop
    /\ UNCHANGED <<fileVars, loopVars, launcher, launches, work, signals, statusVars, signal>>

\* The deferred calls: the local client disconnects properly.
Exit ==
    /\ pc = "exit"
    /\ pc' = "exited"
    /\ UNCHANGED <<fileVars, loopVars, launcher, launches, launchVars, statusVars, signal>>

-----------------------------------------------------------------------------
(* The goroutine of a launch *)

Continue(n, s) == work' = [work EXCEPT ![n] = s]

\* HonoConnect and the connection listeners publish the status.
HubUp(n) ==
    /\ work[n] \in {"connecting", "serving"} /\ pc \notin Ends
    /\ SendStatus("connected")
    /\ Continue(n, "serving")
    /\ UNCHANGED <<fileVars, pc, loopVars, launcher, launches, signals, done, signal>>

HubDown(n) ==
    /\ work[n] \in {"connecting", "serving"} /\ pc \notin Ends
    /\ SendStatus("connectionError")
    /\ UNCHANGED <<fileVars, pc, loopVars, launcher, launches, launchVars, signal>>

\* HonoConnect returns an error: nobody has asked the launch to stop.
Abort(n) ==
    /\ work[n] = "connecting" /\ pc \notin Ends
    /\ SendStatus("connectionError")
    /\ Continue(n, "closing")
    /\ UNCHANGED <<fileVars, pc, loopVars, launcher, launches, signals, done, signal>>

TakeSignal(n) ==
    /\ work[n] \in {"connecting", "serving"} /\ signals[n] > 0
    /\ signals' = [signals EXCEPT ![n] = @ - 1]
    /\ Continue(n, "closing")
    /\ UNCHANGED <<fileVars, pc, loopVars, launcher, launches, done, statusVars, signal>>

\* Mutant: done is sent before the last status.
Closed_DoneFirst(n) ==
    \/ /\ work[n] = "closing"
       /\ done' = [done EXCEPT ![n] = @ + 1]
       /\ Continue(n, "closed")
       /\ UNCHANGED <<fileVars, pc, loopVars, launcher, launches, signals, statusVars, signal>>
    \/ /\ work[n] = "closed"
       /\ SendStatus("closed")
       /\ Continue(n, "ended")
       /\ UNCHANGED <<fileVars, pc, loopVars, launcher, launches, signals, done, signal>>

\* The deferred function: the last status, then done
Closed(n) ==
    \/ /\ work[n] = "closing"
       /\ SendStatus("closed")
       /\ Continue(n, "closed")
       /\ UNCHANGED <<fileVars, pc, loopVars, launcher, launches, signals, done, signal>>
    \/ /\ work[n] = "closed"
       /\ done' = [done EXCEPT ![n] = @ + 1]
       /\ Continue(n, "ended")
       /\ UNCHANGED <<fileVars, pc, loopVars, launcher, launches, signals, statusVars, signal>>

launch(n) == HubUp(n) \/ HubDown(n) \/ Abort(n) \/ TakeSignal(n) \/ Closed(n)

Start == LocalConnect \/ LocalPause \/ LocalCancelled \/ SetupProvisioningWatcher

Run == ApplyExists \/ ApplySettings \/ RunLaunch

Loop == OnEvent \/ OnTick \/ OnSignal \/ stopLauncher \/ StopDone \/ Exit

Next ==
    \/ \E c \in Contents : WriteFile(c)
    \/ Signal \/ Kill \/ LocalLost \/ LocalReconnect
    \/ Start \/ Run \/ Loop
    \/ \E n \in Launches : launch(n)

Spec == Init /\ [][Next]_vars

\* The main goroutine keeps running; a select that has an event, the tick or the
\* signal picks each of them at some time, and a pause of LocalConnect that the
\* signal finds is one it ends.  The goroutine of a launch takes the signal of
\* Stop, as StopReturns of Bridge has it, and comes to its end.  The file need
\* not be written, the hub and the local broker need not be reached.
Fairness ==
    /\ WF_vars(Start \/ Run \/ Loop)
    /\ SF_vars(LocalCancelled)
    /\ SF_vars(OnEvent) /\ SF_vars(OnTick) /\ SF_vars(OnSignal)
    /\ \A n \in Launches : WF_vars(TakeSignal(n)) /\ WF_vars(Closed(n))

FairSpec == Spec /\ Fairness

-----------------------------------------------------------------------------
\* Two launches never run at the same time: the goroutine of the last one has sent
\* done, or there was none, when the next one starts.  Both would connect to the
\* hub and to the local broker with the same client identifiers.
OneLaunch == \A m, n \in Launches : work[m] \in Live /\ work[n] \in Live => m = n

\* The loop waits for events and has none to work on.
Quiet == pc = "select" /\ watched = 0 /\ ~batch

\* No update of the provisioning file is lost: when nothing is left to do, the
\* last launch was made from the content the file has, although it may have been
\* written while a launch was stopped, while its settings were read or before the
\* loop began.
NoUpdateLost == Quiet => applied = file

Cause ==
    [c \in Failures |-> IF c = "broken" THEN "provisioningError"
                        ELSE IF c = "unusable" THEN "connectionError"
                        ELSE "provisioningMissing"]

\* The last word, published or still to be sent, is s, but for the will.
Said(s) == status \in {s, "unknown"} /\ unsent \in {s, "none"}

\* When the loop is quiet without a launch, the retained status says what is wrong
\* with the file, or that nothing is known as the local connection was lost:
\* nothing a stopped launch had to say comes after it, not even from the client's
\* store.  The one failure that is not reported leaves the announcement of the
\* update, or nothing if it was the first launch, but no word of an earlier launch.
StatusTellsWhy ==
    (Quiet /\ launcher = 0) =>
        IF silent THEN Said("none") \/ Said("provisioningUpdate")
        ELSE file \in Failures /\ Said(Cause[file])

\* A process that has come to its own end leaves no launch behind and no status
\* that says connected, although the local connection may be down at the end.
ExitedClean == pc = "exited" => status # "connected" /\ \A n \in Launches : work[n] \notin Live

\* The last update is applied: the loop does not wait for ever for a launch to
\* stop, be it one that never connected or one that has ended by itself.
UpdateApplied ==
    \A c \in Contents :
        (file = c /\ looping) ~> (file # c \/ (Quiet /\ applied = c) \/ quitting \/ pc \in Ends)

\* SIGINT or SIGTERM ends the process unless LocalConnect has forgotten it.
SignalEnds == signal = "pending" ~> (pc \in Ends \/ signal = "lost")
=============================================================================
