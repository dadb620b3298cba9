--------------------------- MODULE EventLoopProofs ---------------------------
(***************************************************************************)
(* Proofs about the main goroutine: for any number of writes to the        *)
(* provisioning file no update is lost, and launches do not overlap.       *)
(***************************************************************************)
EXTENDS EventLoop, TLAPS

Starting == {"connect", "pause", "watch"}
Applying == {"exists", "read", "create"}
Serving == {"select", "stop", "stopping"}

Count(b) == IF b THEN 1 ELSE 0

\* Every launch but the first uses up an event, every event comes from a write.
Budget ==
    /\ watched <= writes
    /\ launches + watched + Count(batch) +
         Count(pc \in Starting \cup Applying \cup {"stop", "stopping"} /\ ~quitting) <= writes + 1

\* Only the goroutine of the current launch runs, and only outside Run.  It is
\* signalled once, and what it has sent over done it has sent at its end.
Launched ==
    /\ launcher <= launches
    /\ \A n \in Launches :
        /\ work[n] \in Live => n = launcher /\ pc \in Serving
        /\ n > launches => work[n] = "none" /\ signals[n] = 0 /\ done[n] = 0
        /\ signals[n] <= 1 /\ done[n] <= 1
        /\ done[n] > 0 => work[n] = "ended"
    /\ pc \in {"select", "stop"} /\ launcher # 0 => signals[launcher] = 0

\* Where the main goroutine is in Run and EventLoop.
Phase ==
    /\ pc \in Starting => launches = 0 /\ launcher = 0 /\ ~quitting /\ unsent = "none"
    /\ quitting => pc \in {"stop", "stopping", "exit"} \cup Ends
    /\ pc = "exit" => quitting
    /\ pc \in Applying \cup Serving => watching
    /\ pc \in Starting => ~looping
    /\ pc \in Serving => looping
    /\ pc = "create" => ~silent
    /\ pc = "stopping" => launcher # 0

\* A content that has not been read yet is announced by an event.
Fresh ==
    /\ pc = "read" => seen = (file # "missing") \/ watched > 0
    /\ pc = "create" => applied = file \/ watched > 0
    /\ pc = "select" => applied = file \/ watched > 0 \/ batch

\* The status is the will while the local connection is down, and nothing is left
\* to be sent while it is up.
Connected ==
    /\ local => unsent = "none" /\ pc \notin {"connect", "pause"}
    /\ ~local /\ pc \in {"connect", "pause"} => status = "none"
    /\ ~local /\ pc \notin {"connect", "pause"} \cup Ends => status = "unknown"

NotConnected == status # "connected" /\ unsent # "connected"

\* The first launch has not been announced, a later one has.
Announced == Said("none") \/ Said("provisioningUpdate")

\* What the status is when no launch is running.
Told ==
    /\ ~looping /\ pc \notin Ends => Said("none")
    /\ pc = "create" => Announced
    /\ pc = "select" /\ launcher = 0 =>
        \/ watched > 0 \/ batch
        \/ IF silent THEN Announced ELSE applied \in Failures /\ Said(Cause[applied])
    /\ pc \in Serving /\ launcher = 0 => NotConnected
    /\ pc \in Serving /\ launcher # 0 /\ work[launcher] \in {"closed", "ended"} => Said("closed")
    /\ pc \in {"exit", "exited"} => NotConnected

IInv == TypeOK /\ Budget /\ Launched /\ Phase /\ Fresh /\ Connected /\ Told

USE DEF Starting, Applying, Serving, Live, Ends, Count, Said, NotConnected, Announced

LEMMA LaunchNumbers == MaxWrites \in Nat /\ \A n \in Launches : n \in Nat /\ n # 0
  BY LoopAssumption DEF Launches

LEMMA Messages ==
  {"none", "connected", "connectionError", "closed", "unknown", "configError",
   "provisioningMissing", "provisioningError", "provisioningUpdate"} \subseteq Statuses
  BY DEF Statuses

LEMMA InitIInv == Init => IInv
<1> SUFFICES ASSUME Init PROVE IInv
  OBVIOUS
<1> USE LoopAssumption, Messages DEF Init
<1>1. TypeOK
  <2>1. /\ work \in [Launches -> {"none", "ended"} \cup Live]
        /\ signals \in [Launches -> 0..2] /\ done \in [Launches -> 0..2]
    OBVIOUS
  <2>2. writes \in 0..MaxWrites /\ watched \in 0..MaxWrites
    OBVIOUS
  <2>3. QED
    BY <2>1, <2>2, Zenon DEF TypeOK
<1>2. Budget
  BY DEF Budget
<1>3. Launched
  BY LaunchNumbers DEF Launched
<1>4. Phase /\ Fresh /\ Connected /\ Told
  BY DEF Phase, Fresh, Connected, Told
<1>5. QED
  BY <1>1, <1>2, <1>3, <1>4 DEF IInv

\* The file, the signals, the end of the process and the local connection.
LEMMA OutsideStep ==
  ASSUME IInv, (\E c \in Contents : WriteFile(c)) \/ Signal \/ Kill \/ LocalLost \/ LocalReconnect
  PROVE  IInv'
<1> USE LoopAssumption, LaunchNumbers, Messages DEF fileVars, loopVars, launchVars, statusVars
<1>1. CASE \E c \in Contents : WriteFile(c)
  <2>1. PICK c \in Contents : WriteFile(c)
    BY <1>1
  <2>2. TypeOK' /\ Budget'
    BY <2>1 DEF IInv, TypeOK, Budget, Phase, WriteFile
  <2>3. Launched' /\ Phase' /\ Fresh' /\ Connected' /\ Told'
    BY <2>1 DEF IInv, TypeOK, Budget, Launched, Phase, Fresh, Connected, Told, WriteFile
  <2>4. QED
    BY <2>2, <2>3 DEF IInv
<1>2. CASE Signal
  BY <1>2 DEF IInv, TypeOK, Budget, Launched, Phase, Fresh, Connected, Told, Signal
<1>3. CASE Kill
  <2>1. TypeOK' /\ Budget'
    BY <1>3 DEF IInv, TypeOK, Budget, Phase, Kill
  <2>2. Launched' /\ Phase' /\ Fresh' /\ Connected' /\ Told'
    BY <1>3 DEF IInv, TypeOK, Launched, Phase, Fresh, Connected, Told, Kill
  <2>3. QED
    BY <2>1, <2>2 DEF IInv
<1>4. CASE LocalLost
  <2>1. TypeOK'
    <3>1. status' \in Statuses /\ unsent' \in Statuses /\ local' \in BOOLEAN
      BY <1>4 DEF IInv, TypeOK, LocalLost
    <3>2. QED
      BY <1>4, <3>1 DEF IInv, TypeOK, LocalLost
  <2>2. Budget' /\ Phase'
    BY <1>4 DEF IInv, TypeOK, Budget, Phase, LocalLost
  <2>3. Connected'
    BY <1>4 DEF IInv, TypeOK, Phase, Connected, LocalLost
  <2>4. Launched' /\ Fresh'
    BY <1>4 DEF IInv, TypeOK, Launched, Phase, Fresh, LocalLost
  <2>5. Told'
    BY <1>4 DEF IInv, TypeOK, Phase, Connected, Told, LocalLost
  <2>6. QED
    BY <2>1, <2>2, <2>3, <2>4, <2>5 DEF IInv
<1>5. CASE LocalReconnect
  <2>1. TypeOK'
    BY <1>5 DEF IInv, TypeOK, LocalReconnect
  <2>2. Budget' /\ Phase'
    BY <1>5 DEF IInv, TypeOK, Budget, Phase, LocalReconnect
  <2>3. Connected'
    BY <1>5 DEF IInv, TypeOK, Phase, Connected, LocalReconnect
  <2>4. Launched' /\ Fresh'
    BY <1>5 DEF IInv, TypeOK, Launched, Phase, Fresh, LocalReconnect
  <2>5. Told'
    BY <1>5 DEF IInv, TypeOK, Phase, Connected, Told, LocalReconnect
  <2>6. QED
    BY <2>1, <2>2, <2>3, <2>4, <2>5 DEF IInv
<1>6. QED
  BY <1>1, <1>2, <1>3, <1>4, <1>5

\* Up to the first launch.
LEMMA StartStep ==
  ASSUME IInv, Start
  PROVE  IInv'
<1> USE LoopAssumption, LaunchNumbers, Messages DEF fileVars, loopVars, launchVars, statusVars
<1>1. CASE LocalConnect
  <2>1. TypeOK'
    <3>1. status' \in Statuses /\ unsent' \in Statuses /\ local' \in BOOLEAN
      BY <1>1 DEF IInv, TypeOK, LocalConnect
    <3>2. QED
      BY <1>1, <3>1 DEF IInv, TypeOK, LocalConnect
  <2>2. Budget' /\ Phase'
    BY <1>1 DEF IInv, TypeOK, Budget, Phase, LocalConnect
  <2>3. Connected'
    BY <1>1 DEF IInv, TypeOK, Phase, Connected, LocalConnect
  <2>4. Launched' /\ Fresh'
    BY <1>1 DEF IInv, TypeOK, Launched, Phase, Fresh, LocalConnect
  <2>5. Told'
    BY <1>1 DEF IInv, TypeOK, Phase, Connected, Told, LocalConnect
  <2>6. QED
    BY <2>1, <2>2, <2>3, <2>4, <2>5 DEF IInv
<1>2. CASE LocalPause
  BY <1>2 DEF IInv, TypeOK, Budget, Launched, Phase, Fresh, Connected, Told, LocalPause
<1>3. CASE LocalCancelled
  BY <1>3 DEF IInv, TypeOK, Budget, Launched, Phase, Fresh, Connected, Told, LocalCancelled
<1>4. CASE SetupProvisioningWatcher
  <2> USE <1>4 DEF SetupProvisioningWatcher, SendStatus
  <2>1. TypeOK'
    BY DEF IInv, TypeOK, Phase
  <2>2. Budget' /\ Launched' /\ Phase'
    BY DEF IInv, TypeOK, Budget, Launched, Phase
  <2>3. Fresh' /\ Connected' /\ Told'
    BY DEF IInv, TypeOK, Phase, Fresh, Connected, Told
  <2>4. QED
    BY <2>1, <2>2, <2>3 DEF IInv
<1>5. QED
  BY <1>1, <1>2, <1>3, <1>4 DEF Start

\* Run of a launch.
LEMMA RunStep ==
  ASSUME IInv, Run
  PROVE  IInv'
<1> USE LoopAssumption, LaunchNumbers, Messages DEF fileVars, loopVars, launchVars, statusVars
<1>1. CASE ApplyExists
  BY <1>1 DEF IInv, TypeOK, Budget, Launched, Phase, Fresh, Connected, Told, ApplyExists
<1>2. CASE ApplySettings
  <2> USE <1>2 DEF ApplySettings, RunFails, SendStatus
  <2>1. launches + 1 \in Launches
    BY DEF IInv, TypeOK, Budget, Phase, Launches
  <2>2. TypeOK'
    <3>1. status' \in Statuses /\ unsent' \in Statuses
      BY DEF IInv, TypeOK, Failures
    <3>2. applied' \in Contents \cup {"none"}
      BY DEF IInv, TypeOK, Contents, Failures
    <3>3. /\ launcher' \in {launcher, 0} /\ launches' \in {0} \cup Launches
          /\ pc' \in {"create", "select"} /\ (launcher' # 0 => pc' = "create")
          /\ looping' \in BOOLEAN /\ silent' \in BOOLEAN
          /\ UNCHANGED <<fileVars, quitting, batch, seen, signal, launchVars, local>>
      BY <2>1 DEF IInv, TypeOK
    <3>. HIDE <1>2
    <3>4. QED
      BY <3>1, <3>2, <3>3 DEF IInv, TypeOK
  <2>3. Budget' /\ Phase'
    BY <2>1 DEF IInv, TypeOK, Budget, Phase
  <2>4. Launched'
    BY <2>1 DEF IInv, TypeOK, Launched, Phase
  <2>5. Fresh' /\ Connected' /\ Told'
    BY DEF IInv, TypeOK, Launched, Phase, Fresh, Connected, Told, Cause, Contents, Failures
  <2>6. QED
    BY <2>2, <2>3, <2>4, <2>5 DEF IInv
<1>3. CASE RunLaunch
  <2> USE <1>3 DEF RunLaunch, RunFails, SendStatus
  <2>1. launches + 1 \in Launches
    BY DEF IInv, TypeOK, Budget, Phase, Launches
  <2>2. TypeOK'
    BY <2>1 DEF IInv, TypeOK, Phase
  <2>3. Budget' /\ Phase'
    BY <2>1 DEF IInv, TypeOK, Budget, Phase
  <2>4. Launched'
    BY <2>1 DEF IInv, TypeOK, Launched, Phase
  <2>5. Fresh' /\ Connected' /\ Told'
    BY <2>1 DEF IInv, TypeOK, Launched, Phase, Fresh, Connected, Told, Cause, Failures
  <2>6. QED
    BY <2>2, <2>3, <2>4, <2>5 DEF IInv
<1>4. QED
  BY <1>1, <1>2, <1>3 DEF Run

\* EventLoop and the end of Run.
LEMMA LoopStep ==
  ASSUME IInv, Loop
  PROVE  IInv'
<1> USE LoopAssumption, LaunchNumbers, Messages DEF fileVars, loopVars, launchVars, statusVars
<1>1. CASE OnEvent
  BY <1>1 DEF IInv, TypeOK, Budget, Launched, Phase, Fresh, Connected, Told, OnEvent
<1>2. CASE OnTick
  <2> USE <1>2 DEF OnTick
  <2>1. batch = TRUE /\ batch' = FALSE
    BY DEF IInv, TypeOK
  <2>2. TypeOK' /\ Phase'
    BY DEF IInv, TypeOK, Phase
  <2>3. Budget'
    BY <2>1 DEF IInv, TypeOK, Budget, Phase
  <2>4. Launched' /\ Fresh' /\ Connected' /\ Told'
    BY DEF IInv, TypeOK, Launched, Phase, Fresh, Connected, Told
  <2>5. QED
    BY <2>2, <2>3, <2>4 DEF IInv
<1>3. CASE OnSignal
  BY <1>3 DEF IInv, TypeOK, Budget, Launched, Phase, Fresh, Connected, Told, OnSignal
<1>4. CASE stopLauncher
  <2> USE <1>4 DEF stopLauncher, AfterStop
  <2>1. TypeOK' /\ Budget' /\ Phase'
    BY DEF IInv, TypeOK, Budget, Launched, Phase
  <2>2. Launched'
    BY DEF IInv, TypeOK, Launched, Phase
  <2>3. Fresh' /\ Connected' /\ Told'
    BY DEF IInv, TypeOK, Launched, Phase, Fresh, Connected, Told
  <2>4. QED
    BY <2>1, <2>2, <2>3 DEF IInv
<1>5. CASE StopDone
  <2> USE <1>5 DEF StopDone, AfterStop
  <2>1. TypeOK' /\ Budget' /\ Phase'
    BY DEF IInv, TypeOK, Budget, Launched, Phase
  <2>2. Launched'
    BY DEF IInv, TypeOK, Launched, Phase
  <2>3. Fresh' /\ Connected' /\ Told'
    BY DEF IInv, TypeOK, Launched, Phase, Fresh, Connected, Told
  <2>4. QED
    BY <2>1, <2>2, <2>3 DEF IInv
<1>6. CASE Exit
  BY <1>6 DEF IInv, TypeOK, Budget, Launched, Phase, Fresh, Connected, Told, Exit
<1>7. QED
  BY <1>1, <1>2, <1>3, <1>4, <1>5, <1>6 DEF Loop

\* The goroutine of a launch.
LEMMA LaunchStep ==
  ASSUME IInv, NEW n \in Launches, launch(n)
  PROVE  IInv'
<1> USE LoopAssumption, LaunchNumbers, Messages DEF fileVars, loopVars, launchVars, statusVars
<1>1. work[n] \in Live /\ n = launcher /\ pc \in Serving
  BY DEF IInv, TypeOK, Launched, launch, HubUp, HubDown, Abort, TakeSignal, Closed
<1>2. CASE HubUp(n)
  <2> USE <1>1, <1>2 DEF HubUp, SendStatus, Continue
  <2>1. TypeOK' /\ Budget' /\ Phase'
    BY DEF IInv, TypeOK, Budget, Phase
  <2>2. Launched' /\ Fresh' /\ Connected' /\ Told'
    BY DEF IInv, TypeOK, Launched, Phase, Fresh, Connected, Told
  <2>3. QED
    BY <2>1, <2>2 DEF IInv
<1>3. CASE HubDown(n)
  BY <1>1, <1>3 DEF IInv, TypeOK, Budget, Launched, Phase, Fresh, Connected, Told, HubDown, SendStatus
<1>4. CASE Abort(n)
  <2> USE <1>1, <1>4 DEF Abort, SendStatus, Continue
  <2>1. TypeOK' /\ Budget' /\ Phase'
    BY DEF IInv, TypeOK, Budget, Phase
  <2>2. Launched' /\ Fresh' /\ Connected' /\ Told'
    BY DEF IInv, TypeOK, Launched, Phase, Fresh, Connected, Told
  <2>3. QED
    BY <2>1, <2>2 DEF IInv
<1>5. CASE TakeSignal(n)
  <2> USE <1>1, <1>5 DEF TakeSignal, Continue
  <2>1. TypeOK' /\ Budget' /\ Phase'
    BY DEF IInv, TypeOK, Budget, Phase
  <2>2. Launched' /\ Fresh' /\ Connected' /\ Told'
    BY DEF IInv, TypeOK, Launched, Phase, Fresh, Connected, Told
  <2>3. QED
    BY <2>1, <2>2 DEF IInv
<1>6. CASE Closed(n)
  <2> USE <1>1, <1>6 DEF Closed, SendStatus, Continue
  <2>1. TypeOK' /\ Budget' /\ Phase'
    BY DEF IInv, TypeOK, Budget, Launched, Phase
  <2>2. Launched' /\ Fresh' /\ Connected' /\ Told'
    BY DEF IInv, TypeOK, Launched, Phase, Fresh, Connected, Told
  <2>3. QED
    BY <2>1, <2>2 DEF IInv
<1>7. QED
  BY <1>2, <1>3, <1>4, <1>5, <1>6 DEF launch

LEMMA NextIInv == IInv /\ [Next]_vars => IInv'
<1> SUFFICES ASSUME IInv, [Next]_vars PROVE IInv'
  OBVIOUS
<1>1. CASE Next
  BY <1>1, OutsideStep, StartStep, RunStep, LoopStep, LaunchStep DEF Next
<1>2. CASE UNCHANGED vars
  BY <1>2 DEF IInv, TypeOK, Budget, Launched, Phase, Fresh, Connected, Told, vars,
              fileVars, loopVars, launchVars, statusVars
<1>3. QED
  BY <1>1, <1>2

\* The inductive invariant holds in every reachable state.
THEOREM Invariance == Spec => []IInv
<1>1. QED
  BY InitIInv, NextIInv, PTL DEF Spec

\* Every variable keeps its type; in particular the channels of a launch never hold
\* more than their capacity, and there is a launch to wait for where Stop waits.
THEOREM TypeCorrect == Spec => []TypeOK
<1>1. IInv => TypeOK
  BY DEF IInv
<1>2. QED
  BY <1>1, Invariance, PTL

\* Two launches never run at the same time.
THEOREM NoOverlap == Spec => []OneLaunch
<1>1. IInv => OneLaunch
  BY DEF IInv, TypeOK, Launched, OneLaunch
<1>2. QED
  BY <1>1, Invariance, PTL

\* However the writes, the events, the stop of a launch and the reading of the
\* settings interleave, the last content of the file is the one that is applied.
THEOREM UpdatesApplied == Spec => []NoUpdateLost
<1>1. IInv => NoUpdateLost
  BY DEF IInv, TypeOK, Fresh, NoUpdateLost, Quiet
<1>2. QED
  BY <1>1, Invariance, PTL

\* Without a launch the retained status gives the reason the file has for it.
THEOREM StatusIsTheReason == Spec => []StatusTellsWhy
<1>1. IInv => StatusTellsWhy
  BY DEF IInv, TypeOK, Fresh, Connected, Told, StatusTellsWhy, Quiet
<1>2. QED
  BY <1>1, Invariance, PTL

\* The end of the process leaves no launch and no connected status behind.
THEOREM ExitIsClean == Spec => []ExitedClean
<1>1. IInv => ExitedClean
  BY DEF IInv, TypeOK, Launched, Told, ExitedClean
<1>2. QED
  BY <1>1, Invariance, PTL
=============================================================================
