-------------------------------- MODULE HubTLS --------------------------------
(***************************************************************************)
(* The TLS configuration of the hub connection over successive launches    *)
(* (config/connections.go, config/tls_config.go, tpmtls).                  *)
(* CreateHubConnection may open the TPM and load a key into it; the TLS    *)
(* handshakes of the hub client sign with that key; the cleaner of the     *)
(* launch flushes the key and closes the TPM.                              *)
(*                                                                         *)
(* tpmConnection and tpmTLSContext have methods on values: what GetRW,     *)
(* ReleaseRW and both Close assign to their fields is lost.  The mutex     *)
(* genLock is shared by all copies.  A client that a launch has given up   *)
(* may go on connecting, and therefore sign, after the launch has ended.   *)
(*                                                                         *)
(* External: a raw TPM device is opened by one at a time and keeps its     *)
(* keys when it is closed; a managed one is shared and drops the keys of a *)
(* descriptor with it.  FlushContext of a loaded key does not fail (its    *)
(* error is not looked at).  A descriptor nobody refers to any more is     *)
(* closed by the garbage collector, some time.                             *)
(***************************************************************************)
EXTENDS Naturals, FiniteSets

CONSTANTS
    Devices,      \* the kinds of TPM: "raw", "managed"
    Slots,        \* the number of keys a raw TPM can hold
    MaxLaunches   \* bound: the number of launches

ASSUME TLSAssumption ==
    /\ Devices \subseteq {"raw", "managed"}
    /\ Slots \in Nat
    /\ MaxLaunches \in Nat

Launches == 1..MaxLaunches

VARIABLES
    device,       \* the kind of the TPM
    launch,       \* the current launch, 0 before the first
    tls,          \* launch -> what its settings ask for
    pc,           \* launch -> where CreateHubConnection, the launch or the cleaner is
    launched,     \* launches for which CreateHubConnection has succeeded
    fd,           \* launch -> its descriptor of the TPM: "none", "open" or "closed"
    rw,           \* launches whose tpmConnection has the field rw set
    keys,         \* launches whose key is in the TPM
    signer        \* launch -> its handshake: "idle", "dial", "sign" or, after Close, "late"

hubVars == <<device, launch, tls, launched>>
tpmVars == <<fd, rw, keys>>
vars == <<hubVars, pc, tpmVars, signer>>

\* Where a launch ends; in the first two states an error path of NewTPMTlsConfig
\* has left the descriptor, in the second also the key.
Left == {"leaked", "stranded"}
Ended == Left \cup {"failed", "done"}

\* No TLS; TLS without a certificate, with one from a file, with one of the TPM.
Kinds == {"none", "plain", "file", "tpm"}

TypeOK ==
    /\ device \in Devices
    /\ launch \in 0..MaxLaunches
    /\ tls \in [Launches -> Kinds]
    /\ pc \in [Launches -> {"none", "hub", "open", "rw", "context", "load", "public",
                            "pattern", "client", "up", "clean", "wait", "release", "close"}
                           \cup Ended]
    /\ launched \subseteq Launches
    /\ fd \in [Launches -> {"none", "open", "closed"}]
    /\ rw \subseteq Launches
    /\ keys \subseteq Launches
    /\ signer \in [Launches -> {"idle", "dial", "sign", "late"}]

Init ==
    /\ device \in Devices
    /\ launch = 0
    /\ tls = [n \in Launches |-> "none"]
    /\ pc = [n \in Launches |-> "none"]
    /\ launched = {}
    /\ fd = [n \in Launches |-> "none"]
    /\ rw = {} /\ keys = {}
    /\ signer = [n \in Launches |-> "idle"]

Goto(n, s) == pc' = [pc EXCEPT ![n] = s]

\* The launcher's Run, after the last launch has ended: up to CreateHubConnection
Launch(n, kind) ==
    /\ n = launch + 1
    /\ \A m \in Launches : m < n => pc[m] \in Ended
    /\ launch' = n
    /\ tls' = [tls EXCEPT ![n] = kind]
    /\ Goto(n, "hub")
    /\ UNCHANGED <<device, launched, tpmVars, signer>>

-----------------------------------------------------------------------------
(* NewHubTLSConfig *)

\* The file of the CA cannot be read or parsed.
NewCAPoolFails(n) == tls[n] # "none" /\ Goto(n, "failed")

\* The key pair is loaded, or cannot be.
NewFSTlsConfig(n) == tls[n] = "file" /\ (Goto(n, "pattern") \/ Goto(n, "failed"))

newHubTLSConfig0(n) ==
    /\ pc[n] = "hub"
    /\ \/ tls[n] \in {"none", "plain"} /\ Goto(n, "client")
       \/ NewCAPoolFails(n) \/ NewFSTlsConfig(n)
       \/ tls[n] = "tpm" /\ Goto(n, "open")
    /\ UNCHANGED <<hubVars, tpmVars, signer>>

\* The descriptor cannot be opened, is opened, or is closed again as it is no TPM 2.0.
NewTpmConnection(n) ==
    /\ pc[n] = "open"
    /\ \/ Goto(n, "failed") /\ UNCHANGED fd
       \/ /\ device = "raw" => \A m \in Launches : fd[m] # "open"
          /\ \/ fd' = [fd EXCEPT ![n] = "open"] /\ Goto(n, "rw")
             \/ fd' = [fd EXCEPT ![n] = "closed"] /\ Goto(n, "failed")
    /\ UNCHANGED <<hubVars, rw, keys, signer>>

\* Mutant: GetRW has a pointer receiver, and nothing else has.
GetRW_Pointer(n) ==
    /\ pc[n] = "rw" /\ n \notin rw
    /\ rw' = rw \cup {n}
    /\ Goto(n, "context")
    /\ UNCHANGED <<hubVars, fd, keys, signer>>

\* The field rw is nil and, as only a copy is assigned to, stays nil.
GetRW(n) ==
    /\ pc[n] = "rw"
    /\ Goto(n, IF n \in rw THEN "leaked" ELSE "context")
    /\ UNCHANGED <<hubVars, tpmVars, signer>>

\* The certificate is loaded, or an option or the certificate is refused.
validateAndLoadPublicCert(n) ==
    /\ pc[n] = "context"
    /\ Goto(n, "leaked") \/ Goto(n, "load")
    /\ UNCHANGED <<hubVars, tpmVars, signer>>

\* The files are read and the key is loaded, which fails when the TPM is full.
loadKeysContext(n) ==
    /\ pc[n] = "load"
    /\ \/ Goto(n, "leaked") /\ UNCHANGED keys
       \/ /\ device = "raw" => Cardinality(keys) < Slots
          /\ keys' = keys \cup {n}
          /\ Goto(n, "public")
    /\ UNCHANGED <<hubVars, fd, rw, signer>>

loadPubKey(n) ==
    /\ pc[n] = "public"
    /\ Goto(n, "stranded") \/ Goto(n, "pattern")
    /\ UNCHANGED <<hubVars, tpmVars, signer>>

NewTPMContext(n) == validateAndLoadPublicCert(n) \/ loadKeysContext(n) \/ loadPubKey(n)

NewTPMTlsConfig(n) == NewTpmConnection(n) \/ GetRW(n) \/ NewTPMContext(n)

-----------------------------------------------------------------------------
(* The rest of CreateHubConnection, and the launch *)

\* The device id is taken from the certificate, which may fail.
ResolveDeviceID(n) ==
    /\ pc[n] = "pattern"
    /\ Goto(n, "clean") \/ Goto(n, "client")
    /\ UNCHANGED <<hubVars, tpmVars, signer>>

\* NewMQTTConnection
CreateHubConnection(n) ==
    /\ pc[n] = "client"
    /\ \/ Goto(n, "clean") /\ UNCHANGED launched
       \/ Goto(n, "up") /\ launched' = launched \cup {n}
    /\ UNCHANGED <<device, launch, tls, tpmVars, signer>>

\* A signal, or HonoConnect gives up: the launch ends, with a call of its cleaner.
Shutdown(n) ==
    /\ pc[n] = "up"
    /\ Goto(n, "clean")
    /\ UNCHANGED <<hubVars, tpmVars, signer>>

-----------------------------------------------------------------------------
(* The cleaner *)

\* External: what becomes of the descriptor and, in a managed TPM, of its key.
CloseDescriptor(n) ==
    /\ fd' = [fd EXCEPT ![n] = "closed"]
    /\ keys' = IF device = "managed" THEN keys \ {n} ELSE keys

AfterCleaner(n) == IF n \in launched THEN "done" ELSE "failed"

\* noClean, or no cleaner at all
NoClean(n) ==
    /\ pc[n] = "clean" /\ tls[n] # "tpm"
    /\ Goto(n, AfterCleaner(n))
    /\ UNCHANGED <<hubVars, tpmVars, signer>>

\* The context's Close waits for genLock; from here on no reader gets it.
ContextCloseCall(n) ==
    /\ pc[n] = "clean" /\ tls[n] = "tpm"
    /\ Goto(n, "wait")
    /\ UNCHANGED <<hubVars, tpmVars, signer>>

\* Mutant: Close does not take genLock.
ContextClose_NoLock(n) ==
    /\ pc[n] = "wait"
    /\ keys' = keys \ {n}
    /\ Goto(n, "release")
    /\ UNCHANGED <<hubVars, fd, rw, signer>>

\* FlushContext under genLock; the fields are reset in a copy.
ContextClose(n) ==
    /\ pc[n] = "wait" /\ signer[n] \notin {"sign", "late"}
    /\ keys' = keys \ {n}
    /\ Goto(n, "release")
    /\ UNCHANGED <<hubVars, fd, rw, signer>>

\* Refused, or done in a copy.
ReleaseRW(n) ==
    /\ pc[n] = "release"
    /\ Goto(n, "close")
    /\ UNCHANGED <<hubVars, tpmVars, signer>>

\* The connection's Close: refused while the field rw is set
ConnectionClose(n) ==
    /\ pc[n] = "close"
    /\ IF n \in rw THEN UNCHANGED <<fd, keys>> ELSE CloseDescriptor(n)
    /\ Goto(n, AfterCleaner(n))
    /\ UNCHANGED <<hubVars, rw, signer>>

closer(n) == ContextCloseCall(n) \/ ContextClose(n) \/ ReleaseRW(n) \/ ConnectionClose(n)

\* External: the garbage collector closes a descriptor an error path has left.
CollectGarbage(n) ==
    /\ pc[n] \in Left /\ fd[n] = "open"
    /\ CloseDescriptor(n)
    /\ UNCHANGED <<hubVars, pc, rw, signer>>

-----------------------------------------------------------------------------
(* Sign, Decrypt and Public of the context, called by TLS handshakes *)

\* External: a client once created may start a handshake at any time.
Dial(n) ==
    /\ n \in launched /\ tls[n] = "tpm" /\ signer[n] = "idle"
    /\ signer' = [signer EXCEPT ![n] = "dial"]
    /\ UNCHANGED <<hubVars, pc, tpmVars>>

\* What the TPM needs to answer a command for the key of the launch.
Usable(n) == fd[n] = "open" /\ n \in keys

\* Mutant: readers are let in while Close waits for them.
SignLock_Barging(n) ==
    /\ signer[n] = "dial"
    /\ signer' = [signer EXCEPT ![n] = IF pc[n] \in {"up", "clean", "wait"} THEN "sign" ELSE "late"]
    /\ UNCHANGED <<hubVars, pc, tpmVars>>

\* genLock.RLock; the test for a closed context sees a copy's field, never nil.
SignLock(n) ==
    /\ signer[n] = "dial" /\ pc[n] # "wait"
    /\ signer' = [signer EXCEPT ![n] = IF pc[n] \in {"up", "clean"} THEN "sign" ELSE "late"]
    /\ UNCHANGED <<hubVars, pc, tpmVars>>

\* The TPM has answered, with a signature or an error: the lock is released and
\* the handshake goes on or fails.
Sign(n) ==
    /\ signer[n] \in {"sign", "late"}
    /\ signer' = [signer EXCEPT ![n] = "idle"]
    /\ UNCHANGED <<hubVars, pc, tpmVars>>

-----------------------------------------------------------------------------
Step(n) ==
    \/ newHubTLSConfig0(n) \/ NewTPMTlsConfig(n)
    \/ ResolveDeviceID(n) \/ CreateHubConnection(n)
    \/ NoClean(n) \/ closer(n)

Next ==
    \E n \in Launches :
        \/ \E kind \in Kinds : Launch(n, kind)
        \/ Step(n) \/ Shutdown(n)
        \/ CollectGarbage(n)
        \/ Dial(n) \/ SignLock(n) \/ Sign(n)

Spec == Init /\ [][Next]_vars

\* Goroutines that can run do, and the TPM answers every command.  A launch need
\* not end, a handshake need not begin, the garbage collector need not come.
Fairness == \A n \in Launches : WF_vars(Step(n)) /\ WF_vars(Sign(n))

FairSpec == Spec /\ Fairness

-----------------------------------------------------------------------------
\* A Sign that has got the lock before the context was closed keeps its key and its
\* descriptor until the TPM has answered, though the launch is being ended; one
\* that gets it later makes no signature, though the test of the context for being
\* closed never succeeds.
SignsUntilClosed ==
    \A n \in Launches :
        /\ signer[n] = "sign" => Usable(n)
        /\ signer[n] = "late" => ~Usable(n)

\* Once a launch has ended it holds neither the TPM nor a key in it, though
\* ReleaseRW never succeeds, and the next launch finds both free; except those
\* whose CreateHubConnection failed between the opening of the TPM and the return
\* of the cleaner, and the key is left only if its public part could not be read.
OnlyLeaksRemain ==
    \A n \in Launches : (n < launch \/ pc[n] \in Ended) =>
        /\ fd[n] = "open" => pc[n] \in Left
        /\ n \in keys => pc[n] = "stranded"

\* A launch that is to end does, and so does a failing CreateHubConnection: the
\* handshakes of a client that was given up cannot hold up the cleaner.
LaunchEnds ==
    \A n \in Launches : pc[n] \in {"hub", "clean"} ~> pc[n] \in Ended \cup {"up"}
=============================================================================
