------------------------- MODULE LiveOperationsProofs -------------------------
(***************************************************************************)
(* Proofs about LiveOperations for every value of its constants: any set   *)
(* of forwards, shells and drains, any number of reconnections, and any    *)
(* number of times the cluster is opened and closed.                       *)
(*                                                                         *)
(* An operation is in several places at once: its start call, its          *)
(* goroutine, the session map, the registry, the hands of a stop.  The     *)
(* invariant says for each point of its start in which of these it is, and *)
(* ties the epoch a session read to the clients it resolved afterwards.    *)
(* A step of one operation disturbs no other (Disturbs), so each action    *)
(* only has to keep its own operation in order.                            *)
(***************************************************************************)
EXTENDS LiveOperations, TLAPS

(* The stops: only one that is cleaning up holds operations; the clients     *)
(* are there only when no closing mutation is under way; the registration    *)
(* is shut before Shutdown looks at the registry, which stays empty once     *)
(* Shutdown has taken what it held.                                          *)
StopsOK ==
  /\ \A w \in Stoppers : stop[w].pc # "cleanup" => stop[w].taken = {}
  /\ cluster.open => stop["close"].pc = "idle"
  /\ stop["quit"].pc \in {"list", "stop", "cleanup", "done"} => cluster.shuttingDown
  /\ stop["quit"].pc \in {"cleanup", "done"} => registry = {}

\* The start of o has the cluster's clients, or had them.
Resolved(o) == call[o] \in {"insert", "register", "await"} \/ run[o] # "none" \/ o \in registry

\* Where session o is in its start, and in which maps it therefore is.
SessionPlace(o) ==
  /\ o \in listed => call[o] \in {"register", "await", "over"}
  /\ call[o] = "register" => o \in listed
  /\ o \in leaving => o \notin listed /\ call[o] \in {"await", "over"}
  /\ o \in registry \cup Taken => call[o] \in {"await", "over"}
  /\ run[o] # "none" => call[o] \in {"await", "over"}
  /\ o \in listed /\ call[o] \in {"await", "over"} => o \in registry \cup Taken
  /\ o \in Shells /\ o \in registry => o \in listed \cup leaving /\ o \notin Taken

(* The epoch is read before the clients: a start with the current epoch has *)
(* the current clients, which are there or are just being taken away.       *)
SessionEpoch(o) ==
  /\ start[o].epoch <= cluster.epoch
  /\ o \in registry => start[o].epoch = cluster.epoch
  /\ Resolved(o) /\ start[o].epoch = cluster.epoch =>
       OfThisOpening(o) /\ (cluster.open \/ stop["close"].pc = "stop")

(* A drain that runs has the active job and its handle, or has been told to *)
(* end; in the registry it runs, or its own start will look after it.       *)
DrainOK(d) ==
  /\ call[d] \notin {"resolve", "insert"}
  /\ run[d] # "none" => call[d] \in {"register", "check", "over"}
  /\ d \in registry \cup Taken => call[d] \in {"check", "over"}
  /\ call[d] = "handle" => Active(d) /\ run[d] = "none"
  /\ Active(d) => call[d] = "handle" \/ run[d] = "draining"
  /\ run[d] = "draining" /\ d \notin closed => Active(d) /\ d \in handles
  /\ d \in registry => run[d] \in {"draining", "completed"} \/ call[d] = "check"

\* The jobs are of one node, which has one active job at most.
OneActive == \A d, e \in Drains : Active(d) /\ Active(e) => d = e

\* The inductive invariant.
IInv ==
  /\ TypeOK /\ StopsOK /\ OneActive
  /\ \A o \in Sessions : SessionPlace(o) /\ SessionEpoch(o)
  /\ \A d \in Drains : DrainOK(d)

-----------------------------------------------------------------------------
(* Types.  OpsAssumption keeps the three kinds of operations apart; a drain  *)
(* has no part in the maps of the sessions.                                  *)
CallPoints == {"idle", "resolve", "insert", "register", "await",
               "epoch", "job", "handle", "check", "over"}
RunPoints == {"none", "top", "connecting", "ready", "activating", "active",
              "failed", "waiting", "finish", "draining", "completed", "over"}
Links == [first : BOOLEAN, ready : {"none", "ok", "error"}, attempts : 0..MaxAttempts]

LEMMA OpenClusterType ==
  ASSUME IInv, OpenCluster,
         UNCHANGED <<call, start, sessionVars, run, link, drainVars>>
  PROVE  TypeOK'
<1>1. RegistryTypeOK'
  <2>1. cluster.opening + 1 \in 0..MaxOpenings
    BY OpeningsAssumption DEF IInv, TypeOK, RegistryTypeOK, OpenCluster, MoreOpenings
  <2> QED
    BY <2>1 DEF IInv, TypeOK, RegistryTypeOK, OpenCluster
<1> QED
  BY <1>1 DEF IInv, TypeOK, OpenCluster, MoreOpenings, sessionVars, drainVars

LEMMA CloseClusterType ==
  ASSUME IInv, CloseCluster,
         UNCHANGED <<call, start, sessionVars, run, link, drainVars>>
  PROVE  TypeOK'
<1>1. RegistryTypeOK'
  BY OpeningsAssumption DEF IInv, TypeOK, RegistryTypeOK, Stoppers,
    CloseCluster, StopGoes, sessionVars, drainVars
<1> QED
  BY <1>1 DEF IInv, TypeOK, CloseCluster, StopGoes, sessionVars, drainVars

LEMMA CloseUnselectedType ==
  ASSUME IInv, CloseUnselected,
         UNCHANGED <<call, start, sessionVars, run, link, drainVars>>
  PROVE  TypeOK'
<1>1. RegistryTypeOK'
  BY OpeningsAssumption DEF IInv, TypeOK, RegistryTypeOK, Stoppers,
    CloseUnselected, MoreOpenings, StopGoes, sessionVars, drainVars
<1> QED
  BY <1>1 DEF IInv, TypeOK, CloseUnselected, MoreOpenings, StopGoes,
    sessionVars, drainVars

LEMMA QuitType ==
  ASSUME IInv, Quit,
         UNCHANGED <<call, start, sessionVars, run, link, drainVars>>
  PROVE  TypeOK'
<1>1. RegistryTypeOK'
  BY OpeningsAssumption DEF IInv, TypeOK, RegistryTypeOK, Stoppers, Quit,
    StopGoes, sessionVars, drainVars
<1> QED
  BY <1>1 DEF IInv, TypeOK, Quit, StopGoes, sessionVars, drainVars

LEMMA CloseRegistrationType ==
  ASSUME IInv, CloseRegistration,
         UNCHANGED <<call, start, sessionVars, run, link, drainVars>>
  PROVE  TypeOK'
<1>1. RegistryTypeOK'
  BY OpeningsAssumption DEF IInv, TypeOK, RegistryTypeOK, Stoppers,
    CloseRegistration, StopGoes, sessionVars, drainVars
<1> QED
  BY <1>1 DEF IInv, TypeOK, CloseRegistration, StopGoes, sessionVars,
    drainVars

LEMMA ListClustersType ==
  ASSUME IInv, ListClusters,
         UNCHANGED <<call, start, sessionVars, run, link, drainVars>>
  PROVE  TypeOK'
<1>1. RegistryTypeOK'
  BY OpeningsAssumption DEF IInv, TypeOK, RegistryTypeOK, Stoppers,
    ListClusters, StopGoes, sessionVars, drainVars
<1> QED
  BY <1>1 DEF IInv, TypeOK, ListClusters, StopGoes, sessionVars, drainVars

LEMMA TakeOperationsType ==
  ASSUME IInv, NEW w \in Stoppers, TakeOperations(w),
         UNCHANGED <<call, start, sessionVars, run, link, drainVars>>
  PROVE  TypeOK'
<1>1. RegistryTypeOK'
  BY OpsAssumption DEF IInv, TypeOK, RegistryTypeOK, Stoppers,
    TakeOperations, sessionVars, drainVars
<1> QED
  BY <1>1 DEF IInv, TypeOK, TakeOperations, sessionVars, drainVars

LEMMA StopReturnsType ==
  ASSUME IInv, NEW w \in Stoppers, StopReturns(w),
         UNCHANGED <<call, start, sessionVars, run, link, drainVars>>
  PROVE  TypeOK'
<1>1. RegistryTypeOK'
  BY OpeningsAssumption DEF IInv, TypeOK, RegistryTypeOK, Stoppers,
    StopReturns, StopGoes, sessionVars, drainVars
<1> QED
  BY <1>1 DEF IInv, TypeOK, StopReturns, StopGoes, sessionVars, drainVars

LEMMA ReadEpochType ==
  ASSUME IInv, NEW o \in Ops, ReadEpoch(o)
  PROVE  TypeOK'
<1>1. call' \in [Ops -> CallPoints]
  BY OpsAssumption DEF IInv, TypeOK, CallPoints, ReadEpoch, Sessions, Call,
    registryVars, sessionVars, drainVars
<1>2. start' \in [Ops -> [epoch : Nat, opening : 0..MaxOpenings]]
  BY DEF IInv, TypeOK, RegistryTypeOK, ReadEpoch, Sessions, Call,
    registryVars, sessionVars, drainVars
<1> QED
  BY <1>1, <1>2 DEF IInv, TypeOK, RegistryTypeOK, CallPoints, ReadEpoch,
    Sessions, Call, registryVars, sessionVars, drainVars

LEMMA ResolveSessionType ==
  ASSUME IInv, NEW o \in Ops, ResolveSession(o)
  PROVE  TypeOK'
<1>1. call' \in [Ops -> CallPoints]
  BY OpsAssumption DEF IInv, TypeOK, CallPoints, ResolveSession, Call,
    registryVars, sessionVars, drainVars
<1>2. start' \in [Ops -> [epoch : Nat, opening : 0..MaxOpenings]]
  BY DEF IInv, TypeOK, RegistryTypeOK, ResolveSession, Call, registryVars,
    sessionVars, drainVars
<1> QED
  BY <1>1, <1>2 DEF IInv, TypeOK, RegistryTypeOK, CallPoints, ResolveSession,
    Call, registryVars, sessionVars, drainVars

LEMMA StartFailsType ==
  ASSUME IInv, NEW o \in Ops, StartFails(o)
  PROVE  TypeOK'
<1>1. call' \in [Ops -> CallPoints]
  BY OpsAssumption DEF IInv, TypeOK, CallPoints, StartFails, Call,
    registryVars, sessionVars, drainVars
<1> QED
  BY <1>1 DEF IInv, TypeOK, RegistryTypeOK, CallPoints, StartFails, Call,
    registryVars, sessionVars, drainVars

LEMMA InsertType ==
  ASSUME IInv, NEW o \in Ops, Insert(o)
  PROVE  TypeOK'
<1>1. call' \in [Ops -> CallPoints]
  BY OpsAssumption DEF IInv, TypeOK, CallPoints, Insert, Call, registryVars,
    drainVars
<1>2. listed' \subseteq Sessions
  BY OpsAssumption DEF IInv, TypeOK, Sessions, DrainOK, Insert, Call,
    registryVars, drainVars
<1> QED
  BY <1>1, <1>2 DEF IInv, TypeOK, RegistryTypeOK, CallPoints, Insert, Call,
    registryVars, drainVars

LEMMA RegisterType ==
  ASSUME IInv, NEW o \in Ops, Register(o)
  PROVE  TypeOK'
<1>1. RegistryTypeOK'
  BY OpsAssumption DEF IInv, TypeOK, RegistryTypeOK, Register, Sessions,
    Admitted, Call, Drop, drainVars
<1>2. call' \in [Ops -> CallPoints]
  BY OpsAssumption DEF IInv, TypeOK, CallPoints, Register, Sessions,
    Admitted, Call, Drop, drainVars
<1>3. run' \in [Ops -> RunPoints]
  BY OpsAssumption DEF IInv, TypeOK, RunPoints, Register, Sessions, Admitted,
    Call, Drop, drainVars
<1>4. listed' \subseteq Sessions /\ closed' \subseteq Ops
  BY OpsAssumption DEF IInv, TypeOK, Sessions, DrainOK, Register, Admitted,
    Call, Drop, drainVars
<1> QED
  BY <1>1, <1>2, <1>3, <1>4 DEF IInv, TypeOK, CallPoints, RunPoints,
    Register, Sessions, Admitted, Call, Drop, drainVars

LEMMA UnregisterType ==
  ASSUME IInv, NEW o \in Ops, Unregister(o)
  PROVE  TypeOK'
<1>1. RegistryTypeOK'
  BY OpsAssumption DEF IInv, TypeOK, RegistryTypeOK, Unregister, drainVars
<1>2. leaving' \subseteq Sessions
  BY OpsAssumption DEF IInv, TypeOK, Sessions, DrainOK, Unregister, drainVars
<1> QED
  BY <1>1, <1>2 DEF IInv, TypeOK, Unregister, drainVars

LEMMA StopByUserType ==
  ASSUME IInv, NEW o \in Ops, StopByUser(o)
  PROVE  TypeOK'
<1>1. listed' \subseteq Sessions /\ closed' \subseteq Ops /\ leaving' \subseteq Sessions
  BY OpsAssumption DEF IInv, TypeOK, Sessions, DrainOK, StopByUser, Finish,
    Drop, registryVars, drainVars
<1> QED
  BY <1>1 DEF IInv, TypeOK, RegistryTypeOK, StopByUser, Finish, Drop,
    registryVars, drainVars

LEMMA ShellEndsType ==
  ASSUME IInv, NEW o \in Ops, ShellEnds(o)
  PROVE  TypeOK'
<1>1. listed' \subseteq Sessions /\ closed' \subseteq Ops /\ leaving' \subseteq Sessions
  BY OpsAssumption DEF IInv, TypeOK, Sessions, DrainOK, ShellEnds, Finish,
    Drop, registryVars, drainVars
<1> QED
  BY <1>1 DEF IInv, TypeOK, RegistryTypeOK, ShellEnds, Finish, Drop,
    registryVars, drainVars

LEMMA DialType ==
  ASSUME IInv, NEW f \in Forwards, Dial(f)
  PROVE  TypeOK'
<1>1. run' \in [Ops -> RunPoints]
  BY OpsAssumption DEF IInv, TypeOK, RunPoints, Dial, Told, Run,
    forwardUnchanged, registryVars, drainVars, sessionVars
<1> QED
  BY <1>1 DEF IInv, TypeOK, RegistryTypeOK, RunPoints, Dial, Told, Run,
    forwardUnchanged, registryVars, drainVars, sessionVars

LEMMA LinkReadyType ==
  ASSUME IInv, NEW f \in Forwards, LinkReady(f)
  PROVE  TypeOK'
<1>1. run' \in [Ops -> RunPoints]
  BY OpsAssumption DEF IInv, TypeOK, RunPoints, LinkReady, Run,
    forwardUnchanged, registryVars, drainVars, sessionVars
<1> QED
  BY <1>1 DEF IInv, TypeOK, RegistryTypeOK, RunPoints, LinkReady, Run,
    forwardUnchanged, registryVars, drainVars, sessionVars

LEMMA LinkFailsType ==
  ASSUME IInv, NEW f \in Forwards, LinkFails(f)
  PROVE  TypeOK'
<1>1. run' \in [Ops -> RunPoints]
  BY OpsAssumption DEF IInv, TypeOK, RunPoints, LinkFails, Run,
    forwardUnchanged, registryVars, drainVars, sessionVars
<1> QED
  BY <1>1 DEF IInv, TypeOK, RegistryTypeOK, RunPoints, LinkFails, Run,
    forwardUnchanged, registryVars, drainVars, sessionVars

LEMMA LinkStoppedType ==
  ASSUME IInv, NEW f \in Forwards, LinkStopped(f)
  PROVE  TypeOK'
<1>1. run' \in [Ops -> RunPoints]
  BY OpsAssumption DEF IInv, TypeOK, RunPoints, LinkStopped, Told, Run,
    forwardUnchanged, registryVars, drainVars, sessionVars
<1> QED
  BY <1>1 DEF IInv, TypeOK, RegistryTypeOK, RunPoints, LinkStopped, Told,
    Run, forwardUnchanged, registryVars, drainVars, sessionVars

LEMMA LookUpType ==
  ASSUME IInv, NEW f \in Forwards, LookUp(f)
  PROVE  TypeOK'
<1>1. run' \in [Ops -> RunPoints]
  BY OpsAssumption DEF IInv, TypeOK, RunPoints, LookUp, Run, Signal,
    forwardUnchanged, registryVars, drainVars, sessionVars
<1>2. link' \in [Forwards -> Links]
  <2>1. Signal(f, "ok") \in {"none", "ok", "error"}
    BY DEF IInv, TypeOK, Signal
  <2>2. link[f].attempts \in 0..MaxAttempts /\ 0 \in 0..MaxAttempts
    BY OpsAssumption DEF IInv, TypeOK
  <2> QED
    BY <2>1, <2>2 DEF IInv, TypeOK, Links, LookUp
<1> QED
  BY <1>1, <1>2 DEF IInv, TypeOK, RegistryTypeOK, RunPoints, Links, LookUp,
    Run, Signal, forwardUnchanged, registryVars, drainVars, sessionVars

LEMMA ActivateType ==
  ASSUME IInv, NEW f \in Forwards, Activate(f)
  PROVE  TypeOK'
<1>1. RegistryTypeOK'
  BY OpsAssumption DEF IInv, TypeOK, RegistryTypeOK, Activate, Admitted,
    Drop, Run, Signal, drainVars
<1>2. run' \in [Ops -> RunPoints]
  BY OpsAssumption DEF IInv, TypeOK, RunPoints, Activate, Admitted, Drop,
    Run, Signal, drainVars
<1>3. link' \in [Forwards -> Links]
  BY DEF IInv, TypeOK, Links, Activate, Admitted, Drop, Run, Signal,
    drainVars
<1>4. listed' \subseteq Sessions /\ closed' \subseteq Ops
  BY OpsAssumption DEF IInv, TypeOK, Sessions, DrainOK, Activate, Admitted,
    Drop, Run, Signal, drainVars
<1> QED
  BY <1>1, <1>2, <1>3, <1>4 DEF IInv, TypeOK, RunPoints, Links, Activate,
    Admitted, Drop, Run, Signal, drainVars

LEMMA PrepareReconnectType ==
  ASSUME IInv, NEW f \in Forwards, PrepareReconnect(f)
  PROVE  TypeOK'
<1>1. run' \in [Ops -> RunPoints]
  BY OpsAssumption DEF IInv, TypeOK, RunPoints, PrepareReconnect, Signal,
    MayRetry, Run, forwardUnchanged, registryVars, drainVars, sessionVars
<1>2. link' \in [Forwards -> Links]
  <2> DEFINE r == IF link[f].first THEN Signal(f, "error") ELSE link[f].ready
             n == IF MayRetry(f) THEN link[f].attempts + 1 ELSE link[f].attempts
  <2>1. Signal(f, "error") \in {"none", "ok", "error"}
    BY DEF IInv, TypeOK, Signal
  <2>2. r \in {"none", "ok", "error"} /\ n \in 0..MaxAttempts
    BY <2>1, OpsAssumption DEF IInv, TypeOK, MayRetry
  <2>3. link' = [link EXCEPT ![f].first = FALSE, ![f].ready = r, ![f].attempts = n]
    BY DEF PrepareReconnect
  <2> HIDE DEF r, n
  <2> QED
    BY <2>2, <2>3 DEF IInv, TypeOK, Links
<1> QED
  BY <1>1, <1>2 DEF IInv, TypeOK, RegistryTypeOK, RunPoints, Links,
    PrepareReconnect, Signal, MayRetry, Run, forwardUnchanged, registryVars,
    drainVars, sessionVars

LEMMA WaitEndsType ==
  ASSUME IInv, NEW f \in Forwards, WaitEnds(f)
  PROVE  TypeOK'
<1>1. run' \in [Ops -> RunPoints]
  BY OpsAssumption DEF IInv, TypeOK, RunPoints, WaitEnds, Run, Told,
    forwardUnchanged, registryVars, drainVars, sessionVars
<1> QED
  BY <1>1 DEF IInv, TypeOK, RegistryTypeOK, RunPoints, WaitEnds, Run, Told,
    forwardUnchanged, registryVars, drainVars, sessionVars

LEMMA FinishTerminalType ==
  ASSUME IInv, NEW f \in Forwards, FinishTerminal(f)
  PROVE  TypeOK'
<1>1. run' \in [Ops -> RunPoints]
  BY OpsAssumption DEF IInv, TypeOK, RunPoints, FinishTerminal, Finish, Drop,
    Run, forwardUnchanged, registryVars, drainVars
<1>2. listed' \subseteq Sessions /\ closed' \subseteq Ops /\ leaving' \subseteq Sessions
  BY OpsAssumption DEF IInv, TypeOK, Sessions, DrainOK, FinishTerminal,
    Finish, Drop, Run, forwardUnchanged, registryVars, drainVars
<1> QED
  BY <1>1, <1>2 DEF IInv, TypeOK, RegistryTypeOK, RunPoints, FinishTerminal,
    Finish, Drop, Run, forwardUnchanged, registryVars, drainVars

LEMMA StartAnsweredType ==
  ASSUME IInv, NEW f \in Forwards, StartAnswered(f)
  PROVE  TypeOK'
<1>1. call' \in [Ops -> CallPoints]
  BY OpsAssumption DEF IInv, TypeOK, CallPoints, StartAnswered, sessionVars,
    Finish, Drop, Call, forwardUnchanged, registryVars, drainVars
<1>2. listed' \subseteq Sessions /\ closed' \subseteq Ops /\ leaving' \subseteq Sessions
  BY OpsAssumption DEF IInv, TypeOK, Sessions, DrainOK, StartAnswered,
    sessionVars, Finish, Drop, Call, forwardUnchanged, registryVars,
    drainVars
<1> QED
  BY <1>1, <1>2 DEF IInv, TypeOK, RegistryTypeOK, CallPoints, StartAnswered,
    sessionVars, Finish, Drop, Call, forwardUnchanged, registryVars,
    drainVars

LEMMA StartTimesOutType ==
  ASSUME IInv, NEW f \in Forwards, StartTimesOut(f)
  PROVE  TypeOK'
<1>1. call' \in [Ops -> CallPoints]
  BY OpsAssumption DEF IInv, TypeOK, CallPoints, StartTimesOut, Finish, Drop,
    Call, forwardUnchanged, registryVars, drainVars
<1>2. listed' \subseteq Sessions /\ closed' \subseteq Ops /\ leaving' \subseteq Sessions
  BY OpsAssumption DEF IInv, TypeOK, Sessions, DrainOK, StartTimesOut,
    Finish, Drop, Call, forwardUnchanged, registryVars, drainVars
<1> QED
  BY <1>1, <1>2 DEF IInv, TypeOK, RegistryTypeOK, CallPoints, StartTimesOut,
    Finish, Drop, Call, forwardUnchanged, registryVars, drainVars

LEMMA ResolveDrainType ==
  ASSUME IInv, NEW d \in Drains, ResolveDrain(d)
  PROVE  TypeOK'
<1>1. call' \in [Ops -> CallPoints]
  BY OpsAssumption DEF IInv, TypeOK, CallPoints, ResolveDrain, Call,
    registryVars, sessionVars, drainVars
<1>2. start' \in [Ops -> [epoch : Nat, opening : 0..MaxOpenings]]
  BY DEF IInv, TypeOK, RegistryTypeOK, ResolveDrain, Call, registryVars,
    sessionVars, drainVars
<1> QED
  BY <1>1, <1>2 DEF IInv, TypeOK, RegistryTypeOK, CallPoints, ResolveDrain,
    Call, registryVars, sessionVars, drainVars

LEMMA ReadDrainEpochType ==
  ASSUME IInv, NEW d \in Drains, ReadDrainEpoch(d)
  PROVE  TypeOK'
<1>1. call' \in [Ops -> CallPoints]
  BY OpsAssumption DEF IInv, TypeOK, CallPoints, ReadDrainEpoch, Call,
    registryVars, sessionVars, drainVars
<1>2. start' \in [Ops -> [epoch : Nat, opening : 0..MaxOpenings]]
  BY DEF IInv, TypeOK, RegistryTypeOK, ReadDrainEpoch, Call, registryVars,
    sessionVars, drainVars
<1> QED
  BY <1>1, <1>2 DEF IInv, TypeOK, RegistryTypeOK, CallPoints, ReadDrainEpoch,
    Call, registryVars, sessionVars, drainVars

LEMMA StartDrainType ==
  ASSUME IInv, NEW d \in Drains, StartDrain(d)
  PROVE  TypeOK'
<1>1. call' \in [Ops -> CallPoints]
  BY OpsAssumption DEF IInv, TypeOK, CallPoints, StartDrain, Active, Call,
    registryVars, sessionVars
<1>2. job' \in [Drains -> Statuses]
  BY DEF IInv, TypeOK, Statuses, StartDrain, Active, Call, registryVars,
    sessionVars
<1> QED
  BY <1>1, <1>2 DEF IInv, TypeOK, RegistryTypeOK, CallPoints, StartDrain,
    Active, Call, registryVars, sessionVars

LEMMA RunDrainType ==
  ASSUME IInv, NEW d \in Drains, RunDrain(d)
  PROVE  TypeOK'
<1>1. call' \in [Ops -> CallPoints]
  BY OpsAssumption DEF IInv, TypeOK, CallPoints, RunDrain, Run, Call,
    registryVars, sessionVars
<1>2. run' \in [Ops -> RunPoints]
  BY OpsAssumption DEF IInv, TypeOK, RunPoints, RunDrain, Run, Call,
    registryVars, sessionVars
<1>3. handles' \subseteq Drains
  BY OpsAssumption DEF IInv, TypeOK, Sessions, DrainOK, RunDrain, Run, Call,
    registryVars, sessionVars
<1> QED
  BY <1>1, <1>2, <1>3 DEF IInv, TypeOK, RegistryTypeOK, CallPoints,
    RunPoints, RunDrain, Run, Call, registryVars, sessionVars

LEMMA RegisterDrainType ==
  ASSUME IInv, NEW d \in Drains, RegisterDrain(d)
  PROVE  TypeOK'
<1>1. RegistryTypeOK'
  BY OpsAssumption DEF IInv, TypeOK, RegistryTypeOK, RegisterDrain, Admitted,
    Call, CancelForLifecycle, Active
<1>2. call' \in [Ops -> CallPoints]
  BY OpsAssumption DEF IInv, TypeOK, CallPoints, RegisterDrain, Admitted,
    Call, CancelForLifecycle, Active
<1>3. job' \in [Drains -> Statuses]
  BY DEF IInv, TypeOK, Statuses, RegisterDrain, Admitted, Call,
    CancelForLifecycle, Active
<1>4. closed' \subseteq Ops /\ handles' \subseteq Drains
  BY OpsAssumption DEF IInv, TypeOK, Sessions, DrainOK, RegisterDrain,
    Admitted, Call, CancelForLifecycle, Active
<1> QED
  BY <1>1, <1>2, <1>3, <1>4 DEF IInv, TypeOK, CallPoints, RegisterDrain,
    Admitted, Call, CancelForLifecycle, Active

LEMMA CheckFinishedType ==
  ASSUME IInv, NEW d \in Drains, CheckFinished(d)
  PROVE  TypeOK'
<1>1. RegistryTypeOK'
  BY OpsAssumption DEF IInv, TypeOK, RegistryTypeOK, CheckFinished,
    WasFinished, Active, Call, sessionVars, drainVars
<1>2. call' \in [Ops -> CallPoints]
  BY OpsAssumption DEF IInv, TypeOK, CallPoints, CheckFinished, WasFinished,
    Active, Call, sessionVars, drainVars
<1> QED
  BY <1>1, <1>2 DEF IInv, TypeOK, CallPoints, CheckFinished, WasFinished,
    Active, Call, sessionVars, drainVars

LEMMA CancelDrainType ==
  ASSUME IInv, NEW d \in Drains, CancelDrain(d)
  PROVE  TypeOK'
<1>1. job' \in [Drains -> Statuses]
  BY DEF IInv, TypeOK, Statuses, CancelDrain, Active, registryVars
<1>2. closed' \subseteq Ops
  BY OpsAssumption DEF IInv, TypeOK, Sessions, DrainOK, CancelDrain, Active,
    registryVars
<1> QED
  BY <1>1, <1>2 DEF IInv, TypeOK, RegistryTypeOK, CancelDrain, Active,
    registryVars

LEMMA DrainEndsType ==
  ASSUME IInv, NEW d \in Drains, DrainEnds(d)
  PROVE  TypeOK'
<1>1. run' \in [Ops -> RunPoints]
  BY OpsAssumption DEF IInv, TypeOK, RunPoints, DrainEnds, Told, Active, Run,
    registryVars, sessionVars
<1>2. job' \in [Drains -> Statuses]
  BY DEF IInv, TypeOK, Statuses, DrainEnds, Told, Active, Run, registryVars,
    sessionVars
<1> QED
  BY <1>1, <1>2 DEF IInv, TypeOK, RegistryTypeOK, RunPoints, DrainEnds, Told,
    Active, Run, registryVars, sessionVars

LEMMA DrainReturnsType ==
  ASSUME IInv, NEW d \in Drains, DrainReturns(d)
  PROVE  TypeOK'
<1>1. RegistryTypeOK'
  BY OpsAssumption DEF IInv, TypeOK, RegistryTypeOK, DrainReturns, Run,
    sessionVars
<1>2. run' \in [Ops -> RunPoints]
  BY OpsAssumption DEF IInv, TypeOK, RunPoints, DrainReturns, Run,
    sessionVars
<1>3. handles' \subseteq Drains
  BY OpsAssumption DEF IInv, TypeOK, Sessions, DrainOK, DrainReturns, Run,
    sessionVars
<1> QED
  BY <1>1, <1>2, <1>3 DEF IInv, TypeOK, RunPoints, DrainReturns, Run,
    sessionVars

LEMMA CleanupType ==
  ASSUME IInv, NEW w \in Stoppers, NEW o \in Ops, Cleanup(w, o)
  PROVE  TypeOK'
<1>1. RegistryTypeOK'
  BY OpeningsAssumption DEF IInv, TypeOK, RegistryTypeOK, Stoppers, Cleanup,
    CancelForLifecycle, Active, Drop, drainVars
<1>2. job' \in [Drains -> Statuses]
  BY DEF IInv, TypeOK, Statuses, Cleanup, CancelForLifecycle, Active, Drop,
    drainVars
<1>3. listed' \subseteq Sessions /\ closed' \subseteq Ops /\ handles' \subseteq Drains
  BY OpsAssumption DEF IInv, TypeOK, Sessions, DrainOK, Cleanup,
    CancelForLifecycle, Active, Drop, drainVars
<1> QED
  BY <1>1, <1>2, <1>3 DEF IInv, TypeOK, Cleanup, CancelForLifecycle, Active,
    Drop, drainVars

-----------------------------------------------------------------------------
(* The cluster and its stops. *)
(* A stop that only goes on takes nothing and gives nothing up. *)
LEMMA StopGoesOn ==
  ASSUME TypeOK, NEW w \in Stoppers, NEW pc, StopGoes(w, pc)
  PROVE  /\ stop'[w].pc = pc
         /\ \A v \in Stoppers : stop'[v].taken = stop[v].taken
         /\ \A v \in Stoppers \ {w} : stop'[v].pc = stop[v].pc
         /\ Taken' = Taken
<1>1. /\ stop'[w].pc = pc
      /\ \A v \in Stoppers : stop'[v].taken = stop[v].taken
      /\ \A v \in Stoppers \ {w} : stop'[v].pc = stop[v].pc
  BY DEF TypeOK, RegistryTypeOK, StopGoes
<1> QED
  BY <1>1 DEF Taken

(* While no operation is taken or changed, each keeps its place. *)
LEMMA PlacesStay ==
  ASSUME IInv, UNCHANGED registry, Taken' = Taken,
         UNCHANGED <<call, start, sessionVars, run, link, drainVars>>
  PROVE  /\ OneActive'
         /\ (\A x \in Sessions : SessionPlace(x))'
         /\ (\A d \in Drains : DrainOK(d))'
<1>1. OneActive'
  BY DEF IInv, OneActive, Active, drainVars
<1>2. ASSUME NEW x \in Sessions PROVE SessionPlace(x)'
  BY DEF IInv, SessionPlace, sessionVars
<1>3. ASSUME NEW d \in Drains PROVE DrainOK(d)'
  BY DEF IInv, DrainOK, Active, sessionVars, drainVars
<1> QED
  BY <1>1, <1>2, <1>3

\* No start has the current epoch when the cluster is opened again.
LEMMA OpenClusterInv ==
  ASSUME IInv, TypeOK', OpenCluster,
         UNCHANGED <<call, start, sessionVars, run, link, drainVars>>
  PROVE  IInv'
<1> USE DEF OpenCluster
<1>1. OneActive' /\ (\A x \in Sessions : SessionPlace(x))'
        /\ (\A d \in Drains : DrainOK(d))'
  BY PlacesStay DEF Taken
<1>2. StopsOK'
  BY DEF IInv, TypeOK, RegistryTypeOK, StopsOK
<1>3. ASSUME NEW x \in Sessions PROVE SessionEpoch(x)'
  BY DEF IInv, TypeOK, RegistryTypeOK, SessionEpoch, Resolved, OfThisOpening, sessionVars
<1> QED
  BY <1>1, <1>2, <1>3 DEF IInv

\* The clients go first: a start may still have the current epoch.
LEMMA CloseClusterInv ==
  ASSUME IInv, TypeOK', CloseCluster,
         UNCHANGED <<call, start, sessionVars, run, link, drainVars>>
  PROVE  IInv'
<1>1. "close" \in Stoppers /\ StopGoes("close", "stop")
  BY DEF CloseCluster, Stoppers
<1>2. /\ stop'["close"].pc = "stop"
      /\ \A v \in Stoppers : stop'[v].taken = stop[v].taken
      /\ \A v \in Stoppers \ {"close"} : stop'[v].pc = stop[v].pc
      /\ Taken' = Taken
  BY <1>1, StopGoesOn DEF IInv
<1>3. /\ OneActive' /\ (\A x \in Sessions : SessionPlace(x))'
      /\ (\A d \in Drains : DrainOK(d))'
  BY <1>2, PlacesStay DEF CloseCluster
<1>4. StopsOK'
  BY <1>2 DEF IInv, TypeOK, RegistryTypeOK, Stoppers, StopsOK, CloseCluster
<1>5. ASSUME NEW x \in Sessions PROVE SessionEpoch(x)'
  BY <1>2 DEF IInv, TypeOK, RegistryTypeOK, Stoppers, SessionEpoch, Resolved,
    OfThisOpening, sessionVars, CloseCluster
<1> QED
  BY <1>3, <1>4, <1>5 DEF IInv

\* A second stop may run beside the one of a closing mutation.
LEMMA CloseUnselectedInv ==
  ASSUME IInv, TypeOK', CloseUnselected,
         UNCHANGED <<call, start, sessionVars, run, link, drainVars>>
  PROVE  IInv'
<1>1. "stray" \in Stoppers /\ StopGoes("stray", "stop")
  BY DEF CloseUnselected, Stoppers
<1>2. /\ stop'["stray"].pc = "stop"
      /\ \A v \in Stoppers : stop'[v].taken = stop[v].taken
      /\ \A v \in Stoppers \ {"stray"} : stop'[v].pc = stop[v].pc
      /\ Taken' = Taken
  BY <1>1, StopGoesOn DEF IInv
<1>3. /\ OneActive' /\ (\A x \in Sessions : SessionPlace(x))'
      /\ (\A d \in Drains : DrainOK(d))'
  BY <1>2, PlacesStay DEF CloseUnselected
<1>4. StopsOK'
  BY <1>2 DEF IInv, TypeOK, RegistryTypeOK, Stoppers, StopsOK, CloseUnselected
<1>5. ASSUME NEW x \in Sessions PROVE SessionEpoch(x)'
  BY <1>2 DEF IInv, TypeOK, RegistryTypeOK, Stoppers, SessionEpoch, Resolved,
    OfThisOpening, sessionVars, CloseUnselected
<1> QED
  BY <1>3, <1>4, <1>5 DEF IInv

\* Shutdown begins.
LEMMA QuitInv ==
  ASSUME IInv, TypeOK', Quit,
         UNCHANGED <<call, start, sessionVars, run, link, drainVars>>
  PROVE  IInv'
<1>1. "quit" \in Stoppers /\ StopGoes("quit", "ending")
  BY DEF Quit, Stoppers
<1>2. /\ stop'["quit"].pc = "ending"
      /\ \A v \in Stoppers : stop'[v].taken = stop[v].taken
      /\ \A v \in Stoppers \ {"quit"} : stop'[v].pc = stop[v].pc
      /\ Taken' = Taken
  BY <1>1, StopGoesOn DEF IInv
<1>3. /\ OneActive' /\ (\A x \in Sessions : SessionPlace(x))'
      /\ (\A d \in Drains : DrainOK(d))'
  BY <1>2, PlacesStay DEF Quit
<1>4. StopsOK'
  BY <1>2 DEF IInv, TypeOK, RegistryTypeOK, Stoppers, StopsOK, Quit
<1>5. ASSUME NEW x \in Sessions PROVE SessionEpoch(x)'
  BY <1>2 DEF IInv, TypeOK, RegistryTypeOK, Stoppers, SessionEpoch, Resolved,
    OfThisOpening, sessionVars, Quit
<1> QED
  BY <1>3, <1>4, <1>5 DEF IInv

\* From here on nothing is registered.
LEMMA CloseRegistrationInv ==
  ASSUME IInv, TypeOK', CloseRegistration,
         UNCHANGED <<call, start, sessionVars, run, link, drainVars>>
  PROVE  IInv'
<1>1. "quit" \in Stoppers /\ StopGoes("quit", "list")
  BY DEF CloseRegistration, Stoppers
<1>2. /\ stop'["quit"].pc = "list"
      /\ \A v \in Stoppers : stop'[v].taken = stop[v].taken
      /\ \A v \in Stoppers \ {"quit"} : stop'[v].pc = stop[v].pc
      /\ Taken' = Taken
  BY <1>1, StopGoesOn DEF IInv
<1>3. /\ OneActive' /\ (\A x \in Sessions : SessionPlace(x))'
      /\ (\A d \in Drains : DrainOK(d))'
  BY <1>2, PlacesStay DEF CloseRegistration
<1>4. StopsOK'
  BY <1>2 DEF IInv, TypeOK, RegistryTypeOK, Stoppers, StopsOK, CloseRegistration
<1>5. ASSUME NEW x \in Sessions PROVE SessionEpoch(x)'
  BY <1>2 DEF IInv, TypeOK, RegistryTypeOK, Stoppers, SessionEpoch, Resolved,
    OfThisOpening, sessionVars, CloseRegistration
<1> QED
  BY <1>3, <1>4, <1>5 DEF IInv

\* An empty registry stays empty: registration is shut.
LEMMA ListClustersInv ==
  ASSUME IInv, TypeOK', ListClusters,
         UNCHANGED <<call, start, sessionVars, run, link, drainVars>>
  PROVE  IInv'
<1>1. "quit" \in Stoppers /\ StopGoes("quit", IF registry = {} THEN "done" ELSE "stop")
  BY DEF ListClusters, Stoppers
<1>2. /\ stop'["quit"].pc = (IF registry = {} THEN "done" ELSE "stop")
      /\ \A v \in Stoppers : stop'[v].taken = stop[v].taken
      /\ \A v \in Stoppers \ {"quit"} : stop'[v].pc = stop[v].pc
      /\ Taken' = Taken
  BY <1>1, StopGoesOn DEF IInv
<1>3. /\ OneActive' /\ (\A x \in Sessions : SessionPlace(x))'
      /\ (\A d \in Drains : DrainOK(d))'
  BY <1>2, PlacesStay DEF ListClusters
<1>4. StopsOK'
  BY <1>2 DEF IInv, TypeOK, RegistryTypeOK, Stoppers, StopsOK, ListClusters
<1>5. ASSUME NEW x \in Sessions PROVE SessionEpoch(x)'
  BY <1>2 DEF IInv, TypeOK, RegistryTypeOK, Stoppers, SessionEpoch, Resolved,
    OfThisOpening, sessionVars, ListClusters
<1> QED
  BY <1>3, <1>4, <1>5 DEF IInv

\* What is registered is taken, and every start so far has an old epoch.
LEMMA TakeOperationsInv ==
  ASSUME IInv, TypeOK', NEW w \in Stoppers, TakeOperations(w),
         UNCHANGED <<call, start, sessionVars, run, link, drainVars>>
  PROVE  IInv'
<1>1. /\ stop'[w].pc = "cleanup" /\ stop'[w].taken = registry /\ stop[w].taken = {}
      /\ \A v \in Stoppers \ {w} : stop'[v] = stop[v]
  BY DEF IInv, TypeOK, RegistryTypeOK, StopsOK, TakeOperations
<1>2. registry' = {} /\ Taken' = Taken \cup registry
  <2>1. \A v \in Stoppers : stop'[v].taken = IF v = w THEN registry ELSE stop[v].taken
    BY <1>1
  <2>2. \A x : x \in Taken' <=> x \in Taken \cup registry
    BY <1>1, <2>1 DEF Taken
  <2> QED
    BY <2>2 DEF TakeOperations
<1>3. StopsOK'
  BY <1>1, <1>2 DEF IInv, TypeOK, RegistryTypeOK, Stoppers, StopsOK, TakeOperations
<1>4. ASSUME NEW x \in Sessions PROVE SessionPlace(x)'
  BY <1>2 DEF IInv, SessionPlace, sessionVars
<1>5. ASSUME NEW x \in Sessions PROVE SessionEpoch(x)'
  <2>1. /\ start'[x].epoch \in Nat /\ cluster'.epoch \in Nat
        /\ start'[x].epoch < cluster'.epoch
    BY OpsAssumption DEF IInv, TypeOK, RegistryTypeOK, SessionEpoch, Sessions, TakeOperations
  <2> QED
    BY <1>2, <2>1 DEF SessionEpoch
<1>6. ASSUME NEW d \in Drains PROVE DrainOK(d)'
  BY <1>2 DEF IInv, DrainOK, Active, sessionVars, drainVars
<1>7. OneActive'
  BY DEF IInv, OneActive, Active, drainVars
<1> QED
  BY <1>3, <1>4, <1>5, <1>6, <1>7 DEF IInv

\* A stop returns with nothing in its hands.
LEMMA StopReturnsInv ==
  ASSUME IInv, TypeOK', NEW w \in Stoppers, StopReturns(w),
         UNCHANGED <<call, start, sessionVars, run, link, drainVars>>
  PROVE  IInv'
<1>1. w \in Stoppers /\ StopGoes(w, IF w = "quit" THEN "done" ELSE "idle")
  BY DEF StopReturns, Stoppers
<1>2. /\ stop'[w].pc = (IF w = "quit" THEN "done" ELSE "idle")
      /\ \A v \in Stoppers : stop'[v].taken = stop[v].taken
      /\ \A v \in Stoppers \ {w} : stop'[v].pc = stop[v].pc
      /\ Taken' = Taken
  BY <1>1, StopGoesOn DEF IInv
<1>3. /\ OneActive' /\ (\A x \in Sessions : SessionPlace(x))'
      /\ (\A d \in Drains : DrainOK(d))'
  BY <1>2, PlacesStay DEF StopReturns
<1>4. StopsOK'
  BY <1>2 DEF IInv, TypeOK, RegistryTypeOK, Stoppers, StopsOK, StopReturns
<1>5. ASSUME NEW x \in Sessions PROVE SessionEpoch(x)'
  BY <1>2 DEF IInv, TypeOK, RegistryTypeOK, Stoppers, SessionEpoch, Resolved,
    OfThisOpening, sessionVars, StopReturns
<1> QED
  BY <1>3, <1>4, <1>5 DEF IInv

-----------------------------------------------------------------------------
(* A step of one operation o.                                              *)

\* The step leaves operation x where it is.
Same(x) ==
  /\ call'[x] = call[x] /\ start'[x] = start[x] /\ run'[x] = run[x]
  /\ x \in registry' <=> x \in registry
  /\ x \in listed' <=> x \in listed
  /\ x \in closed' <=> x \in closed
  /\ x \in leaving' <=> x \in leaving

\* It is about o only, and registers it only while registration is open.
Disturbs(o) ==
  /\ UNCHANGED <<cluster, stop>>
  /\ registry' \subseteq registry \cup {o}
  /\ o \in registry' /\ o \notin registry => ~cluster.shuttingDown
  /\ \A x \in Ops \ {o} : Same(x)

(* Such a step keeps the stops and the other sessions in order. *)
LEMMA OthersStay ==
  ASSUME IInv, NEW o \in Ops, Disturbs(o)
  PROVE  /\ StopsOK' /\ Taken' = Taken
         /\ \A x \in Sessions \ {o} : SessionPlace(x)' /\ SessionEpoch(x)'
<1>1. Taken' = Taken
  BY DEF Disturbs, Taken
<1>2. StopsOK'
  <2>1. registry' = {} \/ registry # {} \/ ~cluster.shuttingDown
    BY DEF Disturbs
  <2>2. stop["quit"].pc \in {"cleanup", "done"} => registry' = {}
    BY DEF Disturbs, IInv, StopsOK
  <2> QED
    BY <2>2 DEF Disturbs, IInv, StopsOK
<1>3. ASSUME NEW x \in Sessions \ {o}
      PROVE  SessionPlace(x)' /\ SessionEpoch(x)'
  <2>1. x \in Ops \ {o}
    BY OpsAssumption DEF Sessions
  <2>2. Same(x) /\ UNCHANGED <<cluster, stop>>
    BY <2>1 DEF Disturbs
  <2>3. SessionPlace(x)'
    BY <1>1, <2>2 DEF IInv, Same, SessionPlace
  <2>4. SessionEpoch(x)'
    BY <2>2 DEF IInv, Same, SessionEpoch, Resolved, OfThisOpening
  <2> QED
    BY <2>3, <2>4
<1> QED
  BY <1>1, <1>2, <1>3

(* A step of a session that keeps it in order keeps the invariant. *)
LEMMA SessionStep ==
  ASSUME IInv, TypeOK', NEW o \in Sessions, Disturbs(o), UNCHANGED drainVars,
         Taken' = Taken => SessionPlace(o)' /\ SessionEpoch(o)'
  PROVE  IInv'
<1>1. o \in Ops
  BY OpsAssumption DEF Sessions
<1>2. /\ StopsOK' /\ Taken' = Taken
      /\ \A x \in Sessions \ {o} : SessionPlace(x)' /\ SessionEpoch(x)'
  BY <1>1, OthersStay
<1>3. OneActive'
  BY DEF IInv, OneActive, Active, drainVars
<1>4. ASSUME NEW d \in Drains PROVE DrainOK(d)'
  <2>1. d \in Ops \ {o}
    BY OpsAssumption DEF Sessions
  <2> QED
    BY <1>2, <2>1 DEF IInv, Disturbs, Same, DrainOK, Active, drainVars
<1>5. ASSUME NEW x \in Sessions PROVE SessionPlace(x)' /\ SessionEpoch(x)'
  BY <1>2
<1> QED
  BY <1>2, <1>3, <1>4, <1>5 DEF IInv

(* A step of a drain that keeps it in order, and leaves the jobs of the       *)
(* others alone, keeps the invariant.                                         *)
LEMMA DrainStep ==
  ASSUME IInv, TypeOK', NEW d \in Drains, Disturbs(d),
         \A e \in Drains \ {d} :
           job'[e] = job[e] /\ (e \in handles' <=> e \in handles),
         Active(d)' => Active(d) \/ (\A e \in Drains : ~Active(e)),
         Taken' = Taken => DrainOK(d)'
  PROVE  IInv'
<1>1. d \in Ops /\ d \notin Sessions
  BY OpsAssumption DEF Sessions
<1>2. /\ StopsOK' /\ Taken' = Taken
      /\ \A x \in Sessions : SessionPlace(x)' /\ SessionEpoch(x)'
  BY <1>1, OthersStay
<1>3. \A e \in Drains \ {d} : Active(e)' <=> Active(e)
  BY DEF Active
<1>4. OneActive'
  BY <1>3 DEF IInv, OneActive
<1>5. ASSUME NEW e \in Drains \ {d} PROVE DrainOK(e)'
  <2>1. e \in Ops \ {d}
    BY OpsAssumption
  <2>2. Same(e) /\ (e \in handles' <=> e \in handles)
    BY <2>1 DEF Disturbs
  <2> QED
    BY <1>2, <1>3, <2>2 DEF IInv, Same, DrainOK
<1> QED
  BY <1>2, <1>4, <1>5 DEF IInv

(* Going on with the start call, and with the goroutine, of o. *)
LEMMA CallMoves ==
  ASSUME IInv, NEW o \in Ops, NEW pc, Call(o, pc)
  PROVE  call'[o] = pc /\ \A x \in Ops \ {o} : call'[x] = call[x]
  BY DEF IInv, TypeOK, Call

LEMMA RunMoves ==
  ASSUME IInv, NEW o \in Ops, NEW pc, Run(o, pc)
  PROVE  run'[o] = pc /\ \A x \in Ops \ {o} : run'[x] = run[x]
  BY DEF IInv, TypeOK, Run

-----------------------------------------------------------------------------
(* Sessions. *)
\* The epoch just read is the current one, and no clients are resolved yet.
LEMMA ReadEpochInv ==
  ASSUME IInv, TypeOK', NEW o \in Ops, ReadEpoch(o)
  PROVE  IInv'
<1>1. o \in Sessions /\ Disturbs(o) /\ UNCHANGED drainVars
  BY CallMoves DEF Disturbs, Same, Sessions, ReadEpoch, registryVars,
    sessionVars, drainVars, IInv, TypeOK
<1>2. ASSUME Taken' = Taken PROVE SessionPlace(o)'
  BY <1>2, CallMoves DEF IInv, SessionPlace, ReadEpoch, Sessions,
    registryVars, sessionVars, drainVars, TypeOK
<1>3. SessionEpoch(o)'
  BY CallMoves DEF IInv, SessionEpoch, Resolved, OfThisOpening, ReadEpoch,
    Sessions, registryVars, sessionVars, drainVars, TypeOK, SessionPlace
<1> QED
  BY <1>1, <1>2, <1>3, SessionStep

\* The clients resolved are those of the open cluster.
LEMMA ResolveSessionInv ==
  ASSUME IInv, TypeOK', NEW o \in Ops, ResolveSession(o)
  PROVE  IInv'
<1>1. o \in Sessions /\ Disturbs(o) /\ UNCHANGED drainVars
  BY OpsAssumption, CallMoves DEF Disturbs, Same, Sessions, ResolveSession,
    registryVars, sessionVars, drainVars, IInv, TypeOK, DrainOK
<1>2. ASSUME Taken' = Taken PROVE SessionPlace(o)'
  BY <1>2, <1>1, CallMoves DEF IInv, SessionPlace, ResolveSession,
    registryVars, sessionVars, drainVars, TypeOK
<1>3. SessionEpoch(o)'
  BY <1>1, CallMoves DEF IInv, SessionEpoch, Resolved, OfThisOpening,
    ResolveSession, registryVars, sessionVars, drainVars, TypeOK
<1> QED
  BY <1>1, <1>2, <1>3, SessionStep

\* An inserted session is not registered: its start has that to do.
LEMMA InsertInv ==
  ASSUME IInv, TypeOK', NEW o \in Ops, Insert(o)
  PROVE  IInv'
<1>1. o \in Sessions /\ Disturbs(o) /\ UNCHANGED drainVars
  BY CallMoves DEF Disturbs, Same, Sessions, Insert, registryVars, drainVars,
    TypeOK
<1>2. ASSUME Taken' = Taken PROVE SessionPlace(o)'
  BY <1>2, <1>1, CallMoves DEF IInv, SessionPlace, Insert, registryVars,
    drainVars
<1>3. SessionEpoch(o)'
  BY <1>1, CallMoves DEF IInv, SessionEpoch, Resolved, OfThisOpening, Insert,
    registryVars, drainVars
<1> QED
  BY <1>1, <1>2, <1>3, SessionStep

\* A session is registered, or refused and dropped by its own start.
LEMMA RegisterInv ==
  ASSUME IInv, TypeOK', NEW o \in Ops, Register(o)
  PROVE  IInv'
<1>1. o \in Sessions /\ Disturbs(o) /\ UNCHANGED drainVars
  BY CallMoves DEF Disturbs, Same, Sessions, Register, Admitted, Drop,
    drainVars, IInv, TypeOK
<1>2. ASSUME Taken' = Taken PROVE SessionPlace(o)'
  BY <1>2, CallMoves DEF IInv, SessionPlace, Register, Sessions, Admitted,
    Drop, drainVars, TypeOK
<1>3. SessionEpoch(o)'
  BY CallMoves DEF IInv, SessionEpoch, Resolved, OfThisOpening, Register,
    Sessions, Admitted, Drop, drainVars, TypeOK
<1> QED
  BY <1>1, <1>2, <1>3, SessionStep

\* What is leaving is not listed any more: no listed session is unregistered.
LEMMA UnregisterInv ==
  ASSUME IInv, TypeOK', NEW o \in Ops, Unregister(o)
  PROVE  IInv'
<1>1. o \in Sessions /\ Disturbs(o) /\ UNCHANGED drainVars
  BY DEF Disturbs, Same, Sessions, Unregister, drainVars, IInv, TypeOK
<1>2. ASSUME Taken' = Taken PROVE SessionPlace(o)'
  BY <1>2, <1>1 DEF IInv, SessionPlace, Unregister, drainVars
<1>3. SessionEpoch(o)'
  BY <1>1 DEF IInv, SessionEpoch, Resolved, OfThisOpening, Unregister,
    drainVars
<1> QED
  BY <1>1, <1>2, <1>3, SessionStep

\* Whoever removes the session has to unregister it.
LEMMA StopByUserInv ==
  ASSUME IInv, TypeOK', NEW o \in Ops, StopByUser(o)
  PROVE  IInv'
<1>1. o \in Sessions /\ Disturbs(o) /\ UNCHANGED drainVars
  BY DEF Disturbs, Same, Sessions, StopByUser, Finish, Drop, registryVars,
    drainVars, TypeOK
<1>2. ASSUME Taken' = Taken PROVE SessionPlace(o)'
  BY <1>2, <1>1 DEF IInv, SessionPlace, StopByUser, Finish, Drop,
    registryVars, drainVars
<1>3. SessionEpoch(o)'
  BY <1>1 DEF IInv, SessionEpoch, Resolved, OfThisOpening, StopByUser,
    Finish, Drop, registryVars, drainVars
<1> QED
  BY <1>1, <1>2, <1>3, SessionStep

\* A shell that ends stays in the registry until it is unregistered.
LEMMA ShellEndsInv ==
  ASSUME IInv, TypeOK', NEW o \in Ops, ShellEnds(o)
  PROVE  IInv'
<1>1. o \in Sessions /\ Disturbs(o) /\ UNCHANGED drainVars
  BY DEF Disturbs, Same, Sessions, ShellEnds, Finish, Drop, registryVars,
    drainVars
<1>2. ASSUME Taken' = Taken PROVE SessionPlace(o)'
  BY <1>2, OpsAssumption, <1>1 DEF IInv, SessionPlace, ShellEnds, Finish,
    Drop, registryVars, drainVars
<1>3. SessionEpoch(o)'
  BY <1>1 DEF IInv, SessionEpoch, Resolved, OfThisOpening, ShellEnds, Finish,
    Drop, registryVars, drainVars
<1> QED
  BY <1>1, <1>2, <1>3, SessionStep

-----------------------------------------------------------------------------
(* Port forwards. *)
\* The goroutine of a forward runs only once its start has registered it.
LEMMA DialInv ==
  ASSUME IInv, TypeOK', NEW f \in Forwards, Dial(f)
  PROVE  IInv'
<1>1. f \in Sessions /\ Disturbs(f) /\ UNCHANGED drainVars
  BY OpsAssumption, RunMoves DEF Disturbs, Same, Sessions, Dial, Told,
    forwardUnchanged, registryVars, drainVars, sessionVars
<1>2. ASSUME Taken' = Taken PROVE SessionPlace(f)'
  BY <1>2, <1>1, RunMoves DEF IInv, SessionPlace, Dial, Told,
    forwardUnchanged, registryVars, drainVars, sessionVars
<1>3. SessionEpoch(f)'
  BY <1>1, RunMoves DEF IInv, SessionEpoch, Resolved, OfThisOpening, Dial,
    Told, forwardUnchanged, registryVars, drainVars, sessionVars
<1> QED
  BY <1>1, <1>2, <1>3, SessionStep

LEMMA LinkReadyInv ==
  ASSUME IInv, TypeOK', NEW f \in Forwards, LinkReady(f)
  PROVE  IInv'
<1>1. f \in Sessions /\ Disturbs(f) /\ UNCHANGED drainVars
  BY OpsAssumption, RunMoves DEF Disturbs, Same, Sessions, LinkReady,
    forwardUnchanged, registryVars, drainVars, sessionVars
<1>2. ASSUME Taken' = Taken PROVE SessionPlace(f)'
  BY <1>2, <1>1, RunMoves DEF IInv, SessionPlace, LinkReady,
    forwardUnchanged, registryVars, drainVars, sessionVars
<1>3. SessionEpoch(f)'
  BY <1>1, RunMoves DEF IInv, SessionEpoch, Resolved, OfThisOpening,
    LinkReady, forwardUnchanged, registryVars, drainVars, sessionVars
<1> QED
  BY <1>1, <1>2, <1>3, SessionStep

LEMMA LinkFailsInv ==
  ASSUME IInv, TypeOK', NEW f \in Forwards, LinkFails(f)
  PROVE  IInv'
<1>1. f \in Sessions /\ Disturbs(f) /\ UNCHANGED drainVars
  BY OpsAssumption, RunMoves DEF Disturbs, Same, Sessions, LinkFails,
    forwardUnchanged, registryVars, drainVars, sessionVars
<1>2. ASSUME Taken' = Taken PROVE SessionPlace(f)'
  BY <1>2, <1>1, RunMoves DEF IInv, SessionPlace, LinkFails,
    forwardUnchanged, registryVars, drainVars, sessionVars
<1>3. SessionEpoch(f)'
  BY <1>1, RunMoves DEF IInv, SessionEpoch, Resolved, OfThisOpening,
    LinkFails, forwardUnchanged, registryVars, drainVars, sessionVars
<1> QED
  BY <1>1, <1>2, <1>3, SessionStep

LEMMA LinkStoppedInv ==
  ASSUME IInv, TypeOK', NEW f \in Forwards, LinkStopped(f)
  PROVE  IInv'
<1>1. f \in Sessions /\ Disturbs(f) /\ UNCHANGED drainVars
  BY OpsAssumption, RunMoves DEF Disturbs, Same, Sessions, LinkStopped, Told,
    forwardUnchanged, registryVars, drainVars, sessionVars
<1>2. ASSUME Taken' = Taken PROVE SessionPlace(f)'
  BY <1>2, <1>1, RunMoves DEF IInv, SessionPlace, LinkStopped, Told,
    forwardUnchanged, registryVars, drainVars, sessionVars
<1>3. SessionEpoch(f)'
  BY <1>1, RunMoves DEF IInv, SessionEpoch, Resolved, OfThisOpening,
    LinkStopped, Told, forwardUnchanged, registryVars, drainVars, sessionVars
<1> QED
  BY <1>1, <1>2, <1>3, SessionStep

\* A session found now may be gone when it is registered.
LEMMA LookUpInv ==
  ASSUME IInv, TypeOK', NEW f \in Forwards, LookUp(f)
  PROVE  IInv'
<1>1. f \in Sessions /\ Disturbs(f) /\ UNCHANGED drainVars
  BY OpsAssumption, RunMoves DEF Disturbs, Same, Sessions, LookUp, Signal,
    forwardUnchanged, registryVars, drainVars, sessionVars, IInv
<1>2. ASSUME Taken' = Taken PROVE SessionPlace(f)'
  BY <1>2, OpsAssumption, <1>1, RunMoves DEF IInv, SessionPlace, LookUp,
    Signal, forwardUnchanged, registryVars, drainVars, sessionVars
<1>3. SessionEpoch(f)'
  BY OpsAssumption, <1>1, RunMoves DEF IInv, SessionEpoch, Resolved,
    OfThisOpening, LookUp, Signal, forwardUnchanged, registryVars, drainVars,
    sessionVars
<1> QED
  BY <1>1, <1>2, <1>3, SessionStep

\* A forward is registered again, or refused and dropped.
LEMMA ActivateInv ==
  ASSUME IInv, TypeOK', NEW f \in Forwards, Activate(f)
  PROVE  IInv'
<1>1. f \in Sessions /\ Disturbs(f) /\ UNCHANGED drainVars
  BY OpsAssumption, RunMoves DEF Disturbs, Same, Sessions, Activate,
    Admitted, Drop, Signal, drainVars, IInv
<1>2. ASSUME Taken' = Taken PROVE SessionPlace(f)'
  BY <1>2, OpsAssumption, <1>1, RunMoves DEF IInv, SessionPlace, Activate,
    Admitted, Drop, Signal, drainVars
<1>3. SessionEpoch(f)'
  BY OpsAssumption, <1>1, RunMoves DEF IInv, SessionEpoch, Resolved,
    OfThisOpening, Activate, Admitted, Drop, Signal, drainVars
<1> QED
  BY <1>1, <1>2, <1>3, SessionStep

LEMMA PrepareReconnectInv ==
  ASSUME IInv, TypeOK', NEW f \in Forwards, PrepareReconnect(f)
  PROVE  IInv'
<1>1. f \in Sessions /\ Disturbs(f) /\ UNCHANGED drainVars
  BY OpsAssumption, RunMoves DEF Disturbs, Same, Sessions, PrepareReconnect,
    Signal, MayRetry, forwardUnchanged, registryVars, drainVars, sessionVars
<1>2. ASSUME Taken' = Taken PROVE SessionPlace(f)'
  BY <1>2, <1>1, RunMoves DEF IInv, SessionPlace, PrepareReconnect, Signal,
    MayRetry, forwardUnchanged, registryVars, drainVars, sessionVars
<1>3. SessionEpoch(f)'
  BY <1>1, RunMoves DEF IInv, SessionEpoch, Resolved, OfThisOpening,
    PrepareReconnect, Signal, MayRetry, forwardUnchanged, registryVars,
    drainVars, sessionVars
<1> QED
  BY <1>1, <1>2, <1>3, SessionStep

LEMMA WaitEndsInv ==
  ASSUME IInv, TypeOK', NEW f \in Forwards, WaitEnds(f)
  PROVE  IInv'
<1>1. f \in Sessions /\ Disturbs(f) /\ UNCHANGED drainVars
  BY OpsAssumption, RunMoves DEF Disturbs, Same, Sessions, WaitEnds, Told,
    forwardUnchanged, registryVars, drainVars, sessionVars
<1>2. ASSUME Taken' = Taken PROVE SessionPlace(f)'
  BY <1>2, <1>1, RunMoves DEF IInv, SessionPlace, WaitEnds, Told,
    forwardUnchanged, registryVars, drainVars, sessionVars
<1>3. SessionEpoch(f)'
  BY <1>1, RunMoves DEF IInv, SessionEpoch, Resolved, OfThisOpening,
    WaitEnds, Told, forwardUnchanged, registryVars, drainVars, sessionVars
<1> QED
  BY <1>1, <1>2, <1>3, SessionStep

\* The end of a forward drops its session, if nobody has.
LEMMA FinishTerminalInv ==
  ASSUME IInv, TypeOK', NEW f \in Forwards, FinishTerminal(f)
  PROVE  IInv'
<1>1. f \in Sessions /\ Disturbs(f) /\ UNCHANGED drainVars
  BY OpsAssumption, RunMoves DEF Disturbs, Same, Sessions, FinishTerminal,
    Finish, Drop, forwardUnchanged, registryVars, drainVars
<1>2. ASSUME Taken' = Taken PROVE SessionPlace(f)'
  BY <1>2, <1>1, RunMoves DEF IInv, SessionPlace, FinishTerminal, Finish,
    Drop, forwardUnchanged, registryVars, drainVars
<1>3. SessionEpoch(f)'
  BY <1>1, RunMoves DEF IInv, SessionEpoch, Resolved, OfThisOpening,
    FinishTerminal, Finish, Drop, forwardUnchanged, registryVars, drainVars
<1> QED
  BY <1>1, <1>2, <1>3, SessionStep

\* A failed first attempt drops the session the start had listed.
LEMMA StartAnsweredInv ==
  ASSUME IInv, TypeOK', NEW f \in Forwards, StartAnswered(f)
  PROVE  IInv'
<1>1. f \in Sessions /\ Disturbs(f) /\ UNCHANGED drainVars
  BY OpsAssumption, CallMoves DEF Disturbs, Same, Sessions, StartAnswered,
    sessionVars, Finish, Drop, forwardUnchanged, registryVars, drainVars
<1>2. ASSUME Taken' = Taken PROVE SessionPlace(f)'
  BY <1>2, OpsAssumption, <1>1, CallMoves DEF IInv, SessionPlace,
    StartAnswered, sessionVars, Finish, Drop, forwardUnchanged, registryVars,
    drainVars
<1>3. SessionEpoch(f)'
  BY <1>1, CallMoves DEF IInv, SessionEpoch, Resolved, OfThisOpening,
    StartAnswered, sessionVars, Finish, Drop, forwardUnchanged, registryVars,
    drainVars
<1> QED
  BY <1>1, <1>2, <1>3, SessionStep

\* A start that is given up drops the session it had listed.
LEMMA StartTimesOutInv ==
  ASSUME IInv, TypeOK', NEW f \in Forwards, StartTimesOut(f)
  PROVE  IInv'
<1>1. f \in Sessions /\ Disturbs(f) /\ UNCHANGED drainVars
  BY OpsAssumption, CallMoves DEF Disturbs, Same, Sessions, StartTimesOut,
    Finish, Drop, forwardUnchanged, registryVars, drainVars
<1>2. ASSUME Taken' = Taken PROVE SessionPlace(f)'
  BY <1>2, OpsAssumption, CallMoves DEF IInv, SessionPlace, StartTimesOut,
    Finish, Drop, forwardUnchanged, registryVars, drainVars
<1>3. SessionEpoch(f)'
  BY <1>1, CallMoves DEF IInv, SessionEpoch, Resolved, OfThisOpening,
    StartTimesOut, Finish, Drop, forwardUnchanged, registryVars, drainVars
<1> QED
  BY <1>1, <1>2, <1>3, SessionStep

-----------------------------------------------------------------------------
(* Drains. *)
LEMMA ResolveDrainInv ==
  ASSUME IInv, TypeOK', NEW d \in Drains, ResolveDrain(d)
  PROVE  IInv'
<1>1. Disturbs(d)
  BY CallMoves DEF Disturbs, Same, ResolveDrain, registryVars, sessionVars,
    drainVars, IInv, TypeOK
<1>2. \A e \in Drains \ {d} :
        job'[e] = job[e] /\ (e \in handles' <=> e \in handles)
  BY DEF ResolveDrain, registryVars, sessionVars, drainVars
<1>3. Active(d)' => Active(d) \/ (\A e \in Drains : ~Active(e))
  BY DEF ResolveDrain, registryVars, sessionVars, drainVars, Active
<1>4. ASSUME Taken' = Taken PROVE DrainOK(d)'
  BY <1>4, OpsAssumption, CallMoves DEF IInv, DrainOK, ResolveDrain,
    registryVars, sessionVars, drainVars, Active
<1> QED
  BY <1>1, <1>2, <1>3, <1>4, DrainStep

LEMMA ReadDrainEpochInv ==
  ASSUME IInv, TypeOK', NEW d \in Drains, ReadDrainEpoch(d)
  PROVE  IInv'
<1>1. Disturbs(d)
  BY CallMoves DEF Disturbs, Same, ReadDrainEpoch, registryVars, sessionVars,
    drainVars, IInv, TypeOK
<1>2. \A e \in Drains \ {d} :
        job'[e] = job[e] /\ (e \in handles' <=> e \in handles)
  BY DEF ReadDrainEpoch, registryVars, sessionVars, drainVars
<1>3. Active(d)' => Active(d) \/ (\A e \in Drains : ~Active(e))
  BY DEF ReadDrainEpoch, registryVars, sessionVars, drainVars, Active
<1>4. ASSUME Taken' = Taken PROVE DrainOK(d)'
  BY <1>4, OpsAssumption, CallMoves DEF IInv, DrainOK, ReadDrainEpoch,
    registryVars, sessionVars, drainVars, Active
<1> QED
  BY <1>1, <1>2, <1>3, <1>4, DrainStep

\* The job becomes active only while no other is.
LEMMA StartDrainInv ==
  ASSUME IInv, TypeOK', NEW d \in Drains, StartDrain(d)
  PROVE  IInv'
<1>1. Disturbs(d)
  BY OpsAssumption, CallMoves DEF Disturbs, Same, StartDrain, Active,
    registryVars, sessionVars
<1>2. \A e \in Drains \ {d} :
        job'[e] = job[e] /\ (e \in handles' <=> e \in handles)
  BY DEF StartDrain, Active, registryVars, sessionVars, TypeOK
<1>3. Active(d)' => Active(d) \/ (\A e \in Drains : ~Active(e))
  BY DEF StartDrain, Active, registryVars, sessionVars
<1>4. ASSUME Taken' = Taken PROVE DrainOK(d)'
  BY <1>4, OpsAssumption, CallMoves DEF IInv, DrainOK, StartDrain, Active,
    registryVars, sessionVars, TypeOK
<1> QED
  BY <1>1, <1>2, <1>3, <1>4, DrainStep

\* The handle is there before the goroutine runs.
LEMMA RunDrainInv ==
  ASSUME IInv, TypeOK', NEW d \in Drains, RunDrain(d)
  PROVE  IInv'
<1>1. Disturbs(d)
  BY OpsAssumption, CallMoves, RunMoves DEF Disturbs, Same, RunDrain,
    registryVars, sessionVars
<1>2. \A e \in Drains \ {d} :
        job'[e] = job[e] /\ (e \in handles' <=> e \in handles)
  BY DEF RunDrain, registryVars, sessionVars
<1>3. Active(d)' => Active(d) \/ (\A e \in Drains : ~Active(e))
  BY DEF RunDrain, registryVars, sessionVars, Active
<1>4. ASSUME Taken' = Taken PROVE DrainOK(d)'
  BY <1>4, OpsAssumption, CallMoves, RunMoves DEF IInv, DrainOK, RunDrain,
    registryVars, sessionVars, Active
<1> QED
  BY <1>1, <1>2, <1>3, <1>4, DrainStep

\* A refused drain is cancelled through its handle, and told so.
LEMMA RegisterDrainInv ==
  ASSUME IInv, TypeOK', NEW d \in Drains, RegisterDrain(d)
  PROVE  IInv'
<1>1. Disturbs(d)
  BY OpsAssumption, CallMoves DEF Disturbs, Same, RegisterDrain, Admitted,
    CancelForLifecycle, Active
<1>2. \A e \in Drains \ {d} :
        job'[e] = job[e] /\ (e \in handles' <=> e \in handles)
  BY DEF RegisterDrain, Admitted, CancelForLifecycle, Active, TypeOK
<1>3. Active(d)' => Active(d) \/ (\A e \in Drains : ~Active(e))
  BY DEF RegisterDrain, Admitted, CancelForLifecycle, Active
<1>4. ASSUME Taken' = Taken PROVE DrainOK(d)'
  BY <1>4, OpsAssumption, CallMoves DEF IInv, DrainOK, RegisterDrain,
    Admitted, CancelForLifecycle, Active
<1> QED
  BY <1>1, <1>2, <1>3, <1>4, DrainStep

\* A drain that ended before it was registered is taken out.
LEMMA CheckFinishedInv ==
  ASSUME IInv, TypeOK', NEW d \in Drains, CheckFinished(d)
  PROVE  IInv'
<1>1. Disturbs(d)
  BY OpsAssumption, CallMoves DEF Disturbs, Same, CheckFinished, WasFinished,
    Active, sessionVars, drainVars
<1>2. \A e \in Drains \ {d} :
        job'[e] = job[e] /\ (e \in handles' <=> e \in handles)
  BY DEF CheckFinished, WasFinished, Active, sessionVars, drainVars
<1>3. Active(d)' => Active(d) \/ (\A e \in Drains : ~Active(e))
  BY DEF CheckFinished, WasFinished, Active, sessionVars, drainVars
<1>4. ASSUME Taken' = Taken PROVE DrainOK(d)'
  BY <1>4, OpsAssumption, CallMoves DEF IInv, DrainOK, CheckFinished,
    WasFinished, Active, sessionVars, drainVars
<1> QED
  BY <1>1, <1>2, <1>3, <1>4, DrainStep

\* A drain that is cancelling is still active.
LEMMA CancelDrainInv ==
  ASSUME IInv, TypeOK', NEW d \in Drains, CancelDrain(d)
  PROVE  IInv'
<1>1. Disturbs(d)
  BY DEF Disturbs, Same, CancelDrain, Active, registryVars
<1>2. \A e \in Drains \ {d} :
        job'[e] = job[e] /\ (e \in handles' <=> e \in handles)
  BY DEF CancelDrain, Active, registryVars
<1>3. Active(d)' => Active(d) \/ (\A e \in Drains : ~Active(e))
  BY DEF CancelDrain, Active, registryVars
<1>4. ASSUME Taken' = Taken PROVE DrainOK(d)'
  BY <1>4 DEF IInv, DrainOK, CancelDrain, Active, registryVars
<1> QED
  BY <1>1, <1>2, <1>3, <1>4, DrainStep

\* A drain that has ended is not active.
LEMMA DrainEndsInv ==
  ASSUME IInv, TypeOK', NEW d \in Drains, DrainEnds(d)
  PROVE  IInv'
<1>1. Disturbs(d)
  BY OpsAssumption, RunMoves DEF Disturbs, Same, DrainEnds, Told, Active,
    registryVars, sessionVars
<1>2. \A e \in Drains \ {d} :
        job'[e] = job[e] /\ (e \in handles' <=> e \in handles)
  BY DEF DrainEnds, Told, Active, registryVars, sessionVars
<1>3. Active(d)' => Active(d) \/ (\A e \in Drains : ~Active(e))
  BY DEF DrainEnds, Told, Active, registryVars, sessionVars
<1>4. ASSUME Taken' = Taken PROVE DrainOK(d)'
  BY <1>4, OpsAssumption, RunMoves DEF IInv, DrainOK, DrainEnds, Told,
    Active, registryVars, sessionVars, TypeOK
<1> QED
  BY <1>1, <1>2, <1>3, <1>4, DrainStep

\* A drain that returns leaves neither an entry nor a handle.
LEMMA DrainReturnsInv ==
  ASSUME IInv, TypeOK', NEW d \in Drains, DrainReturns(d)
  PROVE  IInv'
<1>1. Disturbs(d)
  BY OpsAssumption, RunMoves DEF Disturbs, Same, DrainReturns, sessionVars
<1>2. \A e \in Drains \ {d} :
        job'[e] = job[e] /\ (e \in handles' <=> e \in handles)
  BY DEF DrainReturns, sessionVars
<1>3. Active(d)' => Active(d) \/ (\A e \in Drains : ~Active(e))
  BY DEF DrainReturns, sessionVars, Active
<1>4. ASSUME Taken' = Taken PROVE DrainOK(d)'
  BY <1>4, OpsAssumption, RunMoves DEF IInv, DrainOK, DrainReturns,
    sessionVars, Active
<1> QED
  BY <1>1, <1>2, <1>3, <1>4, DrainStep

\* A start that fails has listed nothing: the session, or the drain, is nowhere.
LEMMA StartFailsInv ==
  ASSUME IInv, TypeOK', NEW o \in Ops, StartFails(o)
  PROVE  IInv'
<1>1. Disturbs(o) /\ UNCHANGED drainVars
  BY CallMoves DEF StartFails, Disturbs, Same, registryVars, sessionVars, drainVars
<1>2. CASE o \in Sessions
  <2>1. ASSUME Taken' = Taken PROVE SessionPlace(o)'
    BY <1>2, <2>1, CallMoves DEF IInv, SessionPlace, StartFails, registryVars, sessionVars
  <2>2. SessionEpoch(o)'
    BY <1>2, CallMoves DEF IInv, SessionEpoch, Resolved, OfThisOpening, SessionPlace,
      StartFails, registryVars, sessionVars
  <2> QED
    BY <1>1, <1>2, <2>1, <2>2, SessionStep
<1>3. CASE o \in Drains
  <2>1. \A e \in Drains : job'[e] = job[e] /\ (e \in handles' <=> e \in handles)
    BY <1>1 DEF drainVars
  <2>2. Active(o)' => Active(o)
    BY <1>1 DEF Active, drainVars
  <2>3. ASSUME Taken' = Taken PROVE DrainOK(o)'
    BY <1>3, <2>3, <2>2, CallMoves DEF IInv, DrainOK, StartFails, registryVars, sessionVars,
      drainVars
  <2> QED
    BY <1>1, <1>3, <2>1, <2>2, <2>3, DrainStep
<1> QED
  BY <1>2, <1>3, OpsAssumption DEF Sessions

-----------------------------------------------------------------------------
(* A cleanup callback: what it has taken out it closes, or cancels. *)
LEMMA CleanupInv ==
  ASSUME IInv, TypeOK', NEW w \in Stoppers, NEW o \in Ops, Cleanup(w, o)
  PROVE  IInv'
<1>1. /\ stop'[w].pc = "cleanup" /\ o \in stop[w].taken
      /\ stop'[w].taken = stop[w].taken \ {o}
      /\ \A v \in Stoppers \ {w} : stop'[v] = stop[v]
      /\ stop[w].pc = "cleanup"
  BY DEF IInv, TypeOK, RegistryTypeOK, Cleanup
<1>2. UNCHANGED <<cluster, registry, call, start, leaving, run, link>> /\ o \in Taken
  BY <1>1 DEF Cleanup, Taken
<1>3. \A x \in Ops \ {o} : x \in Taken' <=> x \in Taken
  <2>1. \A v \in Stoppers : \A x \in Ops \ {o} : x \in stop'[v].taken <=> x \in stop[v].taken
    BY <1>1
  <2> QED
    BY <2>1 DEF Taken
<1>4. Taken' \subseteq Taken
  <2>1. \A v \in Stoppers : stop'[v].taken \subseteq stop[v].taken
    BY <1>1
  <2> QED
    BY <2>1 DEF Taken
<1>5. StopsOK'
  <2>1. \A v \in Stoppers : /\ stop'[v].pc = stop[v].pc
                            /\ stop[v].taken = {} => stop'[v].taken = {}
    BY <1>1
  <2> QED
    BY <1>2, <2>1 DEF IInv, StopsOK, Stoppers
<1>6. ASSUME NEW x \in Sessions PROVE SessionEpoch(x)'
  BY <1>1, <1>2 DEF IInv, SessionEpoch, Resolved, OfThisOpening, Stoppers
<1>7. CASE o \in Drains
  <2>1. CancelForLifecycle(o) /\ UNCHANGED listed
    BY <1>7 DEF Cleanup
  <2>2. o \notin Sessions /\ Sessions \subseteq Ops /\ Drains \subseteq Ops
    BY <1>7, OpsAssumption DEF Sessions
  <2>3. ASSUME NEW x \in Sessions PROVE SessionPlace(x)'
    BY <1>2, <1>3, <1>4, <2>1, <2>2 DEF IInv, SessionPlace
  <2>4. \A e \in Drains \ {o} :
          /\ Active(e)' <=> Active(e)
          /\ e \in closed' <=> e \in closed
          /\ e \in handles' <=> e \in handles
    BY <2>1 DEF IInv, TypeOK, CancelForLifecycle, Active
  <2>5. ~Active(o)' /\ (o \in handles /\ Active(o) => o \in closed') /\ closed \subseteq closed'
        /\ (~Active(o) => UNCHANGED <<closed, handles>>)
    BY <1>7, <2>1 DEF IInv, TypeOK, CancelForLifecycle, Active
  <2>6. ASSUME NEW e \in Drains PROVE DrainOK(e)'
    BY <1>2, <1>3, <1>4, <2>2, <2>4, <2>5 DEF IInv, DrainOK
  <2>7. OneActive'
    BY <2>4, <2>5 DEF IInv, OneActive
  <2> QED
    BY <1>5, <1>6, <2>3, <2>6, <2>7 DEF IInv
<1>8. CASE o \in Sessions
  <2>1. Drop(o) /\ UNCHANGED drainVars
    BY <1>8, OpsAssumption DEF Cleanup, Sessions
  <2>2. /\ o \notin listed' /\ \A x \in Ops \ {o} : x \in listed' <=> x \in listed
        /\ \A x \in Ops \ {o} : x \in closed' <=> x \in closed
        /\ o \notin Drains /\ Sessions \subseteq Ops /\ Drains \subseteq Ops
    BY <1>8, <2>1, OpsAssumption DEF Drop, Sessions
  <2>3. ASSUME NEW x \in Sessions PROVE SessionPlace(x)'
    BY <1>2, <1>3, <1>4, <2>2 DEF IInv, SessionPlace
  <2>4. ASSUME NEW e \in Drains PROVE DrainOK(e)'
    BY <1>2, <1>4, <2>1, <2>2 DEF IInv, DrainOK, Active, drainVars
  <2>5. OneActive'
    BY <2>1 DEF IInv, OneActive, Active, drainVars
  <2> QED
    BY <1>5, <1>6, <2>3, <2>4, <2>5 DEF IInv
<1> QED
  BY <1>7, <1>8, OpsAssumption DEF Sessions

-----------------------------------------------------------------------------
(* Where behaviours start: OneKindInit of the runs is one of these, as Init.  *)
Starts ==
  \E strays \in 0..MaxOpenings, calls \in [Ops -> {"idle", "over"}] :
    RegistryInitAfter(strays) /\ OperationsInit(calls)

\* At the start nothing is registered, listed, running or draining.
LEMMA StartsIInv == Starts => IInv
<1> SUFFICES ASSUME NEW strays \in 0..MaxOpenings, NEW calls \in [Ops -> {"idle", "over"}],
                    RegistryInitAfter(strays), OperationsInit(calls)
             PROVE  IInv
  BY DEF Starts
<1> USE OpsAssumption, OpeningsAssumption DEF RegistryInitAfter, OperationsInit
<1>1. Taken = {}
  BY DEF Taken
<1>2. RegistryTypeOK
  BY DEF RegistryTypeOK, Stoppers
<1>3. link \in [Forwards -> Links]
  BY DEF Links, NoLink
<1>4. TypeOK
  BY <1>2, <1>3 DEF TypeOK, Links, Statuses
<1>5. StopsOK
  BY DEF StopsOK, Stoppers
<1>6. (\A d \in Drains : DrainOK(d) /\ ~Active(d)) /\ OneActive
  BY <1>1 DEF DrainOK, Active, OneActive
<1>7. ASSUME NEW o \in Sessions PROVE SessionPlace(o) /\ SessionEpoch(o)
  <2>1. o \in Ops /\ call[o] \in {"idle", "over"}
    BY DEF Sessions
  <2>2. SessionPlace(o)
    BY <1>1, <2>1 DEF SessionPlace
  <2>3. SessionEpoch(o)
    BY <2>1 DEF SessionEpoch, Resolved
  <2> QED
    BY <2>2, <2>3
<1> QED
  BY <1>4, <1>5, <1>6, <1>7 DEF IInv

(* Every step keeps the invariant. *)
LEMMA NextIInv == IInv /\ [Next]_vars => IInv'
<1> SUFFICES ASSUME IInv, [Next]_vars PROVE IInv'
  OBVIOUS
<1>1. CASE UNCHANGED vars
  <2>1. Taken' = Taken /\ StopsOK' /\ TypeOK'
    BY <1>1 DEF IInv, vars, registryVars, sessionVars, drainVars, Taken, StopsOK, TypeOK,
      RegistryTypeOK
  <2>2. ASSUME NEW x \in Sessions PROVE SessionEpoch(x)'
    BY <1>1 DEF IInv, vars, registryVars, sessionVars, SessionEpoch, Resolved, OfThisOpening
  <2> QED
    BY <1>1, <2>1, <2>2, PlacesStay DEF IInv, vars, registryVars
<1>2. CASE ClusterNext /\ UNCHANGED <<call, start, sessionVars, run, link, drainVars>>
  <2>1. ASSUME OpenCluster PROVE IInv'
    BY <1>2, <2>1, OpenClusterType, OpenClusterInv
  <2>2. ASSUME CloseCluster PROVE IInv'
    BY <1>2, <2>2, CloseClusterType, CloseClusterInv
  <2>3. ASSUME CloseUnselected PROVE IInv'
    BY <1>2, <2>3, CloseUnselectedType, CloseUnselectedInv
  <2>4. ASSUME Quit PROVE IInv'
    BY <1>2, <2>4, QuitType, QuitInv
  <2>5. ASSUME CloseRegistration PROVE IInv'
    BY <1>2, <2>5, CloseRegistrationType, CloseRegistrationInv
  <2>6. ASSUME ListClusters PROVE IInv'
    BY <1>2, <2>6, ListClustersType, ListClustersInv
  <2>7. ASSUME NEW w \in Stoppers, TakeOperations(w) PROVE IInv'
    BY <1>2, <2>7, TakeOperationsType, TakeOperationsInv
  <2>8. ASSUME NEW w \in Stoppers, StopReturns(w) PROVE IInv'
    BY <1>2, <2>8, StopReturnsType, StopReturnsInv
  <2> QED
    BY <1>2, <2>1, <2>2, <2>3, <2>4, <2>5, <2>6, <2>7, <2>8 DEF ClusterNext
<1>3. ASSUME NEW o \in Ops, StartNext(o) \/ SessionNext(o) PROVE IInv'
  <2>1. ASSUME ReadEpoch(o) PROVE IInv'
    BY <2>1, ReadEpochType, ReadEpochInv
  <2>2. ASSUME ResolveSession(o) PROVE IInv'
    BY <2>2, ResolveSessionType, ResolveSessionInv
  <2>3. ASSUME StartFails(o) PROVE IInv'
    BY <2>3, StartFailsType, StartFailsInv
  <2>4. ASSUME Insert(o) PROVE IInv'
    BY <2>4, InsertType, InsertInv
  <2>5. ASSUME Register(o) PROVE IInv'
    BY <2>5, RegisterType, RegisterInv
  <2>6. ASSUME Unregister(o) PROVE IInv'
    BY <2>6, UnregisterType, UnregisterInv
  <2>7. ASSUME StopByUser(o) PROVE IInv'
    BY <2>7, StopByUserType, StopByUserInv
  <2>8. ASSUME ShellEnds(o) PROVE IInv'
    BY <2>8, ShellEndsType, ShellEndsInv
  <2> QED
    BY <1>3, <2>1, <2>2, <2>3, <2>4, <2>5, <2>6, <2>7, <2>8 DEF StartNext,
      SessionNext
<1>4. ASSUME NEW f \in Forwards, ForwardNext(f) PROVE IInv'
  <2>1. ASSUME Dial(f) PROVE IInv'
    BY <2>1, DialType, DialInv
  <2>2. ASSUME LinkReady(f) PROVE IInv'
    BY <2>2, LinkReadyType, LinkReadyInv
  <2>3. ASSUME LinkFails(f) PROVE IInv'
    BY <2>3, LinkFailsType, LinkFailsInv
  <2>4. ASSUME LinkStopped(f) PROVE IInv'
    BY <2>4, LinkStoppedType, LinkStoppedInv
  <2>5. ASSUME LookUp(f) PROVE IInv'
    BY <2>5, LookUpType, LookUpInv
  <2>6. ASSUME Activate(f) PROVE IInv'
    BY <2>6, ActivateType, ActivateInv
  <2>7. ASSUME PrepareReconnect(f) PROVE IInv'
    BY <2>7, PrepareReconnectType, PrepareReconnectInv
  <2>8. ASSUME WaitEnds(f) PROVE IInv'
    BY <2>8, WaitEndsType, WaitEndsInv
  <2>9. ASSUME FinishTerminal(f) PROVE IInv'
    BY <2>9, FinishTerminalType, FinishTerminalInv
  <2>10. ASSUME StartAnswered(f) PROVE IInv'
    BY <2>10, StartAnsweredType, StartAnsweredInv
  <2>11. ASSUME StartTimesOut(f) PROVE IInv'
    BY <2>11, StartTimesOutType, StartTimesOutInv
  <2> QED
    BY <1>4, <2>1, <2>2, <2>3, <2>4, <2>5, <2>6, <2>7, <2>8, <2>9, <2>10,
      <2>11 DEF ForwardNext
<1>5. ASSUME NEW d \in Drains, DrainNext(d) PROVE IInv'
  <2>1. ASSUME ResolveDrain(d) PROVE IInv'
    BY <2>1, ResolveDrainType, ResolveDrainInv
  <2>2. ASSUME ReadDrainEpoch(d) PROVE IInv'
    BY <2>2, ReadDrainEpochType, ReadDrainEpochInv
  <2>3. ASSUME StartDrain(d) PROVE IInv'
    BY <2>3, StartDrainType, StartDrainInv
  <2>4. ASSUME RunDrain(d) PROVE IInv'
    BY <2>4, RunDrainType, RunDrainInv
  <2>5. ASSUME RegisterDrain(d) PROVE IInv'
    BY <2>5, RegisterDrainType, RegisterDrainInv
  <2>6. ASSUME CheckFinished(d) PROVE IInv'
    BY <2>6, CheckFinishedType, CheckFinishedInv
  <2>7. ASSUME CancelDrain(d) PROVE IInv'
    BY <2>7, CancelDrainType, CancelDrainInv
  <2>8. ASSUME DrainEnds(d) PROVE IInv'
    BY <2>8, DrainEndsType, DrainEndsInv
  <2>9. ASSUME DrainReturns(d) PROVE IInv'
    BY <2>9, DrainReturnsType, DrainReturnsInv
  <2> QED
    BY <1>5, <2>1, <2>2, <2>3, <2>4, <2>5, <2>6, <2>7, <2>8, <2>9 DEF
      DrainNext
<1>6. ASSUME NEW w \in Stoppers, NEW o \in Ops, Cleanup(w, o) PROVE IInv'
  BY <1>6, CleanupType, CleanupInv
<1> QED
  BY <1>1, <1>2, <1>3, <1>4, <1>5, <1>6 DEF Next

LEMMA Invariance == Starts /\ [][Next]_vars => []IInv
  BY StartsIInv, NextIInv, PTL

LEMMA SpecIInv == Spec => []IInv
<1>1. Init => Starts
  <2>1. 0 \in 0..MaxOpenings /\ [o \in Ops |-> "idle"] \in [Ops -> {"idle", "over"}]
    BY OpeningsAssumption
  <2> QED
    BY <2>1 DEF Init, RegistryInit, Starts
<1> QED
  BY <1>1, Invariance, PTL DEF Spec

-----------------------------------------------------------------------------
(* TypeOK, for every set of operations and every number of openings, calls   *)
(* and reconnections.                                                        *)
THEOREM TypeCorrect == Spec => []TypeOK
<1>1. IInv => TypeOK
  BY DEF IInv
<1> QED
  BY <1>1, SpecIInv, PTL

(* A session past its registration is in the registry, or in the hands of    *)
(* the stop that will close it (registerStarting, markActive, stopCluster):  *)
(* the session maps never hold one that nothing could end.                   *)
THEOREM RegisteredSessions == Spec => []SessionsAreRegistered
<1>1. IInv => SessionsAreRegistered
  BY DEF IInv, TypeOK, SessionsAreRegistered, SessionPlace
<1> QED
  BY <1>1, SpecIInv, PTL

(* A registered session uses the clients of the current opening of its       *)
(* cluster: a start that read its epoch before a close is refused            *)
(* (registerRuntimeOperationAtEpoch, removeClusterRuntimeOperations).        *)
THEOREM NoEarlierOpening == Spec => []SessionsOfThisOpening
<1>1. IInv => SessionsOfThisOpening
  <2> SUFFICES ASSUME IInv, NEW o \in registry \ Drains PROVE OfThisOpening(o)
    BY DEF SessionsOfThisOpening
  <2>1. o \in Sessions
    BY OpsAssumption DEF IInv, TypeOK, RegistryTypeOK, Sessions
  <2>2. Resolved(o) /\ SessionEpoch(o)
    BY <2>1 DEF IInv, Resolved
  <2> QED
    BY <2>2 DEF SessionEpoch
<1> QED
  BY <1>1, SpecIInv, PTL

(* Once Shutdown has returned the registry is empty and stays so. *)
THEOREM NothingAfterShutdown == Spec => []ShutdownIsFinal
<1>1. IInv => ShutdownIsFinal
  BY DEF IInv, StopsOK, ShutdownIsFinal
<1> QED
  BY <1>1, SpecIInv, PTL

(* No ended shell or drain stays in the registry (finishStream, and the check *)
(* of startDrainNodeAction for a drain that ended before its registration).   *)
THEOREM NoGhostStays == Spec => []NoGhosts
<1>1. IInv => NoGhosts
  <2> SUFFICES ASSUME IInv, NEW o \in registry \ Forwards PROVE Lives(o)
    BY DEF NoGhosts
  <2>1. o \in Shells \/ o \in Drains
    BY OpsAssumption DEF IInv, TypeOK, RegistryTypeOK
  <2>2. CASE o \in Shells
    BY <2>2 DEF IInv, Sessions, SessionPlace, Lives
  <2>3. CASE o \in Drains
    BY <2>3 DEF IInv, DrainOK, Lives
  <2> QED
    BY <2>1, <2>2, <2>3
<1> QED
  BY <1>1, SpecIInv, PTL

(* Two goroutines never drain the node at once, unless one is told to end:    *)
(* a drain that runs and is not has the node's only active job, and its       *)
(* handle (StartDrainForClusterIfIdle, RegisterCancel).                       *)
THEOREM OneDrainerAtATime == Spec => []OneDrainer
<1>1. IInv => OneDrainer
  <2> SUFFICES ASSUME IInv, NEW d \in Drains, NEW e \in Drains, d # e,
                      run[d] = "draining", run[e] = "draining",
                      d \notin closed, e \notin closed
               PROVE  FALSE
    BY DEF OneDrainer
  <2>1. Active(d) /\ Active(e)
    BY DEF IInv, DrainOK
  <2> QED
    BY <2>1 DEF IInv, OneActive
<1> QED
  BY <1>1, SpecIInv, PTL
=============================================================================
