--------------------------- MODULE LiveOperations ---------------------------
(* Port forwards, shells and node drains of one cluster under the registry  *)
(* of OperationRegistry: backend/portforward.go, portforward_lifecycle.go,  *)
(* shell_sessions.go, shell_sessions_lifecycle.go, the drain action of      *)
(* resource_gateway_node_actions.go and nodemaintenance/store.go.           *)
(*                                                                          *)
(* An operation is its identity.  Its start is a call of the frontend; a    *)
(* port forward and a drain then have a goroutine of their own.  A step is  *)
(* a critical section, or one outcome of what a goroutine waits for.        *)
EXTENDS OperationRegistry

CONSTANTS
  Forwards, Shells, Drains,
  Reconnecting,  \* the forwards of a workload or service: those that reconnect
  MaxAttempts    \* PortForwardMaxReconnectAttempts

ASSUME OpsAssumption ==
  /\ Ops = Forwards \cup Shells \cup Drains
  /\ Forwards \cap Shells = {} /\ Drains \cap (Forwards \cup Shells) = {}
  /\ Reconnecting \subseteq Forwards
  /\ MaxAttempts \in Nat

VARIABLES
  call,      \* where the call that starts an operation is
  start,     \* what it has read: the epoch, and whose clients it resolved
  listed,    \* the session maps: forwards and shells
  closed,    \* operations whose session or context was cancelled
  leaving,   \* removed sessions whose unregisterRuntimeOperation is due
  run,       \* the goroutine of a forward or a drain
  link,      \* a forward's first attempt, readyChan and reconnectAttempt
  job,       \* status of a drain in the drain store
  handles    \* drains with a registered cancellation handle

sessionVars == <<listed, closed, leaving>>
drainVars == <<job, handles>>
vars == <<registryVars, call, start, sessionVars, run, link, drainVars>>

Sessions == Forwards \cup Shells
Statuses == {"none", "running", "canceling", "cancelled", "succeeded", "failed"}
NoLink == [first |-> TRUE, ready |-> "none", attempts |-> 0]

TypeOK ==
  /\ RegistryTypeOK
  /\ call \in [Ops -> {"idle", "resolve", "insert", "register", "await",
                       "epoch", "job", "handle", "check", "over"}]
  /\ start \in [Ops -> [epoch : Nat, opening : 0..MaxOpenings]]
  /\ listed \subseteq Sessions /\ closed \subseteq Ops /\ leaving \subseteq Sessions
  /\ run \in [Ops -> {"none", "top", "connecting", "ready", "activating", "active",
                      "failed", "waiting", "finish", "draining", "completed", "over"}]
  /\ link \in [Forwards -> [first : BOOLEAN, ready : {"none", "ok", "error"},
                            attempts : 0..MaxAttempts]]
  /\ job \in [Drains -> Statuses] /\ handles \subseteq Drains

OperationsInit(calls) ==
  /\ call = calls
  /\ start = [o \in Ops |-> [epoch |-> 0, opening |-> 0]]
  /\ listed = {} /\ closed = {} /\ leaving = {}
  /\ run = [o \in Ops |-> "none"]
  /\ link = [f \in Forwards |-> NoLink]
  /\ job = [d \in Drains |-> "none"] /\ handles = {}

Init == RegistryInit /\ OperationsInit([o \in Ops |-> "idle"])

Call(o, pc) == call' = [call EXCEPT ![o] = pc]
Run(o, pc) == run' = [run EXCEPT ![o] = pc]

(* The session's context is a child of the application's. *)
Told(o) == o \in closed \/ stop["quit"].pc # "idle"

-----------------------------------------------------------------------------
(* Sessions: what forwards and shells have in common.                       *)

DropKeepsOpen(o) == listed' = listed \ {o} /\ UNCHANGED closed  (* mutant *)

(* lifecycle.remove followed by close: whoever removes the session closes it. *)
Drop(o) ==
  /\ listed' = listed \ {o}
  /\ closed' = IF o \in listed THEN closed \cup {o} ELSE closed

(* finishTerminal, finishStream, stopByUser: the one that removes the session *)
(* also takes it out of the registry, in a later step.                        *)
Finish(o) == Drop(o) /\ leaving' = IF o \in listed THEN leaving \cup {o} ELSE leaving

Unregister(o) ==
  /\ o \in leaving
  /\ leaving' = leaving \ {o}
  /\ registry' = registry \ {o}
  /\ UNCHANGED <<cluster, stop, call, start, listed, closed, run, link, drainVars>>

ReadEpoch(o) ==
  /\ call[o] = "idle" /\ o \in Sessions
  /\ start' = [start EXCEPT ![o].epoch = cluster.epoch]
  /\ Call(o, "resolve")
  /\ UNCHANGED <<registryVars, sessionVars, run, link, drainVars>>

(* ResolveClusterDependencies, then the pod and the permissions. *)
ResolveSession(o) ==
  /\ call[o] = "resolve" /\ cluster.open
  /\ start' = [start EXCEPT ![o].opening = cluster.opening]
  /\ Call(o, "insert")
  /\ UNCHANGED <<registryVars, sessionVars, run, link, drainVars>>

StartFails(o) ==
  /\ call[o] \in {"resolve", "insert", "epoch"}
  /\ Call(o, "over")
  /\ UNCHANGED <<registryVars, start, sessionVars, run, link, drainVars>>

Insert(o) ==
  /\ call[o] = "insert"
  /\ listed' = listed \cup {o}
  /\ Call(o, "register")
  /\ UNCHANGED <<registryVars, start, closed, leaving, run, link, drainVars>>

(* mutant *)
RegisterKeepsRefused(o) ==
  /\ call[o] = "register" /\ o \in Sessions
  /\ registry' = IF Admitted(start[o].epoch) THEN registry \cup {o} ELSE registry
  /\ Call(o, IF o \in Forwards THEN "await" ELSE "over")
  /\ run' = IF o \in Forwards THEN [run EXCEPT ![o] = "top"] ELSE run
  /\ UNCHANGED <<cluster, stop, start, sessionVars, link, drainVars>>

Register(o) ==
  /\ call[o] = "register" /\ o \in Sessions
  /\ IF Admitted(start[o].epoch)
     THEN /\ registry' = registry \cup {o}
          /\ Call(o, IF o \in Forwards THEN "await" ELSE "over")
          /\ run' = IF o \in Forwards THEN [run EXCEPT ![o] = "top"] ELSE run
          /\ UNCHANGED <<listed, closed>>
     ELSE /\ Drop(o)
          /\ Call(o, "over")
          /\ UNCHANGED <<registry, run>>
  /\ UNCHANGED <<cluster, stop, start, leaving, link, drainVars>>

(* StopPortForward and CloseShellSession, of a session the frontend shows. *)
StopByUser(o) ==
  /\ o \in listed /\ call[o] \in {"await", "over"}
  /\ Finish(o)
  /\ UNCHANGED <<registryVars, call, start, run, link, drainVars>>

(* A shell's stream ends, or its monitor finds it idle or too old. *)
ShellEnds(s) ==
  /\ s \in Shells \cap listed /\ call[s] = "over"
  /\ Finish(s)
  /\ UNCHANGED <<registryVars, call, start, run, link, drainVars>>

-----------------------------------------------------------------------------
(* Port forwards: runPortForwarder and awaitStart.                          *)

forwardUnchanged == <<registryVars, start, drainVars>>

(* The loop's check, and executePortForward up to the dial. *)
Dial(f) ==
  /\ run[f] = "top"
  /\ \/ Told(f) /\ Run(f, "finish")
     \/ ~Told(f) /\ cluster.open /\ Run(f, "connecting")
     \/ ~Told(f) /\ Run(f, "failed")
  /\ UNCHANGED <<forwardUnchanged, call, sessionVars, link>>

LinkReady(f) ==
  /\ run[f] = "connecting"
  /\ Run(f, "ready")
  /\ UNCHANGED <<forwardUnchanged, call, sessionVars, link>>

(* The connection fails, or ends with an error once it was active. *)
LinkFails(f) ==
  /\ run[f] \in {"connecting", "active"}
  /\ Run(f, "failed")
  /\ UNCHANGED <<forwardUnchanged, call, sessionVars, link>>

(* Of a closed stopChan and a cancelled context either is chosen: a clean   *)
(* return, or an error that is handled as a failure.                        *)
LinkStopped(f) ==
  /\ run[f] \in {"connecting", "active"} /\ Told(f)
  /\ \/ f \in closed /\ Run(f, "finish")
     \/ Run(f, "failed")
  /\ UNCHANGED <<forwardUnchanged, call, sessionVars, link>>

(* signalStartFailure and the send after markActive: readyChan holds one. *)
Signal(f, answer) == IF link[f].ready = "none" THEN answer ELSE link[f].ready

(* markActive looks the session up, and registers it in a later step. *)
LookUp(f) ==
  /\ run[f] = "ready"
  /\ IF f \in listed
     THEN Run(f, "activating") /\ link' = [link EXCEPT ![f].attempts = 0]
     ELSE Run(f, "active") /\ link' = [link EXCEPT ![f].ready = Signal(f, "ok")]
  /\ UNCHANGED <<forwardUnchanged, call, sessionVars>>

Activate(f) ==
  /\ run[f] = "activating"
  /\ IF Admitted(start[f].epoch)
     THEN registry' = registry \cup {f} /\ UNCHANGED <<listed, closed>>
     ELSE Drop(f) /\ UNCHANGED registry
  /\ Run(f, "active")
  /\ link' = [link EXCEPT ![f].ready = Signal(f, "ok")]
  /\ UNCHANGED <<cluster, stop, call, start, leaving, drainVars>>

MayRetry(f) == f \in Reconnecting /\ link[f].attempts < MaxAttempts

(* The first failure is the answer of the start call; then                  *)
(* preparePortForwardReconnect counts the attempt.                          *)
PrepareReconnect(f) ==
  /\ run[f] = "failed"
  /\ link' = [link EXCEPT
       ![f].first = FALSE,
       ![f].ready = IF link[f].first THEN Signal(f, "error") ELSE @,
       ![f].attempts = IF MayRetry(f) THEN @ + 1 ELSE @]
  /\ Run(f, IF MayRetry(f) THEN "waiting" ELSE "finish")
  /\ UNCHANGED <<forwardUnchanged, call, sessionVars>>

(* waitForPortForwardReconnect: the timer, or the end of the session. *)
WaitEnds(f) ==
  /\ run[f] = "waiting"
  /\ Run(f, "top") \/ (Told(f) /\ Run(f, "finish"))
  /\ UNCHANGED <<forwardUnchanged, call, sessionVars, link>>

FinishTerminal(f) ==
  /\ run[f] = "finish"
  /\ Finish(f)
  /\ Run(f, "over")
  /\ UNCHANGED <<forwardUnchanged, call, link>>

(* awaitStart: the answer of the first attempt, or the timeout. *)
StartAnswered(f) ==
  /\ call[f] = "await" /\ link[f].ready # "none"
  /\ IF link[f].ready = "ok" THEN UNCHANGED sessionVars ELSE Finish(f)
  /\ Call(f, "over")
  /\ UNCHANGED <<forwardUnchanged, run, link>>

StartTimesOut(f) ==
  /\ call[f] = "await"
  /\ Finish(f)
  /\ Call(f, "over")
  /\ UNCHANGED <<forwardUnchanged, run, link>>

-----------------------------------------------------------------------------
(* Drains of one node: startDrainNodeAction, StartDrainWithCompletion.      *)

ActiveUncancelled(d) == job[d] = "running"  (* mutant *)

Active(d) == job[d] \in {"running", "canceling"}

(* The clients are resolved first and the epoch is read after the permission *)
(* checks.                                                                    *)
ResolveDrain(d) ==
  /\ call[d] = "idle" /\ cluster.open
  /\ start' = [start EXCEPT ![d].opening = cluster.opening]
  /\ Call(d, "epoch")
  /\ UNCHANGED <<registryVars, sessionVars, run, link, drainVars>>

ReadDrainEpoch(d) ==
  /\ call[d] = "epoch"
  /\ start' = [start EXCEPT ![d].epoch = cluster.epoch]
  /\ Call(d, "job")
  /\ UNCHANGED <<registryVars, sessionVars, run, link, drainVars>>

(* StartDrainForClusterIfIdle *)
StartDrain(d) ==
  /\ call[d] = "job"
  /\ IF \E e \in Drains : Active(e)
     THEN Call(d, "over") /\ UNCHANGED job
     ELSE Call(d, "handle") /\ job' = [job EXCEPT ![d] = "running"]
  /\ UNCHANGED <<registryVars, start, sessionVars, run, link, handles>>

(* RegisterCancel, and the goroutine starts. *)
RunDrain(d) ==
  /\ call[d] = "handle"
  /\ handles' = handles \cup {d}
  /\ Run(d, "draining")
  /\ Call(d, "register")
  /\ UNCHANGED <<registryVars, start, sessionVars, link, job>>

(* CancelDrainForClusterLifecycle: terminal at once, and its context is      *)
(* cancelled through the handle.                                             *)
CancelForLifecycle(d) ==
  IF Active(d)
  THEN /\ job' = [job EXCEPT ![d] = "cancelled"]
       /\ closed' = closed \cup ({d} \cap handles)
       /\ handles' = handles \ {d}
  ELSE UNCHANGED <<job, closed, handles>>

RegisterDrain(d) ==
  /\ call[d] = "register" /\ d \in Drains
  /\ IF Admitted(start[d].epoch)
     THEN /\ registry' = registry \cup {d}
          /\ Call(d, "check")
          /\ UNCHANGED <<job, handles, closed>>
     ELSE /\ CancelForLifecycle(d)
          /\ Call(d, "over")
          /\ UNCHANGED registry
  /\ UNCHANGED <<cluster, stop, start, listed, leaving, run, link>>

WasSuccessful(d) == job[d] = "succeeded"  (* mutant *)

(* drainOperationFinished: the drain may have ended before it was registered. *)
WasFinished(d) == ~Active(d)

CheckFinished(d) ==
  /\ call[d] = "check"
  /\ registry' = IF WasFinished(d) THEN registry \ {d} ELSE registry
  /\ Call(d, "over")
  /\ UNCHANGED <<cluster, stop, start, sessionVars, run, link, drainVars>>

(* CancelDrainNodeJob *)
CancelDrain(d) ==
  /\ Active(d) /\ cluster.open
  /\ job' = [job EXCEPT ![d] = "canceling"]
  /\ closed' = closed \cup ({d} \cap handles)
  /\ UNCHANGED <<registryVars, call, start, listed, leaving, run, link, handles>>

(* finalizeDrain: Complete does not change a job that has an end already. *)
DrainEnds(d) ==
  /\ run[d] = "draining"
  /\ \E outcome \in {"succeeded", "failed"} \cup (IF Told(d) THEN {"cancelled"} ELSE {}) :
       job' = IF Active(d) THEN [job EXCEPT ![d] = outcome] ELSE job
  /\ Run(d, "completed")
  /\ UNCHANGED <<registryVars, call, start, sessionVars, link, handles>>

(* The deferred onComplete and ClearCancel. *)
DrainReturns(d) ==
  /\ run[d] = "completed"
  /\ registry' = registry \ {d}
  /\ handles' = handles \ {d}
  /\ Run(d, "over")
  /\ UNCHANGED <<cluster, stop, call, start, sessionVars, link, job>>

-----------------------------------------------------------------------------
(* The cleanup callbacks, called one by one by stopCluster. *)
Cleanup(w, o) ==
  /\ stop[w].pc = "cleanup" /\ o \in stop[w].taken
  /\ stop' = [stop EXCEPT ![w].taken = @ \ {o}]
  /\ IF o \in Drains
     THEN CancelForLifecycle(o) /\ UNCHANGED listed
     ELSE Drop(o) /\ UNCHANGED drainVars
  /\ UNCHANGED <<cluster, registry, call, start, leaving, run, link>>

ClusterNext ==
  \/ OpenCluster \/ CloseCluster \/ CloseUnselected
  \/ Quit \/ CloseRegistration \/ ListClusters
  \/ \E w \in Stoppers : TakeOperations(w) \/ StopReturns(w)

StartNext(o) ==
  \/ ReadEpoch(o) \/ ResolveSession(o) \/ StartFails(o) \/ Insert(o) \/ Register(o)

SessionNext(o) == Unregister(o) \/ StopByUser(o) \/ ShellEnds(o)

ForwardNext(f) ==
  \/ Dial(f) \/ LinkReady(f) \/ LinkFails(f) \/ LinkStopped(f) \/ LookUp(f) \/ Activate(f)
  \/ PrepareReconnect(f) \/ WaitEnds(f) \/ FinishTerminal(f)
  \/ StartAnswered(f) \/ StartTimesOut(f)

DrainNext(d) ==
  \/ ResolveDrain(d) \/ ReadDrainEpoch(d) \/ StartDrain(d) \/ RunDrain(d)
  \/ RegisterDrain(d) \/ CheckFinished(d) \/ CancelDrain(d) \/ DrainEnds(d) \/ DrainReturns(d)

Next ==
  \/ ClusterNext /\ UNCHANGED <<call, start, sessionVars, run, link, drainVars>>
  \/ \E o \in Ops : StartNext(o) \/ SessionNext(o)
  \/ \E f \in Forwards : ForwardNext(f)
  \/ \E d \in Drains : DrainNext(d)
  \/ \E w \in Stoppers, o \in Ops : Cleanup(w, o)

(* Goroutines run, locks are handed on, requests and the start call have     *)
(* deadlines, and a connection that is told to end does.  Nothing is assumed *)
(* of the user, of the cluster, or of a connection nobody has ended.         *)
EndsOfRun(f) ==
  \/ Dial(f) \/ LinkStopped(f) \/ LookUp(f) \/ Activate(f)
  \/ PrepareReconnect(f) \/ WaitEnds(f) \/ FinishTerminal(f)

Fairness ==
  /\ \A w \in Stoppers : WF_vars(\E o \in Ops : Cleanup(w, o))
  /\ \A o \in Ops : /\ WF_vars(ResolveSession(o) \/ StartFails(o) \/ Insert(o) \/ Register(o))
                    /\ WF_vars(Unregister(o))
  /\ \A f \in Forwards : WF_vars(EndsOfRun(f)) /\ WF_vars(StartTimesOut(f))
  /\ \A d \in Drains : /\ WF_vars(ReadDrainEpoch(d) \/ StartDrain(d) \/ RunDrain(d))
                       /\ WF_vars(RegisterDrain(d) \/ CheckFinished(d))
                       /\ WF_vars(Told(d) /\ DrainEnds(d)) /\ WF_vars(DrainReturns(d))

Spec == Init /\ [][Next]_vars
FairSpec == Spec /\ Fairness

-----------------------------------------------------------------------------
(* operation-lifecycle.md: "Every live workflow registers one registry       *)
(* entry".  A session that is past its registration is in the registry, or   *)
(* in the hands of the stop that will close it: the frontend shows no other, *)
(* so a session outside could never be ended (registerStarting, markActive,  *)
(* stopCluster).                                                             *)
SessionsAreRegistered ==
  \A o \in listed : call[o] \in {"await", "over"} => o \in registry \cup Taken

(* What the registry holds is alive, or about to be taken out. *)
Lives(o) ==
  \/ o \in listed \cup leaving
  \/ o \in Drains /\ (run[o] \in {"draining", "completed"} \/ call[o] = "check")

(* No ended shell or drain stays in the registry, although a drain may end   *)
(* before it is registered (finishStream, startDrainNodeAction's check).     *)
NoGhosts == \A o \in registry \ Forwards : Lives(o)

(* operation-lifecycle.md: "Workflow detail stores may add row details; they *)
(* must not resurrect an operation removed by the registry."  No run checks  *)
(* it: the code does not keep it for forwards (README, section 3.2).         *)
NothingResurrected ==
  ~cluster.shuttingDown => \A f \in registry \cap Forwards : Lives(f)

(* An operation never uses the clients of an earlier opening of its cluster: *)
(* the epoch read before the clients are resolved is still the current one.  *)
OfThisOpening(o) == start[o].opening = cluster.opening
SessionsOfThisOpening == \A o \in registry \ Drains : OfThisOpening(o)

(* operation-lifecycle.md: "A late shell start, port-forward activation, or  *)
(* drain registration from an older epoch is rejected".                      *)
DrainsOfThisOpening ==
  \A d \in registry \cap Drains : OfThisOpening(d) /\ (cluster.open \/ Stopping)

(* Two goroutines never drain one node, unless the earlier one is told to    *)
(* end: a lifecycle cancellation frees the node at once, so it has to find   *)
(* the cancellation handle (StartDrainForClusterIfIdle, RegisterCancel).     *)
OneDrainer ==
  \A d, e \in Drains :
    d # e /\ run[d] = "draining" /\ run[e] = "draining" => d \in closed \/ e \in closed

(* Nothing is left, and nothing is added, once Shutdown has returned. *)
ShutdownIsFinal == stop["quit"].pc = "done" => registry = {}

(* Whatever a stop of the cluster meets, in whatever step of its start, its  *)
(* connection or its end, comes to an end.                                   *)
Ended(o) ==
  /\ call[o] \in {"idle", "over"} /\ o \notin listed \cup leaving \cup registry
  /\ run[o] \in {"none", "over"}
StoppedEnd ==
  \A o \in Ops : (call[o] \notin {"idle", "epoch"} /\ start[o].epoch < cluster.epoch) ~> Ended(o)
=============================================================================
