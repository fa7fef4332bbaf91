--------------------------- MODULE ClusterRuntime ---------------------------
(***************************************************************************)
(* backend: how ONE open cluster gets, replaces and loses its refresh      *)
(* generation (a *system.Subsystem).                                       *)
(*                                                                         *)
(* Four sources ask for it.  The auth manager and the transport health     *)
(* publish intents that one consumer turns into selection mutations        *)
(* (cluster_runtime_intent.go, workspace_auth.go,                          *)
(* workspace_transport_recovery.go); a scope edit, a changed kubeconfig    *)
(* and a selection command are selection mutations too; a generation's     *)
(* permission revalidator replaces its own generation; the governor warms  *)
(* and cools the cluster.  Mutations exclude each other by                 *)
(* selectionMutationMu; auth, transport, scope and permission work takes   *)
(* the cluster's operation slot; the governor takes neither.               *)
(*                                                                         *)
(* Three workers run that work: the holder of the mutation lock, the       *)
(* revalidator and the reconciling governor.                               *)
(***************************************************************************)
EXTENDS Naturals

CONSTANTS MaxGens,  \* bound: generations that exist at one time
          Budget    \* bound: how often each outside event happens, and "any" does

Events == {"auth", "transport", "scope", "kubeconfig", "select", "permission",
           "tab", "fault", "any"}

ASSUME MaxGensAssumption == MaxGens \in Nat \ {0}
ASSUME BudgetAssumption == Budget \in [Events -> Nat]

VARIABLES left,       \* the events that may still happen
          auth,       \* the verdict of the cluster's auth manager
          intents,    \* intentGeneration, the queue, the drained batch, latest
          rebuilding, \* transportFailureState.rebuildInProgress
          scope,      \* persisted namespace scope (its version), and scopeRebuildQueued
          selGen,     \* selectionGeneration
          jobs,       \* goroutines waiting for selectionMutationMu
          holder,     \* the mutation that holds it, or NoJob
          ops,        \* the cluster's slot: begun operations, cancelled ones, its mutex
          worker,     \* where each worker stands
          table,      \* refreshSubsystems[cluster]
          route,      \* the generation the aggregate handlers serve
          gen,        \* the state of the generations
          tier,       \* governor: visible, the planned and the applied tier
          overlapped  \* history: work without the slot met other work

vars == <<left, auth, intents, rebuilding, scope, selGen, jobs, holder, ops,
          worker, table, route, gen, tier, overlapped>>

Workers == {"mutation", "revalidator", "governor"}
Kinds == {"auth", "transport", "kubeconfig"}
Gens == 1 .. MaxGens
NoGen == 0                \* nil
Refs == Gens \cup {NoGen}
NoJob == [kind |-> "none", id |-> 0, sel |-> 0, teardown |-> FALSE]

\* A worker that does nothing.  next is what follows a teardown, expected the
\* generation a revalidator belongs to, target what it will route or publish.
Idle == [pc |-> "idle", next |-> "end", new |-> NoGen, previous |-> NoGen,
         target |-> NoGen, expected |-> NoGen]

Init ==
  /\ left = Budget
  /\ auth = "valid"
  /\ intents = [last |-> 0, pending |-> {}, batch |-> {},
                latest |-> [k \in Kinds |-> 0]]
  /\ rebuilding = FALSE
  /\ scope = [version |-> 0, queued |-> FALSE]
  /\ selGen = 0
  /\ jobs = {}
  /\ holder = NoJob
  /\ ops = [begun |-> {}, cancelled |-> {}, held |-> {}]
  /\ worker = [w \in Workers |-> Idle]
  /\ table = 1 /\ route = 1               \* the cluster is up and committed
  /\ gen = [feeding |-> {1}, serving |-> {1}, cooled |-> {}, committed |-> {1},
            watching |-> {1}, scope |-> [g \in Gens |-> 0]]
  /\ tier = [visible |-> TRUE, planned |-> "live", applied |-> "live"]
  /\ overlapped = FALSE

Spend(e) ==
  /\ left[e] > 0 /\ left["any"] > 0
  /\ left' = [left EXCEPT ![e] = @ - 1, !["any"] = @ - 1]
Goto(w, pc) == worker' = [worker EXCEPT ![w].pc = pc]

(***************************************************************************)
(* The intent queue and its consumer                                       *)
(***************************************************************************)
\* clusterRuntimeIntentQueue.Publish: the latest intent of a kind replaces the
\* pending one.  The generation is drawn just before, under the producer's lock.
Publish(kind, teardown) ==
  intents' = [intents EXCEPT
    !.last = @ + 1,
    !.pending = {i \in @ : i.kind # kind}
                  \cup {[NoJob EXCEPT !.kind = kind, !.id = intents.last + 1,
                                      !.teardown = teardown]}]

NotFromInvalid(next) == next # "invalid" /\ auth # "invalid" \* mutant: the end
                             \* of an invalid state asks for no rebuild
Publishes(next) == next # "invalid"

\* handleClusterAuthStateChange, called by the auth manager under its mutex: a
\* recovering cluster is torn down, a valid one rebuilt, an invalid one left.
AuthChanges(next) ==
  /\ Spend("auth")
  /\ <<auth, next>> \in {<<"valid", "recovering">>, <<"recovering", "valid">>,
                         <<"recovering", "invalid">>, <<"invalid", "valid">>}
  /\ auth' = next
  /\ IF Publishes(next) THEN Publish("auth", next = "recovering")
                        ELSE UNCHANGED intents
  /\ UNCHANGED <<rebuilding, scope, selGen, jobs, holder, ops, worker, table,
                 route, gen, tier, overlapped>>

\* recordClusterTransportFailure at the threshold and past the cooldown.
TransportFails ==
  /\ Spend("transport")
  /\ ~rebuilding
  /\ rebuilding' = TRUE
  /\ Publish("transport", FALSE)
  /\ UNCHANGED <<auth, scope, selGen, jobs, holder, ops, worker, table, route,
                 gen, tier, overlapped>>

KubeconfigChanges ==
  /\ Spend("kubeconfig")
  /\ Publish("kubeconfig", TRUE)
  /\ UNCHANGED <<auth, rebuilding, scope, selGen, jobs, holder, ops, worker,
                 table, route, gen, tier, overlapped>>

\* Consume runs transport and kubeconfig mutations itself, auth ones in a
\* goroutine of their own (runSelectionMutationAsync).
ConsumerBusy == \E j \in jobs \cup {holder} : j.kind \in {"transport", "kubeconfig"}

Drain ==
  /\ ~ConsumerBusy
  /\ intents.batch = {} /\ intents.pending # {}
  /\ intents' = [intents EXCEPT !.batch = intents.pending, !.pending = {}]
  /\ UNCHANGED <<left, auth, rebuilding, scope, selGen, jobs, holder, ops,
                 worker, table, route, gen, tier, overlapped>>

\* consumeClusterRuntimeIntent for the oldest intent of the batch: accept it,
\* then queue its mutation.  Superseding ones draw their selection generation.
Consume ==
  /\ ~ConsumerBusy
  /\ \E i \in intents.batch :
       LET accepted == i.id > intents.latest[i.kind]
           supersedes == i.kind # "auth"
       IN /\ \A y \in intents.batch : i.id <= y.id
          /\ intents' = [intents EXCEPT
               !.batch = @ \ {i},
               !.latest[i.kind] = IF accepted THEN i.id ELSE @]
          /\ IF ~accepted THEN UNCHANGED <<selGen, jobs>>
             ELSE /\ selGen' = IF supersedes THEN selGen + 1 ELSE selGen
                  /\ jobs' = jobs \cup
                       {IF supersedes THEN [i EXCEPT !.sel = selGen + 1] ELSE i}
  /\ UNCHANGED <<left, auth, rebuilding, scope, holder, ops, worker, table,
                 route, gen, tier, overlapped>>

(***************************************************************************)
(* Selection mutations and the cluster's operation slot                    *)
(***************************************************************************)
QueuedOrRunning == scope.queued \/ holder.kind = "scope" \* mutant: a rebuild
                             \* that runs covers an edit made meanwhile
RebuildQueued == scope.queued

\* SetClusterAllowedNamespaces: persist, then queue one rebuild.
EditScope ==
  /\ Spend("scope")
  /\ scope' = [version |-> scope.version + 1, queued |-> TRUE]
  /\ jobs' = IF RebuildQueued THEN jobs
             ELSE jobs \cup {[NoJob EXCEPT !.kind = "scope"]}
  /\ UNCHANGED <<auth, intents, rebuilding, selGen, holder, ops, worker, table,
                 route, gen, tier, overlapped>>

\* SetSelectedKubeconfigs supersedes at once; a window's command is ordered and
\* draws its generation (beginDeferredSelectionGeneration) inside the lock.
ChangeSelection(supersedes) ==
  /\ Spend("select")
  /\ ~\E j \in jobs \cup {holder} : j.kind = "select"
  /\ selGen' = IF supersedes THEN selGen + 1 ELSE selGen
  /\ jobs' = jobs \cup {[NoJob EXCEPT !.kind = "select",
                           !.sel = IF supersedes THEN selGen + 1 ELSE 0]}
  /\ UNCHANGED <<auth, intents, rebuilding, scope, holder, ops, worker, table,
                 route, gen, tier, overlapped>>

Superseded(j) == j.sel # 0 /\ j.sel # selGen

\* runSelectionMutationWithQueuePolicy: a superseded mutation returns without
\* running its callback.
SkipSuperseded(j) ==
  /\ holder = NoJob
  /\ Superseded(j)
  /\ jobs' = jobs \ {j}
  /\ UNCHANGED <<left, auth, intents, rebuilding, scope, selGen, holder, ops,
                 worker, table, route, gen, tier, overlapped>>

\* mutant: an intent of any kind makes an older one stale
IsLastOfAll(j) == j.kind = "auth" => intents.last = j.id
IsCurrent(j) == j.kind = "auth" => intents.latest["auth"] = j.id

\* Work with the slot never meets other work with the slot; overlapped notes
\* when any other work starts beside some.
Slotted(w, j) == w = "revalidator" \/ (w = "mutation" /\ j.kind \in {"auth", "transport", "scope"})
Working(w) == worker[w].pc \notin {"idle", "slot"}
Overlap(w, j) ==
  overlapped' = (overlapped \/ \E o \in Workers \ {w} :
                   Working(o) /\ ~(Slotted(w, j) /\ Slotted(o, holder)))

\* The lock is taken; an auth mutation checks its intent, a foreground one
\* cancels the revalidator's operation, and both wait for the slot.
StartSlotted(j) ==
  /\ holder = NoJob
  /\ Slotted("mutation", j) /\ ~Superseded(j)
  /\ jobs' = jobs \ {j}
  /\ IF ~IsCurrent(j) THEN UNCHANGED <<holder, ops, worker>>
     ELSE /\ holder' = j
          /\ ops' = [ops EXCEPT
               !.begun = @ \cup {"mutation"},
               !.cancelled = IF j.kind = "transport" THEN ops.begun ELSE @]
          /\ Goto("mutation", "slot")
  /\ UNCHANGED <<left, auth, intents, rebuilding, scope, selGen, table, route,
                 gen, tier, overlapped>>

\* A changed kubeconfig tears down and rebuilds, a selection command opens or
\* closes the tabs of other clusters; neither takes the slot.
StartUnslotted(j) ==
  /\ holder = NoJob
  /\ ~Slotted("mutation", j) /\ ~Superseded(j)
  /\ jobs' = jobs \ {j}
  /\ selGen' = IF j.sel = 0 THEN selGen + 1 ELSE selGen
  /\ holder' = [j EXCEPT !.sel = selGen']
  /\ worker' = [worker EXCEPT !["mutation"] =
       IF j.kind = "select" THEN [Idle EXCEPT !.pc = "sync"]
                            ELSE [Idle EXCEPT !.pc = "take", !.next = "clients"]]
  /\ Overlap("mutation", j)
  /\ UNCHANGED <<left, auth, intents, rebuilding, scope, ops, table, route, gen,
                 tier>>

SlotFree == ops.held = {}

\* runWithAdmission after slot.mu.Lock: the callback re-checks its intent.
EnterSlot ==
  /\ worker["mutation"].pc = "slot"
  /\ SlotFree
  /\ ops' = [ops EXCEPT !.held = @ \cup {"mutation"}]
  /\ scope' = IF holder.kind = "scope" THEN [scope EXCEPT !.queued = FALSE] ELSE scope
  /\ worker' = [worker EXCEPT !["mutation"] = [Idle EXCEPT
       !.pc = CASE ~IsCurrent(holder) -> "end"
                [] IsCurrent(holder) /\ (holder.teardown \/ holder.kind = "scope") -> "take"
                [] OTHER -> "clients",
       !.next = IF holder.kind = "scope" THEN "clients" ELSE "end"]]
  /\ Overlap("mutation", holder)
  /\ UNCHANGED <<left, auth, intents, rebuilding, selGen, jobs, holder, table,
                 route, gen, tier>>

EndMutation ==
  /\ worker["mutation"].pc = "end"
  /\ worker' = [worker EXCEPT !["mutation"] = Idle]
  /\ holder' = NoJob
  /\ rebuilding' = (rebuilding /\ holder.kind # "transport")
  /\ ops' = [ops EXCEPT !.begun = @ \ {"mutation"}, !.held = @ \ {"mutation"}]
  /\ UNCHANGED <<left, auth, intents, scope, selGen, jobs, table, route, gen,
                 tier, overlapped>>

\* rebuildForPermissionChange: skipped while any operation has begun.  The
\* goroutine of a generation runs from startRefreshGeneration to its cancel.
StartReplacement(g) ==
  /\ Spend("permission")
  /\ g \in gen.watching
  /\ ops.begun = {}
  /\ ops' = [begun |-> {"revalidator"}, cancelled |-> {}, held |-> {"revalidator"}]
  /\ worker' = [worker EXCEPT !["revalidator"] =
                  [Idle EXCEPT !.pc = "clients", !.expected = g]]
  /\ Overlap("revalidator", NoJob)
  /\ UNCHANGED <<auth, intents, rebuilding, scope, selGen, jobs, holder, table,
                 route, gen, tier>>

EndReplacement ==
  /\ worker["revalidator"].pc = "end"
  /\ worker' = [worker EXCEPT !["revalidator"] = Idle]
  /\ ops' = [ops EXCEPT !.begun = @ \ {"revalidator"}, !.held = @ \ {"revalidator"},
                        !.cancelled = {}]
  /\ UNCHANGED <<left, auth, intents, rebuilding, scope, selGen, jobs, holder,
                 table, route, gen, tier, overlapped>>

(***************************************************************************)
(* The governor                                                            *)
(***************************************************************************)
\* SetVisibleCluster; a cluster no window shows is assigned Cold.
SwitchTab ==
  /\ Spend("tab")
  /\ tier' = [tier EXCEPT !.visible = ~@]
  /\ UNCHANGED <<auth, intents, rebuilding, scope, selGen, jobs, holder, ops,
                 worker, table, route, gen, overlapped>>

Assigned == IF tier.visible THEN "live" ELSE "cold"
Live(g) == g # NoGen /\ g \notin gen.cooled

\* reconcileGovernorWith: one transition when the assigned tier is not the
\* applied one.  A cluster whose baseline is not ready stays as it is (no step)
\* until it is cooled, or torn down under sustained pressure.
Reconcile(pc) ==
  /\ worker["governor"].pc = "idle"
  /\ tier.applied # Assigned
  /\ pc \in IF Assigned = "live" THEN {IF Live(table) THEN "end" ELSE "clients"}
            ELSE IF table = NoGen THEN {"done"} ELSE {"cool", "take"}
  /\ worker' = [worker EXCEPT !["governor"] =
                  [Idle EXCEPT !.pc = pc, !.next = IF pc = "take" THEN "done" ELSE "end"]]
  /\ tier' = [tier EXCEPT !.planned = Assigned]
  /\ Overlap("governor", NoJob)
  /\ UNCHANGED <<left, auth, intents, rebuilding, scope, selGen, jobs, holder,
                 ops, table, route, gen>>

\* The tier is recorded when the executor says it was reached.
EndReconcile ==
  /\ worker["governor"].pc \in {"end", "done"}
  /\ worker' = [worker EXCEPT !["governor"] = Idle]
  /\ tier' = [tier EXCEPT !.applied =
       IF worker["governor"].pc = "done" \/ (tier.planned = "live") = Live(table)
       THEN tier.planned ELSE @]
  /\ UNCHANGED <<left, auth, intents, rebuilding, scope, selGen, jobs, holder,
                 ops, table, route, gen, overlapped>>

(***************************************************************************)
(* Stopping, cooling and tearing down a generation                         *)
(***************************************************************************)
outside == <<auth, intents, rebuilding, scope, selGen, jobs, holder, ops, tier,
             overlapped>>

\* stopRefreshGenerationProducers: a revalidator is cancelled through the
\* committed runtime, the manager in any case.
StopProducers(gs) ==
  [gen EXCEPT !.feeding = @ \ gs, !.committed = @ \ gs,
              !.watching = @ \ (gs \cap gen.committed)]
StopFeedsOnly(gs) == StopProducers(gs) \* mutant: serving is not retired
\* stopRefreshGeneration of the generations gs.
Stop(gs) == [StopProducers(gs) EXCEPT !.serving = @ \ gs]
\* refreshGenerationActivation.rollback holds the cancel functions itself.
Rollback(g) == [Stop({g}) EXCEPT !.watching = @ \ {g}]

At(w, pc) == worker[w].pc = pc
Finish(w) == worker' = [worker EXCEPT ![w] = [@ EXCEPT !.pc = "end", !.next = "end"]]

\* coolClusterToMmapServing stops the feeds of the routed generation ...
CoolFeeds ==
  /\ At("governor", "cool")
  /\ worker' = [worker EXCEPT !["governor"].previous = table,
                  !["governor"].pc = IF table = NoGen THEN "end" ELSE "install"]
  /\ gen' = StopProducers({table})
  /\ UNCHANGED <<outside, left, table, route>>

\* ... and installs its cooled stores, or falls back to a full teardown.
InstallCooled ==
  /\ At("governor", "install")
  /\ Goto("governor", "end")
  /\ gen' = [gen EXCEPT !.cooled = @ \cup {worker["governor"].previous}]
  /\ UNCHANGED <<outside, left, table, route>>

CoolingFails ==
  /\ At("governor", "install")
  /\ Spend("fault")
  /\ Goto("governor", "take")
  /\ UNCHANGED <<outside, table, route, gen>>

\* teardownClusterSubsystem: take the generation (without one, stop whatever
\* runs for the cluster), route what the table then holds, stop it.
Take(w) ==
  /\ At(w, "take")
  /\ table' = NoGen
  /\ worker' = [worker EXCEPT ![w].previous = table,
                  ![w].pc = IF table = NoGen THEN worker[w].next ELSE "unroute",
                  ![w].next = IF table = NoGen THEN "end" ELSE @]
  /\ gen' = IF table = NoGen THEN Stop(gen.committed) ELSE gen
  /\ UNCHANGED <<outside, left, route>>

Unroute(w) ==
  /\ At(w, "unroute")
  /\ worker' = [worker EXCEPT ![w].target = table, ![w].pc = "drop"]
  /\ UNCHANGED <<outside, left, table, route, gen>>

Drop(w) ==
  /\ At(w, "drop")
  /\ route' = worker[w].target
  /\ Goto(w, "retire")
  /\ UNCHANGED <<outside, left, table, gen>>

Retire(w) ==
  /\ At(w, "retire")
  /\ gen' = IF worker[w].previous # worker[w].new THEN Stop({worker[w].previous}) ELSE gen
  /\ worker' = [worker EXCEPT ![w].pc = worker[w].next, ![w].next = "end"]
  /\ UNCHANGED <<outside, left, table, route>>

(***************************************************************************)
(* clusterSubsystemRebuild.run and replacePermissionGeneration             *)
(***************************************************************************)
\* The operation's context and the expected generation, which only the
\* permission replacement checks.
Stale(w) ==
  /\ w = "revalidator"
  /\ \/ w \in ops.cancelled
     \/ worker[w].expected \notin gen.watching
     \/ worker[w].expected # table

Held == UNION {{worker[w].new, worker[w].previous, worker[w].target, worker[w].expected} :
                 w \in Workers}
Free == Gens \ (Held \cup {table, route} \cup gen.feeding \cup gen.serving
                  \cup gen.committed \cup gen.watching)
NewGen == CHOOSE g \in Free : TRUE

\* rebuildClients: the transports keep the auth manager, whose verdict decides.
RebuildClients(w) ==
  /\ At(w, "clients")
  /\ IF Stale(w) \/ auth # "valid" THEN Finish(w) ELSE Goto(w, "build")
  /\ UNCHANGED <<outside, left, table, route, gen>>

ClientsFail(w) ==
  /\ At(w, "clients")
  /\ Spend("fault")
  /\ Finish(w)
  /\ UNCHANGED <<outside, table, route, gen>>

\* buildSubsystem reads the persisted scope.
Built(g) == [gen EXCEPT !.serving = @ \cup {g}, !.cooled = @ \ {g},
                        !.scope[g] = scope.version]

BuildSubsystem(w) ==
  /\ At(w, "build")
  /\ IF Stale(w) THEN Finish(w) /\ gen' = gen
     ELSE /\ Free # {}
          /\ gen' = Built(NewGen)
          /\ worker' = [worker EXCEPT ![w].new = NewGen,
                          ![w].pc = IF w = "revalidator" THEN "check" ELSE "start"]
  /\ UNCHANGED <<outside, left, table, route>>

CheckExpected ==
  LET w == "revalidator" IN
  /\ At(w, "check")
  /\ IF Stale(w) THEN Finish(w) /\ gen' = Stop({worker[w].new})
                 ELSE Goto(w, "start") /\ gen' = gen
  /\ UNCHANGED <<outside, left, table, route>>

\* activateSubsystem, down to RouteGeneration, CommitGeneration and Retire.
\* mutant: the generation in the table is stopped before the routes leave it
StartedSwapping(g) == [Stop({table}) EXCEPT !.feeding = @ \cup {g}, !.watching = @ \cup {g}]
Started(g) == [gen EXCEPT !.feeding = @ \cup {g}, !.watching = @ \cup {g}]

StartGeneration(w) ==
  /\ At(w, "start")
  /\ gen' = Started(worker[w].new)
  /\ worker' = [worker EXCEPT ![w].previous = table, ![w].pc = "publish"]
  /\ UNCHANGED <<outside, left, table, route>>

PublishGeneration(w) ==
  /\ At(w, "publish")
  /\ table' = worker[w].new
  /\ Goto(w, "snapshot")
  /\ UNCHANGED <<outside, left, route, gen>>

SnapshotTopology(w) ==
  /\ At(w, "snapshot")
  /\ worker' = [worker EXCEPT ![w].target = table, ![w].pc = "route"]
  /\ UNCHANGED <<outside, left, table, route, gen>>

RouteGeneration(w) ==
  /\ At(w, "route")
  /\ route' = worker[w].target
  /\ Goto(w, "commit")
  /\ UNCHANGED <<outside, left, table, gen>>

RoutingFails(w) ==
  /\ At(w, "route")
  /\ Spend("fault")
  /\ table' = worker[w].previous
  /\ gen' = Rollback(worker[w].new)
  /\ Finish(w)
  /\ UNCHANGED <<outside, route>>

\* mutant: the committed runtimes of the cluster are forgotten
CommittedAlone(g) == [gen EXCEPT !.committed = {g}, !.watching = @ \ gen.committed]
Committed(g) == [gen EXCEPT !.committed = @ \cup {g}, !.watching = @ \ gen.committed]

\* commitRefreshGenerationRuntime retires the revalidators of the committed.
CommitGeneration(w) ==
  /\ At(w, "commit")
  /\ gen' = Committed(worker[w].new)
  /\ Goto(w, "retire")
  /\ UNCHANGED <<outside, left, table, route>>

(***************************************************************************)
(* A selection command: the clients of the clusters it opens,              *)
(* then updateRefreshSubsystemSelections over every selected cluster       *)
(***************************************************************************)
SelectionCurrent == holder.sel = selGen

SyncClients ==
  /\ At("mutation", "sync")
  /\ IF SelectionCurrent THEN Goto("mutation", "plan") ELSE Finish("mutation")
  /\ UNCHANGED <<outside, left, table, route, gen>>

\* buildRefreshSelectionUpdate keeps the generation it finds, or builds one.
PlanSelection ==
  /\ At("mutation", "plan")
  /\ IF ~SelectionCurrent THEN Finish("mutation") /\ gen' = gen
     ELSE IF table = NoGen /\ auth = "valid"
     THEN /\ Free # {}
          /\ gen' = Built(NewGen)
          /\ worker' = [worker EXCEPT !["mutation"] =
                          [@ EXCEPT !.new = NewGen, !.target = NewGen, !.pc = "apply"]]
     ELSE /\ gen' = gen
          /\ worker' = [worker EXCEPT !["mutation"] =
                          [@ EXCEPT !.target = table, !.pc = "apply"]]
  /\ UNCHANGED <<outside, left, table, route>>

\* applyRefreshSelectionUpdate: start, route, replace the table, commit, stop
\* what the new table no longer holds.
ApplyRoutes ==
  /\ At("mutation", "apply")
  /\ gen' = IF worker["mutation"].new = NoGen THEN gen ELSE Started(worker["mutation"].new)
  /\ route' = worker["mutation"].target
  /\ Goto("mutation", "replace")
  /\ UNCHANGED <<outside, left, table>>

ApplyingFails ==
  /\ At("mutation", "apply")
  /\ Spend("fault")
  /\ gen' = Rollback(worker["mutation"].new)
  /\ Finish("mutation")
  /\ UNCHANGED <<outside, table, route>>

ReplaceTable ==
  LET m == worker["mutation"] IN
  /\ At("mutation", "replace")
  /\ table' = m.target
  /\ worker' = [worker EXCEPT !["mutation"] = [m EXCEPT
       !.previous = IF m.target = NoGen THEN table ELSE NoGen,
       !.next = "end",
       !.pc = IF m.new = NoGen THEN "retire" ELSE "commit"]]
  /\ UNCHANGED <<outside, left, route, gen>>

Next ==
  \/ \E next \in {"valid", "recovering", "invalid"} : AuthChanges(next)
  \/ TransportFails \/ KubeconfigChanges \/ EditScope \/ SwitchTab
  \/ \E supersedes \in BOOLEAN : ChangeSelection(supersedes)
  \/ \E g \in Gens : StartReplacement(g)
  \/ Drain \/ Consume
  \/ \E j \in jobs : SkipSuperseded(j) \/ StartSlotted(j) \/ StartUnslotted(j)
  \/ EnterSlot \/ EndMutation \/ EndReplacement
  \/ \E pc \in {"end", "done", "clients", "cool", "take"} : Reconcile(pc)
  \/ EndReconcile \/ CoolFeeds \/ InstallCooled \/ CoolingFails
  \/ CheckExpected \/ SyncClients \/ PlanSelection \/ ApplyRoutes \/ ApplyingFails
  \/ ReplaceTable
  \/ \E w \in Workers :
       \/ Take(w) \/ Unroute(w) \/ Drop(w) \/ Retire(w)
       \/ RebuildClients(w) \/ ClientsFail(w) \/ BuildSubsystem(w)
       \/ StartGeneration(w) \/ PublishGeneration(w) \/ SnapshotTopology(w)
       \/ RouteGeneration(w) \/ RoutingFails(w) \/ CommitGeneration(w)

Spec == Init /\ [][Next]_vars

\* The steps of a worker that are always open to it.
Step(w) ==
  \/ Take(w) \/ Unroute(w) \/ Drop(w) \/ Retire(w)
  \/ RebuildClients(w) \/ BuildSubsystem(w) \/ StartGeneration(w)
  \/ PublishGeneration(w) \/ SnapshotTopology(w) \/ RouteGeneration(w)
  \/ CommitGeneration(w)

\* Goroutines that can run do run, mutexes are handed on, and the consumer
\* takes what is pending; nothing is assumed of the outside or the governor.
Fairness ==
  /\ WF_vars(Drain) /\ WF_vars(Consume)
  /\ WF_vars(\E j \in jobs : SkipSuperseded(j) \/ StartSlotted(j) \/ StartUnslotted(j))
  /\ WF_vars(EnterSlot) /\ WF_vars(EndMutation) /\ WF_vars(EndReplacement)
  /\ WF_vars(CheckExpected \/ SyncClients \/ PlanSelection \/ ApplyRoutes \/ ReplaceTable)
  /\ \A w \in {"mutation", "revalidator"} : WF_vars(Step(w))

FairSpec == Spec /\ Fairness
-----------------------------------------------------------------------------
Job == [kind : Kinds \cup {"none", "scope", "select"}, id : Nat, sel : Nat,
        teardown : BOOLEAN]

\* Every variable has its type.
TypeOK ==
  /\ left \in [Events -> Nat]
  /\ auth \in {"valid", "recovering", "invalid"}
  /\ intents.last \in Nat /\ intents.latest \in [Kinds -> Nat]
  /\ intents.pending \cup intents.batch \cup jobs \cup {holder} \subseteq Job
  /\ rebuilding \in BOOLEAN /\ overlapped \in BOOLEAN
  /\ scope \in [version : Nat, queued : BOOLEAN] /\ selGen \in Nat
  /\ ops \in [begun : SUBSET Workers, cancelled : SUBSET Workers, held : SUBSET Workers]
  /\ \A w \in Workers :
       {worker[w].new, worker[w].previous, worker[w].target, worker[w].expected} \subseteq Refs
  /\ table \in Refs /\ route \in Refs
  /\ gen \in [feeding : SUBSET Gens, serving : SUBSET Gens, cooled : SUBSET Gens,
              committed : SUBSET Gens, watching : SUBSET Gens, scope : [Gens -> Nat]]
  /\ tier \in [visible : BOOLEAN, planned : {"live", "cold"}, applied : {"live", "cold"}]

AtRest == \A w \in Workers : ~Working(w)
Settled == AtRest /\ jobs = {} /\ holder = NoJob
             /\ intents.pending = {} /\ intents.batch = {}

\* The generation that the aggregate handlers route to still serves.
RouteServes == route # NoGen => route \in gen.serving

\* As long as work without the slot has met no other work, replacement is
\* invisible: what is routed serves.
ReplacementIsSeamless == ~overlapped => RouteServes

\* ... and leaves exactly one generation behind: nothing else feeds or serves,
\* the table and the routes agree, and a live generation, and only that one, is
\* watched by its revalidator.
OneGeneration ==
  ~overlapped /\ AtRest =>
    /\ gen.feeding \cup gen.serving \subseteq {table}
    /\ route = table
    /\ gen.watching = {g \in {table} : Live(g)}

\* Auth, transport, scope and permission work of a cluster never run together,
\* whatever else runs.
SlotExcludes ==
  ~(Working("mutation") /\ Slotted("mutation", holder) /\ Working("revalidator"))

\* A scope edit is never lost: once no rebuild for it is queued or under way,
\* the generation in the table was built from the persisted scope.
ScopeReachesTable ==
  /\ scope.queued => [NoJob EXCEPT !.kind = "scope"] \in jobs \cup {holder}
  /\ ~overlapped /\ table # NoGen /\ ~scope.queued /\ AtRest
       => gen.scope[table] = scope.version

\* Whatever overlaps, no manager runs that shutdown cannot reach: it is in the
\* table, among the committed runtimes, or in the hands of a worker.
FeedsAreReclaimable ==
  gen.feeding \subseteq {table} \cup gen.committed \cup {worker[w].new : w \in Workers}

\* A cluster that stays unauthenticated ends without a generation ...
AuthLossTearsDown ==
  <>[](auth # "valid" /\ ~overlapped) => <>[](table = NoGen /\ route = NoGen)

\* ... and one whose credentials come back is served again, unless the rebuild
\* failed or the governor keeps the cluster cold.
AuthRecoveryServes ==
  <>[](auth = "valid" /\ ~overlapped /\ left["fault"] = Budget["fault"]
         /\ left["tab"] = Budget["tab"])
    => <>[](route # NoGen)

\* cluster_runtime_transport_health.go: reaching the threshold triggers a
\* rebuild of that cluster.  So a trigger that was taken has its rebuild ahead.
\* No run checks it: the code does not keep it (README, section 3.2).
TriggerHasRebuild ==
  rebuilding => \E i \in intents.pending \cup intents.batch \cup jobs \cup {holder} :
                  i.kind = "transport"
=============================================================================
