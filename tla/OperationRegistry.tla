------------------------- MODULE OperationRegistry -------------------------
(* The registry of live operations of one cluster: the operation epoch,     *)
(* StopCluster and Shutdown of backend/operations_coordinator.go and        *)
(* backend/runtime_operations.go.  What an operation is and how it is       *)
(* cleaned up is LiveOperations' concern.                                   *)
(*                                                                          *)
(* A step is a critical section: registration and removal both hold         *)
(* operationEpochsMu over the registry's own lock.                          *)
EXTENDS Naturals, FiniteSets

CONSTANTS
  Ops,          \* operations that may be started, by their identity
  MaxOpenings   \* bound: how often the cluster is opened, or closed once more

ASSUME OpeningsAssumption == MaxOpenings \in Nat

VARIABLES
  cluster,   \* its clients, operation epoch, and the coordinator's shuttingDown
  registry,  \* operations in the runtime registry
  stop       \* the calls of stopCluster that may run at once

registryVars == <<cluster, registry, stop>>

(* A closing mutation, CloseCluster of a cluster that is not selected (which *)
(* takes no mutation lock), and the shutdown of the application.            *)
Stoppers == {"close", "stray", "quit"}

RegistryTypeOK ==
  /\ cluster \in [open : BOOLEAN, opening : 0..MaxOpenings, strays : 0..MaxOpenings,
                  epoch : Nat, shuttingDown : BOOLEAN]
  /\ registry \subseteq Ops
  /\ stop \in [Stoppers -> [pc : {"idle", "ending", "list", "stop", "cleanup", "done"},
                            taken : SUBSET Ops]]

RegistryInitAfter(strays) ==
  /\ cluster = [open |-> FALSE, opening |-> 0, strays |-> strays, epoch |-> 0,
                shuttingDown |-> FALSE]
  /\ registry = {}
  /\ stop = [w \in Stoppers |-> [pc |-> "idle", taken |-> {}]]

RegistryInit == RegistryInitAfter(0)

MoreOpenings == cluster.opening + cluster.strays < MaxOpenings
StopGoes(w, pc) == stop' = [stop EXCEPT ![w].pc = pc]

AdmittedAnyEpoch(epoch) == ~cluster.shuttingDown  (* mutant *)

AdmittedInShutdown(epoch) == cluster.epoch = epoch  (* mutant *)

(* registerRuntimeOperationAtEpoch's condition. *)
Admitted(epoch) == ~cluster.shuttingDown /\ cluster.epoch = epoch

(* The clients of a newly selected cluster are installed.  Selection         *)
(* mutations exclude each other, so the stop of the closing one has ended.   *)
OpenCluster ==
  /\ ~cluster.open /\ stop["close"].pc = "idle"
  /\ MoreOpenings
  /\ cluster' = [cluster EXCEPT !.open = TRUE, !.opening = @ + 1]
  /\ UNCHANGED <<registry, stop>>

(* The clients are removed before StopCluster is called. *)
CloseCluster ==
  /\ cluster.open
  /\ cluster' = [cluster EXCEPT !.open = FALSE]
  /\ StopGoes("close", "stop")
  /\ UNCHANGED registry

CloseUnselected ==
  /\ ~cluster.open /\ stop["stray"].pc = "idle"
  /\ MoreOpenings
  /\ cluster' = [cluster EXCEPT !.strays = @ + 1]
  /\ StopGoes("stray", "stop")
  /\ UNCHANGED registry

(* The application context is cancelled before ServiceShutdown runs. *)
Quit ==
  /\ stop["quit"].pc = "idle"
  /\ StopGoes("quit", "ending")
  /\ UNCHANGED <<cluster, registry>>

CloseRegistration ==
  /\ stop["quit"].pc = "ending"
  /\ cluster' = [cluster EXCEPT !.shuttingDown = TRUE]
  /\ StopGoes("quit", "list")
  /\ UNCHANGED registry

(* Shutdown stops the clusters that are in the registry when it looks. *)
ListClusters ==
  /\ stop["quit"].pc = "list"
  /\ StopGoes("quit", IF registry = {} THEN "done" ELSE "stop")
  /\ UNCHANGED <<cluster, registry>>

(* removeClusterRuntimeOperations. *)
TakeOperations(w) ==
  /\ stop[w].pc = "stop"
  /\ cluster' = [cluster EXCEPT !.epoch = @ + 1]
  /\ registry' = {}
  /\ stop' = [stop EXCEPT ![w].pc = "cleanup", ![w].taken = registry]

StopReturns(w) ==
  /\ stop[w].pc = "cleanup" /\ stop[w].taken = {}
  /\ StopGoes(w, IF w = "quit" THEN "done" ELSE "idle")
  /\ UNCHANGED <<cluster, registry>>

(* Operations that a stopCluster has taken out and not yet cleaned up. *)
Taken == UNION {stop[w].taken : w \in Stoppers}
Stopping == \E w \in Stoppers : stop[w].pc \in {"stop", "cleanup"}
=============================================================================
