---------------------------- MODULE ManualQueues ----------------------------
(***************************************************************************)
(* backend: manual refresh jobs of one cluster across the replacement of   *)
(* its refresh generation.                                                 *)
(*                                                                         *)
(* Every generation has an InMemoryQueue (refresh/manual_queue.go), which  *)
(* its refresh manager consumes (refresh/types.go).  The aggregate queue   *)
(* (refresh_aggregate_manual_queue.go) serves the API: it routes a job to  *)
(* the queue of the routed generation, registers where the job's child is, *)
(* and moves unfinished children whenever the routing is updated.  Nothing *)
(* serialises the updates: rebuilds, teardowns and selection updates, of   *)
(* this cluster or of another, overlap.                                    *)
(***************************************************************************)
EXTENDS Naturals, FiniteSets

CONSTANTS Jobs,      \* requests for a manual refresh
          MaxQueues, \* bound: generations of the cluster
          Capacity,  \* of the pending channel
          MaxUpdates \* bound: updates of the routing

ASSUME CapacityAssumption == Capacity \in Nat \ {0}
ASSUME QueuesAssumption == MaxQueues \in Nat \ {0}
ASSUME UpdatesAssumption == MaxUpdates \in Nat

VARIABLES table,    \* the cluster's entry in refreshSubsystems, or None
          current,  \* aggregateManualQueue.queues[cluster], or None
          started,  \* how many generations there have been
          manager,  \* of each generation: its refresh manager
          cooled,   \* generations whose producers cooling has stopped
          jobs,     \* child jobs: of each request, the copies made of it
          call,     \* the Enqueue call of each request
          child,    \* aggregateManualQueue.jobs: the copy that stands for it
          upd,      \* calls that update the routing
          updates,  \* how many of them have begun
          late,     \* history: requests registered after the scan that would move them
          overtaken \* history: an update worked from an outdated topology

generations == <<table, started, manager, cooled>>
routing == <<current, upd, updates, overtaken>>
requests == <<call, child, late>>
vars == <<generations, routing, requests, jobs>>

None == 0
Queues == 1 .. MaxQueues
Updates == 1 .. MaxUpdates
Original == MaxUpdates + 1     \* the copy that Enqueue makes; update u makes copy u
Copies == Updates \cup {Original}

NoJob == [at |-> "absent", queue |-> None]
NoUpdate == [at |-> "idle", selection |-> FALSE, own |-> None, previous |-> None,
             target |-> None, moves |-> [j \in Jobs |-> None], moving |-> {}]

Init ==
  /\ table = 1 /\ current = 1 /\ started = 1
  /\ manager = [q \in Queues |-> IF q = 1 THEN "starting" ELSE "absent"]
  /\ cooled = {}
  /\ jobs = [j \in Jobs |-> [c \in Copies |-> NoJob]]
  /\ call = [j \in Jobs |-> [at |-> "idle", queue |-> None]]
  /\ child = [j \in Jobs |-> None]
  /\ upd = [u \in Updates |-> NoUpdate] /\ updates = 0
  /\ late = {} /\ overtaken = FALSE

(***************************************************************************)
(* Enqueue: the aggregate's around InMemoryQueue's                         *)
(***************************************************************************)
\* snapshotConfig and resolveTarget; without a queue the call fails.
Route(j) ==
  /\ call[j].at = "idle"
  /\ call' = [call EXCEPT ![j] = IF current = None THEN [@ EXCEPT !.at = "failed"]
                                 ELSE [at |-> "routed", queue |-> current]]
  /\ UNCHANGED <<generations, routing, child, late, jobs>>

\* A child job is stored as queued, then waits for room in the channel.
Stored(q) == [at |-> "stored", queue |-> q]

InChannel(q, j, c) == jobs[j][c].at = "pending" /\ jobs[j][c].queue = q
HasRoom(q) == Cardinality({x \in Jobs \X Copies : InChannel(q, x[1], x[2])}) < Capacity

Store(j) ==
  /\ call[j].at = "routed"
  /\ call' = [call EXCEPT ![j].at = "stored"]
  /\ jobs' = [jobs EXCEPT ![j][Original] = Stored(call[j].queue)]
  /\ UNCHANGED <<generations, routing, child, late>>

Send(j) ==
  /\ call[j].at = "stored" /\ HasRoom(call[j].queue)
  /\ call' = [call EXCEPT ![j].at = "sent"]
  /\ jobs' = [jobs EXCEPT ![j][Original].at = "pending"]
  /\ UNCHANGED <<generations, routing, child, late>>

\* The request is over before there was room.
GiveUp(j) ==
  /\ call[j].at = "stored"
  /\ call' = [call EXCEPT ![j] = [at |-> "failed", queue |-> None]]
  /\ UNCHANGED <<generations, routing, child, late, jobs>>

WillScan == \E u \in Updates : upd[u].at = "scan" /\ upd[u].target = current

\* The aggregate job is registered with its child, wherever that now is.
Register(j) ==
  /\ call[j].at = "sent"
  /\ call' = [call EXCEPT ![j] = [at |-> "registered", queue |-> None]]
  /\ child' = [child EXCEPT ![j] = Original]
  /\ late' = IF call[j].queue = current \/ current = None \/ WillScan THEN late ELSE late \cup {j}
  /\ UNCHANGED <<generations, routing, jobs>>

(***************************************************************************)
(* A refresh manager                                                       *)
(***************************************************************************)
AfterRouting(q) == \A u \in Updates : upd[u].own # q \* mutant: started by the commit
MayConsume(q) == TRUE

\* Manager.Start consumes once the informer hub has started.
StartConsuming(q) ==
  /\ manager[q] = "starting" /\ MayConsume(q)
  /\ manager' = [manager EXCEPT ![q] = "consuming"]
  /\ UNCHANGED <<table, started, cooled, routing, requests, jobs>>

InHand(q, j, c) == jobs[j][c].at \in {"taken", "running"} /\ jobs[j][c].queue = q
IsFree(q) == \A j \in Jobs, c \in Copies : ~InHand(q, j, c)

\* InMemoryQueue.Next: of a cancelled context and a pending job select takes
\* either.
Next_(q, j, c) ==
  /\ manager[q] \in {"consuming", "stopped"} /\ IsFree(q)
  /\ InChannel(q, j, c)
  /\ jobs' = [jobs EXCEPT ![j][c].at = "taken"]
  /\ UNCHANGED <<generations, routing, requests>>

ReturnsCancelled(q) ==
  /\ manager[q] = "stopped" /\ IsFree(q)
  /\ manager' = [manager EXCEPT ![q] = "ended"]
  /\ UNCHANGED <<table, started, cooled, routing, requests, jobs>>

\* processManualJob: running, then an outcome.  Under a cancelled context nothing
\* is attempted and the job fails; what the outcome is makes no difference here.
Begin(j, c) ==
  /\ jobs[j][c].at = "taken"
  /\ jobs' = [jobs EXCEPT ![j][c].at = "running"]
  /\ UNCHANGED <<generations, routing, requests>>

Finish(j, c) ==
  /\ jobs[j][c].at = "running"
  /\ jobs' = [jobs EXCEPT ![j][c] = [at |-> "ended", queue |-> None]]
  /\ UNCHANGED <<generations, routing, requests>>

\* stopRefreshGenerationProducers: Manager.Shutdown cancels the consumer.
StopManagers(stopped) ==
  manager' = [q \in Queues |-> IF q \in stopped /\ manager[q] \in {"starting", "consuming"}
                               THEN "stopped" ELSE manager[q]]

\* coolClusterToMmapServing: the generation in the table (when it was looked up)
\* keeps its entry and its route, but its producers are stopped.
Cool(q) ==
  /\ q # None /\ (q = table \/ \E u \in Updates : upd[u].previous = q)
  /\ q \notin cooled
  /\ StopManagers({q})
  /\ cooled' = cooled \cup {q}
  /\ UNCHANGED <<table, started, routing, requests, jobs>>

(***************************************************************************)
(* Updates of the routing                                                  *)
(***************************************************************************)
Underway(u) == upd[u].at \notin {"idle", "done"}
PastSnapshot(u) == Underway(u) /\ upd[u].at \notin {"publish", "topology"}

\* An update that is under way works from another topology.
Overtakes(u, to) == \E v \in Updates \ {u} : PastSnapshot(v) /\ upd[v].target # to

\* The manager of a new generation is started before anything routes to it.
StartNew == started + 1 \in Queues /\ started' = started + 1
            /\ manager' = [manager EXCEPT ![started + 1] = "starting"]

Begins(u) == u = updates + 1 /\ updates' = u

\* activateSubsystem: the new generation is started, the table is read ...
Activate(u) ==
  /\ Begins(u) /\ StartNew
  /\ upd' = [upd EXCEPT ![u] = [@ EXCEPT !.at = "publish", !.own = started + 1, !.previous = table]]
  /\ UNCHANGED <<table, current, cooled, requests, jobs, overtaken>>

\* ... and written.
Publish(u) ==
  /\ upd[u].at = "publish"
  /\ table' = upd[u].own
  /\ upd' = [upd EXCEPT ![u].at = "topology"]
  /\ UNCHANGED <<started, manager, cooled, current, requests, jobs, updates, overtaken>>

\* teardownClusterSubsystem takes the entry.
Teardown(u) ==
  /\ Begins(u) /\ table # None
  /\ table' = None
  /\ upd' = [upd EXCEPT ![u] = [@ EXCEPT !.at = "topology", !.previous = table]]
  /\ UNCHANGED <<started, manager, cooled, current, requests, jobs, overtaken>>

\* Another cluster's entry was replaced or taken.
Elsewhere(u) ==
  /\ Begins(u)
  /\ upd' = [upd EXCEPT ![u].at = "topology"]
  /\ UNCHANGED <<generations, current, requests, jobs, overtaken>>

\* snapshotRefreshSubsystems, for which refreshAggregates are then updated.
Topology(u) ==
  /\ upd[u].at = "topology"
  /\ upd' = [upd EXCEPT ![u] = [@ EXCEPT !.at = "swap", !.target = table]]
  /\ overtaken' = (overtaken \/ Overtakes(u, table))
  /\ UNCHANGED <<generations, current, requests, jobs, updates>>

\* buildRefreshSelectionUpdate: the entry there is, or none, or a new generation
\* for a cluster without one.  The table follows the routing here.  The changes
\* of the selection are serialised (selectionMutationMu).
Plan(u, to) ==
  /\ Begins(u) /\ \A v \in Updates : Underway(v) => ~upd[v].selection
  /\ \/ to \in {None, table} /\ UNCHANGED <<started, manager>>
     \/ to = started + 1 /\ table = None /\ StartNew
  /\ upd' = [upd EXCEPT ![u] = [@ EXCEPT !.at = "swap", !.selection = TRUE,
                                         !.previous = table, !.target = to]]
  /\ overtaken' = (overtaken \/ Overtakes(u, to))
  /\ UNCHANGED <<table, current, cooled, requests, jobs>>

\* UpdateConfig stores the queues ...
Swap(u) ==
  /\ upd[u].at = "swap"
  /\ current' = upd[u].target
  /\ upd' = [upd EXCEPT ![u].at = "scan"]
  /\ UNCHANGED <<generations, requests, jobs, updates, overtaken>>

Active == {"stored", "pending", "taken", "running"}
Unfinished(j) == child[j] # None /\ jobs[j][child[j]].at \in Active
Home(j) == jobs[j][child[j]].queue

\* mutant: a job in hand is left to the manager that is about to stop
WaitsElsewhere(u, j) == Unfinished(j) /\ Home(j) # upd[u].target /\ jobs[j][child[j]].at # "running"
NeedsMigration(u, j) == Unfinished(j) /\ Home(j) # upd[u].target

\* ... and lists what is to be moved (unfinishedJobMigrations), with the child
\* that it has, under the lock of the jobs.
Scan(u) ==
  /\ upd[u].at = "scan"
  /\ upd' = [upd EXCEPT ![u] = [@ EXCEPT !.at = "move",
               !.moves = [j \in Jobs |-> IF upd[u].target # None /\ NeedsMigration(u, j)
                                         THEN child[j] ELSE None]]]
  /\ UNCHANGED <<generations, current, requests, jobs, updates, overtaken>>

\* moveUnfinishedJob: store, send without a deadline, rebind.
Move(u, j) ==
  /\ upd[u].at = "move" /\ upd[u].moves[j] # None
  /\ upd' = [upd EXCEPT ![u] = [@ EXCEPT !.at = "send", !.moving = {j}]]
  /\ jobs' = [jobs EXCEPT ![j][u] = Stored(upd[u].target)]
  /\ UNCHANGED <<generations, current, requests, updates, overtaken>>

SendMoved(u, j) ==
  /\ upd[u].at = "send" /\ j \in upd[u].moving /\ HasRoom(upd[u].target)
  /\ upd' = [upd EXCEPT ![u].at = "rebind"]
  /\ jobs' = [jobs EXCEPT ![j][u].at = "pending"]
  /\ UNCHANGED <<generations, current, requests, updates, overtaken>>

StaysBound(u, j) == FALSE \* mutant: the job keeps its old child
MayRebind(u, j) == child[j] = upd[u].moves[j]

\* The copy takes over, unless another update has rebound the job since.
Rebind(u, j) ==
  /\ upd[u].at = "rebind" /\ j \in upd[u].moving
  /\ upd' = [upd EXCEPT ![u] = [@ EXCEPT !.at = "move", !.moves[j] = None, !.moving = {}]]
  /\ IF MayRebind(u, j)
     THEN child' = [child EXCEPT ![j] = u] /\ late' = late \ {j}
     ELSE UNCHANGED <<child, late>>
  /\ UNCHANGED <<generations, current, call, jobs, updates, overtaken>>

Moved(u) == upd[u].at = "move" /\ \A j \in Jobs : upd[u].moves[j] = None

\* stopRefreshGeneration of what the activation or the teardown has replaced.
StopPrevious(u) ==
  /\ Moved(u) /\ ~upd[u].selection
  /\ upd' = [upd EXCEPT ![u] = [NoUpdate EXCEPT !.at = "done"]]
  /\ StopManagers({upd[u].previous})
  /\ UNCHANGED <<table, started, cooled, current, requests, jobs, updates, overtaken>>

\* applyRefreshSelectionUpdate: the planned table replaces whatever is there, and
\* an entry without a successor is stopped.
Replace(u) ==
  /\ Moved(u) /\ upd[u].selection
  /\ upd' = [upd EXCEPT ![u] = [NoUpdate EXCEPT !.at = "done"]]
  /\ table' = upd[u].target
  /\ StopManagers(IF upd[u].target = None THEN {table} ELSE {})
  /\ overtaken' = (overtaken \/ table # upd[u].previous)
  /\ UNCHANGED <<started, cooled, current, requests, jobs, updates>>

UpdateStep(u) ==
  \/ Publish(u) \/ Topology(u) \/ Swap(u) \/ Scan(u) \/ StopPrevious(u) \/ Replace(u)
  \/ \E j \in Jobs : Move(u, j) \/ SendMoved(u, j) \/ Rebind(u, j)

Next ==
  \/ \E j \in Jobs : Route(j) \/ Store(j) \/ Send(j) \/ GiveUp(j) \/ Register(j)
  \/ \E q \in Queues :
       \/ StartConsuming(q) \/ ReturnsCancelled(q) \/ Cool(q)
       \/ \E j \in Jobs, c \in Copies : Next_(q, j, c)
  \/ \E j \in Jobs, c \in Copies : Begin(j, c) \/ Finish(j, c)
  \/ \E u \in Updates :
       \/ UpdateStep(u) \/ Activate(u) \/ Teardown(u) \/ Elsewhere(u)
       \/ \E to \in Queues \cup {None} : Plan(u, to)

Spec == Init /\ [][Next]_vars

\* Goroutines run, hubs start, attempts end (RefreshRequestTimeout); nobody has
\* to make a request, to give up, to cool or to replace a generation.
Fairness ==
  /\ \A j \in Jobs : WF_vars(Store(j) \/ Send(j) \/ Register(j))
  /\ \A q \in Queues : WF_vars(StartConsuming(q) \/ \E j \in Jobs, c \in Copies : Next_(q, j, c))
  /\ \A j \in Jobs, c \in Copies : WF_vars(Begin(j, c) \/ Finish(j, c))
  /\ \A u \in Updates : WF_vars(UpdateStep(u))

FairSpec == Spec /\ Fairness
-----------------------------------------------------------------------------
\* Every variable has its type.
TypeOK ==
  /\ table \in Queues \cup {None} /\ current \in Queues \cup {None}
  /\ started \in Queues /\ updates \in 0 .. MaxUpdates
  /\ manager \in [Queues -> {"absent", "starting", "consuming", "stopped", "ended"}]
  /\ cooled \subseteq Queues
  /\ jobs \in [Jobs -> [Copies -> [at : Active \cup {"absent", "ended"},
                                   queue : Queues \cup {None}]]]
  /\ call \in [Jobs -> [at : {"idle", "routed", "stored", "sent", "registered", "failed"},
                        queue : Queues \cup {None}]]
  /\ child \in [Jobs -> Copies \cup {None}]
  /\ upd \in [Updates ->
                [at : {"idle", "publish", "topology", "swap", "scan", "move", "send", "rebind", "done"},
                 selection : BOOLEAN, own : Queues \cup {None}, previous : Queues \cup {None},
                 target : Queues \cup {None}, moves : [Jobs -> Copies \cup {None}],
                 moving : SUBSET Jobs]]
  /\ late \subseteq Jobs /\ overtaken \in BOOLEAN

Quiet == \A u \in Updates : ~Underway(u)
Consumed(q) == manager[q] \in {"starting", "consuming"}
Served(j) == Home(j) = current /\ (Consumed(current) \/ current \in cooled)

\* refresh_aggregate_manual_queue.go: "an unfinished child must be re-enqueued on
\* the replacement manager instead of remaining queued forever".  So between
\* updates every unfinished job is with a manager that consumes or that cooling
\* has stopped.  Not kept for a job registered after the scan, nor once an update
\* has worked from an outdated topology.
UnfinishedIsServed ==
  Quiet /\ ~overtaken /\ current # None =>
    \A j \in Jobs \ late : Unfinished(j) => Served(j)

Ended(j) == child[j] # None /\ ~Unfinished(j)

\* Once the cluster keeps a generation that is not cooled, every registered job
\* ends (with the two exceptions above).
JobsEnd ==
  \A j \in Jobs :
    <>[](current # None /\ current \notin cooled /\ ~overtaken)
      => [](child[j] # None /\ j \notin late => <>Ended(j))

\* moveUnfinishedJob sends with context.Background(): the update waits for ever
\* for room in a channel whose consumer was stopped.
Stuck(u) ==
  /\ upd[u].at = "send" /\ ~HasRoom(upd[u].target) /\ ~Consumed(upd[u].target)
  /\ overtaken \/ upd[u].target \in cooled

\* Every other update returns: a manager consumes before it is routed.
UpdatesReturn == \A u \in Updates : Underway(u) ~> (upd[u].at = "done" \/ []Stuck(u))

-----------------------------------------------------------------------------
(* What the comments in refresh_aggregate_manual_queue.go say without the  *)
(* exceptions; the code keeps neither.                                     *)

\* Lines 211-213, quoted above: without the exception for late registrations.
LateIsServed ==
  Quiet /\ ~overtaken /\ current # None => \A j \in Jobs : Unfinished(j) => Served(j)

\* The same, for updates that overlap.
OvertakenIsServed ==
  Quiet /\ current # None => \A j \in Jobs \ late : Unfinished(j) => Served(j)

\* "A terminal child remains there": a job that has ended is not run again.
TerminalRemains == [][\A j \in Jobs : Ended(j) => child'[j] = child[j]]_vars
=============================================================================
