# Luxury Yacht: specifications and proofs

Luxury Yacht is a desktop client for Kubernetes: a Go backend (`src/backend`,
`src/internal`) behind Wails and a TypeScript/React frontend (`src/frontend`).
This directory holds TLA+ modules for the parts of it in which ordering,
concurrency and failure decide whether the user sees the truth, the TLC
configurations that check them on small instances, and proofs, checked by TLAPS,
that hold for every value of the constants.

Paths below are relative to the repository's `src/`. `PROJECT.json` maps every
definition to the lines it models and lists components, runs, hazards and theorems.

## 1. The system

### 1.1 Inventory

The backend keeps one set of machinery per connected cluster, and a handful of
services above them. The frontend reads through one HTTP/WebSocket transport.

| Component (code) | State it keeps | Operations | What must hold |
|---|---|---|---|
| **Auth manager and transport** `backend/internal/authstate` | state valid/recovering/invalid, failure diagnostic, countdown, one cancellable recovery goroutine | report success/failure, retry, shutdown; probe with backoff; RoundTrip classifies answers | recovery has one owner and never stops short of valid; a verdict rests on its own evidence; shutdown is final |
| **Ring buffer** `backend/refresh/ringbuffer` | slots, start, count | Add, Since(token) | a token is answered without a gap, or refused |
| **Resource stream manager** `backend/refresh/resourcestream` | subscribers per scope with bounded channels, numbering and resume buffer per scope | subscribe, cancel, broadcast, resume, stop | no change is lost without a RESET |
| **Stream multiplexer and router** `backend/refresh/streammux`, `backend/refresh_aggregate_resourcestream.go` | sessions, their subscriptions, outgoing queues; the manager of each cluster | REQUEST, ACK, forward, backpressure, invalidate, shutdown, replace | a subscription reported healthy is served; no subscriber is left without a reader |
| **Stream client** `frontend/src/core/refresh/streaming` | phase, last sequence, pending changes, cooldown of one subscription; the socket | frame received, connection opened/lost, resync, flush | healthy means fresh, for polling is off then |
| **Orchestrator** `frontend/src/core/refresh/orchestrator.ts` | a fetch slot per scope, streaming health, retained data | signal, fetch, apply, poll | a signal during a fetch is not lost |
| **Snapshot service** `backend/refresh/snapshot/service*.go` | cache, invalidation counts, shared builds, in-flight contexts, retired flag | Build, invalidate, cancel in-flight, retire | no call gets data older than what was announced when it was made |
| **Cluster runtime** `backend/cluster_runtime_*.go`, `cluster_lifecycle.go` | lifecycle state and slow-loading timer per cluster, pending intents by generation | auth callbacks, transport failures, lifecycle transitions, publish/consume intents | the last auth verdict decides whether the cluster is torn down or rebuilt |
| **Namespace readiness** `backend/refresh/snapshot/namespace_notifier.go`, `namespace_tracker.go`, `refresh_aggregate_snapshot.go` | readiness of the workload sources; a debounce timer, flushes and the last readiness rung | hear a change, flush, ring, self-build, stop | the cluster ends as ready once its sources are; a stopped notifier is silent |
| **Selection coordinator** `backend/kubeconfig_selection_coordinator.go`, `workspace_*.go` | mutation lock, generation, cancellable context, pending count | run mutation (superseding or ordered), drain | a superseded mutation commits nothing; the last selection wins |
| **Refresh generations** `backend/refresh_generation.go`, `refresh_coordinator.go` | the current generation per cluster | start, commit, roll back, stop | published parts belong to one generation |
| **Manual queues** `backend/refresh/manual_queue.go`, `refresh_aggregate_manual_queue.go`, `refresh/types.go` | jobs and pending channel of each generation, child job per request | enqueue, run, status, migrate | every accepted job ends, on a queue that is served |
| **Event stream** `backend/refresh/eventstream` | subscribers, ring buffers per scope | subscribe with resume, broadcast | as the resource stream, by disconnection; nothing in the application subscribes to it |
| **Governor** `backend/refresh_governor.go` | visible and recently used clusters, cool/warm state | select, cool, re-warm | the visible cluster is warm; the budget holds |
| **Metrics on demand** `backend/refresh/metrics`, `refresh_aggregate_metrics.go`, `frontend/src/core/refresh/metricsDemandState.ts` | the window's demand and its POST, the demanded set, idle timer, poller runs by token | lease, post, apply, touch, start/stop, replace | it polls while leased and stops when not; one run at a time |
| **Frontend refresh manager** `frontend/src/core/refresh/RefreshManager.ts` | a timer, cooldown and error count per refresher | start, trigger, abort, resume | one run of a refresher at a time |
| **Ingest, informers, object catalog** `backend/refresh/ingest`, `informer`, `objectcatalog` | projected stores, readiness, watch batches | list, watch, sync | the stores follow the API server |
| **Live operations** `backend/operations_coordinator.go`, `runtime_operations.go`, `portforward*.go`, `shell_sessions*.go`, `nodemaintenance`, the drain action of `resource_gateway_node_actions.go` | operation epoch and registry per cluster, sessions, readiness and attempts of a forward, drain jobs and their cancel handles | start, register, reconnect, stop, drain, StopCluster, Shutdown | what runs is registered, ends with its cluster, and is not revived |
| **Container log streams** `backend/refresh/containerlogsstream` | a budget of log targets per scope and globally | open, reconnect, limit | the budget holds |
| **Windows and tabs** `internal/appwindow`, `internal/panelwindow` | window registry, reservations, transfers | open, transfer, close | a tab is in exactly one window |
| **Updates, settings, permissions, actions, builders, UI** | files, caches with a TTL, none | — | pure I/O, pure projections or presentation |

### 1.2 How they interact

    informer goroutines ──broadcast──▶ resource stream manager ──channel──▶ forwarder ──queue──▶ socket
           │                                 │ invalidates                                       │
           ▼                                 ▼                                                   ▼
    stores ◀──reads── builders ◀── snapshot service ◀──── fetch ──── orchestrator ◀──signal── stream client
           ▲
    auth-aware transport ──reports──▶ auth manager ──intent──▶ workspace ──▶ teardown / rebuild of the cluster

A stream message is a *doorbell*: it carries a number, not the rows. The client writes the number down,
and the reader of the snapshot fetches when it has changed. While the stream reports healthy the orchestrator skips
its polls. So the data shown are fresh only if (a) no doorbell is lost without
the client being told to start over, (b) a fetch made after a doorbell does not
get older data, and (c) the client's notion of healthy is honest. (a) and (c) are
the stream modules, (b) is the snapshot service.

### 1.3 What is hard here

* Goroutines and callbacks that read state, let go of a lock and act: a cancelled
  recovery goroutine, a broadcast that holds a subscriber, a build that ends
  after an invalidation, a caller that looked at `retired`.
* Identity over time: a scope's numbering restarts, a cluster's manager is
  replaced, a goroutine or a build has a successor, a cancel handle outlives
  what it cancels.
* Bounded channels: 256 messages per subscriber, 512 per session, 1000 to resume.
* Loss and delay: the socket breaks with frames both ways; answers come late.
* Cooldowns that swallow a request somebody needed, and numbers that repeat, so that a change goes unheard.
* Updates of the routing that nothing serialises, each from a snapshot of the table.

`hazards` in `PROJECT.json` lists each at its line, with the properties that
would catch it, or the reason why none does yet.

## 2. The modules

| Module | What it is |
|---|---|
| `AuthState`, `MCAuthState`, `AuthStateProofs` | auth manager, its recovery goroutines, the transport |
| `BoundedLog` / `RingBuffer`, `MCRingBuffer` | abstract log that keeps the newest items / the ring that implements it; proofs in `StreamHubProofs` |
| `RingSince` | the loop of `Since`, for the ring and for the resume buffer of a scope |
| `StreamHub` | operations of the resource stream managers (no specification of its own) |
| `StreamHubSpec`, `MCStreamHub`, `StreamHubProofs` | the manager alone under arbitrary readers |
| `StreamMux` | sessions, router and replacement of a manager, over `StreamHub` |
| `StreamProtocol` | the client's reducer and fetch slot, as functions of a record |
| `ResourceStream`, `MCResourceStream`, `StreamHubProofs` | `StreamMux` and `StreamProtocol` composed: the stream end to end |
| `SnapshotReads` / `SnapshotService`, `MCSnapshotService`, `SnapshotServiceProofs` | freshness contract of a read / the service that implements it |
| `ClusterRuntime`, `MCClusterRuntime`, `ClusterRuntimeProofs` | one cluster's generation: who asks for it, who replaces it, who takes it away |
| `ClusterReadiness`, `MCClusterReadiness`, `ClusterReadinessProofs` | a cluster's lifecycle state: how it comes to be shown as ready |
| `ManualQueues`, `MCManualQueues`, `ManualQueuesProofs` | manual refresh jobs over the replacement of a generation |
| `MetricsDemand`, `MCMetricsDemand`, `RefreshProofs` | metrics demand from a window's lease to the poller of the routed generation |
| `RefreshManager`, `MCRefreshManager`, `RefreshProofs` | the frontend's scheduler of one refresher |
| `OperationRegistry` / `LiveOperations`, `MCLiveOperations`, `LiveOperationsProofs` | epoch, registry and stops of a cluster / forwards, shells and drains under it |

Operators marked `mutant`, or described as a wrong variant, are used by no
specification: each is a plausible bug, and substituting it for the definition it
varies makes TLC report the property named beside it in `PROJECT.json`.

### 2.1 AuthState

`state`, `diag`, `secondsUntilRetry`, `lastProbeClass`, `stopped`,
`recoveryCancel` are the fields of `Manager`; `loop[l]` the locals of
`runRecovery` in goroutine `l`; `req[r]` a request on its way through
`AuthAwareTransport.RoundTrip`; `accepted` and `reachable` the world.

A step is a critical section of `Manager.mu`, a read of a goroutine's context, or
an event outside. What lies between two such points touches only a goroutine's
locals, so it is part of the step before. `runRecovery`'s program points follow the
code in order: wait (`EnterWait`, `emitProgress`, `Sleep`), probe (`StartProbe`,
`testRecovery`), then `ProbeSucceeded`, or `recordRecoveryProbeClass` and
`settleInvalidCredentials`. `emitProgress` and `recordRecoveryProbeClass` do not
look at the context, as in the code (section 3.2). A select with both channels ready may take either. A request may be
answered long before `RoundTrip` handles the answer, and its caller
(`Reporters`: heartbeat, preflight) may report the same failure again.

Time is counted in progress intervals. A context is a flag of the goroutine that
owns it, so calling the handle of a goroutine that has returned changes nothing.

### 2.2 BoundedLog and RingBuffer

`RingBuffer` has the code's `max`, `items`, `start`, `count`. `Since(token)` is the
pair `SinceOK`, `SinceItems`, whose loop is the recursive function `Newer` of `RingSince`. Capacity zero is a legal ring that keeps nothing.
`added` is history. `BoundedLog` keeps the newest `max` numbers as a sequence; the
ring read from `start` is that sequence (`RefinesLog`). What it answers a token is stated without a
loop: everything behind the first `Seen` items.

### 2.3 StreamHub and StreamHubSpec

`hub` holds the maps of every manager: `seq` and `buf` (numbering and resume buffer
of the scope), `stopped`, and for each subscription its state, channel and
`resyncing` flag. One `(domain, scope)` key is modelled: the code's critical
sections touch one key at a time. `worker[w]` is an informer goroutine inside
`broadcast`: the change is in the stores (`world`), then `prepareBroadcast` numbers,
buffers and collects the subscribers under the lock, then each subscriber is
checked (`CheckResyncing`) and sent to (`Send`) without it. A full channel makes
`triggerResync` evict its oldest message, put RESET in and mark the subscriber;
`DropGoroutine` is the goroutine that then drops it. A message's content is its
number; in a channel `Reset` is 0.

The two steps of a send are separate in `StreamHubSpec` and one step in
`ResourceStream` (`CheckedSend`), which has one worker, so that only the reader runs
in between; what the separation adds is checked by `stream_hub`.

Selectors and the resume buffer's ring are abstracted: the buffer is the sequence
`BoundedLog` speaks of, and `resumeUpdates` runs the loop of `Since` over it. `life` is history: it tells two numberings apart which the
code cannot.

### 2.4 StreamMux

`sess[x]` is one connection: `cur` (the stored subscription of the scope), `adding`
(opened by `SubscribeSelector` but not stored yet), the requests not read (`inbox`)
and the frames not received (`out`). `HandleSubscribe` opens, `StoreRefused` and
`AcknowledgeSubscribe` are the two ends of `storeSubscription`; the latter
acknowledges, resumes or resets, replays and starts the forwarder.
`ForwardUpdate` takes from the subscription's channel and delivers if the
subscription is still the stored one. `enqueue` on a full queue shuts the session
down (`handleBackpressure`). `setTopology` publishes a replacement manager;
`invalidateClusterSubscriptions` then goes through the sessions one by one, and
`StopReplaced` stops the old manager last, as `refresh_generation.go` does.

The outgoing channel and the socket are one queue, and a lost connection loses a
suffix of it: the client may have received any prefix before.

### 2.5 StreamProtocol and ResourceStream

Each case of the reducer in `resourceStreamProtocol.ts` is a function of the record
`client`: phase, whether a RESET is expected, whether data were preserved, the
last sequence, pending changes, the cooldown. Its effects are performed by the
manager in the same event, so an action of `ResourceStream` is one JavaScript event:
`handleMessage`, `handleConnectionError`, `handleOpen`, `refreshOnce` (manual
refresh), `FlushFired`, `CooldownEnds`, `FallbackPoll`. The fetch slot of the
orchestrator is `client.fetch` with its latched trailing request; reading the stores
(`SnapshotRead`) and applying the answer (`SnapshotApplied`) are separate steps with
anything in between. Data are the version of the stores they were read from.

What makes the reader fetch is the *value* of the doorbell's clock. `bumpSourceVersionOnly` (`AdvanceSource`) only
writes `clock`; `useStreamSignalRefetch` (`SignalRefetch`) looks at it after every event (`Rendered`), and fetches
if it is not `key`, the value it last fetched for. A change's version is its sequence number; a RESET or COMPLETE
has none of its own, and its session gives it the next of a counter that starts at one (`signals`). The model
counts when the frame is received: a session's frames are received in the order of its queue, and one that
did not fit ends the session.

`client.refused`, `client.raced` and `client.muted` are history: a resync the cooldown has
refused; an initial RESET that met a fetch answered but not applied; a doorbell that repeated the reader's version, with
no snapshot read since.

### 2.6 SnapshotReads and SnapshotService

`SnapshotReads` is the contract: a read answered with a snapshot shows a version
that was in the stores, not older than the last announcement when it was asked.

`SnapshotService` has the code's `cache`, `invalidations`, `flights`, `retired`. A
call of `Build` (`req[r]`) goes from `Arrive` through `Register`, `Plan`, `LoadCache`,
`JoinOther` or `JoinNew` to `Receive` or `Abandon`; a build's goroutine (`flight[f]`)
from `EnterBuild` through `LoadBuildCache`, `ReadStores` or `BuildFails`, `StoreCache`
to `Complete`. The group key of a shared build is the cache key, the bypass mark
and the invalidation count of the plan. Cancellation is modelled at each of its
ends: a caller's context, the last waiter leaving, `CancelInFlight` (cooling a
cluster) and `Retire`, whose three steps are flag, cancellation and drain. A
flight's identity is used again only when nothing refers to it.

### 2.7 ClusterRuntime

One cluster that stays open, and the generations it has had. `table` is its entry
of `refreshSubsystems`, `route` what the aggregate handlers serve, `gen` which
generations have running producers (`feeding`), serve, are cooled, have a committed
runtime, or are watched by their permission revalidator. `intents` is the queue with
its generation counter and the latest accepted intent of each kind; `jobs` are the
goroutines waiting for `selectionMutationMu`, `holder` the one that has it; `ops` is
the cluster's operation slot.

Three workers run the work: the mutation that holds the lock, the revalidator and the
governor. Their program points are those of `clusterSubsystemRebuild.run`:
`RebuildClients`, `BuildSubsystem`, `StartGeneration`, `PublishGeneration`,
`SnapshotTopology`, `RouteGeneration` (or `RoutingFails`, with its rollback),
`CommitGeneration`, `Retire`; of a teardown: `Take`, `Unroute`, `Drop`, `Retire`; of a
selection update: `SyncClients`, `PlanSelection`, `ApplyRoutes`, `ReplaceTable`; of
cooling: `CoolFeeds`, `InstallCooled`. Auth, transport, scope and permission work
takes the slot; a changed kubeconfig, a selection command and the governor do not,
and `overlapped` (history) notes that such work met other work.

### 2.8 ClusterReadiness

One cluster again, at the other end: not which generation serves it, but what the user is told.
`life` is the entry of `clusterLifecycle`; `SetState` refuses what the code refuses. `source[g]` is what
`NamespaceWorkloadTracker.Readiness` would answer for generation `g`, `note[g]` its
`NamespaceChangeNotifier`: the dirty flag, the readiness last rung, the timer, the stop flag and the flushes under
way, each at `ReadReadiness`, `Compare`, `CheckStopped` or `Ring`. A ring starts a goroutine, and so does the
publication of a generation (`StartReadiness`); with the frontend's fetches they are `builds`, counted by where they
stand: before the look at the state (`CheckState`), before the answer of the routed generation (`Answers`), between
the answer and the look (`ReadState`), and between that and the write (`WriteState`). The cache is in
`Answers`: it may show any readiness since the last ring. The publisher `pub` is the part of a rebuild that
`ClusterRuntime` has in full: start, route, commit, stop of the previous generation, teardown. `failed` is history.

### 2.9 ManualQueues

Generations are numbered. Generation `q` has an `InMemoryQueue` and a refresh manager that consumes it
(`manager[q]`: starting, consuming, stopped, ended); `cooled` are those whose producers cooling has stopped although they
stay in the table and routed. `table` is the cluster's entry in `refreshSubsystems`, `current` its queue in the aggregate.

`jobs[j][c]` is one job of an `InMemoryQueue`: the `Original` that the call of `Enqueue` makes of request `j`, or the copy that
update `u` makes when it moves the request; a queue's channel is the set of its `pending` jobs. `child[j]` is the copy that
stands for the request in the aggregate. The aggregate's `Enqueue` is `Route`, `Store`, `Send`, `Register`, with the request's
end (`GiveUp`) at the channel; a consumer's turn is `Next_`, `Begin`, `Finish`, and it may take one more job after it was stopped.

An update `upd[u]` of the routing is one call of `refreshAggregates.Update` with what its caller does around it. Any number of them
may be under way at once, as in the code:

* a rebuild of this cluster starts a generation and looks up the table (`Activate`), writes it (`Publish`), takes a
  snapshot (`Topology`), has it routed, and stops what it replaced (`StopPrevious`); a teardown takes the entry (`Teardown`) and goes on in
  the same way; a rebuild of another cluster only has its snapshot routed (`Elsewhere`);
* a change of the selection plans a table (`Plan`), has it routed, and only then writes it and stops what has no successor (`Replace`).

`UpdateConfig` is `Swap`, `Scan`, then for each job in the list `Move`, `SendMoved` and `Rebind`, which does nothing if the job
has been bound to another child since it was listed. `Cool` stops a manager at any time, of the generation the table
had when cooling looked. Two histories: `late` are requests registered after the scan that would have moved them, and
`overtaken` says that an update has worked from a table which another has replaced.

### 2.10 MetricsDemand

The chain from a window to a poller, for one cluster, so that a set of clusters is a
flag. `want` and `demand` are the orchestrator's lease and `metricsDemandState`, `post`
its request on the way (admitted by the controller it resolved, `post.by`). `ctl` has
the controllers, one per set-up of the refresh runtime, each with the set it was last
given and its routes. `poller[g]` is a `DemandPoller`: the functions of `demand.go`
(`startLocked`, `stopLocked`, `SetActive`, `touch`, `Stop`) are functions of its record,
and its poll goroutines are `runs`, identified by token; a new one may start before
the last has noticed its cancellation. The idle timer's callback is two steps: it has read its
clock, then it has the lock. `mgr[g]` and `ctx[g]` are
`refresh.Manager`'s Start, a goroutine, and Shutdown.

Other windows are the sets they post (`OtherWindowPosts`); `mine` (history) says that
the current controller holds a set of the modelled window.

### 2.11 RefreshManager

`RefreshManager.ts` for one name: instances of the refresher (registering it again makes a
new one while calls and timers of the old are about), armed intervals and cooldowns,
calls of `refreshSingle`. What lies between two awaits is one step, and continuations
run before timers and events, as JavaScript does: `Proceed` is the part of a call after
it has waited for the run it superseded, `Settle` the end of the callback with all that
follows synchronously. Identities of timers and calls are used again; a step that may start
one has a free one (`Room`). `lost` and `overlapped` (history) are explained in section 3.2.

### 2.12 OperationRegistry and LiveOperations

`OperationRegistry` has the cluster's clients and operation epoch, the registry, and
the callers of `stopCluster` that may run at once: a closing mutation, `CloseCluster` of an
unselected cluster, and `Shutdown`. A stop draws the epoch and takes the operations
out in one step (`TakeOperations`), and calls their cleanups one by one.

`LiveOperations` has what an operation is. A session's start is `ReadEpoch`,
`ResolveSession`, `Insert`, `Register`; a forward's goroutine is `runPortForwarder` (`Dial`, the
link's fate, `PrepareReconnect`, `WaitEnds`, `FinishTerminal`), with `LookUp` and
`Activate` the two parts of `markActive`; its start call waits in `awaitStart`. A
drain's start is `ResolveDrain`, `ReadDrainEpoch`, `StartDrain`, `RunDrain`,
`RegisterDrain`, `CheckFinished`, beside its goroutine. Whoever removes a session from its
map closes it (`Drop`), and unregisters it in a later step (`leaving`).

## 3. The runs

Every run ends within minutes. Deadlock is checked for `snapshot_service`. The other
instances stop because a budget of outside events is spent, which is the bound and not
the system; where that could hide a system that is stuck, the run has a liveness property.

| Run | Instance | Shows |
|---|---|---|
| `auth_state` | 2 goroutines alive at once, 1 reporting request, 1 manual retry, 2 attempts, backoff 0 then 1 | recovery never gives up, has one owner, settles only after its burst; accepted credentials become valid, rejected ones settle |
| `ring_buffer` | capacities 0, 1, 3; every increasing numbering out of 1..9, three times around | `Since` skips nothing; refinement of `BoundedLog` |
| `stream_hub` | 2 workers, 2 subscribers, channel 1, buffer 2, 4 changes | no silent loss, RESET always arrives |
| `resource_stream` | 2 connections or 2 managers, limit 2, queue 2, 2 changes, 1 manual refresh | a healthy settled stream is served and fresh over loss, overflow and resume, and while the manager is replaced and the scope is at its limit; no subscriber without a reader |
| `snapshot_service` | 2 callers, 2 builds, 1 key, 1 change | freshness, no foreign cancellation, one build per group, quiet after Retire, refinement of `SnapshotReads` |
| `cluster_runtime` | 4 generations, 3 outside events out of all kinds | replacement is seamless and leaves one generation, a scope edit reaches the table, no running manager is out of reach; loss of auth tears down, recovery serves again |
| `cluster_readiness` | 2 generations, 2 builds and 2 flushes at one time, each with one of four sets of outside events | the state follows the routed generation's sources; a stopped notifier is silent |
| `manual_queues` | 1 job, 2 generations, channel 1, 2 updates | between updates an unfinished job is on the routed queue, with a manager that consumes or was cooled; jobs end; updates return unless their consumer was stopped |
| `metrics_demand` | 2 generations, 2 set-ups, 4 outside events: leases, reads, other windows, changes of generation | one poll run at a time and none after Shutdown; a lease is polled, a generation without demand goes idle |
| `refresh_manager` | 3 instances, 6 calls, 6 timers, 4 commands | timers and runs are owned, the cadence is kept or its loss explained, refreshes go on |
| `live_operations` | a reconnecting forward, a shell, or two drains; 2 openings; 1 reconnection | sessions are registered and of this opening, none after Shutdown, no ghosts, one drainer of a node; what a stop meets ends |
| `live_late_drain` | 1 drain, 1 opening | ends in a violation, see 3.2 |

### 3.1 Bounds and why they are enough

* **Auth: two goroutines, one request that reports twice.** Two recovery goroutines
  suffice for every two-owner conflict, the old and the current; more started in a row
  reuse the identities. The request's answer may be late, and its caller reports it
  again. The proofs cover any number.
* **MaxAttempts = 2, backoff 0 then 1.** The first rejection does not settle, the
  second does, and both the immediate and the counted-down wait occur.
* **Channels of one, queues of two.** Every overflow path is taken. With a channel of
  one, the message evicted is the only one, the worst case for losing a RESET.
* **ResumeBufferSize 1 or 2.** A token may be newest, oldest, too old or of
  another numbering.
* **MaxChanges 2 to 4, Sessions 2, Managers 2.** One change before and one after a
  replacement or a reconnection; a second loss repeats the first from a state
  already covered. A behaviour of `resource_stream` has a loss without manual
  refreshes, or a replacement with at most two changes and manual refreshes together (`InBounds`,
  a constraint); with a limit of two subscribers the old one may still be there when the new one
  subscribes, and a third is refused. Four changes let two broadcasts overflow one reader twice.
* **MaxPendingChanges = 1.** One change waits for its flush; a second before the
  flush overflows the batch and forces a resync. Both happen.
* **Snapshot: two callers, two builds, one change.** Joining, leaving, the last
  waiter, a successor beside a cancelled build, and a build overtaken by an
  invalidation all need two of each at most. `Bypasses = {FALSE}` here; the proofs
  assume nothing of it.
* **Cluster runtime: three events of any kinds.** Each source of work meets any two
  others at every program point, which covers a replacement with one that
  supersedes it and a fault, and a full cycle of auth loss and recovery. Four generations are never
  all in use: the model would stop at `BuildSubsystem`, and no liveness
  property would hold if it did for good.
* **Cluster readiness.** Two generations are the one replaced and its successor; two builds
  overtake each other. A behaviour draws one set of outside events: changes of rows; a late report of client
  set-up, a fetch, a slow load and a failing build; a replacement; an outage of auth with its rebuild. All but
  the last have a deadline that settles sources as degraded. Flushes, rings, builds and
  the sources' syncs are not bounded in number.
* **Manual queues.** Two updates overlap at any points, or follow each other, so that a job is moved
  twice: of a rebuild, a teardown, a change of the selection and a rebuild elsewhere, any two. Two rebuilds of the cluster at once
  need a third generation (`MaxQueues = 3`), with which `UnfinishedIsServed` holds in 988,617 states, checked by itself; its theorem has any
  number of jobs, generations and updates. One job has up to three copies, which fill a channel of one against each other as copies of
  several jobs would; jobs meet nowhere else.
* **Metrics.** Two generations are the one stopped and its replacement, two set-ups
  a POST that is served by the controller of the earlier. Two changes of lease and two reads
  make every meeting of a poll run with its successor and the idle callback.
* **Refresh manager.** Four commands: register, a run, and two that meet it. Three
  instances are the registered one and two that calls and timers still refer to. Identities of
  runs and timers are used again, and six of each are never all in use: `Room`, which waits for
  a free one of each, takes no state from the run.
* **Live operations.** Kinds of operations meet only in the registry, so a behaviour
  starts those of one kind. Two openings are a close, and an operation of the earlier
  opening in the later; drains have one.
* **Symmetry** permutes subscriptions, workers, callers and builds in runs
  without liveness properties; no definition chooses one of them.

### 3.2 Divergences met

The code does not do everything its comments and documents say. One such claim is
checked by a run of its own:

* `live_late_drain`, `DrainsOfThisOpening`: "A late shell start, port-forward activation,
  or drain registration from an older epoch is rejected" (`docs/workflows/operation-lifecycle.md`).
  `startDrainNodeAction` resolves the clients and checks permissions first and reads the
  epoch last (`resource_gateway_node_actions.go:93`), so a drain whose cluster is closed meanwhile
  is registered, and runs on, for the closed cluster.

The following were found with the models as well. The properties of the passing runs
except exactly these situations, by name, and hold otherwise.

* **A forward is registered again** (`LiveOperations.NothingResurrected`).
  `markActive` looks its session up, unlocks and registers it (`portforward_lifecycle.go:62`); a
  stop by the user in between has unregistered it, and the entry stays until the cluster is closed.
  `operation-lifecycle.md:12` says details must not resurrect an operation. `NoGhosts` therefore speaks
  of shells and drains.
* **A transport rebuild is lost** (`ClusterRuntime.TriggerHasRebuild`).
  `rebuildInProgress` is set by the trigger (`cluster_runtime_transport_health.go:50`) and cleared by the callback of the
  mutation; a mutation that is superseded while it waits never calls it
  (`kubeconfig_selection_coordinator.go:88`), and no later failure triggers a rebuild.
* **A resync within the cooldown is refused** (`ResourceStream.ResetRearms`).
  `refresh-system.md:181` says a later RESET or COMPLETE re-arms the subscription;
  within a second of an earlier resync it does not (`resourceStreamProtocol.ts:647`), and the
  client stays healthy and unserved. `HealthyIsServed` excepts a client that was `refused`. A
  complete-resync domain in that second fetches nothing for its COMPLETE either
  (`manager.go:440`, "COMPLETE is scope-level resync").
* **A reset that fetches nothing** (`ResourceStream.ResetReconciles`, found as an invariant of `resource_stream` within
  seconds). "A reset that cannot prove continuity advances a declared signal clock and performs
  one immediate non-manual reconciliation before that retained snapshot is trusted" (`refresh-system.md:255`,
  where line 270 names "retained data surviving a non-replayable reset without a clock change" as a regression). A RESET's
  version counts the signals of its connection (`streammux/handler.go:487`), and the reader fetches only for another version than
  the last (`useStreamSignalRefetch.ts:126`). On two connections that each begin with a RESET, as on a quiet cluster, both
  are `object:1`; the second fetches nothing, and the stream is healthy over whatever was missed. `HealthyIsFresh` excepts
  a doorbell that repeated a version until a snapshot is read (`muted`).
* **Numbers of an ended numbering** (`Misnumbered`). A scope's numbering ends with its last
  subscriber (`resourcestream/manager.go:749`). A token of it is accepted by the next
  (`stream_hub.go:102`) and replays nothing; a frame of it, received late, makes the client
  reject new changes as replays (`resourceStreamProtocol.ts:424`).
* **An initial RESET between answer and application** of the first fetch (`raced`) asks for
  no fetch: what changed in that instant is shown with the next change.
* **A stale verdict.** A cancelled recovery goroutine records the class of its probe without
  looking at its context (`authstate/manager.go:381`), after a fresh failure has reset it
  ("no probe has produced a verdict yet", `manager.go:201`).
* **A self-build that fails at the ready edge** is not tried again. The comment at
  `refresh_aggregate_snapshot.go:167` says "the doorbell re-arms until a settled build lands; the next ring
  retries"; the notifier arms itself while its sources are not ready, whatever became of the
  build (`namespace_notifier.go:211`), so after the last ring nothing but the frontend's own fetch or a change of rows
  makes the cluster ready. `StateFollowsSources` excepts a failed build.
* **The lifecycle state is read and set in two steps.** What is set in between is overwritten, by a
  namespaces snapshot (`refresh_setup.go:379`) as well as by publication, which means to leave a ready cluster alone
  (`refresh_setup.go:487`): a ready cluster may be shown as loading until the self-build ends, and one whose
  auth has failed as ready until the next verdict.
* **Manual jobs left on a stopped queue**: "an unfinished child must be re-enqueued on the replacement manager instead of remaining
  queued forever" (`refresh_aggregate_manual_queue.go:211`). A job registered after the update has scanned
  the jobs (`late`) stays on the stopped queue until a later update moves it (`ManualQueues.LateIsServed`). Of updates that overlap
  (`overtaken`) the one that took its snapshot first may store its queues last, or move jobs to a queue which the other has
  replaced, and whose manager it has stopped (`OvertakenIsServed`).
* **A finished job is run again** (`TerminalRemains`). "A terminal child remains there"
  (`refresh_aggregate_manual_queue.go:30`); one that ends after the scan is moved, its reported end is undone, and it is run again.
* **An update of the routing waits for ever** (`ManualQueues.Stuck`). `moveUnfinishedJob` sends to the channel of the
  replacement on a background context (`refresh_aggregate_manual_queue.go:259`). If that channel is full and the consumer was stopped
  by an overlapping update, or by cooling, the rebuild or command that made the update does not return.
* **Jobs of a cooled cluster wait.** Cooling stops the manager of the generation that stays routed
  (`refresh_governor.go:552`), while `Enqueue` goes on accepting: jobs are not consumed until a re-warm replaces the
  generation, and then are moved, as the comment at `refresh_aggregate_manual_queue.go:211` means it. `UnfinishedIsServed` counts a
  cooled generation as one that serves; `JobsEnd` speaks of a cluster that is not cooled in the end.
* **Routes on a stopped generation** (`overlapped` in `ClusterRuntime`). A changed kubeconfig,
  a selection command and the governor change the table without the operation slot;
  two of them, or one and a rebuild, can leave the routes on a generation that was stopped, until
  the next command.
* **A manual refresh superseded by a foreground run** leaves the refresher without an
  interval (`lost = "superseded"` in `RefreshManager`); and two calls that wait for the same run
  both start, the first beyond the reach of an abort (`overlapped`).
* **A forward's start** may report success for a session that has ended: `readyChan`
  is sent to whether or not `markActive` found it. **The cancellation of a drain** between
  `StartDrainForClusterIfIdle` and `RegisterCancel` finds no handle and is not heard.
* **Metrics of several windows.** Each window POSTs its own set and the last one replaces
  the others' (`refresh_aggregate_metrics.go:37`), where `data-layer.md` speaks of cluster-scoped lease demand; the
  set of a window that closes stays until another posts. When the refresh runtime is
  set up anew its controller knows no demand (`refresh_setup.go:397`), and a window
  whose set has not changed posts nothing (`orchestrator.ts:1743`). `LeaseIsPolled` speaks of sets the current controller received (`mine`).
* **A manager shut down before its Start has run** does nothing (`types.go:280`), so a poll run
  that a demand began before (`demand.go:196`, on a background context) goes on; `PollsAreOwned` and `UnleasedIsIdle` speak of
  managers that had started.
* **A torn sample.** When only the pod listing fails, `poller.go:377` publishes the new node usage
  with the previous collection's metadata, which the comment at `poller.go:72` rules out.
  No module has the sample's data.

None of the stream's cases damages anything: they cost the user a stale view until the next change, a
reconnection or a manual refresh.

### 3.3 Fairness

Seven runs assume fairness, all weak, of what the code's scheduling gives: goroutines that
can run do, mutexes are handed on, timers fire, an attempt or a request ends by its timeout, a
connection that is told to end does. Nothing is assumed of the user, of new requests, of the
cluster, of reads, of the governor, or of a connection nobody has ended.

* `auth_state`: each recovery goroutine, a request once sent and its handling, `Shutdown`'s wait,
  and `SetRecoveryTest`, which the client builder calls unconditionally. `EventuallyValid` and
  `RejectionSettles` speak of behaviours in which the world eventually stays as it is.
* `cluster_runtime`: the consumer of intents, the mutation lock (some waiting job
  gets it), the slot, the two workers. `AuthLossTearsDown` and `AuthRecoveryServes` speak of a
  verdict that stays.
* `cluster_readiness`: each program point of a build, timers and flushes of each notifier, the
  publisher; not the slow-loading timer, the sources, a failing build, or anything outside.
  `StateFollowsSources` speaks of a generation that stays routed and whose sources stay as they are.
* `manual_queues`: the calls of `Enqueue` but not their giving up, informer hubs, each manager, the updates. An
  attempt may fail for ever; `JobsEnd` asks for its end only. Nothing is assumed of cooling, or of new updates.
* `refresh_manager`: a callback settles, cooldowns and intervals fire.
* `live_operations`: each step of a start, of a forward's goroutine and of a cleanup; of a link
  only that it ends once told.
* `metrics_demand`: each goroutine of a generation, the idle timer, the answer to a POST.

The stream's and the snapshot service's properties are about settled states or about
answers, so they need no fairness; that the stream settles is not checked.

## 4. The proofs

TLAPS checks the following for every value of the constants, under the named
assumptions of the modules (`AuthConstants`, `RingAssumption`, `HubAssumption`, `OpsAssumption`,
`MaxGensAssumption`, `BudgetAssumption`, `CommandsAssumption`, ...): they say what the constants are and
nothing about behaviour. (`ProtocolAssumption` also says that `NoValue`, no data yet, is no version of the stores.) The `Max...` bounds and budgets are constants too, so the
results hold for behaviours of any length. Every action of a module is in the
proof of its invariant, one lemma or one step each.

### 4.1 AuthStateProofs

    IInv == TypeOK /\ LocalsOK /\ ShutdownPhase /\ OneActiveLoop
            /\ RecoveryNeverGivesUp /\ ShutdownIsFinal

`RecoveryNeverGivesUp` says the goroutine behind `recoveryCancel` is alive and
uncancelled. Alone it is not inductive: a goroutine that ends could be that one.
It ends only after its context is cancelled, or by setting the state to valid, and
the second needs `OneActiveLoop` (an uncancelled goroutine is the registered one).
`LocalsOK` carries the locals from one program point to the next (a countdown is
positive, a goroutine about to settle has used all its attempts), and
`ShutdownPhase` ties the `stopped` flag to `Shutdown`'s progress. `ShutdownIsFinal`
then follows because nothing starts once stopped. `SettlesOnlyAfterBurst` is an
action property: only `settleInvalidCredentials` leaves recovering for invalid, at
a program point where `LocalsOK` gives the count and `OneActiveLoop` the owner.
Theorems: `TypeCorrect`, `NeverGivesUp`, `AtMostOneActiveLoop`,
`ShutdownFinality`, `SettlingIsEarned`.

### 4.2 The ring (last part of StreamHubProofs)

    RingInv == RingTypeOK /\ Ordered /\ Suffix

The resume buffers of the managers are such rings, so their proofs stand beside those of
the managers. Arithmetic modulo the capacity is
isolated in `WrapLemma` and `SlotLemma` (distinct
offsets are distinct slots). `FreeLemma` and `EvictLemma` say what the ring reads
after an `Add`: the old reading with the item appended, and for an eviction without
its head. From these, `RingOrdered`, `RingIsSuffix`, and step by step the
refinement `RingRefinesLog`.

`ResumeExact` (`NothingSkipped`) compares the loop of `Since` with the log's answer. In an increasing log the
items up to a token are its first `Seen` ones (`SeenLemma`), and the loop returns the rest (`NewerLemma`): the slices
behind those satisfy the loop's equation, and no other function does, since at the
least slot where one differed the equation would fix it to the same value. That a set of
naturals has a least element (`LeastNat`) follows from the library's `WFMin`, which takes sets and no operator, so this
needs no induction theorem. With `Suffix`, the rest is all that was added after the token.

### 4.3 SnapshotServiceProofs

    IInv == TypeOK /\ Counts /\ BuildsFresh /\ CacheFresh /\ FlightsOK
            /\ CallsOK /\ RetireOK

`AnswersAreFresh` speaks of results and of the cache; what makes it true is carried
by things that have neither yet. `BuildsFresh` is the heart: what a flight has built
is `Fresh`: not newer than the stores, not older than the floor of *every* planned
call of its invalidation count, and not older than the last announcement if that
count is the current one. It survives an invalidation because the flight's count is
then no longer current, and a new call because a call plans with the current count,
which is what the count in the group key and the comparison in `storeCache` are for.
`FlightsOK` relates the map of builds to the builds (a live build is the one under
its group), `CallsOK` a waiting call to its build (same group; a result once it is
completed; a cancellation only if its own context is cancelled), and `RetireOK`
says that the drain found nobody inside. Theorems: `Freshness`,
`OwnCancellation`, `SharedBuilds`, `Retirement`, and `Implementation`: every step is
a step of `SnapshotReads` or leaves what it speaks of unchanged.

### 4.4 StreamHubProofs

    IInv == MapsOK(hub) /\ ResetOK(hub, told) /\ world ... /\ worker ... /\ known ...

`MapsOK` says of every manager that its resume buffer is the tail of its numbering and
that a stopped one has no subscribers; `ResetOK`, of every subscriber that is
resyncing, that a RESET is in its channel or was received. Both are stated
of `hub` as a value, and each operation of `StreamHub` gets a lemma that it maps a good
value to a good one; the specification's actions then follow from the lemmas.
Theorems: `TypeCorrect`, `ResumeBuffer`, `StopFinality`, `ResetDelivered`. `NothingLostSilently`
(`NoSilentLoss`) is proved on top of the invariant, for one manager: with two, a change would
have to say whose stores it is about. Its hard case is a broadcast that holds a subscriber
while another overflows the same channel: what is evicted is replaced by the RESET.

The second part is about `ResourceStream`, and uses the lemmas about `hub` again:

    StreamInv == MapsOK(hub) /\ WorkersOK /\ SessionsOK /\ ForwardersOK /\ (current, retiring, sock)
                 /\ NoOrphanSubscriber

A subscription has no session for as long as a step takes that drops one and stores another, so the property
needs that whatever lets go of a subscription has dropped it. `SessionsOK` says that a session which has ended
holds none, although the step that subscribes for it may still be on its way (`adding`): `forwardSubscription` forgets the subscription
of a session, without dropping it, when its channel is closed or the session has ended, and only because of that is it not live then.
`shutdown`, `enqueue`, `storeSubscription` and the catch-up are functions of the pair of `hub` and one session, and have a lemma each
that the pair stays good (`PairOK`); `SessionStep` puts the pair back beside the other sessions. What queues and tokens hold
plays no role, so the client's reducer needs no lemma here. Theorems: `NoOrphans`, `StreamBuffers`. TLC checked
`StreamInv` on `resource_stream` before it was proved.

The third part proves what the stream is for, `HealthyIsServed` and `HealthyIsFresh`. Both speak of a settled state,
with every queue empty, and say nothing of how it got there; the invariant says it of every state, with the queues full:

    FlowInv   == StreamInv /\ FlowTypes /\ Attached /\ Numbering /\ AddingOK /\ Pipeline
    Pipeline  == SocketOpen => Resuming /\ InitialComing /\ ServedOK /\ Coming
    Numbering == Serving /\ QueuedBounds /\ FrameBounds /\ LastBound /\ LastOK

* `Coming`: the reader shows the stores as they are, or a fetch or batched changes will bring them, or it has not heard a doorbell that
  repeated a version (`Known`), or a request
  for a new subscription is in the session's hands, or a RESET, an error or a COMPLETE is in the queue, or the current manager does
  not serve the client, or a change waits for its broadcast (`Announced`), or the latest number is `Arriving`: in
  the session's queue, the subscription's channel or a broadcast, and not behind what the client or the forwarder will skip. In a
  settled state all but the first are impossible, which is `HealthyIsFresh` (`FlowFresh`).
* `ServedOK`: the client was refused a resync, or a request is under way, or a frame `Wakes` the client, or its session has a
  subscription, which has a RESET in its channel if broadcasts pass it over (`ResetDue`). Settled, the subscription is left, live and of
  the current manager, which is `HealthyIsServed` (`FlowServed`).
* `Wakes` depends on what the client will make of a RESET: one it expects does not make it subscribe again, so that of two in
  the queue the second does (`TwoResets`), and `InitialComing` says that one it expects does come.
* `Resuming`: a request with a token is the first of its connection, before anything was sent, and its token is
  what the client has, unless a request without one follows. Only because of that is a replay complete, and `LastOK` says that a
  client which would resume now misses nothing but what is `Announced` or has a higher number.
* `Numbering` bounds every number in a channel, a queue, a broadcast or the client by the counter of the numbering it belongs to, ended
  ones included (`Bound`). So a new number is above all of them, and what is skipped as old (`Stale`, the forwarder's high water) is old.

Each function of the reducer has a lemma of what it makes of any client record (`ReceiveFacts`, `ResyncFacts`, `OpenedFacts`), and `SignalRefetch` one that an event which rang leaves a fetch under way or the client
`muted`,
each function of the manager one that it is a step `Moves` (nobody gets a message, and a numbering stays or ends), and what a
session does to its queue one of what the queue holds then. An action of a session that is not the client's
cannot touch `Pipeline` (`LetsGoFacts`); for the client's, `Pipeline` has a lemma for each thing that can happen to it: `ReplayedHere`,
`EndedHere`, `AcknowledgedHere`, `TakenHere`, `AskedHere` and their like. The replay of a resume needs what `Since` returns:
`MissedFacts`, from `NewerLemma` (4.2) and the gapless buffer. Theorems: `HealthyServed`, `HealthyFresh`, of the composition with its
one-step send (2.3) and for any number of informer goroutines. TLC checked `FlowInv` on `resource_stream`'s instance and by
simulation of larger ones, before and while it was proved.

### 4.5 ClusterRuntimeProofs

    IInv == Typed /\ Held_ /\ SlotOK

`FeedsAreReclaimable` is about the table and the committed runtimes, but a generation is in
neither for a while. `Held_` is its inductive form: a running manager is committed, or in the hands of
the worker that started it, at a program point before its commit or its rollback. It
survives every other worker's steps because those stop generations together with their
commitment, and never take a generation from a worker's hands. `SlotOK` is mutual exclusion of
the slot: who works with it holds it, who holds it has begun; `SlotExcludes` follows. Theorems:
`TypeCorrect`, `SlotExclusion`, `FeedsReclaimable`.

    IInv /\ Seamless /\ ScopeQueued /\ ScopeOK

The other three are about behaviours without overlap (`overlapped`, history, says whether work
without the slot has met other work), and each is false in the middle of a step sequence unless one
says which. `Seamless` does: then at most one worker works (`Alone`), at rest the table's generation is the
one that is routed, serves and feeds (`Resting`), and `Phase` lists for every program point of the one that
works what is served, fed, committed, watched and routed: the old generation alone until the new one is
built, both until the routes have moved, the new one alone after that. `ScopeQueued` and
`ScopeOK` do the same for the persisted scope: an edit not yet seen has its rebuild queued, and whatever is in
the table or on its way into it has the present scope. There is a lemma per action (`...Phase`, `...Seam`), and
five say how the shape of a step carries over: work begins (`Begins`), goes on (`KeepsWorking`),
ends (`Concludes`), is not touched (`Stays`), and what a phase means for the observer (`PhaseServes`).
Theorems: `SeamlessReplacement`, `OneGenerationLeft`, `ScopeEditsReachTable`.

### 4.6 ManualQueuesProofs

    IInv   == TypeOK /\ Numbered /\ JobsOK /\ UpdatesOK /\ InStep
    InStep == overtaken \/ (Aligned /\ AllAlive /\ Retiring /\ Upcoming /\ Planned /\ Migrating)

`Migrating` is what `UnfinishedIsServed` becomes while updates are under way: what is unfinished elsewhere than on the routed queue will be
scanned, or is in some update's list with the child that it has. A job that has ended, or has been moved, could become
unfinished elsewhere again if a copy came back to life; `JobsOK` excludes it: a copy is stored and sent once, by the call
(`CallOK`) or the update (`CopyOK`) that makes it.

That the routed queue is consumed is a matter of the updates. As long as none has been overtaken, those past their
snapshot have one target, which is routed as soon as one of them has stored it (`Aligned`), and the
table, the route and the targets have managers that consume or were cooled (`AllAlive`). It stays so because what an update is going
to stop has left the table when it takes its snapshot (`Retiring`), and because a generation on its way into the
table is nobody's to stop yet (`Upcoming` for a rebuild, `Planned` for a selection). Theorems: `TypeCorrect`, `NoneLeftBehind`.

### 4.7 RefreshProofs

The first part is about `MetricsDemand`.

    IInv == Front /\ GensOK /\ PollersOK

`PollersOK` says of a poller: tokens of runs are at most its own and distinct, a run not told to end
is the latest, and only while `running`; and a poller whose manager has finished Shutdown is `Halted`: not running,
and stopped or on a cancelled context. The second half is needed because a late `Start` takes the stop back;
`GensOK` has that its context is cancelled by then. One lemma per function of `demand.go` shows
that it keeps these (`Keeps`). Theorems: `TypeCorrect`, `OwnedRuns`.

The second is about `RefreshManager`, whose state is one record and whose operations are functions of it:

    ManagerIInv == Good(s) /\ commands \in 0 .. MaxCommands
    Good(m)     == Sound(m) /\ IntentInStep(m) /\ Cadence(m)
    Sound(m)    == m \in Managers /\ CallsInPlace(m) /\ CooldownsInPlace(m)
                   /\ IntervalsInPlace(m) /\ RunsOwned(m)

`RunsOwned` and the first half of `IntervalsInPlace` are `WorkIsOwned`, `Cadence` is `KeepsCadence`; alone neither
is inductive. `IntervalsInPlace` also says that a recorded interval is armed, so `enable`, which looks only at the record, may
leave a refresher as it is. `CallsInPlace` says that an execution is a running call of its own instance, and that a call
which waits is not automatic: after the wait it is launched whatever became of the refresher meanwhile, and an
automatic one would then run for one that is disabled. `CooldownsInPlace` has that cooldowns differ in their identity, so that
the end of a replaced one cannot be taken for the end of a manual one, which has to restart the schedule.
`IntentInStep` (the intent is `paused` just when the manager is) is what `resume` relies on to decide whom to start
again. Between the functions that make up one operation `Cadence` may be broken: a lemma for each says that it keeps
`Sound`, and `StartRefresherKeeps` that `startRefresher` makes a
`Sound` manager `Good`, unless the intent is still `paused` although the manager is not. TLC checked `ManagerIInv` on
`refresh_manager` before it was proved. Theorems: `ManagerTypeCorrect`, `OwnedWork`, `CadenceIsKept`.

### 4.8 ClusterReadinessProofs

    IInv == TypeOK /\ Stops

`QuietAfterStop` speaks of flushes about to ring; `Stops` adds that a generation being waited for, or retired, has
its flag set, and that a retired one has no flush at all. The flag is set before the wait and never taken back, and
`beginFlush` looks at it in the step that counts the flush; the other order would not be inductive.
Theorems: `TypeCorrect`, `StoppedIsQuiet`.

### 4.9 LiveOperationsProofs

    IInv == TypeOK /\ StopsOK /\ OneActive
            /\ (SessionPlace and SessionEpoch of every session) /\ (DrainOK of every drain)

`SessionsAreRegistered` needs to know that nobody takes a listed session out of the registry without
taking it over: `SessionPlace` says for each point of a start in which of the maps the session is, that one that is
leaving is not listed, and that a shell is never both in the registry and in the hands of a stop.
`SessionsOfThisOpening` rests on `SessionEpoch`: a start with the current epoch has the current clients,
and these are there or their stop has not yet taken its operations. It is inductive because the epoch is read before the
clients are resolved; for drains, which read it after, it is false (3.2). `ShutdownIsFinal` needs that the registration is
shut before the registry is looked at (`StopsOK`), `OneDrainer` that at most one job is active
(`OneActive`) and that a drain running untold has it, and its handle (`DrainOK`). `Disturbs` says that a step
of one operation leaves the others where they are; with it `SessionStep` and `DrainStep` reduce each action to its own
operation. The invariant is proved from any start with some calls over and some strays spent (`Starts`), so it covers the
run's `OneKindInit` too. Theorems: `TypeCorrect`, `RegisteredSessions`, `NoEarlierOpening`,
`NothingAfterShutdown`, `NoGhostStays`, `OneDrainerAtATime`.

### 4.10 Model-checked only

Liveness (`EventuallyValid`, `RejectionSettles`, `AuthLossTearsDown`, `AuthRecoveryServes`,
`StateFollowsSources`, `JobsEnd`, `UpdatesReturn`, `LeaseIsPolled`, `UnleasedIsIdle`, `RefreshesGoOn`,
`StoppedEnd`), which is outside the prover's reach. Every invariant, action property and refinement a passing run checks is also a
theorem.

## 5. What is left out, and why

* **AuthState**: the wording of diagnostics; the callbacks on a state change run outside the
  manager's state and are `AuthChanges` of `ClusterRuntime`.
* **Streams**: one scope and one client subscription (the critical sections of others
  touch other keys; the session queue they share can overflow with one). CANCEL and
  its debounce, heartbeats, the pause while the window is hidden, blocked
  subscriptions, failed fetches (`markReconciliationFailed`), row payloads and selectors. Of the readers the model has the one
  of base snapshots (`useStreamSignalRefetch`); tables that query pages, whose identity includes the
  version acknowledged by the stream, and consumers that only acknowledge versions are left out. The counter of a
  session's signals is shared with its other subscriptions, which make a repeated version less likely and not impossible. A domain
  whose changes carry a version of their own instead of the sequence number is left out too.
* **SnapshotService**: domains that bypass shared builds (a plain builder call), the
  reasons for which a plan fails, the length of the TTL (an entry may expire at any
  time), fairness.
* **ClusterRuntime**: one cluster, which stays open. A cluster no window shows is assigned Cold (the
  warm budget and memory pressure between several clusters are left out). A stop is one step; the client
  sync of a selection fails only by supersession. Routing updates on behalf of another cluster, which route a snapshot of the whole table and could write
  this cluster's earlier generation, are in `ManualQueues` (`Elsewhere`) and not here.
* **ClusterReadiness**: a routing that fails and its rollback, cooling, overlapping replacements
  (`ClusterRuntime` has them); the notifier's signals of events and quotas and its throttle, which add or
  delay rings; a namespaces list the user may not load, which counts as ready at the first build; the
  emitted state events, whose order is that of the emitter's calls; the removal of a closed cluster's entry.
* **ManualQueues**: one cluster. An update that fails and its rollback (`ClusterRuntime` has it); the set-up of a new
  aggregate queue with the refresh runtime, which forgets all jobs; a manager whose informer hub does not start, which consumes nothing.
  The identities of jobs are taken to be unique (they are clock readings). The channel's order is left out, as nothing depends on
  it. Succeeded and failed are both an end, and an attempt's retries are part of it. `Status` only reads.
* **MetricsDemand**: the collection itself (listing, retries, rate limit, failure counters) and the
  change of interval. A cancelled run is told in the step that releases the lock, and one idle
  callback is in flight at a time.
* **RefreshManager**: `updateInterval` and the pause of one name, which nothing in the application
  calls; several refreshers, which share only the pause; the length of a backoff.
* **LiveOperations**: one cluster; removing a session and closing it is one step. Status events,
  terminal input and output, idle times, the history and progress of drains. The synchronous `drain` action
  (`resource_gateway_node_actions.go:47`), which passes the same idle check of the store and never registers an operation. A rebuild of the clients
  after an auth failure is no opening.

Not modelled at all:

* **Event stream**: `Subscribe` and its resume have no caller in the application, whose event views
  read snapshots; the ring it keeps is `RingBuffer`.
* **Ingest, informers, object catalog**: list and watch are client-go's. Here they are the
  environment that changes the stores. What they have of their own, the readiness of
  partitions and the full sync after dropped watch events, would be the next module.
* **Container log streams**: the limiter's budget of targets; the rest is I/O.
* **Windows and tab transfers**, **application updates**: state machines of their own, which share
  nothing with the refresh system. The risk of updates lies in the platform installers.
* **Builders, query pages, permissions, settings, actions, YAML editing**: pure functions, files
  under one lock, or single requests.
* **The frontend below `core/refresh`**: presentation.

## 6. What would come next

1. `ResourceStream` with the two steps of a send, for which `FlowInv` has to follow a subscriber that is sent to while it resyncs.
2. Several clusters under one governor, with the warm budget and memory pressure.
3. Several windows in `MetricsDemand` in full, should demand be kept per window.
4. The object catalog: batches of watch events against full syncs.
5. Reservations and two-step transfers of tabs between windows.
