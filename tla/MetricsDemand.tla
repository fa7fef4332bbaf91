--------------------------- MODULE MetricsDemand ----------------------------
(***************************************************************************)
(* Metrics polling on demand, for ONE cluster.  A window's orchestrator    *)
(* posts the set of clusters its leases want metrics of (here: whether the *)
(* cluster is one of them) to the aggregate controller, which applies it   *)
(* to the DemandPoller of the routed generation.  One window is modelled   *)
(* in full, the others by the sets they post.  The poller runs while it is *)
(* active, and for an idle window after each read; its generation may be   *)
(* replaced, cooled or torn down at any moment, and the controller with    *)
(* the whole refresh runtime.                                              *)
(*                                                                         *)
(* A poller's runs are goroutines: a new one may start before the previous *)
(* one has noticed its cancellation.                                       *)
(***************************************************************************)
EXTENDS Naturals

CONSTANTS MaxGens,    \* bound: generations built
          MaxSetups,  \* bound: set-ups of the refresh runtime after the first
          Budget      \* bound: how often each outside event happens, and "any" does

Events == {"lease", "other", "read", "change", "any"}

ASSUME GensAssumption == MaxGens \in Nat \ {0}
ASSUME SetupsAssumption == MaxSetups \in Nat
ASSUME BudgetAssumption == Budget \in [Events -> Nat]

VARIABLES left,      \* the events that may still happen
          want,      \* metricsDemandClusterIds: whether the window has a lease
          demand,    \* metricsDemandState
          post,      \* the POST in flight: where it is, the controller it resolved
          service,   \* whether refreshService is published
          ctl,       \* the controllers: count, demanded, subsystems
          mine,      \* history: the current controller holds a set of this window
          built,     \* generations built
          doomed,    \* those whose stop has begun
          mgr,       \* how far Start and Shutdown of their refresh.Manager are
          ctx,       \* whether its run context is still live
          poller     \* their DemandPoller

outside == <<left, want, demand, post>>
routing == <<service, ctl, mine, built, doomed>>
vars == <<left, want, demand, post, service, ctl, mine, built, doomed, mgr,
          ctx, poller>>

Gens == 1 .. MaxGens
Controllers == 1 .. MaxSetups + 1
NoGen == 0
Quiet == [status |-> "idle", applied |-> FALSE, key |-> FALSE]
NoPost == [at |-> "none", by |-> 1]

\* base: whether Start has handed the poller the run context; runs: where the
\* goroutine of each run stands, by token.  A run begun before Start hangs on
\* no context but its own ("loose").
NewPoller == [base |-> FALSE, active |-> FALSE, stopped |-> FALSE, running |-> FALSE,
              token |-> 0, timer |-> FALSE, callback |-> "none", runs |-> {}]

Init ==
  /\ left = Budget
  /\ want = FALSE
  /\ demand = Quiet
  /\ post = NoPost
  /\ service = TRUE
  /\ ctl = [current |-> 1, demanded |-> [c \in Controllers |-> FALSE],
            routes |-> [c \in Controllers |-> IF c = 1 THEN 1 ELSE NoGen]]
  /\ mine = FALSE
  /\ built = 1 /\ doomed = {}
  /\ mgr = [g \in Gens |-> [start |-> "new", stop |-> "no"]]
  /\ ctx = [g \in Gens |-> TRUE]
  /\ poller = [g \in Gens |-> NewPoller]

Spend(e) ==
  /\ left[e] > 0 /\ left["any"] > 0
  /\ left' = [left EXCEPT ![e] = @ - 1, !["any"] = @ - 1]
-----------------------------------------------------------------------------
(* DemandPoller, as functions of its state.                                *)

Run(t, at) == [token |-> t, at |-> at]
LiveRuns(p) == {r \in p.runs : r.at \in {"polling", "loose"}} \* not told to end
OwnRuns(p) == {r \in p.runs : r.token = p.token}

startLocked(g, p) ==
  IF p.stopped \/ p.running \/ (p.base /\ ~ctx[g]) THEN p
  ELSE [p EXCEPT !.token = @ + 1, !.running = TRUE,
                 !.runs = @ \cup {Run(p.token + 1, IF p.base THEN "polling" ELSE "loose")}]

\* The caller cancels the run as soon as it has released the lock.
stopLocked(p) ==
  IF ~p.running THEN [p EXCEPT !.timer = FALSE]
  ELSE [p EXCEPT !.running = FALSE, !.timer = FALSE,
                 !.runs = {IF r \in OwnRuns(p) THEN Run(r.token, "cancelled") ELSE r :
                             r \in p.runs}]

scheduleIdleStopLocked(p) == [p EXCEPT !.timer = TRUE]

IdleUntouched(p) == p \* mutant: the end of the demand arms no timer
IdleScheduled(p) == scheduleIdleStopLocked(p)

SetActive(g, p, active) ==
  IF p.stopped THEN p
  ELSE IF active THEN startLocked(g, [p EXCEPT !.active = TRUE, !.timer = FALSE])
  ELSE IdleScheduled([p EXCEPT !.active = FALSE])

\* A callback that waits for the lock read its clock before this read.
touch(g, p) ==
  IF p.stopped THEN p
  ELSE LET q == startLocked(g, [p EXCEPT !.callback = IF @ = "quiet" THEN "touched" ELSE @])
       IN  IF q.active THEN q ELSE scheduleIdleStopLocked(q)

Stop(p) == stopLocked([p EXCEPT !.stopped = TRUE, !.active = FALSE, !.base = FALSE])

\* runPoller after the poller returned: only the latest run clears running.
EndUnchecked(p, r) == [p EXCEPT !.running = FALSE, !.runs = @ \ {r}] \* mutant: no token
EndRun(p, r) == [p EXCEPT !.running = IF r.token = p.token THEN FALSE ELSE @,
                          !.runs = @ \ {r}]
-----------------------------------------------------------------------------
(* The goroutines of a generation.                                         *)

Set(g, p) == poller' = [poller EXCEPT ![g] = p]

\* Manager.Start, in a goroutine: it takes the hub's sync before the poller's turn.
ManagerStarts(g) ==
  /\ g <= built
  /\ mgr[g].start = "new"
  /\ mgr' = [mgr EXCEPT ![g].start = "due"]
  /\ UNCHANGED <<outside, routing, ctx, poller>>

\* A hub that refuses a cancelled context ends Manager.Start before the poller's.
HubRefuses(g) ==
  /\ mgr[g].start = "due" /\ ~ctx[g]
  /\ mgr' = [mgr EXCEPT ![g].start = "done"]
  /\ UNCHANGED <<outside, routing, ctx, poller>>

\* DemandPoller.Start; when it comes after Stop it takes the stop back.
PollerStarts(g) ==
  /\ mgr[g].start = "due"
  /\ mgr' = [mgr EXCEPT ![g].start = "done"]
  /\ LET p == [poller[g] EXCEPT !.stopped = FALSE, !.base = TRUE]
     IN  Set(g, IF p.active THEN startLocked(g, p) ELSE p)
  /\ UNCHANGED <<outside, routing, ctx>>

\* stopRefreshGenerationProducers cancels the manager's context; Shutdown of a
\* manager that has not started does nothing ("missed").
GenerationStops(g) ==
  /\ g \in doomed /\ mgr[g].stop = "no"
  /\ ctx' = [ctx EXCEPT ![g] = FALSE]
  /\ mgr' = [mgr EXCEPT ![g].stop = IF mgr[g].start = "new" THEN "missed" ELSE "cancelled"]
  /\ UNCHANGED <<outside, routing, poller>>

PollerStops(g) ==
  /\ mgr[g].stop = "cancelled"
  /\ mgr' = [mgr EXCEPT ![g].stop = "done"]
  /\ Set(g, Stop(poller[g]))
  /\ UNCHANGED <<outside, routing, ctx>>

\* A provider read while a snapshot is built.
Reads(g) ==
  /\ g <= built
  /\ Spend("read")
  /\ Set(g, touch(g, poller[g]))
  /\ UNCHANGED <<want, demand, post, routing, mgr, ctx>>

TimerFires(g) ==
  /\ poller[g].timer /\ poller[g].callback = "none"
  /\ Set(g, [poller[g] EXCEPT !.timer = FALSE, !.callback = "quiet"])
  /\ UNCHANGED <<outside, routing, mgr, ctx>>

\* handleIdleTimeout once it has the lock.
IdleEnds(g) ==
  /\ poller[g].callback # "none"
  /\ LET p == [poller[g] EXCEPT !.callback = "none"]
     IN  Set(g, IF p.active \/ ~p.running THEN p
                ELSE IF poller[g].callback = "touched" THEN scheduleIdleStopLocked(p)
                ELSE stopLocked(p))
  /\ UNCHANGED <<outside, routing, mgr, ctx>>

RunEnds(g, r) ==
  /\ r \in poller[g].runs
  /\ r.at = "cancelled" \/ (r.at = "polling" /\ ~ctx[g])
  /\ Set(g, EndRun(poller[g], r))
  /\ UNCHANGED <<outside, routing, mgr, ctx>>
-----------------------------------------------------------------------------
(* The orchestrator of the window.                                         *)

\* updateMetricsDemand, given whether the cluster is wanted.
UpdatedDemand(wanted, d) ==
  IF wanted = d.applied
    THEN [d EXCEPT !.status = IF @ = "waiting" THEN "idle" ELSE @]
  ELSE IF d.status = "requesting" \/ (d.status = "waiting" /\ d.key = wanted) THEN d
  ELSE [d EXCEPT !.status = "requesting", !.key = wanted]

Update(wanted, d, p) ==
  /\ demand' = UpdatedDemand(wanted, d)
  /\ post' = IF d.status # "requesting" /\ UpdatedDemand(wanted, d).status = "requesting"
             THEN [NoPost EXCEPT !.at = "sent"] ELSE p

LeaseChanges ==
  /\ Spend("lease")
  /\ want' = ~want
  /\ Update(~want, demand, post)
  /\ UNCHANGED <<routing, mgr, ctx, poller>>

\* The handler of the published service resolves its controller; without one
\* the answer is 503.
PostArrives ==
  /\ post.at = "sent"
  /\ post' = [at |-> IF service THEN "admitted" ELSE "refused", by |-> ctl.current]
  /\ UNCHANGED <<left, want, demand, routing, mgr, ctx, poller>>

\* SetMetricsActiveForClusters: the set replaces whatever another window asked.
SetMetricsActive(c, wanted) ==
  LET g == ctl.routes[c]
  IN  /\ ctl' = [ctl EXCEPT !.demanded[c] = wanted]
      /\ poller' = IF g = NoGen THEN poller
                   ELSE [poller EXCEPT ![g] = SetActive(g, @, wanted)]

PostIsServed ==
  /\ post.at = "admitted"
  /\ post' = [post EXCEPT !.at = "served"]
  /\ SetMetricsActive(post.by, demand.key)
  /\ mine' = (mine \/ post.by = ctl.current)
  /\ UNCHANGED <<left, want, demand, service, built, doomed, mgr, ctx>>

OtherWindowPosts ==
  /\ service
  /\ Spend("other")
  /\ \E wanted \in BOOLEAN : SetMetricsActive(ctl.current, wanted)
  /\ mine' = FALSE
  /\ UNCHANGED <<want, demand, post, service, built, doomed, mgr, ctx>>

PostSucceeds ==
  /\ post.at = "served"
  /\ Update(want, [demand EXCEPT !.status = "idle", !.applied = demand.key], NoPost)
  /\ UNCHANGED <<left, want, routing, mgr, ctx, poller>>

\* A refused set that is still wanted is retried later, another one given up.
PostFails ==
  /\ post.at = "refused"
  /\ IF want = demand.key
     THEN /\ demand' = [demand EXCEPT !.status = "waiting"]
          /\ post' = NoPost
     ELSE Update(want, [demand EXCEPT !.status = "idle"], NoPost)
  /\ UNCHANGED <<left, want, routing, mgr, ctx, poller>>

RetryFires ==
  /\ demand.status = "waiting"
  /\ Update(want, [demand EXCEPT !.status = "idle"], NoPost)
  /\ UNCHANGED <<left, want, routing, mgr, ctx, poller>>
-----------------------------------------------------------------------------
(* The generations.                                                        *)

Routed == ctl.routes[ctl.current]
Fresh == IF built \in doomed \/ \E c \in Controllers : ctl.routes[c] = built
         THEN {} ELSE {built}

\* startRefreshGeneration: its manager starts in a goroutine.
Build ==
  /\ Spend("change")
  /\ built < MaxGens /\ Fresh = {}
  /\ built' = built + 1
  /\ UNCHANGED <<want, demand, post, service, ctl, mine, doomed, mgr, ctx, poller>>

RollBack ==
  /\ Spend("change")
  /\ Fresh # {}
  /\ doomed' = doomed \cup Fresh
  /\ UNCHANGED <<want, demand, post, service, ctl, mine, built, mgr, ctx, poller>>

Forgotten(g) == FALSE \* mutant: the demand is not kept across generations
Retained(g) == ctl.demanded[ctl.current]

\* The controller's Update with a fresh generation, then the stop of the old one.
Route(g) ==
  /\ service /\ g \in Fresh
  /\ ctl' = [ctl EXCEPT !.routes[ctl.current] = g]
  /\ Set(g, SetActive(g, poller[g], Retained(g)))
  /\ doomed' = doomed \cup ({Routed} \ {NoGen})
  /\ UNCHANGED <<outside, service, mine, built, mgr, ctx>>

\* teardownClusterSubsystem leaves no route; cooling keeps it.
TearDownCluster ==
  /\ Spend("change")
  /\ service /\ Routed # NoGen
  /\ ctl' \in {ctl, [ctl EXCEPT !.routes[ctl.current] = NoGen]}
  /\ doomed' = doomed \cup {Routed}
  /\ <<ctl', doomed'>> # <<ctl, doomed>>
  /\ UNCHANGED <<want, demand, post, service, mine, built, mgr, ctx, poller>>

\* teardownRefreshSubsystem
TearDown ==
  /\ Spend("change")
  /\ service
  /\ service' = FALSE
  /\ doomed' = 1 .. built
  /\ UNCHANGED <<want, demand, post, ctl, mine, built, mgr, ctx, poller>>

\* Set-up makes a controller that knows of no demand and applies none.
SetUp(g) ==
  /\ ~service /\ g \in Fresh /\ ctl.current < MaxSetups + 1
  /\ service' = TRUE
  /\ ctl' = [ctl EXCEPT !.current = @ + 1, !.routes[ctl.current + 1] = g]
  /\ mine' = FALSE
  /\ UNCHANGED <<outside, built, doomed, mgr, ctx, poller>>
-----------------------------------------------------------------------------
Runs(g) == poller[g].runs

Next ==
  \/ \E g \in Gens : \/ ManagerStarts(g) \/ HubRefuses(g) \/ PollerStarts(g)
                     \/ GenerationStops(g) \/ PollerStops(g) \/ Reads(g)
                     \/ TimerFires(g) \/ IdleEnds(g) \/ Route(g) \/ SetUp(g)
                     \/ \E r \in Runs(g) : RunEnds(g, r)
  \/ LeaseChanges \/ PostArrives \/ PostIsServed \/ PostSucceeds \/ PostFails
  \/ RetryFires \/ OtherWindowPosts
  \/ Build \/ RollBack \/ TearDownCluster \/ TearDown

Spec == Init /\ [][Next]_vars

\* Goroutines run, timers fire and requests are answered; nothing obliges a
\* user, a read or a change of generation to happen.
Fairness ==
  /\ \A g \in Gens :
       /\ WF_vars(ManagerStarts(g)) /\ WF_vars(PollerStarts(g) \/ HubRefuses(g))
       /\ WF_vars(GenerationStops(g)) /\ WF_vars(PollerStops(g))
       /\ WF_vars(TimerFires(g)) /\ WF_vars(IdleEnds(g))
       /\ WF_vars(\E r \in Runs(g) : RunEnds(g, r))
  /\ WF_vars(PostArrives) /\ WF_vars(PostIsServed)
  /\ WF_vars(PostSucceeds \/ PostFails) /\ WF_vars(RetryFires)

FairSpec == Spec /\ Fairness
-----------------------------------------------------------------------------
Pollers ==
  [base : BOOLEAN, active : BOOLEAN, stopped : BOOLEAN, running : BOOLEAN,
   token : Nat, timer : BOOLEAN, callback : {"none", "quiet", "touched"},
   runs : SUBSET [token : Nat, at : {"polling", "loose", "cancelled"}]]

TypeOK ==
  /\ left \in [Events -> Nat]
  /\ want \in BOOLEAN
  /\ demand \in [status : {"idle", "requesting", "waiting"},
                applied : BOOLEAN, key : BOOLEAN]
  /\ post \in [at : {"none", "sent", "admitted", "refused", "served"},
              by : Controllers]
  /\ service \in BOOLEAN
  /\ ctl \in [current : Controllers, demanded : [Controllers -> BOOLEAN],
              routes : [Controllers -> Gens \cup {NoGen}]]
  /\ mine \in BOOLEAN
  /\ built \in Gens /\ doomed \in SUBSET Gens
  /\ mgr \in [Gens -> [start : {"new", "due", "done"},
                       stop : {"no", "missed", "cancelled", "done"}]]
  /\ ctx \in [Gens -> BOOLEAN]
  /\ poller \in [Gens -> Pollers]

\* A run that nobody has told to end is the one the poller can still stop: the
\* latest, while running says so.  So a generation never polls twice at a time,
\* whatever the idle timer and the reads do, and after Shutdown of a started
\* manager it polls no more (demand.go, token and stopLocked).
PollsAreOwned ==
  \A g \in Gens :
    /\ poller[g].running \/ LiveRuns(poller[g]) = {}
    /\ LiveRuns(poller[g]) \subseteq OwnRuns(poller[g])
    /\ mgr[g].stop = "done" => LiveRuns(poller[g]) = {}

\* Once the set the controller holds is one of the window's and the window keeps
\* its lease, the cluster ends up polled for good, whatever came before:
\* replacements, idle callbacks in flight, refused requests, other windows' sets
\* (refresh_aggregate_metrics.go:10, demand across subsystem replacement).
LeaseIsPolled ==
  <>[](service /\ Routed # NoGen /\ Routed \notin doomed /\ want /\ mine)
    => <>[](\E g \in Gens : g = Routed /\ LiveRuns(poller[g]) # {})

\* A generation without demand goes idle once the reads are over, and so does
\* one that was stopped after its manager had started (demand.go:17, "stops after
\* an idle window"; types.go:275, Shutdown terminates the background services).
UnleasedIsIdle ==
  \A g \in Gens :
    <>[](~poller[g].active \/ mgr[g].stop = "done") => <>[](Runs(g) = {})
=============================================================================
