---------------------------- MODULE RefreshProofs ----------------------------
(***************************************************************************)
(* Proofs about what refreshes on its own: the metrics poller of a         *)
(* generation (MetricsDemand, first part) and the frontend's scheduler of  *)
(* one refresher (RefreshManager, second part).                            *)
(*                                                                         *)
(* MetricsDemand: a poller in order has at most one run per token, no      *)
(* token ahead of its counter, and no live run but the latest, while it is *)
(* running.  Each function of demand.go keeps that (PollerOK) and keeps a  *)
(* halted poller halted; a Start that comes after Stop is harmless because *)
(* the context it hands over is cancelled by then.                         *)
(*                                                                         *)
(* RefreshManager: a manager is Sound when its calls, cooldowns and        *)
(* intervals are in place and its runs owned, and Good when its intent     *)
(* follows the pause and its cadence is kept as well.  Each function of    *)
(* RefreshManager.ts takes a Good manager to a Good one; startRefresher    *)
(* makes a Sound one Good, whatever became of its interval.                *)
(***************************************************************************)
EXTENDS MetricsDemand, RefreshManager, TLAPS

PollerOK(p) ==
  /\ p \in Pollers
  /\ \A r \in p.runs : r.token <= p.token
  /\ \A r, q \in p.runs : r.token = q.token => r = q
  /\ LiveRuns(p) \subseteq OwnRuns(p)
  /\ p.running \/ LiveRuns(p) = {}

\* Stopped, or started again on a context that is no longer live.
Halted(p) == ~p.running /\ (p.stopped \/ p.base)

\* What each function does to a poller of generation g.
Keeps(g, p, q) == PollerOK(q) /\ (Halted(p) /\ ~ctx[g] => Halted(q))

\* The types of everything outside the generations.
Front ==
  /\ left \in [Events -> Nat]
  /\ want \in BOOLEAN
  /\ demand \in [status : {"idle", "requesting", "waiting"},
                applied : BOOLEAN, key : BOOLEAN]
  /\ post \in [at : {"none", "sent", "admitted", "refused", "served"},
              by : Controllers]
  /\ service \in BOOLEAN
  /\ ctl \in [current : Controllers, demanded : [Controllers -> BOOLEAN],
              routes : [Controllers -> Gens \cup {NoGen}]]
  /\ mine \in BOOLEAN
  /\ built \in Gens /\ doomed \in SUBSET Gens
GensOK ==
  /\ mgr \in [Gens -> [start : {"new", "due", "done"},
                       stop : {"no", "missed", "cancelled", "done"}]]
  /\ ctx \in [Gens -> BOOLEAN]
  /\ \A g \in Gens : mgr[g].stop # "no" => ~ctx[g]
PollersOK ==
  /\ poller \in [Gens -> Pollers]
  /\ \A g \in Gens : PollerOK(poller[g])
  /\ \A g \in Gens : mgr[g].stop = "done" => Halted(poller[g])
IInv == Front /\ GensOK /\ PollersOK

-----------------------------------------------------------------------------
\* startLocked adds a run under a token of its own, and only when none is live.
LEMMA StartKeeps ==
  ASSUME NEW g, NEW p, PollerOK(p)
  PROVE  Keeps(g, p, startLocked(g, p))
<1>1. CASE p.stopped \/ p.running \/ (p.base /\ ~ctx[g])
  BY <1>1 DEF Keeps, startLocked, Halted
<1>2. CASE ~(p.stopped \/ p.running \/ (p.base /\ ~ctx[g]))
  <2> DEFINE n == Run(p.token + 1, IF p.base THEN "polling" ELSE "loose")
             q == startLocked(g, p)
  <2>a. /\ q = [p EXCEPT !.token = p.token + 1, !.running = TRUE, !.runs = p.runs \cup {n}]
        /\ p \in Pollers /\ p.token \in Nat
    BY <1>2 DEF startLocked, PollerOK, Pollers
  <2>b. n \in [token : Nat, at : {"polling", "loose", "cancelled"}]
    BY <2>a DEF Run
  <2>1. /\ q \in Pollers /\ p \in Pollers
        /\ q.token = p.token + 1 /\ q.running = TRUE /\ q.runs = p.runs \cup {n}
    <3> DEFINE N == p.runs \cup {n}
               T == p.token + 1
    <3>1. N \subseteq [token : Nat, at : {"polling", "loose", "cancelled"}]
      BY <2>a, <2>b DEF Pollers
    <3>2. T \in Nat BY <2>a
    <3>3. q = [p EXCEPT !.token = T, !.running = TRUE, !.runs = N] BY <2>a
    <3> HIDE DEF n, q, N, T
    <3>4. q \in Pollers /\ q.token = T /\ q.running = TRUE /\ q.runs = N
      BY <2>a, <3>1, <3>2, <3>3 DEF Pollers
    <3> QED BY <2>a, <3>4 DEF N, T
  <2>2. LiveRuns(p) = {} BY <1>2 DEF PollerOK
  <2>3. n.token = p.token + 1 BY DEF Run
  <2>4. \A r \in p.runs : r.token \in Nat /\ r.token < p.token + 1
    BY <2>1 DEF PollerOK, Pollers
  <2> HIDE DEF q
  <2>5. LiveRuns(q) \subseteq {n} BY <2>1, <2>2 DEF LiveRuns
  <2>6. LiveRuns(q) \subseteq OwnRuns(q)
    BY <2>1, <2>3, <2>5 DEF OwnRuns, LiveRuns
  <2>7. \A r \in q.runs : r.token <= q.token
    BY <2>1, <2>3, <2>4 DEF Pollers
  <2>8. \A r, x \in q.runs : r.token = x.token => r = x
    BY <2>1, <2>3, <2>4 DEF PollerOK, Pollers
  <2>9. ~(Halted(p) /\ ~ctx[g]) BY <1>2 DEF Halted
  <2> QED BY <2>1, <2>6, <2>7, <2>8, <2>9 DEF Keeps, PollerOK, q
<1> QED BY <1>1, <1>2

\* stopLocked leaves no live run.
LEMMA StopLocked ==
  ASSUME NEW p, PollerOK(p)
  PROVE  /\ PollerOK(stopLocked(p)) /\ ~stopLocked(p).running
         /\ stopLocked(p).stopped = p.stopped /\ stopLocked(p).base = p.base
<1> DEFINE q == stopLocked(p)
           f(r) == IF r \in OwnRuns(p) THEN Run(r.token, "cancelled") ELSE r
<1>1. CASE ~p.running
  BY <1>1 DEF stopLocked, PollerOK, Pollers, LiveRuns, OwnRuns
<1>2. CASE p.running
  <2>1. /\ q = [p EXCEPT !.running = FALSE, !.timer = FALSE, !.runs = {f(r) : r \in p.runs}]
        /\ p \in Pollers
    BY <1>2 DEF stopLocked, PollerOK
  <2>2. \A r \in p.runs : /\ r \in [token : Nat, at : {"polling", "loose", "cancelled"}]
                          /\ f(r) \in [token : Nat, at : {"polling", "loose", "cancelled"}]
                          /\ f(r).token = r.token
    BY <2>1 DEF Pollers, Run
  <2>3. /\ q \in Pollers /\ q.runs = {f(r) : r \in p.runs} /\ q.running = FALSE
        /\ q.token = p.token /\ q.stopped = p.stopped /\ q.base = p.base
    <3> DEFINE N == {f(r) : r \in p.runs}
    <3>1. N \subseteq [token : Nat, at : {"polling", "loose", "cancelled"}] BY <2>2
    <3>2. q = [p EXCEPT !.running = FALSE, !.timer = FALSE, !.runs = N] BY <2>1
    <3> HIDE DEF N, q
    <3>3. /\ q \in Pollers /\ q.runs = N /\ q.running = FALSE
          /\ q.token = p.token /\ q.stopped = p.stopped /\ q.base = p.base
      BY <2>1, <3>1, <3>2 DEF Pollers
    <3> QED BY <3>3 DEF N
  <2>4. \A r \in p.runs : f(r).at \notin {"polling", "loose"}
    <3> SUFFICES ASSUME NEW r \in p.runs PROVE f(r).at \notin {"polling", "loose"}
      OBVIOUS
    <3>1. CASE r \in OwnRuns(p) BY <3>1 DEF Run
    <3>2. CASE r \notin OwnRuns(p) BY <3>2 DEF PollerOK, LiveRuns
    <3> QED BY <3>1, <3>2
  <2>5. LiveRuns(q) = {} BY <2>3, <2>4 DEF LiveRuns
  <2>6. \A r \in q.runs : r.token <= q.token BY <2>2, <2>3 DEF PollerOK
  <2>7. \A r, x \in q.runs : r.token = x.token => r = x
    BY <2>2, <2>3 DEF PollerOK
  <2> HIDE DEF q, f
  <2> QED BY <2>3, <2>5, <2>6, <2>7 DEF PollerOK, q
<1> QED BY <1>1, <1>2

\* A poller that differs in neither its runs nor what owns them is in order too.
LEMMA SameRuns ==
  ASSUME NEW p, NEW q, PollerOK(p), q \in Pollers,
         q.runs = p.runs, q.token = p.token, q.running = p.running
  PROVE  PollerOK(q)
BY DEF PollerOK, LiveRuns, OwnRuns

\* A run that ends takes running with it only if it is the latest.
LEMMA EndKeeps ==
  ASSUME NEW g, NEW p, PollerOK(p), NEW r \in p.runs
  PROVE  Keeps(g, p, EndRun(p, r))
<1> DEFINE q == EndRun(p, r)
<1>1. /\ q \in Pollers /\ q.runs = p.runs \ {r} /\ q.token = p.token
      /\ q.running = (IF r.token = p.token THEN FALSE ELSE p.running)
      /\ q.stopped = p.stopped /\ q.base = p.base
  BY DEF EndRun, PollerOK, Pollers
<1>2. LiveRuns(q) = LiveRuns(p) \ {r} BY <1>1 DEF LiveRuns
<1>3. LiveRuns(q) \subseteq OwnRuns(q) BY <1>1, <1>2 DEF PollerOK, OwnRuns, LiveRuns
<1>4. r.token = p.token => LiveRuns(q) = {}
  BY <1>2 DEF PollerOK, OwnRuns, LiveRuns
<1>5. q.running \/ LiveRuns(q) = {} BY <1>1, <1>2, <1>4 DEF PollerOK
<1>6. Halted(p) => Halted(q) BY <1>1 DEF Halted
<1> HIDE DEF q
<1> QED BY <1>1, <1>3, <1>5, <1>6 DEF Keeps, PollerOK, q

LEMMA SetActiveKeeps ==
  ASSUME NEW g, NEW p, PollerOK(p), NEW active \in BOOLEAN
  PROVE  Keeps(g, p, SetActive(g, p, active))
<1>1. CASE p.stopped BY <1>1 DEF SetActive, Keeps
<1>2. CASE ~p.stopped /\ active
  <2> DEFINE q == [p EXCEPT !.active = TRUE, !.timer = FALSE]
  <2>1. /\ q \in Pollers /\ q.runs = p.runs /\ q.token = p.token
        /\ q.running = p.running /\ q.stopped = p.stopped /\ q.base = p.base
    BY DEF PollerOK, Pollers
  <2>2. SetActive(g, p, active) = startLocked(g, q) BY <1>2 DEF SetActive
  <2> HIDE DEF q
  <2>3. PollerOK(q) BY <2>1, SameRuns
  <2>4. Keeps(g, q, startLocked(g, q)) BY <2>3, StartKeeps
  <2> QED BY <2>1, <2>2, <2>4 DEF Keeps, Halted
<1>3. CASE ~p.stopped /\ ~active
  <2> DEFINE q == SetActive(g, p, active)
  <2>1. /\ q \in Pollers /\ q.runs = p.runs /\ q.token = p.token
        /\ q.running = p.running /\ q.stopped = p.stopped /\ q.base = p.base
    BY <1>3 DEF SetActive, IdleScheduled, scheduleIdleStopLocked, PollerOK, Pollers
  <2> HIDE DEF q
  <2>2. PollerOK(q) BY <2>1, SameRuns
  <2> QED BY <2>1, <2>2 DEF Keeps, Halted, q
<1> QED BY <1>1, <1>2, <1>3

LEMMA TouchKeeps ==
  ASSUME NEW g, NEW p, PollerOK(p)
  PROVE  Keeps(g, p, touch(g, p))
<1> DEFINE c == [p EXCEPT !.callback = IF @ = "quiet" THEN "touched" ELSE @]
           q == startLocked(g, c)
<1>1. CASE p.stopped BY <1>1 DEF touch, Keeps
<1>2. CASE ~p.stopped
  <2>1. /\ c \in Pollers /\ c.runs = p.runs /\ c.token = p.token
        /\ c.running = p.running /\ c.stopped = p.stopped /\ c.base = p.base
    BY DEF PollerOK, Pollers
  <2>2. touch(g, p) = IF q.active THEN q ELSE scheduleIdleStopLocked(q)
    BY <1>2 DEF touch
  <2> HIDE DEF c
  <2>3. PollerOK(c) BY <2>1, SameRuns
  <2>4. Keeps(g, c, q) BY <2>3, StartKeeps
  <2> HIDE DEF q
  <2>5. PollerOK(q) /\ (Halted(p) /\ ~ctx[g] => Halted(q))
    BY <2>1, <2>4 DEF Keeps, Halted
  <2> DEFINE t == scheduleIdleStopLocked(q)
  <2>6. /\ t \in Pollers /\ t.runs = q.runs /\ t.token = q.token
        /\ t.running = q.running /\ t.stopped = q.stopped /\ t.base = q.base
    BY <2>5 DEF scheduleIdleStopLocked, PollerOK, Pollers
  <2> HIDE DEF t
  <2>7. PollerOK(t) BY <2>5, <2>6, SameRuns
  <2>8. Keeps(g, p, t) BY <2>5, <2>6, <2>7 DEF Keeps, Halted
  <2>9. touch(g, p) = IF q.active THEN q ELSE t BY <2>2 DEF t
  <2> QED BY <2>5, <2>8, <2>9 DEF Keeps
<1> QED BY <1>1, <1>2

\* Stop halts the poller, whatever it did.
LEMMA StopHalts ==
  ASSUME NEW p, PollerOK(p)
  PROVE  PollerOK(Stop(p)) /\ Halted(Stop(p))
<1> DEFINE q == [p EXCEPT !.stopped = TRUE, !.active = FALSE, !.base = FALSE]
<1>1. /\ q \in Pollers /\ q.runs = p.runs /\ q.token = p.token
      /\ q.running = p.running /\ q.stopped = TRUE
  BY DEF PollerOK, Pollers
<1>2. Stop(p) = stopLocked(q) BY DEF Stop
<1> HIDE DEF q
<1>3. PollerOK(q) BY <1>1, SameRuns
<1> QED BY <1>1, <1>2, <1>3, StopLocked DEF Halted

\* A poller that gets its context after Stop does not run again on a dead one.
LEMMA PollerStartKeeps ==
  ASSUME NEW g, NEW p, PollerOK(p), NEW q,
         q = [p EXCEPT !.stopped = FALSE, !.base = TRUE]
  PROVE  Keeps(g, p, IF q.active THEN startLocked(g, q) ELSE q)
<1>1. /\ q \in Pollers /\ q.runs = p.runs /\ q.token = p.token
      /\ q.running = p.running /\ q.base = TRUE
  BY DEF PollerOK, Pollers
<1>2. PollerOK(q) BY <1>1, SameRuns
<1>3. Keeps(g, q, startLocked(g, q)) BY <1>2, StartKeeps
<1>4. Halted(p) => Halted(q) BY <1>1 DEF Halted
<1> QED BY <1>2, <1>3, <1>4 DEF Keeps

\* handleIdleTimeout stops, schedules again or does nothing.
LEMMA IdleKeeps ==
  ASSUME NEW g, NEW p, PollerOK(p), NEW q, q = [p EXCEPT !.callback = "none"]
  PROVE  /\ Keeps(g, p, q) /\ Keeps(g, p, scheduleIdleStopLocked(q))
         /\ Keeps(g, p, stopLocked(q))
<1>1. /\ q \in Pollers /\ q.runs = p.runs /\ q.token = p.token
      /\ q.running = p.running /\ q.stopped = p.stopped /\ q.base = p.base
  BY DEF PollerOK, Pollers
<1>2. PollerOK(q) BY <1>1, SameRuns
<1> DEFINE t == scheduleIdleStopLocked(q)
<1>3. /\ t \in Pollers /\ t.runs = q.runs /\ t.token = q.token
      /\ t.running = q.running /\ t.stopped = q.stopped /\ t.base = q.base
  BY <1>1 DEF scheduleIdleStopLocked, Pollers
<1> HIDE DEF t
<1>4. PollerOK(t) BY <1>2, <1>3, SameRuns
<1>5. Keeps(g, p, q) /\ Keeps(g, p, t) BY <1>1, <1>2, <1>3, <1>4 DEF Keeps, Halted
<1>6. Keeps(g, p, stopLocked(q)) BY <1>1, <1>2, StopLocked DEF Keeps, Halted
<1> QED BY <1>5, <1>6 DEF t
-----------------------------------------------------------------------------
\* A step that turns one poller into one in order keeps them all in order.
LEMMA OnePoller ==
  ASSUME IInv, NEW g \in Gens, NEW q, Keeps(g, poller[g], q), Set(g, q), GensOK',
         \A h \in Gens : mgr'[h].stop = "done" =>
            mgr[h].stop = "done" \/ (h = g /\ Halted(q))
  PROVE  PollersOK'
<1>1. poller' = [poller EXCEPT ![g] = q] /\ q \in Pollers
  BY DEF Set, Keeps, PollerOK
<1>2. poller' \in [Gens -> Pollers] BY <1>1 DEF IInv, PollersOK
<1>3. poller'[g] = q /\ \A h \in Gens : h # g => poller'[h] = poller[h]
  BY <1>1 DEF IInv, PollersOK
<1>4. \A h \in Gens : PollerOK(poller'[h])
  BY <1>3 DEF Keeps, IInv, PollersOK
<1>5. \A h \in Gens : mgr'[h].stop = "done" => Halted(poller'[h])
  <2> SUFFICES ASSUME NEW h \in Gens, mgr'[h].stop = "done" PROVE Halted(poller'[h])
    OBVIOUS
  <2>1. CASE h = g /\ Halted(q) BY <1>3, <2>1
  <2>2. CASE mgr[h].stop = "done"
    <3>1. Halted(poller[h]) /\ ~ctx[h] BY <2>2 DEF IInv, PollersOK, GensOK
    <3> QED BY <1>3, <3>1 DEF Keeps
  <2> QED BY <2>1, <2>2
<1> QED BY <1>2, <1>4, <1>5 DEF PollersOK, PollerOK, LiveRuns, OwnRuns, Halted

LEMMA InitIInv == Init => IInv
<1> SUFFICES ASSUME Init PROVE IInv OBVIOUS
<1>1. GensOK BY DEF Init, GensOK
<1>2. NewPoller \in Pollers /\ NewPoller.runs = {} BY DEF NewPoller, Pollers
<1>3. PollerOK(NewPoller) BY <1>2 DEF PollerOK, LiveRuns, OwnRuns
<1>4. PollersOK BY <1>2, <1>3 DEF Init, PollersOK
<1>5. 1 \in Controllers /\ 1 \in Gens
  BY GensAssumption, SetupsAssumption DEF Controllers, Gens
<1>6. Front
  BY <1>5, BudgetAssumption DEF Init, Front, Quiet, NoPost
<1> QED BY <1>1, <1>4, <1>6 DEF IInv

LEMMA SpendTyped ==
  ASSUME left \in [Events -> Nat], NEW e \in Events \ {"any"}, Spend(e)
  PROVE  left' \in [Events -> Nat]
BY DEF Spend, Events

LEMMA UpdateTyped ==
  ASSUME NEW wanted \in BOOLEAN,
         NEW d \in [status : {"idle", "requesting", "waiting"},
                    applied : BOOLEAN, key : BOOLEAN],
         NEW p \in [at : {"none", "sent", "admitted", "refused", "served"},
                    by : Controllers],
         Update(wanted, d, p)
  PROVE  /\ demand' \in [status : {"idle", "requesting", "waiting"},
                         applied : BOOLEAN, key : BOOLEAN]
         /\ post' \in [at : {"none", "sent", "admitted", "refused", "served"},
                       by : Controllers]
<1>1. 1 \in Controllers BY SetupsAssumption DEF Controllers
<1>2. UpdatedDemand(wanted, d) \in [status : {"idle", "requesting", "waiting"},
                                   applied : BOOLEAN, key : BOOLEAN]
  BY DEF UpdatedDemand
<1> QED BY <1>1, <1>2 DEF Update, NoPost

\* The steps of goroutines and pollers touch nothing of it.
GoroutineStep(g) ==
  \/ ManagerStarts(g) \/ HubRefuses(g) \/ PollerStarts(g) \/ GenerationStops(g)
  \/ PollerStops(g) \/ TimerFires(g) \/ IdleEnds(g) \/ \E r \in Runs(g) : RunEnds(g, r)

LEMMA FrontStep ==
  ASSUME Front, [Next]_vars
  PROVE  Front'
<1> USE DEF Front
<1>1. CASE UNCHANGED vars BY <1>1 DEF vars
<1>2. ASSUME NEW g \in Gens, GoroutineStep(g) PROVE Front'
  BY <1>2 DEF GoroutineStep, ManagerStarts, HubRefuses, PollerStarts, GenerationStops,
     PollerStops, TimerFires, IdleEnds, RunEnds, outside, routing
<1>3. ASSUME NEW g \in Gens, Reads(g) PROVE Front'
  <2>1. left' \in [Events -> Nat] BY <1>3, SpendTyped DEF Reads, Events
  <2> QED BY <1>3, <2>1 DEF Reads, routing
<1>4. CASE LeaseChanges
  <2>1. left' \in [Events -> Nat] BY <1>4, SpendTyped DEF LeaseChanges, Events
  <2>2. (~want) \in BOOLEAN
    <3>1. (~want) = TRUE \/ (~want) = FALSE BY Zenon
    <3> QED BY <3>1
  <2>3. Update(~want, demand, post) BY <1>4 DEF LeaseChanges
  <2>4. want' \in BOOLEAN BY <1>4 DEF LeaseChanges
  <2> QED BY <1>4, <2>1, <2>2, <2>3, <2>4, UpdateTyped DEF LeaseChanges, routing
<1>5. CASE PostArrives BY <1>5 DEF PostArrives, routing
<1>6. CASE PostIsServed BY <1>6 DEF PostIsServed, SetMetricsActive
<1>7. CASE OtherWindowPosts
  <2>1. left' \in [Events -> Nat] BY <1>7, SpendTyped DEF OtherWindowPosts, Events
  <2> QED BY ZenonT(60), <1>7, <2>1 DEF OtherWindowPosts, SetMetricsActive
<1>8. CASE PostSucceeds \/ PostFails \/ RetryFires
  <2>1. NoPost \in [at : {"none", "sent", "admitted", "refused", "served"},
                    by : Controllers]
    BY SetupsAssumption DEF NoPost, Controllers
  <2>2. ASSUME NEW d \in [status : {"idle", "requesting", "waiting"},
                          applied : BOOLEAN, key : BOOLEAN],
               Update(want, d, NoPost), UNCHANGED <<left, want, routing>>
        PROVE  Front'
    BY <2>1, <2>2, UpdateTyped DEF routing
  <2>3. CASE PostSucceeds BY <2>2, <2>3 DEF PostSucceeds
  <2>4. CASE PostFails /\ want = demand.key BY <2>1, <2>4 DEF PostFails, routing
  <2>5. CASE PostFails /\ want # demand.key BY <2>2, <2>5 DEF PostFails
  <2>6. CASE RetryFires BY <2>2, <2>6 DEF RetryFires
  <2> QED BY <1>8, <2>3, <2>4, <2>5, <2>6
<1>9. CASE Build \/ RollBack \/ TearDownCluster \/ TearDown
  <2>1. left' \in [Events -> Nat]
    BY <1>9, SpendTyped DEF Build, RollBack, TearDownCluster, TearDown, Events
  <2>2. built \in Nat /\ 1 .. built \subseteq Gens /\ Fresh \subseteq Gens
    BY GensAssumption DEF Gens, Fresh
  <2>3. CASE Build BY <2>1, <2>2, <2>3, GensAssumption DEF Build, Gens
  <2>4. CASE RollBack BY <2>1, <2>2, <2>4 DEF RollBack
  <2>5. CASE TearDownCluster
    <3>1. Routed \in Gens
      BY <2>5 DEF TearDownCluster, Routed
    <3>2. ctl' \in [current : Controllers, demanded : [Controllers -> BOOLEAN],
                    routes : [Controllers -> Gens \cup {NoGen}]]
      BY <2>5 DEF TearDownCluster
    <3> QED BY <2>1, <2>5, <3>1, <3>2 DEF TearDownCluster
  <2>6. CASE TearDown BY <2>1, <2>2, <2>6 DEF TearDown
  <2> QED BY <1>9, <2>3, <2>4, <2>5, <2>6
<1>10. ASSUME NEW g \in Gens, Route(g) PROVE Front'
  <2>1. Routed \in Gens \cup {NoGen} BY DEF Routed
  <2> QED BY <1>10, <2>1 DEF Route, outside
<1>11. ASSUME NEW g \in Gens, SetUp(g) PROVE Front'
  <2>1. ctl.current + 1 \in Controllers
    BY <1>11, SetupsAssumption DEF SetUp, Controllers
  <2> QED BY <1>11, <2>1 DEF SetUp, outside
<1> QED BY <1>1, <1>2, <1>3, <1>4, <1>5, <1>6, <1>7, <1>8, <1>9, <1>10, <1>11
       DEF Next, GoroutineStep

\* Only a generation that stops loses its context, and it loses it first.
LEMMA GensStep ==
  ASSUME IInv, [Next]_vars
  PROVE  GensOK'
<1> USE DEF IInv, GensOK
<1>1. CASE UNCHANGED vars BY <1>1 DEF vars
<1>2. ASSUME NEW g \in Gens,
             \/ ManagerStarts(g) \/ HubRefuses(g) \/ PollerStarts(g)
             \/ GenerationStops(g) \/ PollerStops(g)
      PROVE  GensOK'
  <2>1. CASE ManagerStarts(g) BY <2>1 DEF ManagerStarts
  <2>2. CASE HubRefuses(g) BY <2>2 DEF HubRefuses
  <2>3. CASE PollerStarts(g) BY <2>3 DEF PollerStarts
  <2>4. CASE GenerationStops(g) BY <2>4 DEF GenerationStops
  <2>5. CASE PollerStops(g) BY <2>5 DEF PollerStops
  <2> QED BY <1>2, <2>1, <2>2, <2>3, <2>4, <2>5
<1>3. CASE UNCHANGED <<mgr, ctx>> BY <1>3
<1>4. ASSUME NEW g \in Gens,
             \/ Reads(g) \/ TimerFires(g) \/ IdleEnds(g) \/ Route(g) \/ SetUp(g)
             \/ \E r \in Runs(g) : RunEnds(g, r)
      PROVE  UNCHANGED <<mgr, ctx>>
  BY <1>4 DEF Reads, TimerFires, IdleEnds, Route, SetUp, RunEnds
<1>5. CASE \/ LeaseChanges \/ PostArrives \/ PostIsServed \/ PostSucceeds \/ PostFails
           \/ RetryFires \/ OtherWindowPosts
           \/ Build \/ RollBack \/ TearDownCluster \/ TearDown
  BY <1>3, <1>5 DEF LeaseChanges, PostArrives, PostIsServed, PostSucceeds, PostFails,
     RetryFires, OtherWindowPosts, Build, RollBack, TearDownCluster, TearDown
<1> QED BY <1>1, <1>2, <1>3, <1>4, <1>5 DEF Next

\* The pollers: one step per function of demand.go that an action calls.
LEMMA PollersStep ==
  ASSUME IInv, [Next]_vars, GensOK'
  PROVE  PollersOK'
<1>0. \A g \in Gens : PollerOK(poller[g]) /\ poller[g] \in Pollers
  BY DEF IInv, PollersOK
<1>a. ASSUME UNCHANGED poller,
             \A h \in Gens : mgr'[h].stop = "done" => mgr[h].stop = "done"
      PROVE  PollersOK'
  BY <1>a DEF IInv, PollersOK, PollerOK, LiveRuns, OwnRuns, Halted
<1>b. ASSUME NEW g \in Gens, NEW q, Keeps(g, poller[g], q), Set(g, q), UNCHANGED mgr
      PROVE  PollersOK'
  BY <1>b, OnePoller
<1>c. ASSUME NEW c \in Controllers, NEW wanted \in BOOLEAN,
             SetMetricsActive(c, wanted), UNCHANGED mgr
      PROVE  PollersOK'
  <2> DEFINE g == ctl.routes[c]
             q == SetActive(g, poller[g], wanted)
  <2>1. CASE g = NoGen BY <1>a, <1>c, <2>1 DEF SetMetricsActive
  <2>2. CASE g # NoGen
    <3>1. g \in Gens BY <2>2 DEF IInv, Front
    <3>2. Set(g, q) BY <1>c, <2>2, <3>1 DEF SetMetricsActive, Set, IInv, PollersOK
    <3>3. Keeps(g, poller[g], q) BY <1>0, <3>1, SetActiveKeeps
    <3> HIDE DEF g, q
    <3> QED BY <1>b, <1>c, <3>1, <3>2, <3>3
  <2> QED BY <2>1, <2>2
<1>1. CASE UNCHANGED vars BY <1>1, <1>a DEF vars
<1>2. ASSUME NEW g \in Gens, ManagerStarts(g) \/ HubRefuses(g) \/ GenerationStops(g)
      PROVE  PollersOK'
  BY <1>2, <1>a DEF ManagerStarts, HubRefuses, GenerationStops, IInv, GensOK
<1>3. ASSUME NEW g \in Gens, PollerStarts(g) PROVE PollersOK'
  <2> DEFINE p == [poller[g] EXCEPT !.stopped = FALSE, !.base = TRUE]
             q == IF p.active THEN startLocked(g, p) ELSE p
  <2>1. Set(g, q) BY <1>3 DEF PollerStarts
  <2>2. \A h \in Gens : mgr'[h].stop = "done" => mgr[h].stop = "done"
    BY <1>3 DEF PollerStarts, IInv, GensOK
  <2>3. Keeps(g, poller[g], q) BY <1>0, PollerStartKeeps
  <2> HIDE DEF q
  <2> QED BY <2>1, <2>2, <2>3, OnePoller
<1>4. ASSUME NEW g \in Gens, PollerStops(g) PROVE PollersOK'
  <2> DEFINE q == Stop(poller[g])
  <2>1. PollerOK(q) /\ Halted(q) BY <1>0, StopHalts
  <2>2. Set(g, q) BY <1>4 DEF PollerStops
  <2>3. \A h \in Gens : mgr'[h].stop = "done" => mgr[h].stop = "done" \/ h = g
    BY <1>4 DEF PollerStops, IInv, GensOK
  <2> HIDE DEF q
  <2> QED BY <2>1, <2>2, <2>3, OnePoller DEF Keeps
<1>5. ASSUME NEW g \in Gens, Reads(g) PROVE PollersOK'
  BY <1>0, <1>5, <1>b, TouchKeeps DEF Reads
<1>6. ASSUME NEW g \in Gens, TimerFires(g) PROVE PollersOK'
  <2> DEFINE p == poller[g]
             q == [p EXCEPT !.timer = FALSE, !.callback = "quiet"]
  <2>1. /\ q \in Pollers /\ q.runs = p.runs /\ q.token = p.token
        /\ q.running = p.running /\ q.stopped = p.stopped /\ q.base = p.base
    BY <1>0 DEF Pollers
  <2>2. Set(g, q) /\ UNCHANGED mgr BY <1>6 DEF TimerFires
  <2> HIDE DEF q
  <2>3. Keeps(g, p, q) BY <1>0, <2>1, SameRuns DEF Keeps, Halted
  <2> QED BY <1>b, <2>2, <2>3
<1>7. ASSUME NEW g \in Gens, IdleEnds(g) PROVE PollersOK'
  <2> DEFINE p == [poller[g] EXCEPT !.callback = "none"]
  <2>1. /\ Keeps(g, poller[g], p) /\ Keeps(g, poller[g], scheduleIdleStopLocked(p))
        /\ Keeps(g, poller[g], stopLocked(p))
    BY <1>0, IdleKeeps
  <2>2. /\ Set(g, p) \/ Set(g, scheduleIdleStopLocked(p)) \/ Set(g, stopLocked(p))
        /\ UNCHANGED mgr
    BY <1>7 DEF IdleEnds
  <2> HIDE DEF p
  <2> QED BY <1>b, <2>1, <2>2
<1>8. ASSUME NEW g \in Gens, NEW r \in Runs(g), RunEnds(g, r) PROVE PollersOK'
  <2>1. r \in poller[g].runs BY <1>8 DEF RunEnds
  <2> QED BY <1>0, <1>8, <1>b, <2>1, EndKeeps DEF RunEnds
<1>9. ASSUME NEW g \in Gens, Route(g) PROVE PollersOK'
  <2>1. Retained(g) \in BOOLEAN BY DEF Retained, IInv, Front
  <2>2. Keeps(g, poller[g], SetActive(g, poller[g], Retained(g)))
    BY <1>0, <2>1, SetActiveKeeps
  <2> QED BY <1>9, <1>b, <2>2 DEF Route
<1>10. CASE PostIsServed
  BY <1>10, <1>c DEF PostIsServed, IInv, Front
<1>11. CASE OtherWindowPosts
  <2>1. ctl.current \in Controllers BY DEF IInv, Front
  <2> QED BY <1>11, <1>c, <2>1 DEF OtherWindowPosts
<1>12. CASE \/ LeaseChanges \/ PostArrives \/ PostSucceeds \/ PostFails \/ RetryFires
            \/ Build \/ RollBack \/ TearDownCluster \/ TearDown
            \/ \E g \in Gens : SetUp(g)
  BY <1>12, <1>a DEF LeaseChanges, PostArrives, PostSucceeds, PostFails, RetryFires,
     Build, RollBack, TearDownCluster, TearDown, SetUp, routing
<1> QED BY <1>1, <1>2, <1>3, <1>4, <1>5, <1>6, <1>7, <1>8, <1>9, <1>10, <1>11, <1>12
       DEF Next
-----------------------------------------------------------------------------
LEMMA Invariance == Spec => []IInv
<1>1. IInv /\ [Next]_vars => IInv'
  <2> SUFFICES ASSUME IInv, [Next]_vars PROVE IInv' OBVIOUS
  <2>1. Front' BY FrontStep DEF IInv
  <2>2. GensOK' BY GensStep
  <2>3. PollersOK' BY <2>2, PollersStep
  <2> QED BY <2>1, <2>2, <2>3 DEF IInv
<1> QED BY <1>1, InitIInv, PTL DEF Spec

\* Every variable keeps its type.
THEOREM TypeCorrect == Spec => []TypeOK
<1>1. IInv => TypeOK BY DEF IInv, Front, GensOK, PollersOK, TypeOK
<1> QED BY <1>1, Invariance, PTL

\* A generation never polls twice at a time, no run is left that nobody can end,
\* and a manager that was started and shut down polls no more (demand.go).
THEOREM OwnedRuns == Spec => []PollsAreOwned
<1>1. IInv => PollsAreOwned
  <2> SUFFICES ASSUME IInv, NEW g \in Gens
               PROVE  /\ poller[g].running \/ LiveRuns(poller[g]) = {}
                      /\ LiveRuns(poller[g]) \subseteq OwnRuns(poller[g])
                      /\ mgr[g].stop = "done" => LiveRuns(poller[g]) = {}
    BY DEF PollsAreOwned
  <2> QED BY DEF IInv, PollersOK, PollerOK, Halted
<1> QED BY <1>1, Invariance, PTL

-----------------------------------------------------------------------------
(***************************************************************************)
(* The refresh manager                                                     *)
(***************************************************************************)
\* The refresher is registered, enabled and not paused.
On(m) == m.current # None /\ m.inst[m.current].intent = "enabled" /\ ~m.paused

\* An execution is a call that runs for its instance; only a call that is not
\* automatic meets one.
CallsInPlace(m) ==
  /\ \A i \in Instances : m.inst[i].execution # None =>
       m.run[m.inst[i].execution].pc = "runs" /\ m.run[m.inst[i].execution].inst = i
  /\ \A r \in Calls : m.run[r].pc # "none" => m.run[r].inst \in Instances
  /\ \A r \in Calls : m.run[r].pc = "waits" => m.run[r].invocation # "automatic"

\* The cooldown an instance records is armed, its own, and the only one of its id.
CooldownsInPlace(m) ==
  /\ \A t, u \in m.cooldowns : t.id = u.id => t = u
  /\ \A i \in Instances : m.inst[i].cooldown # None =>
       \E t \in m.cooldowns : t.id = m.inst[i].cooldown /\ t.inst = i

\* An interval is armed just where it is recorded, for the scheduled instance only.
IntervalsInPlace(m) ==
  /\ \A t \in m.intervals : On(m) /\ t.inst = m.current /\ t.id = m.inst[t.inst].interval
  /\ \A i \in Instances : m.inst[i].interval # None =>
       \E t \in m.intervals : t.id = m.inst[i].interval /\ t.inst = i

Unaborted(m, r) == m.run[r].pc = "runs" /\ ~m.run[r].aborted
RunsOwned(m) ==
  \A r \in Calls : Unaborted(m, r) /\ ~m.overlapped =>
     /\ m.inst[m.run[r].inst].execution = r
     /\ m.run[r].inst = m.current /\ m.run[r].invocation = "automatic" => On(m)

Sound(m) ==
  m \in Managers /\ CallsInPlace(m) /\ CooldownsInPlace(m) /\ IntervalsInPlace(m) /\ RunsOwned(m)

\* The intent says whether the manager is paused.
IntentInStep(m) ==
  m.current # None /\ m.inst[m.current].intent # "disabled" =>
    (m.inst[m.current].intent = "paused" <=> m.paused)

Manual(m) ==
  IsManual(m, m.inst[m.current].execution) \/ ManualCooldown(m, m.current)
Cadence(m) == On(m) => m.intervals # {} \/ Manual(m) \/ m.lost # "no"

Good(m) == Sound(m) /\ IntentInStep(m) /\ Cadence(m)

\* The cooldown is the one its instance records.
OwnOf(m, t) == t.id = m.inst[t.inst].cooldown
-----------------------------------------------------------------------------
\* clearTimers forgets the timers of one instance and nothing else.
LEMMA ClearFields ==
  ASSUME NEW m \in Managers, NEW i \in Instances, NEW q, q = ClearTimers(m, i)
  PROVE  /\ q \in Managers
         /\ q.paused = m.paused /\ q.overlapped = m.overlapped /\ q.lost = m.lost
         /\ q.current = m.current /\ q.run = m.run
         /\ q.intervals = {t \in m.intervals : t.id # m.inst[i].interval}
         /\ q.cooldowns = {t \in m.cooldowns : t.id # m.inst[i].cooldown}
         /\ \A j \in Instances :
              /\ q.inst[j].intent = m.inst[j].intent
              /\ q.inst[j].execution = m.inst[j].execution
              /\ q.inst[j].interval = IF j = i THEN None ELSE m.inst[j].interval
              /\ q.inst[j].cooldown = IF j = i THEN None ELSE m.inst[j].cooldown
<1> DEFINE A == {t \in m.intervals : t.id # m.inst[i].interval}
           B == {t \in m.cooldowns : t.id # m.inst[i].cooldown}
           e == [m.inst[i] EXCEPT !.interval = None, !.cooldown = None]
           I == [m.inst EXCEPT ![i] = e]
<1>1. q = [m EXCEPT !.intervals = A, !.cooldowns = B, !.inst = I]
  BY DEF ClearTimers, WithoutTimer, Managers
<1>2. m.inst \in [Instances -> InstanceStates] BY DEF Managers
<1>3. e \in InstanceStates /\ e.interval = None /\ e.cooldown = None
      /\ e.intent = m.inst[i].intent /\ e.execution = m.inst[i].execution
  BY <1>2 DEF InstanceStates
<1>4. /\ I \in [Instances -> InstanceStates]
      /\ \A j \in Instances : I[j] = IF j = i THEN e ELSE m.inst[j]
  BY <1>2, <1>3
<1>5. /\ A \in SUBSET [id : Timers, inst : Instances]
      /\ B \in SUBSET [id : Timers, inst : Instances, manual : BOOLEAN, retry : BOOLEAN]
  BY DEF Managers
<1>6. A = {t \in m.intervals : t.id # m.inst[i].interval}
      /\ B = {t \in m.cooldowns : t.id # m.inst[i].cooldown}
  OBVIOUS
<1> HIDE DEF A, B, e, I
<1>7. /\ q \in Managers /\ q.inst = I /\ q.intervals = A /\ q.cooldowns = B
      /\ q.paused = m.paused /\ q.overlapped = m.overlapped /\ q.lost = m.lost
      /\ q.current = m.current /\ q.run = m.run
  BY <1>1, <1>4, <1>5 DEF Managers
<1> QED BY <1>3, <1>4, <1>6, <1>7

\* What each instance and call of a manager is.
LEMMA Fields ==
  ASSUME NEW m \in Managers
  PROVE  /\ m.paused \in BOOLEAN /\ m.overlapped \in BOOLEAN
         /\ m.lost \in {"no", "cancelled", "superseded"}
         /\ m.current \in Instances \cup {None}
         /\ m.inst \in [Instances -> InstanceStates] /\ m.run \in [Calls -> CallStates]
         /\ m.intervals \subseteq [id : Timers, inst : Instances]
         /\ m.cooldowns \subseteq [id : Timers, inst : Instances, manual : BOOLEAN, retry : BOOLEAN]
BY DEF Managers

LEMMA Elements ==
  ASSUME NEW m \in Managers
  PROVE  /\ \A i \in Instances : /\ m.inst[i].interval \in Timers \cup {None}
                                 /\ m.inst[i].cooldown \in Timers \cup {None}
                                 /\ m.inst[i].execution \in Calls \cup {None}
         /\ \A r \in Calls : /\ m.run[r].inst \in Instances \cup {None}
                             /\ m.run[r].aborted \in BOOLEAN
         /\ \A t \in m.intervals : t.id \in Timers /\ t.inst \in Instances
         /\ \A t \in m.cooldowns : t.id \in Timers /\ t.inst \in Instances
<1>1. /\ m.inst \in [Instances -> InstanceStates] /\ m.run \in [Calls -> CallStates]
      /\ m.intervals \subseteq [id : Timers, inst : Instances]
      /\ m.cooldowns \subseteq [id : Timers, inst : Instances, manual : BOOLEAN, retry : BOOLEAN]
  BY Fields
<1>2. /\ \A i \in Instances : m.inst[i] \in InstanceStates
      /\ \A r \in Calls : m.run[r] \in CallStates
  BY <1>1
<1> QED BY <1>1, <1>2 DEF InstanceStates, CallStates

LEMMA NoneIsNoId == None \notin Timers /\ None \notin Instances /\ None \notin Calls
BY DEF None, Timers, Instances, Calls

\* The timers it disarms are those of that instance.
LEMMA ClearSound ==
  ASSUME NEW m, NEW i \in Instances, NEW q, q = ClearTimers(m, i), Sound(m)
  PROVE  /\ Sound(q)
         /\ i = m.current => q.intervals = {}
         /\ i # m.current => \A t \in m.intervals : t \in q.intervals
         /\ \A t \in m.cooldowns : t.inst # i /\ OwnOf(m, t) => t \in q.cooldowns
<1>f. /\ q \in Managers
      /\ q.paused = m.paused /\ q.overlapped = m.overlapped /\ q.lost = m.lost
      /\ q.current = m.current /\ q.run = m.run
      /\ q.intervals = {t \in m.intervals : t.id # m.inst[i].interval}
      /\ q.cooldowns = {t \in m.cooldowns : t.id # m.inst[i].cooldown}
      /\ \A j \in Instances :
           /\ q.inst[j].intent = m.inst[j].intent
           /\ q.inst[j].execution = m.inst[j].execution
           /\ q.inst[j].interval = IF j = i THEN None ELSE m.inst[j].interval
           /\ q.inst[j].cooldown = IF j = i THEN None ELSE m.inst[j].cooldown
  BY ClearFields DEF Sound
<1>e. /\ \A t \in m.intervals : t.id \in Timers /\ t.inst \in Instances
      /\ \A t \in m.cooldowns : t.id \in Timers /\ t.inst \in Instances
      /\ m.current \in Instances \cup {None}
      /\ \A r \in Calls : m.run[r].inst \in Instances \cup {None}
  BY Elements, Fields DEF Sound
<1>n. None \notin Timers /\ None \notin Instances /\ None \notin Calls BY NoneIsNoId
<1>on. On(q) <=> On(m)
  BY <1>f, <1>e DEF On
<1>1. CallsInPlace(q)
  BY <1>f DEF Sound, CallsInPlace
<1>2. \A t \in m.cooldowns : t.inst # i /\ OwnOf(m, t) => t.id # m.inst[i].cooldown
  <2> SUFFICES ASSUME NEW t \in m.cooldowns, t.inst # i, OwnOf(m, t), t.id = m.inst[i].cooldown
               PROVE  FALSE
    OBVIOUS
  <2>1. PICK u \in m.cooldowns : u.id = m.inst[i].cooldown /\ u.inst = i
    BY <1>e, <1>n DEF Sound, CooldownsInPlace
  <2> QED BY <2>1 DEF Sound, CooldownsInPlace
<1>3. CooldownsInPlace(q)
  <2>1. \A t, u \in q.cooldowns : t.id = u.id => t = u
    BY <1>f DEF Sound, CooldownsInPlace
  <2>2. ASSUME NEW j \in Instances, q.inst[j].cooldown # None
        PROVE  \E t \in q.cooldowns : t.id = q.inst[j].cooldown /\ t.inst = j
    <3>1. j # i /\ q.inst[j].cooldown = m.inst[j].cooldown BY <2>2, <1>f
    <3>2. PICK t \in m.cooldowns : t.id = m.inst[j].cooldown /\ t.inst = j
      BY <2>2, <3>1 DEF Sound, CooldownsInPlace
    <3>3. t.id # m.inst[i].cooldown BY <3>1, <3>2, <1>2 DEF OwnOf
    <3> QED BY <1>f, <3>1, <3>2, <3>3
  <2> QED BY <2>1, <2>2 DEF CooldownsInPlace
<1>4. i # m.current => \A t \in m.intervals : t.id # m.inst[i].interval
  <2> SUFFICES ASSUME i # m.current, NEW t \in m.intervals, t.id = m.inst[i].interval
               PROVE  FALSE
    OBVIOUS
  <2>1. PICK u \in m.intervals : u.inst = i
    BY <1>e, <1>n DEF Sound, IntervalsInPlace
  <2> QED BY <2>1 DEF Sound, IntervalsInPlace
<1>5. i = m.current => q.intervals = {}
  BY <1>f DEF Sound, IntervalsInPlace
<1>6. IntervalsInPlace(q)
  <2>1. ASSUME NEW t \in q.intervals
        PROVE  On(q) /\ t.inst = q.current /\ t.id = q.inst[t.inst].interval
    <3>1. t \in m.intervals /\ i # m.current BY <2>1, <1>f, <1>5
    <3>2. On(m) /\ t.inst = m.current /\ t.id = m.inst[t.inst].interval
      BY <3>1 DEF Sound, IntervalsInPlace
    <3> QED BY <3>1, <3>2, <1>f, <1>e, <1>on
  <2>2. ASSUME NEW j \in Instances, q.inst[j].interval # None
        PROVE  \E t \in q.intervals : t.id = q.inst[j].interval /\ t.inst = j
    <3>1. j # i /\ q.inst[j].interval = m.inst[j].interval BY <2>2, <1>f
    <3>2. PICK t \in m.intervals : t.id = m.inst[j].interval /\ t.inst = j
      BY <2>2, <3>1 DEF Sound, IntervalsInPlace
    <3>3. i # m.current BY <3>1, <3>2 DEF Sound, IntervalsInPlace
    <3> QED BY <1>f, <1>4, <3>1, <3>2, <3>3
  <2> QED BY <2>1, <2>2 DEF IntervalsInPlace
<1>7. RunsOwned(q)
  <2> SUFFICES ASSUME NEW r \in Calls, Unaborted(q, r), ~q.overlapped
               PROVE  /\ q.inst[q.run[r].inst].execution = r
                      /\ q.run[r].inst = q.current /\ q.run[r].invocation = "automatic" => On(q)
    BY DEF RunsOwned
  <2>1. Unaborted(m, r) /\ ~m.overlapped /\ m.run[r].inst \in Instances
    BY <1>f DEF Unaborted, Sound, CallsInPlace
  <2>2. /\ m.inst[m.run[r].inst].execution = r
        /\ m.run[r].inst = m.current /\ m.run[r].invocation = "automatic" => On(m)
    BY <2>1 DEF Sound, RunsOwned
  <2> QED BY <2>1, <2>2, <1>f, <1>on
<1> QED BY <1>f, <1>1, <1>2, <1>3, <1>4, <1>5, <1>6, <1>7 DEF Sound

-----------------------------------------------------------------------------
\* One call, or one instance, changes.
WithCall(m, r, c) == [m EXCEPT !.run[r] = c]
WithInstance(m, i, c) == [m EXCEPT !.inst[i] = c]

LEMMA RunUpdate ==
  ASSUME NEW m \in Managers, NEW r \in Calls, NEW c \in CallStates,
         NEW q, q = WithCall(m, r, c)
  PROVE  /\ q \in Managers
         /\ q.paused = m.paused /\ q.overlapped = m.overlapped /\ q.lost = m.lost
         /\ q.current = m.current /\ q.inst = m.inst
         /\ q.intervals = m.intervals /\ q.cooldowns = m.cooldowns
         /\ \A x \in Calls : q.run[x] = IF x = r THEN c ELSE m.run[x]
<1> DEFINE R == [m.run EXCEPT ![r] = c]
<1>1. q = [m EXCEPT !.run = R] BY DEF Managers, WithCall
<1>2. R \in [Calls -> CallStates] /\ \A x \in Calls : R[x] = IF x = r THEN c ELSE m.run[x]
  BY Fields
<1> HIDE DEF R
<1> QED BY <1>1, <1>2 DEF Managers

LEMMA InstanceUpdate ==
  ASSUME NEW m \in Managers, NEW i \in Instances, NEW c \in InstanceStates,
         NEW q, q = WithInstance(m, i, c)
  PROVE  /\ q \in Managers
         /\ q.paused = m.paused /\ q.overlapped = m.overlapped /\ q.lost = m.lost
         /\ q.current = m.current /\ q.run = m.run
         /\ q.intervals = m.intervals /\ q.cooldowns = m.cooldowns
         /\ \A x \in Instances : q.inst[x] = IF x = i THEN c ELSE m.inst[x]
<1> DEFINE R == [m.inst EXCEPT ![i] = c]
<1>1. q = [m EXCEPT !.inst = R] BY DEF Managers, WithInstance
<1>2. R \in [Instances -> InstanceStates]
      /\ \A x \in Instances : R[x] = IF x = i THEN c ELSE m.inst[x]
  BY Fields
<1> HIDE DEF R
<1> QED BY <1>1, <1>2 DEF Managers

\* Nothing but calls changes, and no call starts to run unaborted: an execution
\* stays what it is.
LEMMA CallsKeep ==
  ASSUME NEW m, Sound(m), NEW q \in Managers,
         q.paused = m.paused, q.overlapped = m.overlapped, q.lost = m.lost,
         q.current = m.current, q.inst = m.inst, q.intervals = m.intervals,
         q.cooldowns = m.cooldowns,
         \A x \in Calls : \/ q.run[x] = m.run[x]
                          \/ /\ q.run[x].pc = "runs" => q.run[x].aborted
                             /\ q.run[x].pc # "none" => q.run[x].inst \in Instances
                             /\ q.run[x].pc = "waits" => q.run[x].invocation # "automatic",
         \A x \in Calls, i \in Instances : m.inst[i].execution = x =>
           /\ q.run[x].pc = m.run[x].pc /\ q.run[x].inst = m.run[x].inst
           /\ q.run[x].invocation = m.run[x].invocation
  PROVE  Sound(q) /\ (IntentInStep(m) => IntentInStep(q)) /\ (Cadence(m) => Cadence(q))
<1>e. /\ \A i \in Instances : m.inst[i].execution \in Calls \cup {None}
      /\ m.current \in Instances \cup {None}
  BY Elements, Fields DEF Sound
<1>on. On(q) <=> On(m) BY DEF On
<1>1. CallsInPlace(q)
  <2>1. ASSUME NEW i \in Instances, q.inst[i].execution # None
        PROVE  q.run[q.inst[i].execution].pc = "runs" /\ q.run[q.inst[i].execution].inst = i
    <3>1. m.inst[i].execution \in Calls BY <2>1, <1>e
    <3>2. m.run[m.inst[i].execution].pc = "runs" /\ m.run[m.inst[i].execution].inst = i
      BY <2>1 DEF Sound, CallsInPlace
    <3> QED BY <3>1, <3>2
  <2>2. \A r \in Calls : q.run[r].pc # "none" => q.run[r].inst \in Instances
    BY DEF Sound, CallsInPlace
  <2>3. \A r \in Calls : q.run[r].pc = "waits" => q.run[r].invocation # "automatic"
    BY DEF Sound, CallsInPlace
  <2> QED BY <2>1, <2>2, <2>3 DEF CallsInPlace
<1>2. CooldownsInPlace(q) BY DEF Sound, CooldownsInPlace
<1>3. IntervalsInPlace(q) BY <1>on DEF Sound, IntervalsInPlace
<1>4. RunsOwned(q)
  <2> SUFFICES ASSUME NEW r \in Calls, Unaborted(q, r), ~q.overlapped
               PROVE  /\ q.inst[q.run[r].inst].execution = r
                      /\ q.run[r].inst = q.current /\ q.run[r].invocation = "automatic" => On(q)
    BY DEF RunsOwned
  <2>1. q.run[r] = m.run[r] BY DEF Unaborted
  <2>2. Unaborted(m, r) BY <2>1 DEF Unaborted
  <2>3. /\ m.inst[m.run[r].inst].execution = r
        /\ m.run[r].inst = m.current /\ m.run[r].invocation = "automatic" => On(m)
    BY <2>2 DEF Sound, RunsOwned
  <2> QED BY <2>1, <2>3, <1>on
<1>5. IntentInStep(m) => IntentInStep(q) BY DEF IntentInStep
<1>6. Cadence(m) => Cadence(q)
  <2>1. On(m) /\ Manual(m) => Manual(q)
    <3> SUFFICES ASSUME On(m), Manual(m) PROVE Manual(q) OBVIOUS
    <3>1. m.current \in Instances BY <1>e DEF On
    <3> DEFINE e == m.inst[m.current].execution
    <3>2. e \in Calls \cup {None} BY <3>1, <1>e
    <3>3. IsManual(m, e) => IsManual(q, e) BY <3>1, <3>2 DEF IsManual
    <3>4. ManualCooldown(m, m.current) => ManualCooldown(q, q.current) BY DEF ManualCooldown
    <3> QED BY <3>3, <3>4 DEF Manual
  <2> QED BY <2>1, <1>on DEF Cadence
<1> QED BY <1>1, <1>2, <1>3, <1>4, <1>5, <1>6 DEF Sound

\* The execution of an instance ends: it is aborted or over.
LEMMA EndSound ==
  ASSUME NEW m, Sound(m), NEW i \in Instances, m.inst[i].execution # None, NEW q \in Managers,
         q.paused = m.paused, q.overlapped = m.overlapped, q.current = m.current,
         q.intervals = m.intervals, q.cooldowns = m.cooldowns,
         \A j \in Instances :
           /\ q.inst[j].intent = m.inst[j].intent /\ q.inst[j].interval = m.inst[j].interval
           /\ q.inst[j].cooldown = m.inst[j].cooldown
           /\ q.inst[j].execution = IF j = i THEN None ELSE m.inst[j].execution,
         \A x \in Calls : \/ q.run[x] = m.run[x] /\ x # m.inst[i].execution
                          \/ /\ x = m.inst[i].execution
                             /\ \/ q.run[x].pc = "none"
                                \/ /\ q.run[x].pc = "runs" /\ q.run[x].aborted
                                   /\ q.run[x].inst = i
  PROVE  /\ Sound(q)
         /\ IntentInStep(m) => IntentInStep(q)
         /\ Cadence(m) /\ (m.lost # "no" \/ IsManual(m, m.inst[i].execution) => q.lost # "no")
              => Cadence(q)
<1>e. /\ \A j \in Instances : m.inst[j].execution \in Calls \cup {None}
      /\ m.current \in Instances \cup {None}
      /\ \A t \in m.intervals : t.inst \in Instances
      /\ \A t \in m.cooldowns : t.inst \in Instances
  BY Elements, Fields DEF Sound
<1>on. On(q) <=> On(m) BY <1>e DEF On
<1>o. \A j \in Instances : j # i /\ m.inst[j].execution # None =>
        m.inst[j].execution # m.inst[i].execution
  BY DEF Sound, CallsInPlace
<1>1. CallsInPlace(q)
  <2>1. ASSUME NEW j \in Instances, q.inst[j].execution # None
        PROVE  q.run[q.inst[j].execution].pc = "runs" /\ q.run[q.inst[j].execution].inst = j
    <3>1. j # i /\ q.inst[j].execution = m.inst[j].execution /\ m.inst[j].execution \in Calls
      BY <2>1, <1>e
    <3>2. m.run[m.inst[j].execution].pc = "runs" /\ m.run[m.inst[j].execution].inst = j
      BY <2>1, <3>1 DEF Sound, CallsInPlace
    <3> QED BY <3>1, <3>2, <1>o, <2>1
  <2>2. \A r \in Calls : q.run[r].pc # "none" => q.run[r].inst \in Instances
    BY DEF Sound, CallsInPlace
  <2>3. \A r \in Calls : q.run[r].pc = "waits" => q.run[r].invocation # "automatic"
    BY DEF Sound, CallsInPlace
  <2> QED BY <2>1, <2>2, <2>3 DEF CallsInPlace
<1>2. CooldownsInPlace(q) BY DEF Sound, CooldownsInPlace
<1>3. IntervalsInPlace(q)
  <2>1. \A t \in q.intervals : On(q) /\ t.inst = q.current /\ t.id = q.inst[t.inst].interval
    BY <1>e, <1>on DEF Sound, IntervalsInPlace
  <2>2. \A j \in Instances : q.inst[j].interval # None =>
          \E t \in q.intervals : t.id = q.inst[j].interval /\ t.inst = j
    BY DEF Sound, IntervalsInPlace
  <2> QED BY <2>1, <2>2 DEF IntervalsInPlace
<1>4. RunsOwned(q)
  <2> SUFFICES ASSUME NEW r \in Calls, Unaborted(q, r), ~q.overlapped
               PROVE  /\ q.inst[q.run[r].inst].execution = r
                      /\ q.run[r].inst = q.current /\ q.run[r].invocation = "automatic" => On(q)
    BY DEF RunsOwned
  <2>1. q.run[r] = m.run[r] /\ r # m.inst[i].execution BY DEF Unaborted
  <2>2. Unaborted(m, r) BY <2>1 DEF Unaborted
  <2>3. /\ m.inst[m.run[r].inst].execution = r
        /\ m.run[r].inst = m.current /\ m.run[r].invocation = "automatic" => On(m)
        /\ m.run[r].inst \in Instances
    BY <2>2 DEF Sound, RunsOwned, CallsInPlace, Unaborted
  <2> QED BY <2>1, <2>3, <1>on
<1>5. IntentInStep(m) => IntentInStep(q) BY <1>e DEF IntentInStep
<1>6. Cadence(m) /\ (m.lost # "no" \/ IsManual(m, m.inst[i].execution) => q.lost # "no")
        => Cadence(q)
  <2> SUFFICES ASSUME On(m), m.intervals = {}, q.lost = "no", m.lost = "no",
                      ~IsManual(m, m.inst[i].execution), Manual(m)
               PROVE  Manual(q)
    BY <1>on DEF Cadence
  <2>1. m.current \in Instances BY <1>e DEF On
  <2>2. ManualCooldown(m, m.current) => ManualCooldown(q, q.current)
    BY <2>1 DEF ManualCooldown
  <2>3. IsManual(m, m.inst[m.current].execution) => IsManual(q, q.inst[q.current].execution)
    <3> SUFFICES ASSUME IsManual(m, m.inst[m.current].execution)
                 PROVE  IsManual(q, q.inst[q.current].execution)
      OBVIOUS
    <3>1. m.current # i OBVIOUS
    <3>2. m.inst[m.current].execution \in Calls BY <2>1, <1>e DEF IsManual
    <3>3. q.inst[q.current].execution = m.inst[m.current].execution BY <2>1, <3>1
    <3>4. m.inst[m.current].execution # m.inst[i].execution OBVIOUS
    <3>5. q.run[m.inst[m.current].execution] = m.run[m.inst[m.current].execution]
      BY <3>2, <3>4
    <3> QED BY <3>3, <3>5 DEF IsManual
  <2> QED BY <2>2, <2>3 DEF Manual
<1> QED BY <1>1, <1>2, <1>3, <1>4, <1>5, <1>6 DEF Sound

-----------------------------------------------------------------------------
LEMMA FinishedFields ==
  ASSUME NEW m \in Managers, NEW i \in Instances, NEW q, q = Finished(m, i)
  PROVE  /\ q \in Managers
         /\ q.paused = m.paused /\ q.overlapped = m.overlapped /\ q.current = m.current
         /\ q.run = m.run /\ q.intervals = m.intervals /\ q.cooldowns = m.cooldowns
         /\ q.lost = IF IsManual(m, m.inst[i].execution) THEN "superseded" ELSE m.lost
         /\ \A j \in Instances :
              /\ q.inst[j].intent = m.inst[j].intent /\ q.inst[j].interval = m.inst[j].interval
              /\ q.inst[j].cooldown = m.inst[j].cooldown
              /\ q.inst[j].execution = IF j = i THEN None ELSE m.inst[j].execution
<1> DEFINE c == [m.inst[i] EXCEPT !.execution = None]
           p == [m EXCEPT !.inst[i] = c]
           L == IF IsManual(m, m.inst[i].execution) THEN "superseded" ELSE m.lost
<1>1. m.inst[i] \in InstanceStates BY Fields
<1>2. c \in InstanceStates /\ c.intent = m.inst[i].intent /\ c.interval = m.inst[i].interval
      /\ c.cooldown = m.inst[i].cooldown /\ c.execution = None
  BY <1>1 DEF InstanceStates
<1>3. q = [p EXCEPT !.lost = L] BY DEF Finished, Managers
<1>4. /\ p \in Managers
      /\ p.paused = m.paused /\ p.overlapped = m.overlapped /\ p.lost = m.lost
      /\ p.current = m.current /\ p.run = m.run
      /\ p.intervals = m.intervals /\ p.cooldowns = m.cooldowns
      /\ \A x \in Instances : p.inst[x] = IF x = i THEN c ELSE m.inst[x]
  <2>1. p = WithInstance(m, i, c) BY DEF WithInstance
  <2> HIDE DEF c, p
  <2> QED BY <1>2, <2>1, InstanceUpdate
<1>5. L \in {"no", "cancelled", "superseded"} BY Fields
<1>6. /\ q \in Managers
      /\ q.paused = p.paused /\ q.overlapped = p.overlapped /\ q.lost = L
      /\ q.current = p.current /\ q.run = p.run /\ q.inst = p.inst
      /\ q.intervals = p.intervals /\ q.cooldowns = p.cooldowns
  <2> HIDE DEF L, p
  <2> QED BY <1>3, <1>4, <1>5 DEF Managers
<1> HIDE DEF c, p
<1> QED BY <1>2, <1>4, <1>6

\* Aborting what an instance does leaves it no execution and every free call free.
LEMMA AbortKeeps ==
  ASSUME NEW m, Sound(m), NEW i \in Instances, NEW q, q = AbortExecution(m, i)
  PROVE  /\ Sound(q)
         /\ IntentInStep(m) => IntentInStep(q)
         /\ Cadence(m) => Cadence(q)
         /\ q.current = m.current /\ q.paused = m.paused
         /\ q.inst[i].execution = None
         /\ FreeCalls(q) = FreeCalls(m)
<1>1. CASE m.inst[i].execution = None
  BY <1>1 DEF AbortExecution
<1>2. CASE m.inst[i].execution # None
  <2> DEFINE e == m.inst[i].execution
             f == Finished(m, i)
             c == [f.run[e] EXCEPT !.aborted = TRUE]
  <2>0. e \in Calls /\ m \in Managers BY <1>2, Elements DEF Sound
  <2>1. q = WithCall(f, e, c)
    <3>1. f \in Managers BY <2>0, FinishedFields
    <3> QED BY <3>1, <1>2 DEF AbortExecution, WithCall
  <2>2. /\ f \in Managers
        /\ f.paused = m.paused /\ f.overlapped = m.overlapped /\ f.current = m.current
        /\ f.run = m.run /\ f.intervals = m.intervals /\ f.cooldowns = m.cooldowns
        /\ f.lost = IF IsManual(m, m.inst[i].execution) THEN "superseded" ELSE m.lost
        /\ \A j \in Instances :
             /\ f.inst[j].intent = m.inst[j].intent /\ f.inst[j].interval = m.inst[j].interval
             /\ f.inst[j].cooldown = m.inst[j].cooldown
             /\ f.inst[j].execution = IF j = i THEN None ELSE m.inst[j].execution
    BY <2>0, FinishedFields
  <2>3. m.run[e] \in CallStates BY <2>0, Fields
  <2>4. /\ c \in CallStates /\ c.pc = m.run[e].pc /\ c.inst = m.run[e].inst
        /\ c.on = m.run[e].on /\ c.aborted
    <3>1. c = [m.run[e] EXCEPT !.aborted = TRUE] BY <2>2
    <3> QED BY <3>1, <2>3 DEF CallStates
  <2>5. m.run[e].pc = "runs" /\ m.run[e].inst = i BY <1>2 DEF Sound, CallsInPlace
  <2> HIDE DEF f, c, e
  <2>6. /\ q \in Managers
        /\ q.paused = f.paused /\ q.overlapped = f.overlapped /\ q.lost = f.lost
        /\ q.current = f.current /\ q.inst = f.inst
        /\ q.intervals = f.intervals /\ q.cooldowns = f.cooldowns
        /\ \A x \in Calls : q.run[x] = IF x = e THEN c ELSE f.run[x]
    BY <2>0, <2>1, <2>2, <2>4, RunUpdate
  <2>e. e = m.inst[i].execution BY DEF e
  <2>7. \A x \in Calls : \/ q.run[x] = m.run[x] /\ x # m.inst[i].execution
                         \/ /\ x = m.inst[i].execution
                            /\ \/ q.run[x].pc = "none"
                               \/ /\ q.run[x].pc = "runs" /\ q.run[x].aborted
                                  /\ q.run[x].inst = i
    BY <2>e, <2>2, <2>4, <2>5, <2>6
  <2>8. /\ Sound(q)
        /\ IntentInStep(m) => IntentInStep(q)
        /\ Cadence(m) /\ (m.lost # "no" \/ IsManual(m, m.inst[i].execution) => q.lost # "no")
             => Cadence(q)
    BY <1>2, <2>e, <2>2, <2>6, <2>7, EndSound
  <2>9. m.lost # "no" \/ IsManual(m, m.inst[i].execution) => q.lost # "no"
    BY <2>2, <2>6
  <2>10. \A x \in Calls : q.run[x].pc = m.run[x].pc /\ q.run[x].on = m.run[x].on
    BY <2>2, <2>4, <2>6
  <2>11. FreeCalls(q) = FreeCalls(m) BY <2>10 DEF FreeCalls
  <2> QED BY <2>2, <2>6, <2>8, <2>9, <2>11
<1> QED BY <1>1, <1>2

\* The refresher is scheduled no more only when nothing automatic is left.
LEMMA IntentSound ==
  ASSUME NEW m, Sound(m), NEW q \in Managers,
         q.overlapped = m.overlapped, q.current = m.current, q.run = m.run,
         q.intervals = m.intervals, q.cooldowns = m.cooldowns,
         \A j \in Instances :
           /\ q.inst[j].interval = m.inst[j].interval /\ q.inst[j].cooldown = m.inst[j].cooldown
           /\ q.inst[j].execution = m.inst[j].execution,
         On(m) /\ ~On(q) =>
           /\ m.intervals = {}
           /\ m.inst[m.current].execution = None
                \/ m.run[m.inst[m.current].execution].aborted
                \/ m.run[m.inst[m.current].execution].invocation # "automatic"
  PROVE  Sound(q)
<1>e. /\ m.current \in Instances \cup {None}
      /\ \A t \in m.intervals : t.inst \in Instances
  BY Elements, Fields DEF Sound
<1>n. None \notin Calls BY NoneIsNoId
<1>1. CallsInPlace(q) BY DEF Sound, CallsInPlace
<1>2. CooldownsInPlace(q) BY DEF Sound, CooldownsInPlace
<1>3. IntervalsInPlace(q)
  <2>1. \A t \in q.intervals : On(q) /\ t.inst = q.current /\ t.id = q.inst[t.inst].interval
    BY <1>e DEF Sound, IntervalsInPlace
  <2>2. \A j \in Instances : q.inst[j].interval # None =>
          \E t \in q.intervals : t.id = q.inst[j].interval /\ t.inst = j
    BY DEF Sound, IntervalsInPlace
  <2> QED BY <2>1, <2>2 DEF IntervalsInPlace
<1>4. RunsOwned(q)
  <2> SUFFICES ASSUME NEW r \in Calls, Unaborted(q, r), ~q.overlapped
               PROVE  /\ q.inst[q.run[r].inst].execution = r
                      /\ q.run[r].inst = q.current /\ q.run[r].invocation = "automatic" => On(q)
    BY DEF RunsOwned
  <2>1. Unaborted(m, r) BY DEF Unaborted
  <2>2. /\ m.inst[m.run[r].inst].execution = r
        /\ m.run[r].inst = m.current /\ m.run[r].invocation = "automatic" => On(m)
        /\ m.run[r].inst \in Instances
    BY <2>1 DEF Sound, RunsOwned, CallsInPlace, Unaborted
  <2>3. m.run[r].inst = m.current /\ m.run[r].invocation = "automatic" => On(q)
    BY <1>n, <2>1, <2>2 DEF Unaborted
  <2> QED BY <2>2, <2>3
<1> QED BY <1>1, <1>2, <1>3, <1>4 DEF Sound

-----------------------------------------------------------------------------
LEMMA FreshTimer ==
  ASSUME NEW m \in Managers, FreeTimers(m) # {}
  PROVE  /\ FreeTimer(m) \in Timers
         /\ \A t \in m.intervals : t.id # FreeTimer(m)
         /\ \A t \in m.cooldowns : t.id # FreeTimer(m)
BY DEF FreeTimer, FreeTimers

LEMMA CooldownFields ==
  ASSUME NEW m \in Managers, NEW i \in Instances, NEW manual \in BOOLEAN, NEW retry \in BOOLEAN,
         FreeTimers(m) # {}, NEW q, q = EnterCooldown(m, i, manual, retry)
  PROVE  /\ q \in Managers
         /\ q.paused = m.paused /\ q.overlapped = m.overlapped /\ q.current = m.current
         /\ q.run = m.run /\ q.intervals = m.intervals
         /\ q.lost = IF ManualCooldown(m, i) THEN "superseded" ELSE m.lost
         /\ q.cooldowns = m.cooldowns \cup {[id |-> FreeTimer(m), inst |-> i, manual |-> manual,
                                             retry |-> retry]}
         /\ \A j \in Instances :
              /\ q.inst[j].intent = m.inst[j].intent /\ q.inst[j].interval = m.inst[j].interval
              /\ q.inst[j].cooldown = IF j = i THEN FreeTimer(m) ELSE m.inst[j].cooldown
              /\ q.inst[j].execution = m.inst[j].execution
<1> DEFINE n == FreeTimer(m)
           new == [id |-> n, inst |-> i, manual |-> manual, retry |-> retry]
           c == [m.inst[i] EXCEPT !.cooldown = n]
           p == WithInstance(m, i, c)
           B == m.cooldowns \cup {new}
           L == IF ManualCooldown(m, i) THEN "superseded" ELSE m.lost
<1>0. n \in Timers BY FreshTimer
<1>1. m.inst[i] \in InstanceStates BY Fields
<1>2. c \in InstanceStates /\ c.intent = m.inst[i].intent /\ c.interval = m.inst[i].interval
      /\ c.cooldown = n /\ c.execution = m.inst[i].execution
  <2> HIDE DEF n
  <2> QED BY <1>0, <1>1 DEF InstanceStates
<1>3. q = [p EXCEPT !.lost = L, !.cooldowns = B]
  <2>1. /\ q = [m EXCEPT !.cooldowns = B, !.inst[i].cooldown = n, !.lost = L]
        /\ p = [m EXCEPT !.inst[i].cooldown = n]
    BY DEF EnterCooldown, WithInstance, Managers
  <2> HIDE DEF B, n, L, p
  <2> QED BY <2>1 DEF Managers
<1>4. /\ p \in Managers
      /\ p.paused = m.paused /\ p.overlapped = m.overlapped /\ p.lost = m.lost
      /\ p.current = m.current /\ p.run = m.run
      /\ p.intervals = m.intervals /\ p.cooldowns = m.cooldowns
      /\ \A x \in Instances : p.inst[x] = IF x = i THEN c ELSE m.inst[x]
  <2>1. p = WithInstance(m, i, c) OBVIOUS
  <2> HIDE DEF c, p
  <2> QED BY <1>2, <2>1, InstanceUpdate
<1>5. /\ L \in {"no", "cancelled", "superseded"}
      /\ B \in SUBSET [id : Timers, inst : Instances, manual : BOOLEAN, retry : BOOLEAN]
  <2> HIDE DEF n
  <2> QED BY <1>0, Fields
<1>6. /\ q \in Managers
      /\ q.paused = p.paused /\ q.overlapped = p.overlapped /\ q.lost = L
      /\ q.current = p.current /\ q.run = p.run /\ q.inst = p.inst
      /\ q.intervals = p.intervals /\ q.cooldowns = B
  <2> HIDE DEF L, B, p
  <2> QED BY <1>3, <1>4, <1>5 DEF Managers
<1>7. \A j \in Instances :
        /\ q.inst[j].intent = m.inst[j].intent /\ q.inst[j].interval = m.inst[j].interval
        /\ q.inst[j].cooldown = IF j = i THEN FreeTimer(m) ELSE m.inst[j].cooldown
        /\ q.inst[j].execution = m.inst[j].execution
  <2>1. n = FreeTimer(m) OBVIOUS
  <2> HIDE DEF c, p, n
  <2> QED BY <1>2, <1>4, <1>6, <2>1
<1> HIDE DEF p
<1> QED BY <1>4, <1>6, <1>7

\* A new cooldown takes the record of an older one, which stays armed.
LEMMA CooldownSound ==
  ASSUME NEW m, Sound(m), NEW i \in Instances, NEW manual \in BOOLEAN, NEW retry \in BOOLEAN,
         FreeTimers(m) # {}, NEW q, q = EnterCooldown(m, i, manual, retry)
  PROVE  Sound(q) /\ (IntentInStep(m) => IntentInStep(q))
<1> DEFINE n == FreeTimer(m)
           new == [id |-> n, inst |-> i, manual |-> manual, retry |-> retry]
<1>f. /\ q \in Managers
      /\ q.paused = m.paused /\ q.overlapped = m.overlapped /\ q.current = m.current
      /\ q.run = m.run /\ q.intervals = m.intervals
      /\ q.cooldowns = m.cooldowns \cup {new}
      /\ \A j \in Instances :
           /\ q.inst[j].intent = m.inst[j].intent /\ q.inst[j].interval = m.inst[j].interval
           /\ q.inst[j].cooldown = IF j = i THEN n ELSE m.inst[j].cooldown
           /\ q.inst[j].execution = m.inst[j].execution
  BY CooldownFields DEF Sound
<1>g. \A t \in m.cooldowns : t.id # n BY FreshTimer DEF Sound
<1>h. new.id = n /\ new.inst = i OBVIOUS
<1> HIDE DEF n, new
<1>e. /\ m.current \in Instances \cup {None}
      /\ \A t \in m.intervals : t.inst \in Instances
  BY Elements, Fields DEF Sound
<1>on. On(q) <=> On(m) BY <1>f, <1>e DEF On
<1>1. CallsInPlace(q) BY <1>f DEF Sound, CallsInPlace
<1>2. CooldownsInPlace(q)
  <2>1. \A t, u \in q.cooldowns : t.id = u.id => t = u
    BY <1>f, <1>g, <1>h DEF Sound, CooldownsInPlace
  <2>2. ASSUME NEW j \in Instances, q.inst[j].cooldown # None
        PROVE  \E t \in q.cooldowns : t.id = q.inst[j].cooldown /\ t.inst = j
    <3>1. CASE j = i BY <3>1, <1>f, <1>h
    <3>2. CASE j # i
      <4>1. PICK t \in m.cooldowns : t.id = m.inst[j].cooldown /\ t.inst = j
        BY <2>2, <3>2, <1>f DEF Sound, CooldownsInPlace
      <4> QED BY <4>1, <3>2, <1>f
    <3> QED BY <3>1, <3>2
  <2> QED BY <2>1, <2>2 DEF CooldownsInPlace
<1>3. IntervalsInPlace(q)
  <2>1. \A t \in q.intervals : On(q) /\ t.inst = q.current /\ t.id = q.inst[t.inst].interval
    BY <1>e, <1>f, <1>on DEF Sound, IntervalsInPlace
  <2>2. \A j \in Instances : q.inst[j].interval # None =>
          \E t \in q.intervals : t.id = q.inst[j].interval /\ t.inst = j
    BY <1>f DEF Sound, IntervalsInPlace
  <2> QED BY <2>1, <2>2 DEF IntervalsInPlace
<1>4. RunsOwned(q)
  <2> SUFFICES ASSUME NEW r \in Calls, Unaborted(q, r), ~q.overlapped
               PROVE  /\ q.inst[q.run[r].inst].execution = r
                      /\ q.run[r].inst = q.current /\ q.run[r].invocation = "automatic" => On(q)
    BY DEF RunsOwned
  <2>1. Unaborted(m, r) BY <1>f DEF Unaborted
  <2>2. /\ m.inst[m.run[r].inst].execution = r
        /\ m.run[r].inst = m.current /\ m.run[r].invocation = "automatic" => On(m)
        /\ m.run[r].inst \in Instances
    BY <1>f, <2>1 DEF Sound, RunsOwned, CallsInPlace, Unaborted
  <2> QED BY <1>f, <2>2, <1>on
<1>5. IntentInStep(m) => IntentInStep(q) BY <1>f, <1>e DEF IntentInStep
<1> QED BY <1>f, <1>1, <1>2, <1>3, <1>4, <1>5 DEF Sound

-----------------------------------------------------------------------------
\* What startRefresher arms, before its first refresh.
Armed(m) ==
  [ReplaceInterval(m, m.current) EXCEPT !.inst[m.current].cooldown = None, !.lost = "no"]

LEMMA ArmedFields ==
  ASSUME NEW m \in Managers, NEW i \in Instances, i = m.current, FreeTimers(m) # {},
         NEW q, q = Armed(m)
  PROVE  /\ q \in Managers
         /\ q.paused = m.paused /\ q.overlapped = m.overlapped /\ q.current = m.current
         /\ q.run = m.run /\ q.cooldowns = m.cooldowns /\ q.lost = "no"
         /\ q.intervals = {t \in m.intervals : t.id # m.inst[i].interval}
                            \cup {[id |-> FreeTimer(m), inst |-> i]}
         /\ \A j \in Instances :
              /\ q.inst[j].intent = m.inst[j].intent /\ q.inst[j].execution = m.inst[j].execution
              /\ q.inst[j].interval = IF j = i THEN FreeTimer(m) ELSE m.inst[j].interval
              /\ q.inst[j].cooldown = IF j = i THEN None ELSE m.inst[j].cooldown
<1> DEFINE n == FreeTimer(m)
           new == [id |-> n, inst |-> i]
           c == [m.inst[i] EXCEPT !.interval = n, !.cooldown = None]
           p == WithInstance(m, i, c)
           A == {t \in m.intervals : t.id # m.inst[i].interval} \cup {new}
<1>0. n \in Timers BY FreshTimer
<1>1. m.inst[i] \in InstanceStates BY Fields
<1>2. c \in InstanceStates /\ c.intent = m.inst[i].intent /\ c.execution = m.inst[i].execution
      /\ c.interval = n /\ c.cooldown = None
  <2> HIDE DEF n
  <2> QED BY <1>0, <1>1 DEF InstanceStates
<1>3. q = [p EXCEPT !.lost = "no", !.intervals = A]
  <2>1. /\ q = [[m EXCEPT !.intervals = A, !.inst[i].interval = n]
                   EXCEPT !.inst[i].cooldown = None, !.lost = "no"]
        /\ p = [m EXCEPT !.inst[i] = c]
    BY DEF Armed, ReplaceInterval, WithoutTimer, WithInstance, Managers
  <2>2. m.inst \in [Instances -> InstanceStates] BY Fields
  <2>3. [[m.inst EXCEPT ![i].interval = n] EXCEPT ![i].cooldown = None] = [m.inst EXCEPT ![i] = c]
    <3> HIDE DEF n
    <3> QED BY <2>2 DEF InstanceStates
  <2> DEFINE I == [[m.inst EXCEPT ![i].interval = n] EXCEPT ![i].cooldown = None]
  <2>4. q = [m EXCEPT !.intervals = A, !.inst = I, !.lost = "no"]
    <3> HIDE DEF A, n
    <3> QED BY <2>1 DEF Managers
  <2>5. p = [m EXCEPT !.inst = I]
    <3>1. p = [m EXCEPT !.inst = [m.inst EXCEPT ![i] = c]]
      <4> HIDE DEF c
      <4> QED BY DEF WithInstance, Managers
    <3> HIDE DEF c, p
    <3> QED BY <2>3, <3>1
  <2> HIDE DEF A, I, p
  <2> QED BY <2>4, <2>5 DEF Managers
<1>4. /\ p \in Managers
      /\ p.paused = m.paused /\ p.overlapped = m.overlapped /\ p.lost = m.lost
      /\ p.current = m.current /\ p.run = m.run
      /\ p.intervals = m.intervals /\ p.cooldowns = m.cooldowns
      /\ \A x \in Instances : p.inst[x] = IF x = i THEN c ELSE m.inst[x]
  <2>1. p = WithInstance(m, i, c) OBVIOUS
  <2> HIDE DEF c, p
  <2> QED BY <1>2, <2>1, InstanceUpdate
<1>5. A \in SUBSET [id : Timers, inst : Instances]
  <2> HIDE DEF n
  <2> QED BY <1>0, Fields
<1>6. /\ q \in Managers
      /\ q.paused = p.paused /\ q.overlapped = p.overlapped /\ q.lost = "no"
      /\ q.current = p.current /\ q.run = p.run /\ q.inst = p.inst
      /\ q.intervals = A /\ q.cooldowns = p.cooldowns
  <2> HIDE DEF A, p
  <2> QED BY <1>3, <1>4, <1>5 DEF Managers
<1>7. n = FreeTimer(m) OBVIOUS
<1>8. A = {t \in m.intervals : t.id # m.inst[i].interval} \cup {[id |-> n, inst |-> i]}
  OBVIOUS
<1> HIDE DEF p, A, n, c
<1> QED BY <1>2, <1>4, <1>6, <1>7, <1>8

\* The scheduled refresher gets its interval.
LEMMA ArmedGood ==
  ASSUME NEW m, Sound(m), On(m), FreeTimers(m) # {}, NEW q, q = Armed(m)
  PROVE  Good(q) /\ q.current = m.current
         /\ FreeCalls(q) = FreeCalls(m)
<1> DEFINE i == m.current
           n == FreeTimer(m)
           new == [id |-> n, inst |-> i]
<1>e. /\ m.current \in Instances
      /\ \A t \in m.intervals : t.inst \in Instances
  BY Elements, Fields DEF Sound, On
<1>f. /\ q \in Managers
      /\ q.paused = m.paused /\ q.overlapped = m.overlapped /\ q.current = m.current
      /\ q.run = m.run /\ q.cooldowns = m.cooldowns /\ q.lost = "no"
      /\ q.intervals = {t \in m.intervals : t.id # m.inst[i].interval} \cup {new}
      /\ \A j \in Instances :
           /\ q.inst[j].intent = m.inst[j].intent /\ q.inst[j].execution = m.inst[j].execution
           /\ q.inst[j].interval = IF j = i THEN n ELSE m.inst[j].interval
           /\ q.inst[j].cooldown = IF j = i THEN None ELSE m.inst[j].cooldown
  BY <1>e, ArmedFields DEF Sound
<1>h. new.id = n /\ new.inst = i OBVIOUS
<1> HIDE DEF n, new
<1>a. q.intervals = {new} BY <1>f DEF Sound, IntervalsInPlace
<1>on. On(q) BY <1>f, <1>e DEF On
<1>1. CallsInPlace(q) BY <1>f DEF Sound, CallsInPlace
<1>2. CooldownsInPlace(q) BY <1>f DEF Sound, CooldownsInPlace
<1>3. IntervalsInPlace(q)
  <2>1. \A t \in q.intervals : On(q) /\ t.inst = q.current /\ t.id = q.inst[t.inst].interval
    BY <1>a, <1>e, <1>f, <1>h, <1>on
  <2>2. ASSUME NEW j \in Instances, q.inst[j].interval # None
        PROVE  \E t \in q.intervals : t.id = q.inst[j].interval /\ t.inst = j
    <3>1. CASE j = i BY <3>1, <1>a, <1>f, <1>h
    <3>2. CASE j # i BY <2>2, <3>2, <1>f DEF Sound, IntervalsInPlace
    <3> QED BY <3>1, <3>2
  <2> QED BY <2>1, <2>2 DEF IntervalsInPlace
<1>4. RunsOwned(q)
  <2> SUFFICES ASSUME NEW r \in Calls, Unaborted(q, r), ~q.overlapped
               PROVE  q.inst[q.run[r].inst].execution = r
    BY <1>on DEF RunsOwned
  <2>1. Unaborted(m, r) BY <1>f DEF Unaborted
  <2>2. /\ m.inst[m.run[r].inst].execution = r
        /\ m.run[r].inst \in Instances
    BY <1>f, <2>1 DEF Sound, RunsOwned, CallsInPlace, Unaborted
  <2> QED BY <1>f, <2>2
<1>5. IntentInStep(q) BY <1>on DEF IntentInStep, On
<1>6. Cadence(q) BY <1>a DEF Cadence
<1>7. FreeCalls(q) = FreeCalls(m) BY <1>f DEF FreeCalls
<1> QED BY <1>f, <1>1, <1>2, <1>3, <1>4, <1>5, <1>6, <1>7 DEF Sound, Good

-----------------------------------------------------------------------------
LEMMA LaunchFields ==
  ASSUME NEW m \in Managers, NEW r \in Calls, NEW i \in Instances, i = m.run[r].inst,
         NEW k, k = (IF IsManual(m, r) THEN ClearTimers(m, i) ELSE m), NEW q, q = Launch(m, r)
  PROVE  /\ q \in Managers /\ k \in Managers
         /\ q.paused = k.paused /\ q.current = k.current
         /\ q.overlapped = (m.overlapped \/ m.inst[i].execution # None)
         /\ q.intervals = k.intervals /\ q.cooldowns = k.cooldowns
         /\ q.lost = IF IsManual(m, m.inst[i].execution) /\ ~IsManual(m, r)
                     THEN "superseded" ELSE m.lost
         /\ q.run[r].pc = "runs" /\ q.run[r].inst = i
         /\ q.run[r].invocation = m.run[r].invocation
         /\ \A x \in Calls : x # r => q.run[x] = m.run[x]
         /\ \A j \in Instances :
              /\ q.inst[j].intent = k.inst[j].intent /\ q.inst[j].interval = k.inst[j].interval
              /\ q.inst[j].cooldown = k.inst[j].cooldown
              /\ q.inst[j].execution = IF j = i THEN r ELSE k.inst[j].execution
<1> DEFINE c == [m.run[r] EXCEPT !.pc = "runs", !.on = None]
           x == [k.inst[i] EXCEPT !.execution = r]
           v == (m.overlapped \/ m.inst[i].execution # None)
           L == IF IsManual(m, m.inst[i].execution) /\ ~IsManual(m, r)
                THEN "superseded" ELSE m.lost
           a == WithCall(k, r, c)
           b == WithInstance(a, i, x)
<1>1. k \in Managers /\ k.run = m.run /\ k.overlapped = m.overlapped /\ k.lost = m.lost
  <2>1. CASE IsManual(m, r) BY <2>1, ClearFields
  <2>2. CASE ~IsManual(m, r) BY <2>2
  <2> QED BY <2>1, <2>2
<1>2. m.run[r] \in CallStates /\ k.inst[i] \in InstanceStates BY <1>1, Fields
<1>3. c \in CallStates /\ c.pc = "runs" /\ c.inst = m.run[r].inst
      /\ c.invocation = m.run[r].invocation
  BY <1>2 DEF CallStates
<1>4. x \in InstanceStates /\ x.intent = k.inst[i].intent /\ x.interval = k.inst[i].interval
      /\ x.cooldown = k.inst[i].cooldown /\ x.execution = r
  BY <1>2 DEF InstanceStates
<1>5. v \in BOOLEAN /\ L \in {"no", "cancelled", "superseded"} BY Fields
<1>6. /\ a \in Managers /\ a.inst = k.inst /\ a.paused = k.paused /\ a.current = k.current
      /\ a.intervals = k.intervals /\ a.cooldowns = k.cooldowns
      /\ \A y \in Calls : a.run[y] = IF y = r THEN c ELSE k.run[y]
  <2>1. a = WithCall(k, r, c) OBVIOUS
  <2> HIDE DEF c, a
  <2> QED BY <1>1, <1>3, <2>1, RunUpdate
<1>7. /\ b \in Managers /\ b.run = a.run /\ b.paused = a.paused /\ b.current = a.current
      /\ b.intervals = a.intervals /\ b.cooldowns = a.cooldowns
      /\ \A y \in Instances : b.inst[y] = IF y = i THEN x ELSE a.inst[y]
  <2>1. b = WithInstance(a, i, x) OBVIOUS
  <2>2. x \in InstanceStates BY <1>4
  <2>3. a \in Managers BY <1>6
  <2> HIDE DEF x, a, b
  <2> QED BY <2>1, <2>2, <2>3, InstanceUpdate
<1>8. q = [b EXCEPT !.overlapped = v, !.lost = L]
  <2>1. q = [k EXCEPT !.run[r].pc = "runs", !.run[r].on = None, !.inst[i].execution = r,
                      !.overlapped = v, !.lost = L]
    <3>1. q = [k EXCEPT !.run[r].pc = "runs", !.run[r].on = None, !.inst[i].execution = r,
                        !.overlapped = k.overlapped \/ m.inst[i].execution # None,
                        !.lost = IF IsManual(m, m.inst[i].execution) /\ ~IsManual(m, r)
                                 THEN "superseded" ELSE k.lost]
      BY DEF Launch
    <3> HIDE DEF v, L
    <3>2. v = (k.overlapped \/ m.inst[i].execution # None)
          /\ L = IF IsManual(m, m.inst[i].execution) /\ ~IsManual(m, r)
                 THEN "superseded" ELSE k.lost
      BY <1>1 DEF v, L
    <3> QED BY <3>1, <3>2
  <2> DEFINE R == [k.run EXCEPT ![r] = c]
             I == [k.inst EXCEPT ![i] = x]
  <2>2. q = [k EXCEPT !.run = R, !.inst = I, !.overlapped = v, !.lost = L]
    <3>1. k.run \in [Calls -> CallStates] /\ k.inst \in [Instances -> InstanceStates]
          /\ k.run = m.run
      BY <1>1, Fields
    <3> DEFINE R2 == [[k.run EXCEPT ![r].pc = "runs"] EXCEPT ![r].on = None]
               I2 == [k.inst EXCEPT ![i].execution = r]
    <3>2. R2 = R /\ I2 = I BY <3>1 DEF CallStates, InstanceStates
    <3>3. q = [k EXCEPT !.run = R2, !.inst = I2, !.overlapped = v, !.lost = L]
      <4> HIDE DEF v, L
      <4> QED BY <2>1, <1>1 DEF Managers
    <3> HIDE DEF R2, I2, R, I
    <3> QED BY <3>2, <3>3
  <2>3. a = [k EXCEPT !.run = R]
    <3> HIDE DEF c
    <3> QED BY <1>1 DEF WithCall, Managers
  <2>4. b = [a EXCEPT !.inst = I]
    <3> HIDE DEF x, a
    <3> QED BY <1>6 DEF WithInstance, Managers
  <2> HIDE DEF R, I, v, L, a, b
  <2> QED BY <1>1, <1>6, <1>7, <2>2, <2>3, <2>4 DEF Managers
<1>9. /\ q \in Managers /\ q.run = b.run /\ q.inst = b.inst
      /\ q.paused = b.paused /\ q.current = b.current
      /\ q.intervals = b.intervals /\ q.cooldowns = b.cooldowns
      /\ q.overlapped = v /\ q.lost = L
  <2> HIDE DEF b, v, L
  <2> QED BY <1>5, <1>7, <1>8 DEF Managers
<1>10. v = (m.overlapped \/ m.inst[i].execution # None)
       /\ L = IF IsManual(m, m.inst[i].execution) /\ ~IsManual(m, r) THEN "superseded" ELSE m.lost
  OBVIOUS
<1> HIDE DEF a, b, c, x, v, L
<1>11. /\ q.run[r].pc = "runs" /\ q.run[r].inst = i
       /\ q.run[r].invocation = m.run[r].invocation
       /\ \A y \in Calls : y # r => q.run[y] = m.run[y]
  BY <1>1, <1>3, <1>6, <1>7, <1>9
<1>12. \A j \in Instances :
         /\ q.inst[j].intent = k.inst[j].intent /\ q.inst[j].interval = k.inst[j].interval
         /\ q.inst[j].cooldown = k.inst[j].cooldown
         /\ q.inst[j].execution = IF j = i THEN r ELSE k.inst[j].execution
  BY <1>4, <1>6, <1>7, <1>9
<1>13. /\ q.paused = k.paused /\ q.current = k.current
       /\ q.intervals = k.intervals /\ q.cooldowns = k.cooldowns
  BY <1>6, <1>7, <1>9
<1> QED BY <1>1, <1>9, <1>10, <1>11, <1>12, <1>13

\* A call that runs is the execution; another that ran for the instance is overlapped.
LEMMA LaunchKeeps ==
  ASSUME NEW m, Good(m), NEW r \in Calls, m.run[r].pc # "runs", m.run[r].inst \in Instances,
         m.run[r].inst = m.current /\ m.run[r].invocation = "automatic" => On(m),
         NEW q, q = Launch(m, r)
  PROVE  Good(q)
<1> DEFINE i == m.run[r].inst
           k == IF IsManual(m, r) THEN ClearTimers(m, i) ELSE m
<1>0. Sound(m) /\ m \in Managers BY DEF Good, Sound
<1>n. None \notin Timers /\ None \notin Instances /\ None \notin Calls BY NoneIsNoId
<1>m. IsManual(m, r) <=> m.run[r].invocation = "manual" BY <1>n DEF IsManual
<1>k. k = (IF IsManual(m, r) THEN ClearTimers(m, i) ELSE m) OBVIOUS
<1>c. IsManual(m, r) =>
        /\ Sound(k)
        /\ i = m.current => k.intervals = {}
        /\ i # m.current => \A t \in m.intervals : t \in k.intervals
        /\ \A t \in m.cooldowns : t.inst # i /\ OwnOf(m, t) => t \in k.cooldowns
  <2> HIDE DEF k
  <2> QED BY <1>k, <1>0, ClearSound
<1>d. IsManual(m, r) =>
        /\ k.paused = m.paused /\ k.current = m.current /\ k.run = m.run
        /\ \A j \in Instances :
              /\ k.inst[j].intent = m.inst[j].intent
              /\ k.inst[j].execution = m.inst[j].execution
              /\ k.inst[j].cooldown = IF j = i THEN None ELSE m.inst[j].cooldown
  <2> HIDE DEF k
  <2> QED BY <1>k, <1>0, ClearFields
<1>s. /\ Sound(k) /\ k.paused = m.paused /\ k.current = m.current /\ k.run = m.run
      /\ \A j \in Instances : /\ k.inst[j].intent = m.inst[j].intent
                              /\ k.inst[j].execution = m.inst[j].execution
  <2>1. CASE IsManual(m, r)
    <3> HIDE DEF k
    <3> QED BY <2>1, <1>c, <1>d
  <2>2. CASE ~IsManual(m, r) BY <2>2, <1>0
  <2> QED BY <2>1, <2>2
<1>f. /\ q \in Managers
      /\ q.paused = k.paused /\ q.current = k.current
      /\ q.overlapped = (m.overlapped \/ m.inst[i].execution # None)
      /\ q.intervals = k.intervals /\ q.cooldowns = k.cooldowns
      /\ q.lost = IF IsManual(m, m.inst[i].execution) /\ ~IsManual(m, r)
                  THEN "superseded" ELSE m.lost
      /\ q.run[r].pc = "runs" /\ q.run[r].inst = i
      /\ q.run[r].invocation = m.run[r].invocation
      /\ \A x \in Calls : x # r => q.run[x] = m.run[x]
      /\ \A j \in Instances :
           /\ q.inst[j].intent = k.inst[j].intent /\ q.inst[j].interval = k.inst[j].interval
           /\ q.inst[j].cooldown = k.inst[j].cooldown
           /\ q.inst[j].execution = IF j = i THEN r ELSE k.inst[j].execution
  <2> HIDE DEF k
  <2> QED BY <1>0, <1>k, LaunchFields
<1>i. i \in Instances OBVIOUS
<1>j. i = m.run[r].inst OBVIOUS
<1> HIDE DEF i, k
<1>e. /\ \A j \in Instances : m.inst[j].execution \in Calls \cup {None}
      /\ m.current \in Instances \cup {None}
      /\ \A t \in k.intervals : t.inst \in Instances
  BY <1>0, <1>s, Elements, Fields DEF Sound
<1>on. (On(q) <=> On(m)) /\ (On(k) <=> On(m)) BY <1>e, <1>f, <1>s DEF On
<1>x. \A j \in Instances : m.inst[j].execution # r
  BY <1>0, <1>n DEF Sound, CallsInPlace
<1>1. CallsInPlace(q)
  <2>1. ASSUME NEW j \in Instances, q.inst[j].execution # None
        PROVE  q.run[q.inst[j].execution].pc = "runs" /\ q.run[q.inst[j].execution].inst = j
    <3>1. CASE j = i BY <3>1, <1>f
    <3>2. CASE j # i
      <4>1. q.inst[j].execution = m.inst[j].execution BY <3>2, <1>f, <1>s
      <4>2. m.inst[j].execution \in Calls /\ m.inst[j].execution # r BY <2>1, <4>1, <1>e, <1>x
      <4>3. m.run[m.inst[j].execution].pc = "runs" /\ m.run[m.inst[j].execution].inst = j
        BY <2>1, <4>1, <1>0 DEF Sound, CallsInPlace
      <4> QED BY <4>1, <4>2, <4>3, <1>f
    <3> QED BY <3>1, <3>2
  <2>2. \A x \in Calls : q.run[x].pc # "none" => q.run[x].inst \in Instances
    BY <1>0, <1>f, <1>i DEF Sound, CallsInPlace
  <2>3. \A x \in Calls : q.run[x].pc = "waits" => q.run[x].invocation # "automatic"
    BY <1>0, <1>f DEF Sound, CallsInPlace
  <2> QED BY <2>1, <2>2, <2>3 DEF CallsInPlace
<1>2. CooldownsInPlace(q) BY <1>f, <1>s DEF Sound, CooldownsInPlace
<1>3. IntervalsInPlace(q)
  <2>1. \A t \in q.intervals : On(q) /\ t.inst = q.current /\ t.id = q.inst[t.inst].interval
    BY <1>e, <1>f, <1>s, <1>on DEF Sound, IntervalsInPlace
  <2>2. \A j \in Instances : q.inst[j].interval # None =>
          \E t \in q.intervals : t.id = q.inst[j].interval /\ t.inst = j
    BY <1>f, <1>s DEF Sound, IntervalsInPlace
  <2> QED BY <2>1, <2>2 DEF IntervalsInPlace
<1>4. RunsOwned(q)
  <2> SUFFICES ASSUME NEW x \in Calls, Unaborted(q, x), ~q.overlapped
               PROVE  /\ q.inst[q.run[x].inst].execution = x
                      /\ q.run[x].inst = q.current /\ q.run[x].invocation = "automatic" => On(q)
    BY DEF RunsOwned
  <2>1. CASE x = r BY <2>1, <1>f, <1>i, <1>j, <1>on, <1>s
  <2>2. CASE x # r
    <3>1. q.run[x] = m.run[x] BY <2>2, <1>f
    <3>2. Unaborted(m, x) /\ ~m.overlapped /\ m.inst[i].execution = None
      BY <3>1, <1>f DEF Unaborted
    <3>3. /\ m.inst[m.run[x].inst].execution = x
          /\ m.run[x].inst = m.current /\ m.run[x].invocation = "automatic" => On(m)
          /\ m.run[x].inst \in Instances
      BY <1>0, <3>2 DEF Sound, RunsOwned, CallsInPlace, Unaborted
    <3>4. m.run[x].inst # i BY <3>2, <3>3, <1>n
    <3> QED BY <3>1, <3>3, <3>4, <1>f, <1>s, <1>on
  <2> QED BY <2>1, <2>2
<1>5. IntentInStep(q) BY <1>e, <1>f, <1>s DEF IntentInStep, Good
<1>6. Cadence(q)
  <2> SUFFICES ASSUME On(q), q.intervals = {}, q.lost = "no" PROVE Manual(q)
    BY DEF Cadence
  <2>1. m.current \in Instances /\ q.current = m.current BY <1>on, <1>e, <1>f, <1>s DEF On
  <2>2. CASE IsManual(m, r) /\ i = m.current
    <3>1. q.inst[q.current].execution = r BY <2>1, <2>2, <1>f
    <3>2. IsManual(q, r) BY <2>2, <1>f DEF IsManual
    <3> QED BY <3>1, <3>2 DEF Manual
  <2>3. CASE ~(IsManual(m, r) /\ i = m.current)
    <3>1. m.intervals = {}
      <4>1. CASE IsManual(m, r) BY <2>3, <4>1, <1>c, <1>f
      <4>2. CASE ~IsManual(m, r) BY <4>2, <1>k, <1>f
      <4> QED BY <4>1, <4>2
    <3>2. m.lost = "no" BY <1>f
    <3>3. Manual(m) BY <3>1, <3>2, <1>on DEF Good, Cadence
    <3>4. ASSUME IsManual(m, m.inst[m.current].execution)
          PROVE  IsManual(q, q.inst[q.current].execution)
      <4>1. m.current # i BY <3>4, <2>3, <1>f
      <4>2. q.inst[q.current].execution = m.inst[m.current].execution
        BY <4>1, <2>1, <1>f, <1>s
      <4>3. m.inst[m.current].execution \in Calls BY <3>4, <2>1, <1>e DEF IsManual
      <4>4. q.run[m.inst[m.current].execution] = m.run[m.inst[m.current].execution]
        BY <4>3, <2>1, <1>x, <1>f
      <4> QED BY <3>4, <4>2, <4>4 DEF IsManual
    <3>5. ASSUME ManualCooldown(m, m.current)
          PROVE  ManualCooldown(q, q.current)
      <4>1. PICK t \in m.cooldowns : t.id = m.inst[m.current].cooldown /\ t.manual
        BY <3>5 DEF ManualCooldown
      <4>2. t.inst = m.current
        <5>1. t.id \in Timers BY <1>0, Elements
        <5>2. PICK u \in m.cooldowns : u.id = m.inst[m.current].cooldown /\ u.inst = m.current
          BY <4>1, <5>1, <1>0, <1>n, <2>1 DEF Sound, CooldownsInPlace
        <5> QED BY <4>1, <5>2, <1>0 DEF Sound, CooldownsInPlace
      <4>3. CASE IsManual(m, r)
        <5>1. t \in k.cooldowns BY <4>1, <4>2, <4>3, <2>3, <1>c DEF OwnOf
        <5>2. k.inst[m.current].cooldown = m.inst[m.current].cooldown
          BY <4>3, <2>1, <2>3, <1>d
        <5> QED BY <4>1, <5>1, <5>2, <2>1, <1>f DEF ManualCooldown
      <4>4. CASE ~IsManual(m, r) BY <4>1, <4>4, <2>1, <1>k, <1>f DEF ManualCooldown
      <4> QED BY <4>3, <4>4
    <3> QED BY <3>3, <3>4, <3>5 DEF Manual
  <2> QED BY <2>2, <2>3
<1> QED BY <1>f, <1>1, <1>2, <1>3, <1>4, <1>5, <1>6 DEF Sound, Good

\* refreshSingle.
Invocations == {"automatic", "foreground", "manual"}
LEMMA RefreshKeeps ==
  ASSUME NEW m, Good(m), FreeCalls(m) # {}, NEW invocation \in Invocations,
         NEW q, q = RefreshSingle(m, invocation)
  PROVE  Good(q)
<1> DEFINE r == FreeCall(m)
           e == m.inst[m.current].execution
           c == [NoRun EXCEPT !.inst = m.current, !.invocation = invocation]
           p == WithCall(m, r, c)
<1>0. Sound(m) /\ m \in Managers BY DEF Good, Sound
<1>n. None \notin Timers /\ None \notin Instances /\ None \notin Calls BY NoneIsNoId
<1>1. CASE m.current = None \/ ~CanStart(m, invocation)
  BY <1>1 DEF RefreshSingle
<1>2. CASE m.current # None /\ CanStart(m, invocation)
  <2>1. r \in Calls /\ m.run[r].pc = "none" BY DEF FreeCall, FreeCalls
  <2>2. m.current \in Instances /\ e \in Calls \cup {None}
    BY <1>0, <1>2, Fields, Elements
  <2>3. /\ c \in CallStates /\ c.pc = "none" /\ c.inst = m.current
        /\ c.invocation = invocation
    BY <2>2 DEF CallStates, NoRun, Invocations
  <2>4. \A i \in Instances : m.inst[i].execution # r
    BY <1>0, <1>n, <2>1 DEF Sound, CallsInPlace
  <2>5. invocation = "automatic" => On(m) /\ e = None
    BY <1>2 DEF CanStart, On
  <2>6. q = IF e = None THEN Launch(p, r)
            ELSE [p EXCEPT !.run[r].pc = "waits", !.run[r].on = e, !.run[e].aborted = TRUE]
    BY <1>2 DEF RefreshSingle, WithCall
  <2>p. p = WithCall(m, r, c) OBVIOUS
  <2>e. e = m.inst[m.current].execution OBVIOUS
  <2> HIDE DEF r, c, p, e
  <2>7. /\ p \in Managers
        /\ p.paused = m.paused /\ p.overlapped = m.overlapped /\ p.lost = m.lost
        /\ p.current = m.current /\ p.inst = m.inst
        /\ p.intervals = m.intervals /\ p.cooldowns = m.cooldowns
        /\ \A x \in Calls : p.run[x] = IF x = r THEN c ELSE m.run[x]
    BY <1>0, <2>1, <2>3, <2>p, RunUpdate
  <2>8. CASE e = None
    <3>1. Sound(p) /\ (IntentInStep(m) => IntentInStep(p)) /\ (Cadence(m) => Cadence(p))
      <4>1. \A x \in Calls : \/ p.run[x] = m.run[x]
                             \/ /\ p.run[x].pc = "runs" => p.run[x].aborted
                                /\ p.run[x].pc # "none" => p.run[x].inst \in Instances
                                /\ p.run[x].pc = "waits" => p.run[x].invocation # "automatic"
        BY <2>3, <2>7
      <4>2. \A x \in Calls, i \in Instances : m.inst[i].execution = x =>
              /\ p.run[x].pc = m.run[x].pc /\ p.run[x].inst = m.run[x].inst
              /\ p.run[x].invocation = m.run[x].invocation
        BY <2>4, <2>7
      <4> QED BY <1>0, <2>7, <4>1, <4>2, CallsKeep
    <3>2. Good(p) BY <3>1 DEF Good
    <3>3. p.run[r] = c BY <2>1, <2>7
    <3>4. invocation = "automatic" => On(p) BY <2>5, <2>7 DEF On
    <3> QED BY <2>1, <2>2, <2>3, <2>6, <2>8, <3>2, <3>3, <3>4, LaunchKeeps
  <2>9. CASE e # None
    <3> DEFINE w == [c EXCEPT !.pc = "waits", !.on = e]
               a == [m.run[e] EXCEPT !.aborted = TRUE]
               p1 == WithCall(m, r, w)
    <3>1. e \in Calls /\ e # r BY <2>2, <2>4, <2>9, <2>e
    <3>2. /\ w \in CallStates /\ w.pc = "waits" /\ w.inst = m.current
          /\ w.invocation = invocation
      BY <2>3, <3>1 DEF CallStates
    <3>3. m.run[e] \in CallStates BY <1>0, <3>1, Fields
    <3>4. /\ a \in CallStates /\ a.pc = m.run[e].pc /\ a.inst = m.run[e].inst
          /\ a.invocation = m.run[e].invocation /\ a.aborted
      BY <3>3 DEF CallStates
    <3>5. m.run[e].pc = "runs" /\ m.run[e].inst = m.current
      BY <1>0, <2>2, <2>9, <2>e DEF Sound, CallsInPlace
    <3>6. q = WithCall(p1, e, a)
      <4>0. m.run \in [Calls -> CallStates] BY <1>0, Fields
      <4> DEFINE R == [m.run EXCEPT ![r] = c]
                 R2 == [[[R EXCEPT ![r].pc = "waits"] EXCEPT ![r].on = e]
                         EXCEPT ![e].aborted = TRUE]
                 R3 == [m.run EXCEPT ![r] = w]
                 R4 == [R3 EXCEPT ![e] = a]
      <4>1. p = [m EXCEPT !.run = R]
        <5> HIDE DEF c
        <5> QED BY <1>0, <2>p DEF WithCall, Managers
      <4>2. q = [p EXCEPT !.run = R2]
        <5>1. p.run = R BY <1>0, <4>1 DEF Managers
        <5> HIDE DEF R
        <5> QED BY <2>6, <2>7, <2>9, <5>1 DEF Managers
      <4>3. R2 = R4 BY <2>1, <2>3, <3>1, <4>0 DEF CallStates
      <4>4. p1 = [m EXCEPT !.run = R3] /\ p1 \in Managers /\ p1.run = R3
        <5>1. p1 = [m EXCEPT !.run = R3]
          <6> HIDE DEF w
          <6> QED BY <1>0 DEF WithCall, Managers
        <5>2. R3 \in [Calls -> CallStates] BY <2>1, <3>2, <4>0
        <5> HIDE DEF R3, p1
        <5> QED BY <1>0, <5>1, <5>2 DEF Managers
      <4>5. WithCall(p1, e, a) = [p1 EXCEPT !.run = R4]
        <5> HIDE DEF a, p1, R3
        <5> QED BY <4>4 DEF WithCall, Managers
      <4> HIDE DEF R, R2, R3, R4, p1
      <4> QED BY <1>0, <4>1, <4>2, <4>3, <4>4, <4>5 DEF Managers
    <3>p. p1 = WithCall(m, r, w) OBVIOUS
    <3> HIDE DEF w, a, p1
    <3>7. /\ p1 \in Managers
          /\ p1.paused = m.paused /\ p1.overlapped = m.overlapped /\ p1.lost = m.lost
          /\ p1.current = m.current /\ p1.inst = m.inst
          /\ p1.intervals = m.intervals /\ p1.cooldowns = m.cooldowns
          /\ \A x \in Calls : p1.run[x] = IF x = r THEN w ELSE m.run[x]
      BY <1>0, <2>1, <3>2, <3>p, RunUpdate
    <3>8. /\ q \in Managers
          /\ q.paused = p1.paused /\ q.overlapped = p1.overlapped /\ q.lost = p1.lost
          /\ q.current = p1.current /\ q.inst = p1.inst
          /\ q.intervals = p1.intervals /\ q.cooldowns = p1.cooldowns
          /\ \A x \in Calls : q.run[x] = IF x = e THEN a ELSE p1.run[x]
      BY <3>1, <3>4, <3>6, <3>7, RunUpdate
    <3>9. \A x \in Calls : q.run[x] = IF x = e THEN a ELSE IF x = r THEN w ELSE m.run[x]
      BY <3>7, <3>8
    <3>10. \A x \in Calls : \/ q.run[x] = m.run[x]
                            \/ /\ q.run[x].pc = "runs" => q.run[x].aborted
                               /\ q.run[x].pc # "none" => q.run[x].inst \in Instances
                               /\ q.run[x].pc = "waits" => q.run[x].invocation # "automatic"
      BY <2>2, <2>5, <2>9, <3>2, <3>4, <3>5, <3>9
    <3>11. \A x \in Calls, i \in Instances : m.inst[i].execution = x =>
             /\ q.run[x].pc = m.run[x].pc /\ q.run[x].inst = m.run[x].inst
             /\ q.run[x].invocation = m.run[x].invocation
      BY <2>4, <3>4, <3>9
    <3>12. Sound(q) /\ (IntentInStep(m) => IntentInStep(q)) /\ (Cadence(m) => Cadence(q))
      BY <1>0, <3>7, <3>8, <3>10, <3>11, CallsKeep
    <3> QED BY <3>12 DEF Good
  <2> QED BY <2>8, <2>9
<1> QED BY <1>1, <1>2

-----------------------------------------------------------------------------
\* startRefresher.
Intents == {"enabled", "paused", "disabled"}
WithIntent(m, i, intent) == [m EXCEPT !.inst[i].intent = intent]

LEMMA IntentUpdate ==
  ASSUME NEW m \in Managers, NEW i \in Instances,
         NEW intent \in Intents, NEW q, q = WithIntent(m, i, intent)
  PROVE  /\ q \in Managers
         /\ q.paused = m.paused /\ q.overlapped = m.overlapped /\ q.lost = m.lost
         /\ q.current = m.current /\ q.run = m.run
         /\ q.intervals = m.intervals /\ q.cooldowns = m.cooldowns
         /\ \A j \in Instances :
              /\ q.inst[j].intent = IF j = i THEN intent ELSE m.inst[j].intent
              /\ q.inst[j].interval = m.inst[j].interval
              /\ q.inst[j].cooldown = m.inst[j].cooldown
              /\ q.inst[j].execution = m.inst[j].execution
<1> DEFINE c == [m.inst[i] EXCEPT !.intent = intent]
<1>1. m.inst[i] \in InstanceStates BY Fields
<1>2. c \in InstanceStates /\ c.intent = intent /\ c.interval = m.inst[i].interval
      /\ c.cooldown = m.inst[i].cooldown /\ c.execution = m.inst[i].execution
  BY <1>1 DEF InstanceStates, Intents
<1>3. q = WithInstance(m, i, c) BY DEF WithIntent, WithInstance, Managers
<1> HIDE DEF c
<1>4. /\ q \in Managers
      /\ q.paused = m.paused /\ q.overlapped = m.overlapped /\ q.lost = m.lost
      /\ q.current = m.current /\ q.run = m.run
      /\ q.intervals = m.intervals /\ q.cooldowns = m.cooldowns
      /\ \A x \in Instances : q.inst[x] = IF x = i THEN c ELSE m.inst[x]
  BY <1>2, <1>3, InstanceUpdate
<1> QED BY <1>2, <1>4

LEMMA StartRefresherKeeps ==
  ASSUME NEW m, Sound(m), FreeTimers(m) # {}, FreeCalls(m) # {},
         m.current # None /\ ~m.paused => m.inst[m.current].intent # "paused",
         NEW q, q = StartRefresher(m)
  PROVE  Good(q)
<1>0. m \in Managers BY DEF Sound
<1>1. CASE m.current = None \/ m.inst[m.current].intent = "disabled"
  <2>1. q = m BY <1>1 DEF StartRefresher
  <2> QED BY <1>1, <2>1 DEF Good, IntentInStep, Cadence, On
<1>2. CASE ~(m.current = None \/ m.inst[m.current].intent = "disabled") /\ m.paused
  <2> DEFINE i == m.current
             intent == "paused"
  <2>i. i = m.current OBVIOUS
  <2>1. i \in Instances BY <1>0, <1>2, Fields
  <2>2. q = WithIntent(m, i, intent) BY <1>2 DEF StartRefresher, WithIntent
  <2>v. intent = "paused" /\ intent \in Intents BY DEF Intents
  <2> HIDE DEF i, intent
  <2>3. /\ q \in Managers
        /\ q.paused = m.paused /\ q.overlapped = m.overlapped /\ q.lost = m.lost
        /\ q.current = m.current /\ q.run = m.run
        /\ q.intervals = m.intervals /\ q.cooldowns = m.cooldowns
        /\ \A j \in Instances :
             /\ q.inst[j].intent = IF j = i THEN intent ELSE m.inst[j].intent
             /\ q.inst[j].interval = m.inst[j].interval
             /\ q.inst[j].cooldown = m.inst[j].cooldown
             /\ q.inst[j].execution = m.inst[j].execution
    BY <1>0, <2>1, <2>2, <2>v, IntentUpdate
  <2>4. ~On(m) /\ ~On(q) BY <1>2, <2>3 DEF On
  <2>5. Sound(q) BY <2>3, <2>4, IntentSound
  <2>6. IntentInStep(q) BY <1>2, <2>i, <2>1, <2>v, <2>3 DEF IntentInStep
  <2> QED BY <2>4, <2>5, <2>6 DEF Good, Cadence
<1>3. CASE ~(m.current = None \/ m.inst[m.current].intent = "disabled") /\ ~m.paused
  <2>1. m.current \in Instances BY <1>0, <1>3, Fields
  <2>2. m.inst[m.current] \in InstanceStates BY <1>0, <2>1, Fields
  <2>3. On(m) BY <1>3, <2>1, <2>2 DEF On, InstanceStates
  <2>4. q = Armed(m) \/ q = RefreshSingle(Armed(m), "automatic")
    BY <1>3 DEF StartRefresher, Armed
  <2>5. Good(Armed(m)) /\ FreeCalls(Armed(m)) # {} BY <2>3, ArmedGood
  <2> QED BY <2>4, <2>5, RefreshKeeps DEF Invocations
<1> QED BY <1>1, <1>2, <1>3

-----------------------------------------------------------------------------
\* What the event loop runs.
LEMMA ProceedKeeps ==
  ASSUME Good(s), NEW r \in Calls, Proceed(r)
  PROVE  Good(s')
<1>1. /\ s.run[r].pc = "waits" /\ s.run[r].inst \in Instances
      /\ s.run[r].invocation # "automatic"
  BY DEF Proceed, Ready, Good, Sound, CallsInPlace
<1>2. s' = Launch(s, r) BY DEF Proceed
<1> QED BY <1>1, <1>2, LaunchKeeps

LEMMA SettleKeeps ==
  ASSUME Good(s), NEW r \in Calls, NEW outcome \in {"ok", "failed", "aborted"},
         Settle(r, outcome)
  PROVE  Good(s')
<1> DEFINE i == s.run[r].inst
           m == WithCall(s, r, NoRun)
           manual == IsManual(s, r)
<1>0. Sound(s) /\ s \in Managers BY DEF Good, Sound
<1>n. None \notin Timers /\ None \notin Instances /\ None \notin Calls BY NoneIsNoId
<1>1. s.run[r].pc = "runs" /\ i \in Instances BY <1>0 DEF Settle, Sound, CallsInPlace
<1>2. NoRun \in CallStates /\ NoRun.pc = "none" BY DEF NoRun, CallStates
<1>m. m = WithCall(s, r, NoRun) OBVIOUS
<1>r. manual \in BOOLEAN /\ (outcome = "failed") \in BOOLEAN BY DEF IsManual
<1>3. \A j \in Instances : s.inst[j].execution = r => j = i
  BY <1>0, <1>n DEF Sound, CallsInPlace
<1>4. \/ s.inst[i].execution # r /\ s' = m
      \/ s.inst[i].execution = r /\ s' = WithCall(Finished(s, i), r, NoRun)
      \/ /\ s.inst[i].execution = r
         /\ s' = EnterCooldown([m EXCEPT !.inst[i].execution = None,
                                         !.inst[i].ran = @ \/ outcome = "ok"],
                               i, manual, outcome = "failed")
  BY DEF Settle, WithCall, AbortedEnds
<1>t. FreeTimers(s) # {} BY DEF Settle, Room
<1>h. i = s.run[r].inst /\ manual = IsManual(s, r) OBVIOUS
<1> HIDE DEF m, i, manual
<1>5. /\ m \in Managers
      /\ m.paused = s.paused /\ m.overlapped = s.overlapped /\ m.lost = s.lost
      /\ m.current = s.current /\ m.inst = s.inst
      /\ m.intervals = s.intervals /\ m.cooldowns = s.cooldowns
      /\ \A x \in Calls : m.run[x] = IF x = r THEN NoRun ELSE s.run[x]
  BY <1>0, <1>2, <1>m, RunUpdate
<1>6. CASE s.inst[i].execution # r /\ s' = m
  <2>1. \A x \in Calls : \/ m.run[x] = s.run[x]
                         \/ /\ m.run[x].pc = "runs" => m.run[x].aborted
                            /\ m.run[x].pc # "none" => m.run[x].inst \in Instances
                            /\ m.run[x].pc = "waits" => m.run[x].invocation # "automatic"
    BY <1>2, <1>5
  <2>2. \A x \in Calls, j \in Instances : s.inst[j].execution = x =>
          /\ m.run[x].pc = s.run[x].pc /\ m.run[x].inst = s.run[x].inst
          /\ m.run[x].invocation = s.run[x].invocation
    BY <1>3, <1>5, <1>6
  <2>3. Sound(m) /\ (IntentInStep(s) => IntentInStep(m)) /\ (Cadence(s) => Cadence(m))
    BY <1>0, <1>5, <2>1, <2>2, CallsKeep
  <2> QED BY <1>6, <2>3 DEF Good
<1>7. CASE s.inst[i].execution = r /\ s' = WithCall(Finished(s, i), r, NoRun)
  <2> DEFINE f == Finished(s, i)
             q == WithCall(f, r, NoRun)
  <2>f. /\ f \in Managers
        /\ f.paused = s.paused /\ f.overlapped = s.overlapped /\ f.current = s.current
        /\ f.run = s.run /\ f.intervals = s.intervals /\ f.cooldowns = s.cooldowns
        /\ f.lost = IF IsManual(s, s.inst[i].execution) THEN "superseded" ELSE s.lost
        /\ \A j \in Instances :
             /\ f.inst[j].intent = s.inst[j].intent /\ f.inst[j].interval = s.inst[j].interval
             /\ f.inst[j].cooldown = s.inst[j].cooldown
             /\ f.inst[j].execution = IF j = i THEN None ELSE s.inst[j].execution
    BY <1>0, <1>1, FinishedFields
  <2>s. s' = q /\ q = WithCall(f, r, NoRun) BY <1>7
  <2> HIDE DEF f, q
  <2>q. /\ q \in Managers
        /\ q.paused = f.paused /\ q.overlapped = f.overlapped /\ q.lost = f.lost
        /\ q.current = f.current /\ q.inst = f.inst
        /\ q.intervals = f.intervals /\ q.cooldowns = f.cooldowns
        /\ \A x \in Calls : q.run[x] = IF x = r THEN NoRun ELSE f.run[x]
    BY <1>2, <2>f, <2>s, RunUpdate
  <2>1. s.inst[i].execution # None BY <1>7, <1>n
  <2>2. \A x \in Calls : \/ q.run[x] = s.run[x] /\ x # s.inst[i].execution
                         \/ /\ x = s.inst[i].execution
                            /\ \/ q.run[x].pc = "none"
                               \/ /\ q.run[x].pc = "runs" /\ q.run[x].aborted
                                  /\ q.run[x].inst = i
    BY <1>2, <1>7, <2>f, <2>q
  <2>3. /\ Sound(q)
        /\ IntentInStep(s) => IntentInStep(q)
        /\ Cadence(s) /\ (s.lost # "no" \/ IsManual(s, s.inst[i].execution) => q.lost # "no")
             => Cadence(q)
    BY <1>0, <1>1, <2>1, <2>2, <2>f, <2>q, EndSound
  <2>4. s.lost # "no" \/ IsManual(s, s.inst[i].execution) => q.lost # "no" BY <2>f, <2>q
  <2> QED BY <2>3, <2>4, <2>s DEF Good
<1>8. CASE /\ s.inst[i].execution = r
           /\ s' = EnterCooldown([m EXCEPT !.inst[i].execution = None,
                                           !.inst[i].ran = @ \/ outcome = "ok"],
                                 i, manual, outcome = "failed")
  <2> DEFINE v == m.inst[i].ran \/ outcome = "ok"
             c == [m.inst[i] EXCEPT !.execution = None, !.ran = v]
             k == WithInstance(m, i, c)
             retry == outcome = "failed"
  <2>1. m.inst[i] \in InstanceStates BY <1>1, <1>5, Fields
  <2>v. v \in BOOLEAN OBVIOUS
  <2>w. s' = EnterCooldown([m EXCEPT !.inst[i].execution = None, !.inst[i].ran = v],
                           i, manual, outcome = "failed")
    BY <1>8
  <2> HIDE DEF v
  <2>2. c \in InstanceStates /\ c.intent = m.inst[i].intent /\ c.interval = m.inst[i].interval
        /\ c.cooldown = m.inst[i].cooldown /\ c.execution = None
    BY <2>1, <2>v DEF InstanceStates
  <2>3. s' = EnterCooldown(k, i, manual, retry)
    <3>1. k = [m EXCEPT !.inst[i].execution = None, !.inst[i].ran = v]
      <4> DEFINE R == [[m.inst EXCEPT ![i].execution = None] EXCEPT ![i].ran = v]
                 R2 == [m.inst EXCEPT ![i] = c]
      <4>0. m.inst \in [Instances -> InstanceStates] BY <1>5, Fields
      <4>1. [m EXCEPT !.inst[i].execution = None, !.inst[i].ran = v]
              = [m EXCEPT !.inst = R]
        BY <1>5 DEF Managers
      <4>2. R = R2 BY <4>0, <1>1 DEF InstanceStates
      <4>3. k = [m EXCEPT !.inst = R2]
        <5> HIDE DEF c
        <5> QED BY <1>5 DEF WithInstance, Managers
      <4> HIDE DEF R, R2, k
      <4> QED BY <4>1, <4>2, <4>3
    <3> HIDE DEF k
    <3> QED BY <2>w, <3>1
  <2>k. k = WithInstance(m, i, c) OBVIOUS
  <2>r. retry \in BOOLEAN OBVIOUS
  <2> HIDE DEF c, k, retry
  <2>4. /\ k \in Managers
        /\ k.paused = m.paused /\ k.overlapped = m.overlapped /\ k.lost = m.lost
        /\ k.current = m.current /\ k.run = m.run
        /\ k.intervals = m.intervals /\ k.cooldowns = m.cooldowns
        /\ \A x \in Instances : k.inst[x] = IF x = i THEN c ELSE m.inst[x]
    BY <1>1, <1>5, <2>2, <2>k, InstanceUpdate
  <2>5. \A j \in Instances :
          /\ k.inst[j].intent = s.inst[j].intent /\ k.inst[j].interval = s.inst[j].interval
          /\ k.inst[j].cooldown = s.inst[j].cooldown
          /\ k.inst[j].execution = IF j = i THEN None ELSE s.inst[j].execution
    BY <1>5, <2>2, <2>4
  <2>6. \A x \in Calls : \/ k.run[x] = s.run[x] /\ x # s.inst[i].execution
                         \/ /\ x = s.inst[i].execution
                            /\ \/ k.run[x].pc = "none"
                               \/ /\ k.run[x].pc = "runs" /\ k.run[x].aborted
                                  /\ k.run[x].inst = i
    BY <1>2, <1>5, <1>8, <2>4
  <2>7. Sound(k) /\ (IntentInStep(s) => IntentInStep(k))
    <3>1. s.inst[i].execution # None BY <1>8, <1>n
    <3>2. /\ k.paused = s.paused /\ k.overlapped = s.overlapped /\ k.current = s.current
          /\ k.intervals = s.intervals /\ k.cooldowns = s.cooldowns
      BY <1>5, <2>4
    <3> QED BY <1>0, <1>1, <2>4, <2>5, <2>6, <3>1, <3>2, EndSound
  <2>8. FreeTimers(k) # {} BY <1>t, <1>5, <2>4 DEF FreeTimers
  <2>9. Sound(s') /\ (IntentInStep(k) => IntentInStep(s'))
    BY <1>1, <1>r, <1>h, <2>r, <2>3, <2>7, <2>8, CooldownSound
  <2>10. /\ s'.paused = k.paused /\ s'.current = k.current
         /\ s'.run = k.run /\ s'.intervals = k.intervals
         /\ s'.lost = IF ManualCooldown(k, i) THEN "superseded" ELSE k.lost
         /\ s'.cooldowns = k.cooldowns \cup {[id |-> FreeTimer(k), inst |-> i, manual |-> manual,
                                             retry |-> retry]}
         /\ \A j \in Instances :
              /\ s'.inst[j].intent = k.inst[j].intent
              /\ s'.inst[j].cooldown = IF j = i THEN FreeTimer(k) ELSE k.inst[j].cooldown
              /\ s'.inst[j].execution = k.inst[j].execution
    BY <1>1, <1>r, <1>h, <2>r, <2>3, <2>4, <2>8, CooldownFields
  <2>11. Cadence(s')
    <3> SUFFICES ASSUME On(s'), s'.intervals = {}, s'.lost = "no" PROVE Manual(s')
      BY DEF Cadence
    <3>1. s.current \in Instances /\ s'.current = s.current
      <4>1. s.current \in Instances \cup {None} BY <1>0, Fields
      <4> QED BY <4>1, <1>5, <2>4, <2>10 DEF On
    <3>2. On(s) BY <3>1, <1>5, <2>4, <2>5, <2>10 DEF On
    <3>3. s.intervals = {} /\ s.lost = "no" /\ ~ManualCooldown(k, i)
      BY <1>5, <2>4, <2>10
    <3>4. Manual(s) BY <3>2, <3>3 DEF Good, Cadence
    <3>5. ASSUME IsManual(s, s.inst[s.current].execution) PROVE Manual(s')
      <4>1. CASE s.current = i
        <5>1. manual BY <3>5, <4>1, <1>8, <1>h
        <5> DEFINE new == [id |-> FreeTimer(k), inst |-> i, manual |-> manual, retry |-> retry]
        <5>2. new \in s'.cooldowns /\ new.id = s'.inst[i].cooldown /\ new.manual
          BY <5>1, <2>10, <1>1
        <5>3. ManualCooldown(s', i) BY <5>2 DEF ManualCooldown
        <5> QED BY <5>3, <4>1, <3>1 DEF Manual
      <4>2. CASE s.current # i
        <5> DEFINE e == s.inst[s.current].execution
        <5>1. e \in Calls BY <3>1, <3>5, <1>0, Elements DEF IsManual
        <5>2. e # r BY <4>2, <3>1, <1>3
        <5>3. s'.run[e] = s.run[e] BY <5>1, <5>2, <1>5, <2>4, <2>10
        <5>4. s'.inst[s'.current].execution = e BY <4>2, <3>1, <2>5, <2>10
        <5> HIDE DEF e
        <5>5. IsManual(s, e) BY <3>5 DEF e
        <5>6. IsManual(s', e) BY <5>3, <5>5 DEF IsManual
        <5> QED BY <5>4, <5>6 DEF Manual
      <4> QED BY <4>1, <4>2
    <3>6. ASSUME ManualCooldown(s, s.current) PROVE Manual(s')
      <4>1. PICK t \in s.cooldowns : t.id = s.inst[s.current].cooldown /\ t.manual
        BY <3>6 DEF ManualCooldown
      <4>2. s.current # i
        BY <4>1, <3>3, <1>1, <1>5, <2>4, <2>5 DEF ManualCooldown
      <4>3. t \in s'.cooldowns /\ s'.inst[s'.current].cooldown = t.id
        BY <4>1, <4>2, <3>1, <1>5, <2>4, <2>5, <2>10
      <4> QED BY <4>1, <4>3 DEF Manual, ManualCooldown
    <3> QED BY <3>4, <3>5, <3>6 DEF Manual
  <2> QED BY <2>7, <2>9, <2>11 DEF Good
<1> QED BY <1>4, <1>6, <1>7, <1>8

\* The timer of a cooldown is gone; its record too, if it was the instance's own.
Fired(m, t) == [m EXCEPT !.cooldowns = @ \ {t}]
Cooled(m, t) == [Fired(m, t) EXCEPT !.inst[t.inst].cooldown = None]

LEMMA FiredFields ==
  ASSUME NEW m \in Managers, NEW t \in m.cooldowns,
         NEW f, f = Fired(m, t), NEW c, c = Cooled(m, t)
  PROVE  /\ f \in Managers /\ c \in Managers
         /\ f.paused = m.paused /\ f.overlapped = m.overlapped /\ f.lost = m.lost
         /\ f.current = m.current /\ f.run = m.run /\ f.inst = m.inst
         /\ f.intervals = m.intervals /\ f.cooldowns = m.cooldowns \ {t}
         /\ c.paused = m.paused /\ c.overlapped = m.overlapped /\ c.lost = m.lost
         /\ c.current = m.current /\ c.run = m.run
         /\ c.intervals = m.intervals /\ c.cooldowns = m.cooldowns \ {t}
         /\ \A j \in Instances :
              /\ c.inst[j].intent = m.inst[j].intent /\ c.inst[j].interval = m.inst[j].interval
              /\ c.inst[j].execution = m.inst[j].execution
              /\ c.inst[j].cooldown = IF j = t.inst THEN None ELSE m.inst[j].cooldown
<1> DEFINE B == m.cooldowns \ {t}
           i == t.inst
           x == [f.inst[i] EXCEPT !.cooldown = None]
<1>1. B \in SUBSET [id : Timers, inst : Instances, manual : BOOLEAN, retry : BOOLEAN]
  BY Fields
<1>2. /\ f \in Managers
      /\ f.paused = m.paused /\ f.overlapped = m.overlapped /\ f.lost = m.lost
      /\ f.current = m.current /\ f.run = m.run /\ f.inst = m.inst
      /\ f.intervals = m.intervals /\ f.cooldowns = B
  <2>1. f = [m EXCEPT !.cooldowns = B] BY DEF Fired
  <2> HIDE DEF B
  <2> QED BY <1>1, <2>1 DEF Managers
<1>3. i \in Instances BY Elements
<1>4. f.inst[i] \in InstanceStates BY <1>2, <1>3, Fields
<1>5. x \in InstanceStates /\ x.intent = f.inst[i].intent /\ x.interval = f.inst[i].interval
      /\ x.execution = f.inst[i].execution /\ x.cooldown = None
  BY <1>4 DEF InstanceStates
<1>6. c = WithInstance(f, i, x)
  <2>1. c = [f EXCEPT !.inst[i].cooldown = None] BY DEF Cooled
  <2> HIDE DEF i
  <2> QED BY <1>2, <2>1 DEF WithInstance, Managers
<1>i. i = t.inst /\ B = m.cooldowns \ {t} OBVIOUS
<1> HIDE DEF i, x, B
<1>7. /\ c \in Managers
      /\ c.paused = f.paused /\ c.overlapped = f.overlapped /\ c.lost = f.lost
      /\ c.current = f.current /\ c.run = f.run
      /\ c.intervals = f.intervals /\ c.cooldowns = f.cooldowns
      /\ \A y \in Instances : c.inst[y] = IF y = i THEN x ELSE f.inst[y]
  BY <1>2, <1>3, <1>5, <1>6, InstanceUpdate
<1> QED BY <1>2, <1>5, <1>7, <1>i

LEMMA FiresKeeps ==
  ASSUME Good(s), NEW t \in s.cooldowns, CooldownFires(t)
  PROVE  Good(s')
<1> DEFINE f == Fired(s, t)
           c == Cooled(s, t)
<1>0. Sound(s) /\ s \in Managers BY DEF Good, Sound
<1>n. None \notin Timers /\ None \notin Instances /\ None \notin Calls BY NoneIsNoId
<1>s. \/ ~OwnCooldown(t) /\ s' = f
      \/ OwnCooldown(t) /\ t.manual /\ s' = StartRefresher(c)
      \/ OwnCooldown(t) /\ ~t.manual /\ (s' = RefreshSingle(c, "automatic") \/ s' = c)
  BY DEF CooldownFires, Restart, Fired, Cooled
<1>r. FreeTimers(s) # {} /\ FreeCalls(s) # {} BY DEF CooldownFires, Room
<1>f. /\ f \in Managers /\ c \in Managers
      /\ f.paused = s.paused /\ f.overlapped = s.overlapped /\ f.lost = s.lost
      /\ f.current = s.current /\ f.run = s.run /\ f.inst = s.inst
      /\ f.intervals = s.intervals /\ f.cooldowns = s.cooldowns \ {t}
      /\ c.paused = s.paused /\ c.overlapped = s.overlapped /\ c.lost = s.lost
      /\ c.current = s.current /\ c.run = s.run
      /\ c.intervals = s.intervals /\ c.cooldowns = s.cooldowns \ {t}
      /\ \A j \in Instances :
           /\ c.inst[j].intent = s.inst[j].intent /\ c.inst[j].interval = s.inst[j].interval
           /\ c.inst[j].execution = s.inst[j].execution
           /\ c.inst[j].cooldown = IF j = t.inst THEN None ELSE s.inst[j].cooldown
  <2>1. f = Fired(s, t) /\ c = Cooled(s, t) OBVIOUS
  <2> HIDE DEF f, c
  <2> QED BY <1>0, <2>1, FiredFields
<1> HIDE DEF f, c
<1>e. /\ s.current \in Instances \cup {None} /\ t.inst \in Instances /\ t.id \in Timers
      /\ \A u \in s.intervals : u.inst \in Instances
  BY <1>0, Elements, Fields
<1>u. \A u \in s.cooldowns : u.id = t.id => u = t BY <1>0 DEF Sound, CooldownsInPlace
<1>1. CASE ~OwnCooldown(t) /\ s' = f
  <2>1. \A j \in Instances : s.inst[j].cooldown # t.id
    BY <1>0, <1>e, <1>n, <1>u, <1>1 DEF Sound, CooldownsInPlace, OwnCooldown
  <2>2. CooldownsInPlace(f)
    <3>1. \A u, v \in f.cooldowns : u.id = v.id => u = v
      BY <1>0, <1>f DEF Sound, CooldownsInPlace
    <3>2. ASSUME NEW j \in Instances, f.inst[j].cooldown # None
          PROVE  \E u \in f.cooldowns : u.id = f.inst[j].cooldown /\ u.inst = j
      <4>1. PICK u \in s.cooldowns : u.id = s.inst[j].cooldown /\ u.inst = j
        BY <3>2, <1>0, <1>f DEF Sound, CooldownsInPlace
      <4>2. u # t BY <4>1, <2>1
      <4> QED BY <4>1, <4>2, <1>f
    <3> QED BY <3>1, <3>2 DEF CooldownsInPlace
  <2>3. On(f) <=> On(s) BY <1>f DEF On
  <2>4. CallsInPlace(f) BY <1>0, <1>f DEF Sound, CallsInPlace
  <2>5. IntervalsInPlace(f) BY <1>0, <1>f, <2>3 DEF Sound, IntervalsInPlace
  <2>6. RunsOwned(f)
    <3>1. \A r \in Calls : Unaborted(f, r) <=> Unaborted(s, r) BY <1>f DEF Unaborted
    <3> QED BY <1>0, <1>f, <2>3, <3>1 DEF Sound, RunsOwned
  <2>7. IntentInStep(f) BY <1>f DEF Good, IntentInStep
  <2>8. Cadence(f)
    <3> SUFFICES ASSUME On(s), Manual(s) PROVE Manual(f)
      BY <1>f, <2>3 DEF Good, Cadence
    <3>1. s.current \in Instances BY <1>e DEF On
    <3>2. ManualCooldown(s, s.current) => ManualCooldown(f, f.current)
      BY <1>f, <2>1, <3>1 DEF ManualCooldown
    <3>3. IsManual(s, s.inst[s.current].execution) => IsManual(f, f.inst[f.current].execution)
      BY <1>f DEF IsManual
    <3> QED BY <3>2, <3>3 DEF Manual
  <2> QED BY <1>1, <1>f, <2>2, <2>4, <2>5, <2>6, <2>7, <2>8 DEF Good, Sound
<1>2. CASE OwnCooldown(t)
  <2>1. CooldownsInPlace(c)
    <3>1. \A u, v \in c.cooldowns : u.id = v.id => u = v
      BY <1>0, <1>f DEF Sound, CooldownsInPlace
    <3>2. ASSUME NEW j \in Instances, c.inst[j].cooldown # None
          PROVE  \E u \in c.cooldowns : u.id = c.inst[j].cooldown /\ u.inst = j
      <4>1. j # t.inst /\ c.inst[j].cooldown = s.inst[j].cooldown BY <3>2, <1>f
      <4>2. PICK u \in s.cooldowns : u.id = s.inst[j].cooldown /\ u.inst = j
        BY <3>2, <4>1, <1>0 DEF Sound, CooldownsInPlace
      <4>3. u # t BY <4>1, <4>2
      <4> QED BY <4>1, <4>2, <4>3, <1>f
    <3> QED BY <3>1, <3>2 DEF CooldownsInPlace
  <2>2. On(c) <=> On(s) BY <1>f, <1>e DEF On
  <2>3. CallsInPlace(c) BY <1>0, <1>f DEF Sound, CallsInPlace
  <2>4. IntervalsInPlace(c)
    <3>1. \A u \in c.intervals : On(c) /\ u.inst = c.current /\ u.id = c.inst[u.inst].interval
      BY <1>0, <1>e, <1>f, <2>2 DEF Sound, IntervalsInPlace
    <3>2. \A j \in Instances : c.inst[j].interval # None =>
            \E u \in c.intervals : u.id = c.inst[j].interval /\ u.inst = j
      BY <1>0, <1>f DEF Sound, IntervalsInPlace
    <3> QED BY <3>1, <3>2 DEF IntervalsInPlace
  <2>5. RunsOwned(c)
    <3> SUFFICES ASSUME NEW r \in Calls, Unaborted(c, r), ~c.overlapped
                 PROVE  /\ c.inst[c.run[r].inst].execution = r
                        /\ c.run[r].inst = c.current /\ c.run[r].invocation = "automatic" => On(c)
      BY DEF RunsOwned
    <3>1. Unaborted(s, r) BY <1>f DEF Unaborted
    <3>2. /\ s.inst[s.run[r].inst].execution = r
          /\ s.run[r].inst = s.current /\ s.run[r].invocation = "automatic" => On(s)
          /\ s.run[r].inst \in Instances
      BY <1>0, <1>f, <3>1 DEF Sound, RunsOwned, CallsInPlace, Unaborted
    <3> QED BY <1>f, <2>2, <3>2
  <2>6. IntentInStep(c) BY <1>f, <1>e DEF Good, IntentInStep
  <2>7. Sound(c) BY <1>f, <2>1, <2>3, <2>4, <2>5 DEF Sound
  <2>8. FreeTimers(c) # {} /\ FreeCalls(c) # {}
    BY <1>f, <1>r DEF FreeTimers, FreeCalls
  <2>9. CASE t.manual /\ s' = StartRefresher(c)
    <3>1. c.current # None /\ ~c.paused => c.inst[c.current].intent # "paused"
      BY <2>6 DEF IntentInStep
    <3> QED BY <2>7, <2>8, <2>9, <3>1, StartRefresherKeeps
  <2>10. CASE ~t.manual /\ (s' = RefreshSingle(c, "automatic") \/ s' = c)
    <3>1. Cadence(c)
      <4> SUFFICES ASSUME On(s), Manual(s) PROVE Manual(c)
        BY <1>f, <2>2 DEF Good, Cadence
      <4>1. s.current \in Instances BY <1>e DEF On
      <4>2. ManualCooldown(s, s.current) => ManualCooldown(c, c.current)
        <5> SUFFICES ASSUME NEW u \in s.cooldowns, u.id = s.inst[s.current].cooldown, u.manual
                     PROVE  ManualCooldown(c, c.current)
          BY DEF ManualCooldown
        <5>1. u # t BY <2>10
        <5>2. s.current # t.inst BY <1>2, <1>u, <5>1 DEF OwnCooldown
        <5> QED BY <1>f, <4>1, <5>1, <5>2 DEF ManualCooldown
      <4>3. IsManual(s, s.inst[s.current].execution) => IsManual(c, c.inst[c.current].execution)
        BY <1>f, <4>1 DEF IsManual
      <4> QED BY <4>2, <4>3 DEF Manual
    <3>2. Good(c) BY <2>6, <2>7, <3>1 DEF Good
    <3> QED BY <2>8, <2>10, <3>2, RefreshKeeps DEF Invocations
  <2> QED BY <1>2, <1>s, <2>9, <2>10
<1> QED BY <1>s, <1>1, <1>2

LEMMA TickKeeps ==
  ASSUME Good(s), NEW t \in s.intervals, Tick(t)
  PROVE  Good(s')
BY RefreshKeeps DEF Tick, Room, Invocations

-----------------------------------------------------------------------------
\* Commands.
LEMMA UnregisteredSound ==
  ASSUME NEW m, Sound(m), NEW q, q = Unregistered(m)
  PROVE  /\ Sound(q) /\ q.current = None /\ q.intervals = {} /\ q.run = m.run
         /\ q.cooldowns \subseteq m.cooldowns
         /\ q.paused = m.paused
<1>0. m \in Managers BY DEF Sound
<1>1. CASE m.current = None
  BY <1>1 DEF Unregistered, Sound, IntervalsInPlace, On
<1>2. CASE m.current # None
  <2> DEFINE k == ClearTimers(m, m.current)
             i == m.current
  <2>1. i \in Instances BY <1>0, <1>2, Fields
  <2>2. q = [k EXCEPT !.current = None] BY <1>2 DEF Unregistered
  <2>3. k = ClearTimers(m, i) /\ i = m.current OBVIOUS
  <2> HIDE DEF k, i
  <2>4. Sound(k) /\ k.intervals = {} BY <2>1, <2>3, ClearSound
  <2>5. /\ k \in Managers /\ k.run = m.run /\ k.paused = m.paused
        /\ k.cooldowns \subseteq m.cooldowns
    BY <1>0, <2>1, <2>3, ClearFields
  <2>6. /\ q \in Managers /\ q.paused = k.paused /\ q.overlapped = k.overlapped
        /\ q.current = None /\ q.inst = k.inst /\ q.run = k.run
        /\ q.intervals = k.intervals /\ q.cooldowns = k.cooldowns
    BY <2>2, <2>5 DEF Managers
  <2>7. CallsInPlace(q) BY <2>4, <2>6 DEF Sound, CallsInPlace
  <2>8. CooldownsInPlace(q) BY <2>4, <2>6 DEF Sound, CooldownsInPlace
  <2>9. IntervalsInPlace(q) BY <2>4, <2>6 DEF Sound, IntervalsInPlace
  <2>10. RunsOwned(q)
    <3> SUFFICES ASSUME NEW r \in Calls, Unaborted(q, r), ~q.overlapped
                 PROVE  q.inst[q.run[r].inst].execution = r /\ q.run[r].inst # None
      BY <2>6 DEF RunsOwned
    <3>1. Unaborted(k, r) BY <2>6 DEF Unaborted
    <3>2. k.inst[k.run[r].inst].execution = r /\ k.run[r].inst \in Instances
      BY <2>4, <2>6, <3>1 DEF Sound, RunsOwned, CallsInPlace, Unaborted
    <3> QED BY <2>6, <3>2, NoneIsNoId
  <2> QED BY <2>4, <2>5, <2>6, <2>7, <2>8, <2>9, <2>10 DEF Sound
<1> QED BY <1>1, <1>2

LEMMA RegisterKeeps ==
  ASSUME Good(s), Register
  PROVE  Good(s')
<1> DEFINE i == CHOOSE free \in FreeInstances : TRUE
           enabled == s.current = None \/ s.inst[s.current].intent # "disabled"
           u == Unregistered(s)
           n == NewInstance(IF enabled THEN "enabled" ELSE "disabled")
           q == [u EXCEPT !.current = i, !.lost = "no", !.inst[i] = n]
<1>0. Sound(s) /\ s \in Managers BY DEF Good, Sound
<1>1. i \in FreeInstances BY DEF Register
<1>2. s' = StartRefresher(q) BY DEF Register
<1>3. FreeTimers(s) # {} /\ FreeCalls(s) # {} BY DEF Register, Command, Room
<1>n. n \in InstanceStates /\ n.intent # "paused" /\ n.interval = None /\ n.cooldown = None
      /\ n.execution = None
  BY DEF NewInstance, InstanceStates
<1>u. /\ Sound(u) /\ u.current = None /\ u.intervals = {} /\ u.run = s.run
      /\ u.cooldowns \subseteq s.cooldowns
      /\ u.paused = s.paused
  BY <1>0, UnregisteredSound
<1> DEFINE p == WithInstance(u, i, n)
<1>q. q = [p EXCEPT !.current = i, !.lost = "no"] /\ p = WithInstance(u, i, n)
  <2> HIDE DEF i, n, u
  <2> QED BY <1>u DEF WithInstance, Managers, Sound
<1> HIDE DEF i, n, u, p, q
<1>i. i \in Instances /\ \A r \in Calls : s.run[r].inst # i BY <1>1 DEF FreeInstances
<1>p. /\ p \in Managers
      /\ p.paused = u.paused /\ p.overlapped = u.overlapped
      /\ p.run = u.run /\ p.intervals = u.intervals /\ p.cooldowns = u.cooldowns
      /\ \A x \in Instances : p.inst[x] = IF x = i THEN n ELSE u.inst[x]
  BY <1>i, <1>n, <1>q, <1>u, InstanceUpdate DEF Sound
<1>f. /\ q \in Managers
      /\ q.paused = p.paused /\ q.overlapped = p.overlapped /\ q.current = i
      /\ q.run = p.run /\ q.intervals = p.intervals /\ q.cooldowns = p.cooldowns
      /\ q.inst = p.inst
  BY <1>i, <1>p, <1>q DEF Managers
<1>4. CallsInPlace(q)
  <2>1. ASSUME NEW j \in Instances, q.inst[j].execution # None
        PROVE  q.run[q.inst[j].execution].pc = "runs" /\ q.run[q.inst[j].execution].inst = j
    <3>1. j # i BY <2>1, <1>n, <1>p, <1>f
    <3> QED BY <2>1, <3>1, <1>u, <1>p, <1>f DEF Sound, CallsInPlace
  <2>2. /\ \A r \in Calls : q.run[r].pc # "none" => q.run[r].inst \in Instances
        /\ \A r \in Calls : q.run[r].pc = "waits" => q.run[r].invocation # "automatic"
    BY <1>u, <1>p, <1>f DEF Sound, CallsInPlace
  <2> QED BY <2>1, <2>2 DEF CallsInPlace
<1>5. CooldownsInPlace(q)
  <2>1. \A t, v \in q.cooldowns : t.id = v.id => t = v
    BY <1>u, <1>p, <1>f DEF Sound, CooldownsInPlace
  <2>2. ASSUME NEW j \in Instances, q.inst[j].cooldown # None
        PROVE  \E t \in q.cooldowns : t.id = q.inst[j].cooldown /\ t.inst = j
    <3>1. j # i BY <2>2, <1>n, <1>p, <1>f
    <3> QED BY <2>2, <3>1, <1>u, <1>p, <1>f DEF Sound, CooldownsInPlace
  <2> QED BY <2>1, <2>2 DEF CooldownsInPlace
<1>6. IntervalsInPlace(q)
  <2>1. \A j \in Instances : q.inst[j].interval = None
    BY <1>n, <1>u, <1>p, <1>f DEF Sound, IntervalsInPlace
  <2> QED BY <2>1, <1>u, <1>p, <1>f DEF IntervalsInPlace
<1>7. RunsOwned(q)
  <2> SUFFICES ASSUME NEW r \in Calls, Unaborted(q, r), ~q.overlapped
               PROVE  q.inst[q.run[r].inst].execution = r /\ q.run[r].inst # i
    BY <1>f DEF RunsOwned
  <2>1. Unaborted(u, r) /\ q.run[r] = s.run[r] BY <1>u, <1>p, <1>f DEF Unaborted
  <2>2. u.inst[u.run[r].inst].execution = r /\ u.run[r].inst \in Instances
    BY <1>u, <1>p, <1>f, <2>1 DEF Sound, RunsOwned, CallsInPlace, Unaborted
  <2> QED BY <2>1, <2>2, <1>i, <1>u, <1>p, <1>f
<1>8. Sound(q) BY <1>f, <1>4, <1>5, <1>6, <1>7 DEF Sound
<1>9. FreeCalls(q) # {} BY <1>3, <1>u, <1>p, <1>f DEF FreeCalls
<1>10. FreeTimers(q) # {} BY <1>3, <1>u, <1>p, <1>f DEF FreeTimers
<1>11. q.inst[q.current].intent # "paused" BY <1>i, <1>n, <1>p, <1>f
<1> QED BY <1>2, <1>8, <1>9, <1>10, <1>11, StartRefresherKeeps

LEMMA UnregisterKeeps ==
  ASSUME Good(s), Unregister
  PROVE  Good(s')
<1>1. Sound(s') /\ s'.current = None
  BY UnregisteredSound DEF Unregister, Good
<1> QED BY <1>1 DEF Good, IntentInStep, Cadence, On

LEMMA EnableKeeps ==
  ASSUME Good(s), Enable
  PROVE  Good(s')
<1> DEFINE i == s.current
           intent == IF s.paused THEN "paused" ELSE "enabled"
           q == WithIntent(s, i, intent)
<1>0. Sound(s) /\ s \in Managers BY DEF Good, Sound
<1>1. i \in Instances BY <1>0, Fields DEF Enable
<1>2. \/ (s.paused \/ (s.inst[i].intent # "disabled" /\ s.inst[i].interval # None)) /\ s' = q
      \/ ~s.paused /\ s' = StartRefresher(q)
  BY DEF Enable, WithIntent
<1>3. FreeTimers(s) # {} /\ FreeCalls(s) # {} BY DEF Enable, Command, Room
<1>4. /\ s.paused => intent = "paused"
      /\ ~s.paused => intent = "enabled"
      /\ i = s.current
  OBVIOUS
<1>v. intent \in Intents BY DEF Intents
<1>q. q = WithIntent(s, i, intent) OBVIOUS
<1>n. None \notin Instances BY NoneIsNoId
<1> HIDE DEF i, intent, q
<1>f. /\ q \in Managers
      /\ q.paused = s.paused /\ q.overlapped = s.overlapped /\ q.lost = s.lost
      /\ q.current = s.current /\ q.run = s.run
      /\ q.intervals = s.intervals /\ q.cooldowns = s.cooldowns
      /\ \A j \in Instances :
           /\ q.inst[j].intent = IF j = i THEN intent ELSE s.inst[j].intent
           /\ q.inst[j].interval = s.inst[j].interval
           /\ q.inst[j].cooldown = s.inst[j].cooldown
           /\ q.inst[j].execution = s.inst[j].execution
  BY <1>0, <1>1, <1>v, <1>q, IntentUpdate
<1>5. On(s) => On(q) BY <1>1, <1>4, <1>f DEF On
<1>6. Sound(q) BY <1>0, <1>5, <1>f, IntentSound
<1>7. IntentInStep(q) BY <1>0, <1>1, <1>4, <1>f, Fields DEF IntentInStep
<1>8. CASE (s.paused \/ (s.inst[i].intent # "disabled" /\ s.inst[i].interval # None)) /\ s' = q
  <2>1. Cadence(q)
    <3> SUFFICES ASSUME ~s.paused PROVE q.intervals # {} BY <1>f DEF Cadence, On
    <3>1. s.inst[i].interval # None BY <1>8
    <3> QED BY <3>1, <1>0, <1>1, <1>f DEF Sound, IntervalsInPlace
  <2> QED BY <1>6, <1>7, <1>8, <2>1 DEF Good
<1>9. CASE ~s.paused /\ s' = StartRefresher(q)
  <2>1. FreeTimers(q) # {} /\ FreeCalls(q) # {} BY <1>3, <1>f DEF FreeTimers, FreeCalls
  <2>2. q.inst[q.current].intent # "paused" BY <1>1, <1>4, <1>9, <1>f
  <2> QED BY <1>6, <1>9, <2>1, <2>2, StartRefresherKeeps
<1> QED BY <1>2, <1>8, <1>9

LEMMA DisableKeeps ==
  ASSUME Good(s), Disable
  PROVE  Good(s')
<1> DEFINE i == s.current
           a == AbortExecution(s, i)
           k == ClearTimers(a, i)
           intent == "disabled"
<1>0. Sound(s) /\ s \in Managers BY DEF Good, Sound
<1>1. i \in Instances BY <1>0, Fields DEF Disable
<1>2. s' = WithIntent(k, i, intent) BY DEF Disable, WithIntent
<1>v. intent \in Intents BY DEF Intents
<1>3. /\ intent = "disabled"
      /\ a = AbortExecution(s, i) /\ k = ClearTimers(a, i) /\ i = s.current
  OBVIOUS
<1> HIDE DEF i, a, k, intent
<1>4. Sound(a) /\ a.current = i /\ a.inst[i].execution = None BY <1>0, <1>1, <1>3, AbortKeeps
<1>5. Sound(k) /\ k.intervals = {} BY <1>1, <1>3, <1>4, ClearSound
<1>6. k \in Managers /\ k.current = i /\ k.inst[i].execution = None
  BY <1>1, <1>3, <1>4, ClearFields DEF Sound
<1>f. /\ s' \in Managers
      /\ s'.paused = k.paused /\ s'.overlapped = k.overlapped /\ s'.lost = k.lost
      /\ s'.current = k.current /\ s'.run = k.run
      /\ s'.intervals = k.intervals /\ s'.cooldowns = k.cooldowns
      /\ \A j \in Instances :
           /\ s'.inst[j].intent = IF j = i THEN intent ELSE k.inst[j].intent
           /\ s'.inst[j].interval = k.inst[j].interval
           /\ s'.inst[j].cooldown = k.inst[j].cooldown
           /\ s'.inst[j].execution = k.inst[j].execution
  BY <1>1, <1>2, <1>v, <1>6, IntentUpdate
<1>7. Sound(s')
  <2>1. k.inst[k.current].execution = None BY <1>6
  <2> QED BY <1>5, <1>f, <2>1, IntentSound
<1>8. s'.inst[s'.current].intent = "disabled" BY <1>1, <1>3, <1>6, <1>f
<1> QED BY <1>7, <1>8 DEF Good, IntentInStep, Cadence, On

LEMMA TriggerKeeps ==
  ASSUME Good(s), TriggerManual
  PROVE  Good(s')
BY RefreshKeeps DEF TriggerManual, Command, Room, Invocations

LEMMA ContextKeeps ==
  ASSUME Good(s), NEW namespaceChanged \in BOOLEAN, UpdateContext(namespaceChanged)
  PROVE  Good(s')
<1> DEFINE a == AbortExecution(s, s.current)
<1>1. FreeCalls(s) # {} BY DEF UpdateContext, Command, Room
<1>2. s.current \in Instances BY Fields DEF UpdateContext, Good, Sound
<1>3. s' = RefreshSingle(s, "foreground") \/ s' = RefreshSingle(a, "foreground")
  BY DEF UpdateContext
<1>4. Good(a) /\ FreeCalls(a) # {} BY <1>1, <1>2, AbortKeeps DEF Good
<1> HIDE DEF a
<1> QED BY <1>1, <1>3, <1>4, RefreshKeeps DEF Invocations

\* A run that is aborted and stays the execution.
LEMMA RunAborted ==
  ASSUME NEW m, Sound(m), NEW i \in Instances, NEW q, q = AbortRun(m, i)
  PROVE  /\ Sound(q) /\ q.current = m.current /\ q.paused = m.paused /\ q.inst = m.inst
         /\ q.inst[i].execution # None => q.run[q.inst[i].execution].aborted
<1> DEFINE e == m.inst[i].execution
           c == [m.run[e] EXCEPT !.aborted = TRUE]
<1>0. m \in Managers BY DEF Sound
<1>1. CASE e = None
  BY <1>1 DEF AbortRun
<1>2. CASE e # None
  <2>1. e \in Calls BY <1>0, <1>2, Elements
  <2>2. m.run[e] \in CallStates BY <1>0, <2>1, Fields
  <2>3. c \in CallStates /\ c.pc = m.run[e].pc /\ c.inst = m.run[e].inst
        /\ c.invocation = m.run[e].invocation /\ c.aborted
    BY <2>2 DEF CallStates
  <2>4. q = WithCall(m, e, c)
    <3>1. q = [m EXCEPT !.run[e].aborted = TRUE] BY <1>2 DEF AbortRun
    <3> HIDE DEF e
    <3> QED BY <1>0, <3>1 DEF WithCall, Managers
  <2>5. e = m.inst[i].execution OBVIOUS
  <2>6. m.run[e].pc = "runs" /\ m.run[e].inst = i BY <1>2 DEF Sound, CallsInPlace
  <2> HIDE DEF e, c
  <2>7. /\ q \in Managers
        /\ q.paused = m.paused /\ q.overlapped = m.overlapped /\ q.lost = m.lost
        /\ q.current = m.current /\ q.inst = m.inst
        /\ q.intervals = m.intervals /\ q.cooldowns = m.cooldowns
        /\ \A x \in Calls : q.run[x] = IF x = e THEN c ELSE m.run[x]
    BY <1>0, <2>1, <2>3, <2>4, RunUpdate
  <2>8. \A x \in Calls : \/ q.run[x] = m.run[x]
                         \/ /\ q.run[x].pc = "runs" => q.run[x].aborted
                            /\ q.run[x].pc # "none" => q.run[x].inst \in Instances
                            /\ q.run[x].pc = "waits" => q.run[x].invocation # "automatic"
    BY <2>3, <2>6, <2>7
  <2>9. \A x \in Calls, j \in Instances : m.inst[j].execution = x =>
          /\ q.run[x].pc = m.run[x].pc /\ q.run[x].inst = m.run[x].inst
          /\ q.run[x].invocation = m.run[x].invocation
    BY <2>3, <2>7
  <2>10. Sound(q) BY <2>7, <2>8, <2>9, CallsKeep
  <2>11. q.run[q.inst[i].execution].aborted BY <2>1, <2>3, <2>5, <2>7
  <2> QED BY <2>7, <2>10, <2>11
<1> QED BY <1>1, <1>2

LEMMA CancelKeeps ==
  ASSUME Good(s), CancelAllRefreshes
  PROVE  Good(s')
<1> DEFINE i == s.current
           a == IF s.inst[i].intent = "disabled" THEN AbortRun(s, i) ELSE AbortExecution(s, i)
           k == ClearTimers(a, i)
<1>0. Sound(s) /\ IntentInStep(s) BY DEF Good
<1>1. i \in Instances BY <1>0, Fields DEF CancelAllRefreshes, Sound
<1>2. s' = [k EXCEPT !.lost = "cancelled"] BY DEF CancelAllRefreshes
<1>3. a \in {AbortRun(s, i), AbortExecution(s, i)} /\ k = ClearTimers(a, i) OBVIOUS
<1> HIDE DEF i, a, k
<1>4. Sound(a) /\ IntentInStep(a)
  <2>1. CASE a = AbortExecution(s, i) BY <1>0, <1>1, <2>1, AbortKeeps
  <2>2. CASE a = AbortRun(s, i)
    <3>1. Sound(a) /\ a.current = s.current /\ a.paused = s.paused /\ a.inst = s.inst
      BY <1>0, <1>1, <2>2, RunAborted
    <3> QED BY <1>0, <3>1 DEF IntentInStep
  <2> QED BY <1>3, <2>1, <2>2
<1>5. Sound(k) BY <1>1, <1>3, <1>4, ClearSound
<1>6. /\ k \in Managers /\ k.current = a.current /\ k.paused = a.paused
      /\ \A j \in Instances : k.inst[j].intent = a.inst[j].intent
  BY <1>1, <1>3, <1>4, ClearFields DEF Sound
<1>7. a.current \in Instances \cup {None} BY <1>4, Fields DEF Sound
<1>f. /\ s' \in Managers
      /\ s'.paused = k.paused /\ s'.overlapped = k.overlapped /\ s'.lost = "cancelled"
      /\ s'.current = k.current /\ s'.run = k.run /\ s'.inst = k.inst
      /\ s'.intervals = k.intervals /\ s'.cooldowns = k.cooldowns
  BY <1>2, <1>6 DEF Managers
<1>on. On(s') <=> On(k) BY <1>f DEF On
<1>8. CallsInPlace(s') BY <1>5, <1>f DEF Sound, CallsInPlace
<1>9. CooldownsInPlace(s') BY <1>5, <1>f DEF Sound, CooldownsInPlace
<1>10. IntervalsInPlace(s') BY <1>5, <1>f, <1>on DEF Sound, IntervalsInPlace
<1>11. RunsOwned(s')
  <2>1. \A r \in Calls : Unaborted(s', r) <=> Unaborted(k, r) BY <1>f DEF Unaborted
  <2> QED BY <1>5, <1>f, <1>on, <2>1 DEF Sound, RunsOwned
<1>12. IntentInStep(s') BY <1>4, <1>6, <1>7, <1>f DEF IntentInStep
<1>13. Cadence(s') BY <1>f DEF Cadence
<1> QED BY <1>f, <1>8, <1>9, <1>10, <1>11, <1>12, <1>13 DEF Good, Sound

\* Pausing aborts what runs automatically.
LEMMA AutomaticAborted ==
  ASSUME NEW m, Sound(m), NEW i \in Instances, NEW q, q = AbortAutomatic(m, i)
  PROVE  /\ Sound(q) /\ q.current = m.current /\ q.inst = m.inst
         /\ q.inst[i].execution # None =>
              \/ q.run[q.inst[i].execution].aborted
              \/ q.run[q.inst[i].execution].invocation # "automatic"
BY RunAborted DEF AbortAutomatic

\* Nothing but the flag changes: a manager that is paused, or resumed.
LEMMA PausedSound ==
  ASSUME NEW m, Sound(m), NEW v \in BOOLEAN, On(m) => ~v,
         NEW q, q = [m EXCEPT !.paused = v]
  PROVE  /\ Sound(q) /\ q.paused = v /\ q.overlapped = m.overlapped /\ q.lost = m.lost
         /\ q.current = m.current /\ q.run = m.run /\ q.inst = m.inst
         /\ q.intervals = m.intervals /\ q.cooldowns = m.cooldowns
<1>1. /\ q \in Managers /\ q.paused = v /\ q.overlapped = m.overlapped /\ q.lost = m.lost
      /\ q.current = m.current /\ q.run = m.run /\ q.inst = m.inst
      /\ q.intervals = m.intervals /\ q.cooldowns = m.cooldowns
  BY DEF Sound, Managers
<1>2. On(m) => On(q) BY <1>1 DEF On
<1> QED BY <1>1, <1>2, IntentSound

LEMMA PauseKeeps ==
  ASSUME Good(s), Pause
  PROVE  Good(s')
<1>0. Sound(s) /\ IntentInStep(s) /\ s \in Managers BY DEF Good, Sound
<1>1. CASE s.current = None
  <2>1. s' = [s EXCEPT !.paused = TRUE] BY <1>1 DEF Pause
  <2>2. ~On(s) BY <1>1 DEF On
  <2>3. Sound(s') /\ s'.current = None BY <1>0, <1>1, <2>1, <2>2, PausedSound
  <2> QED BY <2>3 DEF Good, IntentInStep, Cadence, On
<1>2. CASE s.current # None
  <2> DEFINE i == s.current
             a == AbortAutomatic(s, i)
             k == ClearTimers(a, i)
             intent == IF k.inst[i].intent = "disabled" THEN k.inst[i].intent ELSE "paused"
             w == WithIntent(k, i, intent)
  <2>1. i \in Instances BY <1>0, <1>2, Fields
  <2>2. a = AbortAutomatic(s, i) /\ k = ClearTimers(a, i) /\ i = s.current
        /\ w = WithIntent(k, i, intent)
    OBVIOUS
  <2>3. intent \in Intents /\ (intent = "disabled" \/ intent = "paused") BY DEF Intents
  <2>4. s' = [k EXCEPT !.paused = TRUE, !.inst[i].intent = intent]
    <3>1. s' = [k EXCEPT !.paused = TRUE,
                         !.inst[i].intent = IF @ = "disabled" THEN @ ELSE "paused"]
      BY <1>2 DEF Pause
    <3> HIDE DEF k, i
    <3> QED BY <3>1
  <2> HIDE DEF i, a, k, intent, w
  <2>5. /\ Sound(a) /\ a.current = i /\ a.inst = s.inst
        /\ a.inst[i].execution # None =>
             \/ a.run[a.inst[i].execution].aborted
             \/ a.run[a.inst[i].execution].invocation # "automatic"
    BY <1>0, <2>1, <2>2, AutomaticAborted
  <2>6. Sound(k) /\ k.intervals = {} BY <2>1, <2>2, <2>5, ClearSound
  <2>7. /\ k \in Managers /\ k.current = i /\ k.run = a.run
        /\ k.inst[i].execution = a.inst[i].execution
    BY <2>1, <2>2, <2>5, ClearFields DEF Sound
  <2>8. /\ w \in Managers
        /\ w.paused = k.paused /\ w.overlapped = k.overlapped /\ w.lost = k.lost
        /\ w.current = k.current /\ w.run = k.run
        /\ w.intervals = k.intervals /\ w.cooldowns = k.cooldowns
        /\ \A j \in Instances :
             /\ w.inst[j].intent = IF j = i THEN intent ELSE k.inst[j].intent
             /\ w.inst[j].interval = k.inst[j].interval
             /\ w.inst[j].cooldown = k.inst[j].cooldown
             /\ w.inst[j].execution = k.inst[j].execution
    BY <2>1, <2>2, <2>3, <2>7, IntentUpdate
  <2>9. Sound(w)
    <3>1. k.inst[k.current].execution = None
            \/ k.run[k.inst[k.current].execution].aborted
            \/ k.run[k.inst[k.current].execution].invocation # "automatic"
      BY <2>5, <2>7
    <3> QED BY <2>6, <2>8, <3>1, IntentSound
  <2>10. s' = [w EXCEPT !.paused = TRUE]
    BY <2>2, <2>4, <2>7 DEF WithIntent, Managers
  <2>11. ~On(w) BY <2>1, <2>3, <2>7, <2>8 DEF On
  <2>12. Sound(s') /\ s'.paused = TRUE /\ s'.current = i /\ s'.inst = w.inst
    <3>1. Sound(s') /\ s'.paused = TRUE /\ s'.current = w.current /\ s'.inst = w.inst
      BY <2>9, <2>10, <2>11, PausedSound
    <3> QED BY <3>1, <2>7, <2>8
  <2>13. IntentInStep(s') BY <2>1, <2>3, <2>8, <2>12 DEF IntentInStep
  <2> QED BY <2>12, <2>13 DEF Good, Cadence, On
<1> QED BY <1>1, <1>2

LEMMA ResumeKeeps ==
  ASSUME Good(s), Resume
  PROVE  Good(s')
<1> DEFINE m == [s EXCEPT !.paused = FALSE]
           i == s.current
           w == WithIntent(m, i, "enabled")
<1>0. Sound(s) /\ IntentInStep(s) /\ s \in Managers BY DEF Good, Sound
<1>1. FreeTimers(s) # {} /\ FreeCalls(s) # {} BY DEF Resume, Command, Room
<1>2. /\ Sound(m) /\ m.paused = FALSE /\ m.overlapped = s.overlapped /\ m.lost = s.lost
      /\ m.current = s.current /\ m.run = s.run /\ m.inst = s.inst
      /\ m.intervals = s.intervals /\ m.cooldowns = s.cooldowns
  BY <1>0, PausedSound
<1>3. \/ (i = None \/ m.inst[i].intent = "disabled") /\ s' = m
      \/ i # None /\ m.inst[i].intent = "paused" /\ s' = StartRefresher(w)
      \/ i # None /\ m.inst[i].intent # "paused" /\ m.inst[i].intent # "disabled"
           /\ (s' = StartRefresher(m) \/ s' = m)
  <2>1. m.current = i /\ m.inst = s.inst BY <1>2
  <2>2. w = [m EXCEPT !.inst[i].intent = "enabled"] BY DEF WithIntent
  <2>3. s' = IF i = None \/ m.inst[i].intent = "disabled" THEN m
             ELSE IF m.inst[i].intent = "paused"
             THEN StartRefresher([m EXCEPT !.inst[i].intent = "enabled"])
             ELSE IF m.inst[i].interval = None /\ m.inst[i].cooldown = None
                       /\ (m.inst[i].execution = None
                             \/ (m.run[m.inst[i].execution].invocation = "automatic"
                                   /\ m.run[m.inst[i].execution].aborted))
             THEN StartRefresher(m) ELSE m
    BY DEF Resume
  <2> HIDE DEF m, w, i
  <2> QED BY <2>2, <2>3
<1>4. FreeTimers(m) # {} /\ FreeCalls(m) # {}
  <2> HIDE DEF m
  <2> QED BY <1>1, <1>2 DEF FreeTimers, FreeCalls
<1>m. m = [s EXCEPT !.paused = FALSE] /\ w = WithIntent(m, i, "enabled") /\ i = s.current
  OBVIOUS
<1> HIDE DEF m, w, i
<1>5. CASE (i = None \/ m.inst[i].intent = "disabled") /\ s' = m
  <2>1. ~On(m) BY <1>5, <1>2, <1>m DEF On
  <2>2. IntentInStep(m) BY <1>5, <1>2, <1>m DEF IntentInStep
  <2> QED BY <1>2, <1>5, <2>1, <2>2 DEF Good, Cadence
<1>6. CASE i # None /\ m.inst[i].intent = "paused" /\ s' = StartRefresher(w)
  <2>1. i \in Instances BY <1>0, <1>6, <1>m, Fields
  <2> DEFINE intent == "enabled"
  <2>2. intent = "enabled" /\ intent \in Intents /\ w = WithIntent(m, i, intent)
    BY <1>m DEF Intents
  <2> HIDE DEF intent
  <2>3. /\ w \in Managers
        /\ w.paused = m.paused /\ w.overlapped = m.overlapped /\ w.lost = m.lost
        /\ w.current = m.current /\ w.run = m.run
        /\ w.intervals = m.intervals /\ w.cooldowns = m.cooldowns
        /\ \A j \in Instances :
             /\ w.inst[j].intent = IF j = i THEN intent ELSE m.inst[j].intent
             /\ w.inst[j].interval = m.inst[j].interval
             /\ w.inst[j].cooldown = m.inst[j].cooldown
             /\ w.inst[j].execution = m.inst[j].execution
    BY <1>2, <2>1, <2>2, IntentUpdate DEF Sound
  <2>4. ~On(m) BY <1>6, <1>2, <1>m DEF On
  <2>5. Sound(w) BY <1>2, <2>3, <2>4, IntentSound
  <2>6. FreeTimers(w) # {} /\ FreeCalls(w) # {} BY <1>4, <2>3 DEF FreeTimers, FreeCalls
  <2>7. w.inst[w.current].intent # "paused" BY <1>2, <1>m, <2>1, <2>2, <2>3
  <2> QED BY <1>6, <2>5, <2>6, <2>7, StartRefresherKeeps
<1>7. CASE i # None /\ m.inst[i].intent # "paused" /\ m.inst[i].intent # "disabled"
             /\ (s' = StartRefresher(m) \/ s' = m)
  <2>1. s.paused = FALSE
    <3>1. ~s.paused BY <1>0, <1>2, <1>7, <1>m DEF IntentInStep
    <3> QED BY <3>1, <1>0, Fields
  <2>2. m = s
    <3>1. s = [s EXCEPT !.paused = s.paused] BY <1>0 DEF Managers
    <3> QED BY <1>m, <2>1, <3>1
  <2>3. m.inst[m.current].intent # "paused" BY <1>2, <1>7, <1>m
  <2>4. Good(StartRefresher(m)) BY <1>2, <1>4, <2>3, StartRefresherKeeps
  <2> QED BY <1>7, <2>2, <2>4
<1> QED BY <1>3, <1>5, <1>6, <1>7

-----------------------------------------------------------------------------
\* The inductive invariant and what follows from it.
ManagerIInv == Good(s) /\ commands \in 0 .. MaxCommands

LEMMA InitManagerIInv == ManagerInit => ManagerIInv
<1> SUFFICES ASSUME ManagerInit PROVE ManagerIInv
  OBVIOUS
<1> DEFINE I == [i \in Instances |-> NewInstance("enabled")]
           R == [r \in Calls |-> NoRun]
<1>1. /\ s = [paused |-> FALSE, current |-> None, inst |-> I, intervals |-> {},
              cooldowns |-> {}, run |-> R, lost |-> "no", overlapped |-> FALSE]
      /\ commands = MaxCommands
  BY DEF ManagerInit
<1>2. I \in [Instances -> InstanceStates] BY DEF NewInstance, InstanceStates
<1>3. R \in [Calls -> CallStates] BY DEF NoRun, CallStates
<1>4. /\ \A i \in Instances : I[i].execution = None /\ I[i].cooldown = None /\ I[i].interval = None
      /\ \A r \in Calls : R[r].pc = "none"
  BY DEF NewInstance, NoRun
<1> HIDE DEF I, R
<1>5. /\ s \in Managers /\ s.current = None /\ s.inst = I /\ s.run = R
      /\ s.intervals = {} /\ s.cooldowns = {}
  BY <1>1, <1>2, <1>3 DEF Managers
<1>6. Sound(s)
  BY <1>4, <1>5 DEF Sound, CallsInPlace, CooldownsInPlace, IntervalsInPlace, RunsOwned, Unaborted
<1>7. IntentInStep(s) /\ Cadence(s) BY <1>5 DEF IntentInStep, Cadence, On
<1> QED BY <1>1, <1>6, <1>7, CommandsAssumption DEF ManagerIInv, Good

LEMMA NextManagerIInv == ManagerIInv /\ [ManagerNext]_managerVars => ManagerIInv'
<1> SUFFICES ASSUME ManagerIInv, [ManagerNext]_managerVars PROVE ManagerIInv'
  OBVIOUS
<1>0. Good(s) BY DEF ManagerIInv
<1>c. Command => commands' \in 0 .. MaxCommands
  BY CommandsAssumption DEF ManagerIInv, Command
<1>1. ASSUME NEW r \in Calls, Proceed(r) PROVE ManagerIInv'
  BY <1>0, <1>1, ProceedKeeps DEF ManagerIInv, Proceed
<1>2. ASSUME NEW r \in Calls, NEW outcome \in {"ok", "failed", "aborted"}, Settle(r, outcome)
      PROVE  ManagerIInv'
  <2>1. commands' = commands BY <1>2 DEF Settle
  <2> QED BY <1>0, <1>2, <2>1, SettleKeeps DEF ManagerIInv
<1>3. ASSUME NEW t \in s.cooldowns, CooldownFires(t) PROVE ManagerIInv'
  <2>1. commands' = commands BY <1>3 DEF CooldownFires
  <2> QED BY <1>0, <1>3, <2>1, FiresKeeps DEF ManagerIInv
<1>4. ASSUME NEW t \in s.intervals, Tick(t) PROVE ManagerIInv'
  BY <1>0, <1>4, TickKeeps DEF ManagerIInv, Tick
<1>5. CASE Register
  <2>1. Command BY <1>5 DEF Register
  <2> QED BY <1>0, <1>c, <1>5, <2>1, RegisterKeeps DEF ManagerIInv
<1>6. CASE Unregister
  BY <1>0, <1>c, <1>6, UnregisterKeeps DEF ManagerIInv, Unregister
<1>7. CASE Enable
  <2>1. Command BY <1>7 DEF Enable
  <2> QED BY <1>0, <1>c, <1>7, <2>1, EnableKeeps DEF ManagerIInv
<1>8. CASE Disable
  <2>1. Command BY <1>8 DEF Disable
  <2> QED BY <1>0, <1>c, <1>8, <2>1, DisableKeeps DEF ManagerIInv
<1>9. CASE TriggerManual
  BY <1>0, <1>c, <1>9, TriggerKeeps DEF ManagerIInv, TriggerManual
<1>10. ASSUME NEW namespaceChanged \in BOOLEAN, UpdateContext(namespaceChanged)
       PROVE  ManagerIInv'
  <2>1. Command BY <1>10 DEF UpdateContext
  <2> QED BY <1>0, <1>c, <1>10, <2>1, ContextKeeps DEF ManagerIInv
<1>11. CASE CancelAllRefreshes
  <2>1. Command BY <1>11 DEF CancelAllRefreshes
  <2> QED BY <1>0, <1>c, <1>11, <2>1, CancelKeeps DEF ManagerIInv
<1>12. CASE Pause
  <2>1. Command BY <1>12 DEF Pause
  <2> QED BY <1>0, <1>c, <1>12, <2>1, PauseKeeps DEF ManagerIInv
<1>13. CASE Resume
  <2>1. Command BY <1>13 DEF Resume
  <2> QED BY <1>0, <1>c, <1>13, <2>1, ResumeKeeps DEF ManagerIInv
<1>14. CASE UNCHANGED managerVars
  <2>1. s' = s /\ commands' = commands BY <1>14 DEF managerVars
  <2> QED BY <1>0, <2>1 DEF ManagerIInv
<1> QED BY <1>1, <1>2, <1>3, <1>4, <1>5, <1>6, <1>7, <1>8, <1>9, <1>10, <1>11, <1>12, <1>13,
           <1>14 DEF ManagerNext

LEMMA ManagerInvariance == ManagerSpec => []ManagerIInv
BY InitManagerIInv, NextManagerIInv, PTL DEF ManagerSpec

\* Every field of the refresh manager has its type (RefreshManager.ts).
THEOREM ManagerTypeCorrect == ManagerSpec => []ManagerTypeOK
<1>1. ManagerIInv => ManagerTypeOK BY DEF ManagerIInv, Good, Sound, ManagerTypeOK
<1> QED BY <1>1, ManagerInvariance, PTL

\* An armed interval is the one the scheduled instance records, and what runs unaborted
\* is the execution of its instance, unless a run was started over another
\* (replaceInterval, abortRefresher, supersedeRefresh).
THEOREM OwnedWork == ManagerSpec => []WorkIsOwned
<1>1. ManagerIInv => WorkIsOwned
  BY DEF ManagerIInv, Good, Sound, IntervalsInPlace, RunsOwned, Unaborted, On, WorkIsOwned,
         Scheduled
<1> QED BY <1>1, ManagerInvariance, PTL

\* A scheduled refresher has its interval armed, unless a manual refresh that will restart
\* it is under way, everything was cancelled, or that manual refresh was superseded
\* (startRefresher, enterCooldown, cancelAllRefreshes).
THEOREM CadenceIsKept == ManagerSpec => []KeepsCadence
<1>1. ManagerIInv => KeepsCadence
  BY DEF ManagerIInv, Good, Cadence, On, Manual, KeepsCadence, Scheduled, ManualUnderWay
<1> QED BY <1>1, ManagerInvariance, PTL
=============================================================================
