---------------------------- MODULE RefreshManager ----------------------------
(***************************************************************************)
(* frontend/src/core/refresh/RefreshManager.ts: the scheduler of ONE named *)
(* refresher.                                                              *)
(*                                                                         *)
(* An instance of the refresher has an intent, an interval timer, a        *)
(* cooldown timer and an execution (refresherRuntimeState.ts).  Calls of   *)
(* refreshSingle come from the interval, from the end of a cooldown, from  *)
(* a change of the view and from the user; one that meets an execution     *)
(* aborts it and waits for its promise.  Registering the name again makes  *)
(* a new instance while calls and timers of the old one are still about.   *)
(*                                                                         *)
(* Everything between two awaits is one step.  Continuations of a promise  *)
(* that has settled run before any timer or event (Quiescent).             *)
(***************************************************************************)
EXTENDS Naturals

CONSTANTS MaxInstances, \* bound: instances that are registered or in use
          MaxRuns,      \* bound: calls of refreshSingle at one time
          MaxTimers,    \* bound: timers that are armed at one time
          MaxCommands   \* bound: calls from outside

ASSUME CommandsAssumption == MaxCommands \in Nat

Instances == 1 .. MaxInstances
Calls == 1 .. MaxRuns
Timers == 1 .. MaxTimers
None == 0

VARIABLES s,       \* the manager: paused (globally), current (the registered instance),
                   \* its instances, armed intervals and cooldowns, calls of refreshSingle;
                   \* history: lost says why an interval is missing, overlapped that a
                   \* run was started over another
          commands \* how many commands may still come

managerVars == <<s, commands>>

NewInstance(intent) == [intent |-> intent, interval |-> None, cooldown |-> None,
                        execution |-> None, ran |-> FALSE]
NoRun == [pc |-> "none", inst |-> None, invocation |-> "automatic", aborted |-> FALSE,
          on |-> None]

ManagerInit ==
  /\ s = [paused |-> FALSE, current |-> None,
          inst |-> [i \in Instances |-> NewInstance("enabled")],
          intervals |-> {}, cooldowns |-> {}, run |-> [r \in Calls |-> NoRun],
          lost |-> "no", overlapped |-> FALSE]
  /\ commands = MaxCommands

(***************************************************************************)
(* Timers                                                                  *)
(***************************************************************************)
FreeTimers(m) == {id \in Timers : \A t \in m.intervals \cup m.cooldowns : t.id # id}
FreeTimer(m) == CHOOSE id \in FreeTimers(m) : TRUE

WithoutTimer(timers, id) == {t \in timers : t.id # id}

\* clearTimers, with its transition to idle.
ClearTimers(m, i) ==
  [m EXCEPT !.intervals = WithoutTimer(@, m.inst[i].interval),
            !.cooldowns = WithoutTimer(@, m.inst[i].cooldown),
            !.inst[i].interval = None, !.inst[i].cooldown = None]

\* A new interval replaces the one of the instance.
ReplaceInterval(m, i) ==
  [m EXCEPT !.intervals = WithoutTimer(@, m.inst[i].interval)
                            \cup {[id |-> FreeTimer(m), inst |-> i]},
            !.inst[i].interval = FreeTimer(m)]

ManualCooldown(m, i) == \E t \in m.cooldowns : t.id = m.inst[i].cooldown /\ t.manual

\* enterCooldown: the new timer takes the place of one that may still be armed.
EnterCooldown(m, i, manual, retry) ==
  [m EXCEPT !.cooldowns = @ \cup {[id |-> FreeTimer(m), inst |-> i, manual |-> manual,
                                   retry |-> retry]},
            !.inst[i].cooldown = FreeTimer(m),
            !.lost = IF ManualCooldown(m, i) THEN "superseded" ELSE @]

(***************************************************************************)
(* refreshSingle                                                           *)
(***************************************************************************)
FreeCalls(m) == {r \in Calls : m.run[r].pc = "none" /\ \A c \in Calls : m.run[c].on # r}
FreeCall(m) == CHOOSE r \in FreeCalls(m) : TRUE

\* An automatic run starts only where nothing else is going on.
CanStart(m, invocation) ==
  invocation = "automatic" =>
    LET i == m.inst[m.current] IN
    i.intent = "enabled" /\ ~m.paused /\ i.execution = None /\ i.cooldown = None

IsManual(m, r) == r # None /\ m.run[r].invocation = "manual"

\* The part after the await, with the instance that was found before it.
Launch(m, r) ==
  LET i == m.run[r].inst
      cleared == IF IsManual(m, r) THEN ClearTimers(m, i) ELSE m
  IN [cleared EXCEPT
        !.run[r].pc = "runs", !.run[r].on = None,
        !.inst[i].execution = r,
        !.overlapped = @ \/ m.inst[i].execution # None,
        !.lost = IF IsManual(m, m.inst[i].execution) /\ ~IsManual(m, r)
                 THEN "superseded" ELSE @]

\* The part before it: an execution is aborted and waited for.
RefreshSingle(m, invocation) ==
  IF m.current = None \/ ~CanStart(m, invocation) THEN m
  ELSE LET r == FreeCall(m)
           running == m.inst[m.current].execution
           called == [m EXCEPT !.run[r] = [NoRun EXCEPT !.inst = m.current,
                                                        !.invocation = invocation]]
       IN IF running = None THEN Launch(called, r)
          ELSE [called EXCEPT !.run[r].pc = "waits", !.run[r].on = running,
                              !.run[running].aborted = TRUE]

\* The instance's execution is over; a manual one has left no interval.
Finished(m, i) ==
  [m EXCEPT !.inst[i].execution = None,
            !.lost = IF IsManual(m, m.inst[i].execution) THEN "superseded" ELSE @]
AbortExecution(m, i) ==
  IF m.inst[i].execution = None THEN m
  ELSE [Finished(m, i) EXCEPT !.run[m.inst[i].execution].aborted = TRUE]

\* startRefresher
StartRefresher(m) ==
  IF m.current = None \/ m.inst[m.current].intent = "disabled" THEN m
  ELSE IF m.paused THEN [m EXCEPT !.inst[m.current].intent = "paused"]
  ELSE LET i == m.current
           armed == [ReplaceInterval(m, i) EXCEPT !.inst[i].cooldown = None, !.lost = "no"]
       IN IF m.inst[i].ran \/ m.inst[i].execution # None THEN armed
          ELSE RefreshSingle(armed, "automatic")

(***************************************************************************)
(* What the event loop runs                                                *)
(***************************************************************************)
Ready(m, r) == m.run[r].pc = "waits" /\ m.run[m.run[r].on].pc = "none"
Quiescent == \A r \in Calls : ~Ready(s, r)

\* bound: a timer and a call are left for what a step may start.
Room == FreeTimers(s) # {} /\ FreeCalls(s) # {}

\* The superseded promise has settled.
Proceed(r) ==
  /\ Ready(s, r)
  /\ s' = Launch(s, r)
  /\ UNCHANGED commands

\* mutant: an aborted run that was not replaced stays the execution
AbortedStays(m, i) == m
AbortedEnds(m, i) == Finished(m, i)

\* executeRefresh settles, within the timeout of its callbacks; only the
\* instance's execution has an effect.  "aborted" is also what a callback's own
\* AbortError amounts to.
Settle(r, outcome) ==
  LET i == s.run[r].inst
      m == [s EXCEPT !.run[r] = NoRun]
      manual == IsManual(s, r)
  IN /\ Quiescent /\ Room
     /\ s.run[r].pc = "runs"
     /\ s.run[r].aborted => outcome = "aborted"
     /\ s' = CASE s.inst[i].execution # r -> m
               [] s.inst[i].execution = r /\ outcome = "aborted" ->
                    [AbortedEnds(s, i) EXCEPT !.run[r] = NoRun]
               [] OTHER ->
                    EnterCooldown([m EXCEPT !.inst[i].execution = None,
                                            !.inst[i].ran = @ \/ outcome = "ok"],
                                  i, manual, outcome = "failed")
     /\ UNCHANGED commands

OwnCooldown(t) == s.inst[t.inst].cooldown = t.id
NoRestart(m) == m \* mutant: the end of a manual cooldown does not restart it
Restart(m) == StartRefresher(m)

\* A cooldown ends: a timer that was replaced does nothing.
CooldownFires(t) ==
  LET fired == [s EXCEPT !.cooldowns = @ \ {t}]
      over == [fired EXCEPT !.inst[t.inst].cooldown = None]
  IN /\ Quiescent /\ Room /\ t \in s.cooldowns
     /\ s' = CASE ~OwnCooldown(t) -> fired
               [] OwnCooldown(t) /\ t.manual -> Restart(over)
               [] OwnCooldown(t) /\ ~t.manual /\ t.retry -> RefreshSingle(over, "automatic")
               [] OTHER -> over
     /\ UNCHANGED commands

\* The interval's callback looks at its own instance and refreshes by name.
Tick(t) ==
  /\ Quiescent /\ Room /\ t \in s.intervals
  /\ LET i == s.inst[t.inst] IN
       i.execution = None /\ i.cooldown = None /\ i.intent = "enabled"
  /\ s' = RefreshSingle(s, "automatic")
  /\ UNCHANGED commands

(***************************************************************************)
(* Commands                                                                *)
(***************************************************************************)
Command == Quiescent /\ Room /\ commands > 0 /\ commands' = commands - 1

FreeInstances == Instances \ ({s.current} \cup {s.run[r].inst : r \in Calls}
                                 \cup {t.inst : t \in s.intervals \cup s.cooldowns})

Unregistered(m) ==
  IF m.current = None THEN m ELSE [ClearTimers(m, m.current) EXCEPT !.current = None]

\* register; a registered name keeps its intent.
Register ==
  LET i == CHOOSE free \in FreeInstances : TRUE
      enabled == s.current = None \/ s.inst[s.current].intent # "disabled"
  IN /\ Command /\ FreeInstances # {}
     /\ s' = StartRefresher([Unregistered(s) EXCEPT
                !.current = i, !.lost = "no",
                !.inst[i] = NewInstance(IF enabled THEN "enabled" ELSE "disabled")])

Unregister == Command /\ s.current # None /\ s' = Unregistered(s)

Enable ==
  /\ Command /\ s.current # None
  /\ LET i == s.current
         enabled == [s EXCEPT !.inst[i].intent = IF s.paused THEN "paused" ELSE "enabled"]
     IN s' = IF s.paused \/ (s.inst[i].intent # "disabled" /\ s.inst[i].interval # None)
             THEN enabled ELSE StartRefresher(enabled)

Disable ==
  /\ Command /\ s.current # None
  /\ s' = [ClearTimers(AbortExecution(s, s.current), s.current) EXCEPT
             !.inst[s.current].intent = "disabled"]

\* triggerManualRefresh, and updateContext for the refresher of the new view,
\* which first aborts the execution when the namespace changed.
TriggerManual == Command /\ s' = RefreshSingle(s, "manual")

UpdateContext(namespaceChanged) ==
  /\ Command /\ s.current # None
  /\ s' = RefreshSingle(IF namespaceChanged THEN AbortExecution(s, s.current) ELSE s,
                        "foreground")

\* The run is aborted but stays the execution until it settles.
AbortRun(m, i) ==
  IF m.inst[i].execution = None THEN m
  ELSE [m EXCEPT !.run[m.inst[i].execution].aborted = TRUE]

\* kubeconfig:changing.  Nothing starts the timers again but a later command.
CancelAllRefreshes ==
  /\ Command /\ s.current # None
  /\ LET aborted == IF s.inst[s.current].intent = "disabled" THEN AbortRun(s, s.current)
                    ELSE AbortExecution(s, s.current)
     IN s' = [ClearTimers(aborted, s.current) EXCEPT !.lost = "cancelled"]

\* mutant: whatever runs may go on
PausedLater(m, i) == m
AbortAutomatic(m, i) ==
  LET r == m.inst[i].execution IN
  IF r # None /\ m.run[r].invocation = "automatic" THEN AbortRun(m, i) ELSE m

\* pause and resume of all refreshers.
Pause ==
  /\ Command
  /\ s' = IF s.current = None THEN [s EXCEPT !.paused = TRUE]
          ELSE [ClearTimers(AbortAutomatic(s, s.current), s.current) EXCEPT
                  !.paused = TRUE,
                  !.inst[s.current].intent = IF @ = "disabled" THEN @ ELSE "paused"]

Resume ==
  /\ Command
  /\ LET m == [s EXCEPT !.paused = FALSE]
         i == m.inst[s.current]
     IN s' = IF s.current = None \/ i.intent = "disabled" THEN m
             ELSE IF i.intent = "paused"
             THEN StartRefresher([m EXCEPT !.inst[s.current].intent = "enabled"])
             ELSE IF i.interval = None /\ i.cooldown = None
                       /\ (i.execution = None \/ (m.run[i.execution].invocation = "automatic"
                                                    /\ m.run[i.execution].aborted))
             THEN StartRefresher(m) ELSE m

ManagerNext ==
  \/ \E r \in Calls :
       Proceed(r) \/ \E outcome \in {"ok", "failed", "aborted"} : Settle(r, outcome)
  \/ \E t \in s.cooldowns : CooldownFires(t)
  \/ \E t \in s.intervals : Tick(t)
  \/ Register \/ Unregister \/ Enable \/ Disable \/ TriggerManual
  \/ \E namespaceChanged \in BOOLEAN : UpdateContext(namespaceChanged)
  \/ CancelAllRefreshes \/ Pause \/ Resume

ManagerSpec == ManagerInit /\ [][ManagerNext]_managerVars

\* Callbacks end or time out, timers fire; commands need not come.
ManagerFairness ==
  /\ \A r \in Calls :
       WF_managerVars(Proceed(r) \/ \E outcome \in {"ok", "failed", "aborted"} : Settle(r, outcome))
  /\ WF_managerVars(\E t \in s.cooldowns : CooldownFires(t))
  /\ WF_managerVars(\E t \in s.intervals : Tick(t))

ManagerFairSpec == ManagerSpec /\ ManagerFairness
-----------------------------------------------------------------------------
InstanceStates ==
  [intent : {"enabled", "paused", "disabled"}, interval : Timers \cup {None},
   cooldown : Timers \cup {None}, execution : Calls \cup {None}, ran : BOOLEAN]
CallStates ==
  [pc : {"none", "waits", "runs"}, inst : Instances \cup {None},
   invocation : {"automatic", "foreground", "manual"}, aborted : BOOLEAN,
   on : Calls \cup {None}]
Managers ==
  [paused : BOOLEAN, overlapped : BOOLEAN, lost : {"no", "cancelled", "superseded"},
   current : Instances \cup {None}, inst : [Instances -> InstanceStates],
   intervals : SUBSET [id : Timers, inst : Instances],
   cooldowns : SUBSET [id : Timers, inst : Instances, manual : BOOLEAN, retry : BOOLEAN],
   run : [Calls -> CallStates]]

\* Every field has its type.
ManagerTypeOK == s \in Managers /\ commands \in 0 .. MaxCommands

Scheduled == s.current # None /\ s.inst[s.current].intent = "enabled" /\ ~s.paused

\* An armed interval is the recorded one of the registered instance, which is
\* enabled and not paused (replaceInterval).  A run that was not told to abort is
\* the execution of its instance, whichever that is, and an automatic one of the
\* registered instance runs only while that is enabled and not paused
\* (abortRefresher); as long as no run was started over another.  Of a replaced
\* instance it is not said that a command still reaches its run.
WorkIsOwned ==
  /\ \A t \in s.intervals : Scheduled /\ t.inst = s.current /\ t.id = s.inst[t.inst].interval
  /\ \A r \in Calls : s.run[r].pc = "runs" /\ ~s.run[r].aborted /\ ~s.overlapped =>
       /\ s.inst[s.run[r].inst].execution = r
       /\ s.run[r].inst = s.current /\ s.run[r].invocation = "automatic" => Scheduled

ManualUnderWay ==
  \/ IsManual(s, s.inst[s.current].execution)
  \/ ManualCooldown(s, s.current)

\* A scheduled refresher has its interval armed, unless a manual refresh that will
\* restart it is under way, everything was cancelled, or the manual refresh was
\* superseded by another run.
KeepsCadence ==
  Scheduled => s.intervals # {} \/ ManualUnderWay \/ s.lost # "no"

\* A refresher that stays scheduled with an interval refreshes again and again,
\* whatever failed, was aborted or is cooling down.
RefreshesGoOn ==
  <>[](Scheduled /\ s.intervals # {}) => []<>(\E r \in Calls : s.run[r].pc = "runs")
=============================================================================
