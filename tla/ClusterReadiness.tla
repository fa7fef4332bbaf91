-------------------------- MODULE ClusterReadiness --------------------------
(***************************************************************************)
(* backend: how ONE cluster comes to be shown as ready.                    *)
(*                                                                         *)
(* The lifecycle state (cluster_lifecycle.go) is set by client set-up, by  *)
(* an auth callback, by a timer, by the publication of a generation and by *)
(* snapshots of the namespaces domain.  Each generation has a notifier     *)
(* (namespace_notifier.go) that rings when the readiness of its workload   *)
(* sources changes, and each ring starts a self-build                      *)
(* (runNamespacesReadinessSelfBuild) on whatever generation is routed by   *)
(* then.  A ring is not repeated: the state is right in the end only if    *)
(* none that matters falls between two generations.                        *)
(*                                                                         *)
(* A step is a critical section, or an access to another component.  The   *)
(* notifier's signals of events and quotas, which only add rings, and the  *)
(* rollback of a generation (see ClusterRuntime) are left out.             *)
(***************************************************************************)
EXTENDS Naturals, Functions

CONSTANTS MaxGens,    \* bound: generations in a behaviour
          MaxBuilds,  \* bound: namespaces builds at one time
          MaxFlushes, \* bound: flushes of a notifier at one time
          Budgets     \* bound: how often each outside event may happen

Verdicts == {"valid", "recovering", "invalid"}
Events == Verdicts \cup {"connected", "replace", "change", "deadline", "fetch",
                      "slow", "fault"}

ASSUME BoundsAssumption == {MaxGens, MaxBuilds, MaxFlushes} \subseteq Nat \ {0}
ASSUME BudgetAssumption == Budgets \subseteq [Events -> Nat]

VARIABLES left,       \* the events that may still happen
          failed,     \* a namespaces build has failed
          auth,       \* the verdict of the cluster's auth manager
          demand,     \* what its last verdict asks for: a teardown, a rebuild
          life,       \* the lifecycle state
          route,      \* the generation aggregateSnapshotService serves
          pub,        \* the worker that publishes and stops generations
          retired,    \* generations whose stop has returned
          source,     \* readiness of a generation's workload sources
          note,       \* the notifier of a generation
          builds      \* how many aggregate builds of the namespaces domain stand where

vars == <<left, failed, auth, demand, life, route, pub, retired,
          source, note, builds>>

Gens == 1 .. MaxGens
NoGen == 0
Flushes == 1 .. MaxFlushes  \* a timer armed during a flush may fire before its end

Levels == {"pending", "degraded", "ready"}

\* Where a build stands; at "state" it brings what it read of the sources, at
\* "set" the state to be set.
Gate == <<"gate">>
Asking == <<"build">>
BuildStates == {Gate, Asking} \cup ({"state", "set"} \X {"degraded", "ready"})

NoFlush == [at |-> "none", level |-> "pending"]
NewNotifier == [dirty |-> FALSE, last |-> "unknown", armed |-> FALSE,
                stopped |-> FALSE, flush |-> [f \in Flushes |-> NoFlush]]

Init ==
  /\ left \in Budgets /\ failed = FALSE
  /\ auth = "valid" /\ demand = "none"
  /\ life = IF left["connected"] > 0 THEN "connecting" ELSE "connected"
  /\ route = NoGen /\ retired = {}
  /\ pub = [at |-> "idle", previous |-> NoGen, last |-> 0]
  /\ source = [g \in Gens |-> "pending"]
  /\ note = [g \in Gens |-> NewNotifier]
  /\ builds = [b \in BuildStates |-> 0]

Spend(e) ==
  /\ left[e] > 0
  /\ left' = [left EXCEPT ![e] = @ - 1]

outside == <<left, failed, auth, demand>>
generations == <<route, pub, retired>>

(***************************************************************************)
(* clusterLifecycle                                                        *)
(***************************************************************************)
Initializing == {"connecting", "connected"}
Serving == {"loading", "loading_slow", "degraded", "ready"}

\* mutant: a late end of client set-up is taken at its word
RefusedDemotion(from, to) == from = "ready" /\ to = "degraded"
Refused(from, to) == \/ from \in Serving /\ to \in Initializing
                     \/ from = "ready" /\ to = "degraded"

SetState(to) == life' = IF Refused(life, to) THEN life ELSE to

\* startSlowLoadingTimerLocked: every entry into Loading starts a timer, every
\* change stops it, and one that fired too early to be stopped looks at the
\* state.  So Loading may become slow at any time, and nothing else can.
MarkSlow ==
  /\ Spend("slow")
  /\ life = "loading" /\ life' = "loading_slow"
  /\ UNCHANGED <<failed, auth, demand, generations, source, note, builds>>

\* buildAndInstallClusterClient reports after it has installed the client.
ClientConnected ==
  /\ Spend("connected")
  /\ SetState("connected")
  /\ UNCHANGED <<failed, auth, demand, generations, source, note, builds>>

\* handleClusterAuthStateChange: the latest mutation it asks for is the one
\* that counts (ClusterRuntime).
AuthChanges(next) ==
  /\ Spend(next)
  /\ <<auth, next>> \in {<<"valid", "recovering">>, <<"recovering", "valid">>,
                         <<"recovering", "invalid">>, <<"invalid", "valid">>}
  /\ auth' = next
  /\ demand' = CASE next = "recovering" -> "teardown"
                 [] next = "valid" -> "rebuild"
                 [] next = "invalid" -> demand
  /\ IF next = "invalid" THEN SetState("auth_failed") ELSE UNCHANGED life
  /\ UNCHANGED <<failed, generations, source, note, builds>>

(***************************************************************************)
(* Builds of the namespaces domain                                         *)
(***************************************************************************)
CanSpawn == FoldFunction(LAMBDA m, n : m + n, 0, builds) < MaxBuilds
Spawned(b) == [builds EXCEPT ![b] = @ + 1]

At(b) == builds[b] > 0
Ends(b) == builds' = [builds EXCEPT ![b] = @ - 1]
Moves(b, to) == builds' = [builds EXCEPT ![b] = @ - 1, ![to] = @ + 1]

\* The frontend fetches the namespaces.
FetchNamespaces ==
  /\ Spend("fetch")
  /\ CanSpawn /\ builds' = Spawned(Asking)
  /\ UNCHANGED <<failed, auth, demand, life, generations, source, note>>

\* runNamespacesReadinessSelfBuild: nothing to do in any other state.
SelfBuilds == {"loading", "loading_slow", "degraded"}

CheckState ==
  /\ At(Gate)
  /\ IF life \in SelfBuilds THEN Moves(Gate, Asking) ELSE Ends(Gate)
  /\ UNCHANGED <<outside, life, generations, source, note>>

Rank == [pending |-> 0, unknown |-> 0, degraded |-> 1, ready |-> 2]

\* Each ring drops what is cached, so that no answer is older than the last one
\* (AnswersAreFresh of SnapshotService).
Announced(g) == IF \E f \in Flushes : note[g].flush[f].at \in {"check", "ring"}
                THEN "pending" ELSE note[g].last

\* aggregateSnapshotService.Build: the routed generation answers; a pending
\* answer notifies nobody.
Answers ==
  /\ At(Asking)
  /\ \/ /\ route = NoGen
        /\ Ends(Asking)
     \/ /\ route # NoGen
        /\ \E level \in Levels :
             /\ Rank[Announced(route)] <= Rank[level] /\ Rank[level] <= Rank[source[route]]
             /\ IF level = "pending" THEN Ends(Asking) ELSE Moves(Asking, <<"state", level>>)
  /\ UNCHANGED <<outside, life, generations, source, note>>

BuildFails ==
  /\ Spend("fault") /\ failed' = TRUE
  /\ At(Asking) /\ Ends(Asking)
  /\ UNCHANGED <<auth, demand, life, generations, source, note>>

\* namespaceLifecycleStateForWorkloadReadiness
StateFor(current, level) ==
  IF level = "ready" /\ current \in SelfBuilds THEN "ready"
  ELSE IF level = "degraded" /\ current \in {"loading", "loading_slow"} THEN "degraded"
  ELSE current

\* onNamespaceSnapshot reads the state, then sets the next one.
ReadState(level) ==
  LET next == StateFor(life, level) IN
  /\ At(<<"state", level>>)
  /\ IF next = life THEN Ends(<<"state", level>>)
     ELSE Moves(<<"state", level>>, <<"set", next>>)
  /\ UNCHANGED <<outside, life, generations, source, note>>

WriteState(next) ==
  /\ At(<<"set", next>>) /\ Ends(<<"set", next>>)
  /\ SetState(next)
  /\ UNCHANGED <<outside, generations, source, note>>

(***************************************************************************)
(* NamespaceChangeNotifier                                                 *)
(***************************************************************************)
Started(g) == g <= pub.last

\* NamespaceWorkloadTracker.Readiness: sources sync, or their deadline passes.
SourcesAdvance(g) ==
  /\ Started(g) /\ g \notin retired
  /\ \/ /\ source[g] = "pending" /\ Spend("deadline")
        /\ source' = [source EXCEPT ![g] = "degraded"]
     \/ /\ source[g] # "ready" /\ UNCHANGED left
        /\ source' = [source EXCEPT ![g] = "ready"]
  /\ UNCHANGED <<failed, auth, demand, life, generations, note, builds>>

Armed(n) == IF n.stopped THEN n ELSE [n EXCEPT !.armed = TRUE]

\* NamespaceChanged and WorkloadChanged; what a stopped notifier hears has no
\* effect.
Heard(n) == Armed([n EXCEPT !.dirty = TRUE])

Changes(g) ==
  /\ Spend("change")
  /\ Started(g) /\ ~note[g].stopped
  /\ note' = [note EXCEPT ![g] = Heard(@)]
  /\ UNCHANGED <<failed, auth, demand, life, generations, source, builds>>

FlushAt(n, f, at) == [n EXCEPT !.flush[f].at = at]
Begun(n, f) == FlushAt([n EXCEPT !.armed = FALSE, !.dirty = FALSE], f,
                       IF n.dirty THEN "read dirty" ELSE "read")

\* beginFlush
BeginFlush(g) ==
  /\ note[g].armed
  /\ IF note[g].stopped THEN note' = [note EXCEPT ![g].armed = FALSE]
     ELSE \E f \in Flushes :
            /\ note[g].flush[f].at = "none"
            /\ \A e \in Flushes : e < f => note[g].flush[e].at # "none"
            /\ note' = [note EXCEPT ![g] = Begun(@, f)]
  /\ UNCHANGED <<outside, life, generations, source, builds>>

\* workloadFlushReasons, outside the lock ...
ReadReadiness(g, f) ==
  /\ note[g].flush[f].at \in {"read", "read dirty"}
  /\ note' = [note EXCEPT ![g].flush[f] =
       [level |-> source[g],
        at |-> IF @.at = "read" THEN "compare" ELSE "compare dirty"]]
  /\ UNCHANGED <<outside, life, generations, source, builds>>

\* The end of a flush: one that did not see ready arms the timer again.
ArmedAgain(n, level) == IF level = "ready" THEN n ELSE Armed(n)
Ended(n, f) == ArmedAgain([n EXCEPT !.flush[f] = NoFlush], n.flush[f].level)

\* ... and under it: another readiness rings, other rows may.
Compare(g, f) ==
  LET fl == note[g].flush[f]
      differs == note[g].last # fl.level
      n == [note[g] EXCEPT !.last = fl.level]
  IN  /\ fl.at \in {"compare", "compare dirty"}
      /\ \/ /\ differs \/ fl.at = "compare dirty"
            /\ note' = [note EXCEPT ![g] = FlushAt(n, f, "check")]
         \/ /\ ~differs
            /\ note' = [note EXCEPT ![g] = Ended(n, f)]
      /\ UNCHANGED <<outside, life, generations, source, builds>>

\* broadcastFlushReasons
CheckStopped(g, f) ==
  /\ note[g].flush[f].at = "check"
  /\ note' = [note EXCEPT ![g] = IF @.stopped THEN Ended(@, f)
                                 ELSE FlushAt(@, f, "ring")]
  /\ UNCHANGED <<outside, life, generations, source, builds>>

\* The cache is invalidated, then the observer starts the self-build.
Ring(g, f) ==
  /\ note[g].flush[f].at = "ring"
  /\ CanSpawn /\ builds' = Spawned(Gate)
  /\ note' = [note EXCEPT ![g] = Ended(@, f)]
  /\ UNCHANGED <<outside, life, generations, source>>

(***************************************************************************)
(* Publication, replacement and teardown                                   *)
(***************************************************************************)
Goto(at) == pub' = [pub EXCEPT !.at = at]

\* startRefreshGeneration: the sources of the generation run from here on, and
\* their first lists, empty or not, arm its notifier.
StartGeneration ==
  /\ pub.at = "idle" /\ pub.last < MaxGens /\ auth = "valid"
  /\ IF pub.last = 0 \/ demand = "rebuild" THEN UNCHANGED left ELSE Spend("replace")
  /\ demand' = IF demand = "rebuild" THEN "none" ELSE demand
  /\ pub' = [at |-> "route", previous |-> route, last |-> pub.last + 1]
  /\ note' = [note EXCEPT ![pub.last + 1] = Heard(@)]
  /\ UNCHANGED <<failed, auth, life, route, retired, source, builds>>

RouteGeneration ==
  /\ pub.at = "route"
  /\ route' = pub.last
  /\ Goto("commit")
  /\ UNCHANGED <<outside, life, retired, source, note, builds>>

\* startPublishedClusterReadiness: transitionClusterToLoading leaves a ready
\* cluster alone ...
CommitGeneration ==
  /\ pub.at = "commit"
  /\ Goto(IF life = "ready" THEN "build" ELSE "load")
  /\ UNCHANGED <<outside, life, route, retired, source, note, builds>>

SetLoading ==
  /\ pub.at = "load"
  /\ SetState("loading")
  /\ Goto("build")
  /\ UNCHANGED <<outside, route, retired, source, note, builds>>

\* ... and a self-build makes up for rings that came before the route.
NoBuildAtPublication == builds' = builds \* mutant
BuildAtPublication == CanSpawn /\ builds' = Spawned(Gate)

StartReadiness ==
  /\ pub.at = "build"
  /\ BuildAtPublication
  /\ Goto(IF pub.previous = NoGen THEN "idle" ELSE "stop")
  /\ UNCHANGED <<outside, life, route, retired, source, note>>

\* teardownClusterSubsystem
TearDown ==
  /\ pub.at = "idle" /\ demand = "teardown"
  /\ demand' = "none"
  /\ route' = NoGen
  /\ pub' = [pub EXCEPT !.previous = route, !.at = IF route = NoGen THEN "idle" ELSE "stop"]
  /\ UNCHANGED <<left, failed, auth, life, retired, source, note, builds>>

\* NamespaceChangeNotifier.Stop: a timer that fired may still run ...
StopNotifier ==
  /\ pub.at = "stop"
  /\ \E fired \in BOOLEAN :
       note' = [note EXCEPT ![pub.previous].stopped = TRUE,
                            ![pub.previous].armed = @ /\ fired]
  /\ Goto("drain")
  /\ UNCHANGED <<outside, life, route, retired, source, builds>>

\* ... and the flushes under way are waited for.  What the generation and its
\* notifier remember goes with them.
DrainedAtOnce(g) == TRUE \* mutant
Drained(g) == \A f \in Flushes : note[g].flush[f].at = "none"

RetireGeneration ==
  /\ pub.at = "drain" /\ Drained(pub.previous)
  /\ retired' = retired \cup {pub.previous}
  /\ source' = [source EXCEPT ![pub.previous] = "pending"]
  /\ note' = [note EXCEPT ![pub.previous].dirty = FALSE,
                          ![pub.previous].last = "unknown"]
  /\ pub' = [pub EXCEPT !.at = "idle", !.previous = NoGen]
  /\ UNCHANGED <<outside, life, route, builds>>

-----------------------------------------------------------------------------
FlushStep(g, f) == ReadReadiness(g, f) \/ Compare(g, f) \/ CheckStopped(g, f) \/ Ring(g, f)

BuildSteps == \/ CheckState \/ Answers
              \/ \E level \in {"degraded", "ready"} : ReadState(level) \/ WriteState(level)

PublishSteps == RouteGeneration \/ CommitGeneration \/ SetLoading \/ StartReadiness
                  \/ StopNotifier \/ RetireGeneration

Next ==
  \/ MarkSlow \/ ClientConnected
  \/ \E next \in Verdicts : AuthChanges(next)
  \/ FetchNamespaces
  \/ BuildSteps \/ BuildFails
  \/ \E g \in Gens : SourcesAdvance(g) \/ Changes(g) \/ BeginFlush(g)
  \/ \E g \in Gens, f \in Flushes : FlushStep(g, f)
  \/ StartGeneration \/ TearDown \/ PublishSteps

Spec == Init /\ [][Next]_vars

\* Goroutines run, mutexes are handed on and timers fire.  Nothing is assumed of
\* what happens outside, nor that sources ever settle.
Fairness ==
  /\ WF_vars(PublishSteps)
  /\ WF_vars(CheckState) /\ WF_vars(Answers)
  /\ \A level \in {"degraded", "ready"} : WF_vars(ReadState(level)) /\ WF_vars(WriteState(level))
  /\ \A g \in Gens : /\ WF_vars(BeginFlush(g))
                     /\ \A f \in Flushes : WF_vars(FlushStep(g, f))

FairSpec == Spec /\ Fairness
-----------------------------------------------------------------------------
FlushPoints == {"none", "read", "read dirty", "compare", "compare dirty", "check", "ring"}
Notifiers == [dirty : BOOLEAN, last : Levels \cup {"unknown"}, armed : BOOLEAN,
              stopped : BOOLEAN, flush : [Flushes -> [at : FlushPoints, level : Levels]]]
Publishers == [at : {"idle", "route", "commit", "load", "build", "stop", "drain"},
               previous : Gens \cup {NoGen}, last : 0 .. MaxGens]

\* Every variable has its type.
TypeOK ==
  /\ left \in [Events -> Nat] /\ failed \in BOOLEAN
  /\ auth \in Verdicts /\ demand \in {"none", "teardown", "rebuild"}
  /\ life \in Initializing \cup Serving \cup {"auth_failed"}
  /\ route \in Gens \cup {NoGen} /\ retired \subseteq Gens
  /\ pub \in Publishers
  /\ source \in [Gens -> Levels]
  /\ note \in [Gens -> Notifiers]
  /\ builds \in [BuildStates -> Nat]

StaysRouted(level) ==
  /\ route # NoGen /\ source[route] = level
  /\ auth = "valid" /\ demand = "none" /\ ~failed

\* The cluster's state follows its sources: when a generation stays routed,
\* nothing asks for another and no build fails, the cluster ends as ready if its
\* sources are, and if they are degraded as degraded, or as ready from before -
\* however rings, builds, late reports and replacements met
\* (startPublishedClusterReadiness, flush, SetState).
StateFollowsSources ==
  /\ <>[]StaysRouted("ready") => <>[](life = "ready")
  /\ <>[]StaysRouted("degraded") => <>[](life \in {"degraded", "ready"})

\* Once the stop of a generation has returned, its notifier rings no more
\* (Stop, broadcastFlushReasons, beginFlush).
QuietAfterStop ==
  \A g \in retired, f \in Flushes : note[g].flush[f].at # "ring"
=============================================================================
