------------------------ MODULE ClusterReadinessProofs ------------------------
(***************************************************************************)
(* Proofs about ClusterReadiness for any number of generations, builds,    *)
(* flushes and outside events: the types, and that a generation whose stop *)
(* has returned is silent.                                                 *)
(*                                                                         *)
(* What makes the second inductive is Stops: the flag is set before the    *)
(* wait, and a flush begins only while it is not, so that what the wait    *)
(* found to have ended cannot begin again.                                 *)
(***************************************************************************)
EXTENDS ClusterReadiness, TLAPS

Stops ==
  /\ pub.at \in {"stop", "drain"} => pub.previous \in Gens
  /\ pub.at = "drain" => note[pub.previous].stopped
  /\ \A g \in retired : note[g].stopped /\ Drained(g)

IInv == TypeOK /\ Stops

-----------------------------------------------------------------------------
\* A build that appears, moves or ends leaves a count at every place.
LEMMA BuildCounts ==
  ASSUME TypeOK, NEW b \in BuildStates, NEW to \in BuildStates
  PROVE  /\ Spawned(b) \in [BuildStates -> Nat]
         /\ At(b) /\ Ends(b) => builds' \in [BuildStates -> Nat]
         /\ At(b) /\ Moves(b, to) => builds' \in [BuildStates -> Nat]
<1>0. builds \in [BuildStates -> Nat]
  BY DEF TypeOK
<1>1. Spawned(b) \in [BuildStates -> Nat]
  BY <1>0 DEF Spawned
<1>2. ASSUME At(b), Ends(b) PROVE builds' \in [BuildStates -> Nat]
  <2>1. builds[b] - 1 \in Nat
    BY <1>0, <1>2 DEF At
  <2> QED
    BY <1>0, <1>2, <2>1 DEF Ends
<1>3. ASSUME At(b), Moves(b, to) PROVE builds' \in [BuildStates -> Nat]
  <2>1. builds[b] - 1 \in Nat /\ builds[to] + 1 \in Nat
    BY <1>0, <1>3 DEF At
  <2> QED
    BY <1>0, <1>3, <2>1 DEF Moves
<1> QED
  BY <1>1, <1>2, <1>3

\* The places a build can be in.
LEMMA Places ==
  /\ Gate \in BuildStates /\ Asking \in BuildStates
  /\ \A level \in {"degraded", "ready"} :
       <<"state", level>> \in BuildStates /\ <<"set", level>> \in BuildStates
BY DEF BuildStates, Gate, Asking

\* An outside event that happens was allowed for.
LEMMA Spending ==
  ASSUME TypeOK, NEW e \in Events, Spend(e)
  PROVE  left' \in [Events -> Nat]
<1>1. left \in [Events -> Nat] /\ left[e] - 1 \in Nat
  BY DEF TypeOK, Spend
<1> QED
  BY <1>1 DEF Spend

\* A state that is set is a lifecycle state.
LEMMA StateSet ==
  ASSUME TypeOK, NEW to \in Initializing \cup Serving \cup {"auth_failed"}, SetState(to)
  PROVE  life' \in Initializing \cup Serving \cup {"auth_failed"}
BY DEF TypeOK, SetState

\* A notifier that is replaced by a well-formed one, stopped if it was and with
\* no flush if its generation is retired, keeps the invariant.
LEMMA NoteChanges ==
  ASSUME IInv, NEW g \in Gens, NEW n \in Notifiers,
         note' = [note EXCEPT ![g] = n], UNCHANGED <<pub, retired>>,
         note[g].stopped => n.stopped,
         g \in retired => \A f \in Flushes : n.flush[f].at = "none"
  PROVE  note' \in [Gens -> Notifiers] /\ Stops'
<1>0. note \in [Gens -> Notifiers] /\ retired \subseteq Gens
  BY DEF IInv, TypeOK
<1>1. note' \in [Gens -> Notifiers]
  BY <1>0
<1>2. \A h \in Gens : note'[h] = IF h = g THEN n ELSE note[h]
  BY <1>0
<1>3. pub'.at \in {"stop", "drain"} => pub'.previous \in Gens
  BY DEF IInv, Stops
<1>4. pub'.at = "drain" => note'[pub'.previous].stopped
  BY <1>2, <1>3 DEF IInv, Stops
<1>5. ASSUME NEW h \in retired' PROVE note'[h].stopped /\ Drained(h)'
  BY <1>0, <1>2 DEF IInv, Stops, Drained
<1> QED
  BY <1>1, <1>3, <1>4, <1>5 DEF Stops

\* Where neither notifiers nor their publisher change, nor what was stopped.
LEMMA StopsKept ==
  ASSUME Stops, UNCHANGED <<pub, retired, note>>
  PROVE  Stops'
BY DEF Stops, Drained

\* Arming, and the end of a flush, keep a notifier well formed.
LEMMA Notifying ==
  ASSUME NEW n \in Notifiers, NEW f \in Flushes
  PROVE  /\ Armed(n) \in Notifiers /\ Armed(n).stopped = n.stopped /\ Armed(n).flush = n.flush
         /\ Heard(n) \in Notifiers /\ Heard(n).stopped = n.stopped /\ Heard(n).flush = n.flush
         /\ Ended(n, f) \in Notifiers /\ Ended(n, f).stopped = n.stopped
<1>0. NoFlush \in [at : FlushPoints, level : Levels]
  BY DEF NoFlush, FlushPoints, Levels
<1>1. \A m \in Notifiers :
        Armed(m) \in Notifiers /\ Armed(m).stopped = m.stopped /\ Armed(m).flush = m.flush
  BY DEF Armed, Notifiers
<1>2. [n EXCEPT !.dirty = TRUE] \in Notifiers
        /\ [n EXCEPT !.dirty = TRUE].stopped = n.stopped
        /\ [n EXCEPT !.dirty = TRUE].flush = n.flush
  BY DEF Notifiers
<1>3. [n EXCEPT !.flush[f] = NoFlush] \in Notifiers
        /\ [n EXCEPT !.flush[f] = NoFlush].stopped = n.stopped
  BY <1>0 DEF Notifiers
<1>4. Heard(n) \in Notifiers /\ Heard(n).stopped = n.stopped /\ Heard(n).flush = n.flush
  BY <1>1, <1>2 DEF Heard
<1>5. Ended(n, f) \in Notifiers /\ Ended(n, f).stopped = n.stopped
  BY <1>1, <1>3 DEF Ended, ArmedAgain
<1> QED
  BY <1>1, <1>4, <1>5

\* So does a step of a flush, and its start.
LEMMA Flushing ==
  ASSUME NEW n \in Notifiers, NEW f \in Flushes
  PROVE  /\ \A at \in FlushPoints :
              FlushAt(n, f, at) \in Notifiers /\ FlushAt(n, f, at).stopped = n.stopped
         /\ Begun(n, f) \in Notifiers /\ Begun(n, f).stopped = n.stopped
<1>1. ASSUME NEW m \in Notifiers, NEW at \in FlushPoints
      PROVE  FlushAt(m, f, at) \in Notifiers /\ FlushAt(m, f, at).stopped = m.stopped
  <2> DEFINE step == [m.flush[f] EXCEPT !.at = at]
             flush == [m.flush EXCEPT ![f] = step]
  <2>1. m.flush \in [Flushes -> [at : FlushPoints, level : Levels]]
    BY DEF Notifiers
  <2>2. step \in [at : FlushPoints, level : Levels]
    BY <2>1
  <2>3. flush \in [Flushes -> [at : FlushPoints, level : Levels]]
    <3> HIDE DEF step
    <3> QED
      BY <2>1, <2>2
  <2>4. FlushAt(m, f, at) = [m EXCEPT !.flush = flush]
    BY DEF FlushAt
  <2> HIDE DEF flush
  <2> QED
    BY <2>3, <2>4 DEF Notifiers
<1>2. [n EXCEPT !.armed = FALSE, !.dirty = FALSE] \in Notifiers
        /\ [n EXCEPT !.armed = FALSE, !.dirty = FALSE].stopped = n.stopped
  BY DEF Notifiers
<1>3. (IF n.dirty THEN "read dirty" ELSE "read") \in FlushPoints
  BY DEF FlushPoints
<1> QED
  BY <1>1, <1>2, <1>3 DEF Begun

-----------------------------------------------------------------------------
LEMMA InitHolds == Init => IInv
<1> SUFFICES ASSUME Init PROVE IInv
  OBVIOUS
<1>1. MaxGens \in Nat \ {0} /\ Budgets \subseteq [Events -> Nat]
  BY BoundsAssumption, BudgetAssumption
<1>2. NewNotifier \in Notifiers
  BY DEF NewNotifier, Notifiers, NoFlush, FlushPoints, Levels
<1>3. pub \in Publishers
  BY <1>1 DEF Init, Publishers, Gens, NoGen
<1>4. life \in Initializing \cup Serving \cup {"auth_failed"}
  BY DEF Init, Initializing
<1>5. TypeOK
  BY <1>1, <1>2, <1>3, <1>4 DEF Init, TypeOK, Gens, NoGen, Levels, Verdicts
<1>6. Stops
  BY DEF Init, Stops
<1> QED
  BY <1>5, <1>6 DEF IInv

\* Client set-up, the slow timer, verdicts of the auth manager.
LEMMA OutsideSteps ==
  ASSUME IInv, MarkSlow \/ ClientConnected \/ \E next \in Verdicts : AuthChanges(next)
  PROVE  IInv'
<1>0. TypeOK /\ Stops
  BY DEF IInv
<1>1. CASE MarkSlow
  <2>1. left' \in [Events -> Nat]
    BY <1>0, <1>1, Spending DEF MarkSlow, Events
  <2>2. life' \in Initializing \cup Serving \cup {"auth_failed"}
    BY <1>1 DEF MarkSlow, Serving
  <2> QED
    BY <1>0, <1>1, <2>1, <2>2, StopsKept DEF MarkSlow, IInv, TypeOK, generations
<1>2. CASE ClientConnected
  <2>1. left' \in [Events -> Nat]
    BY <1>0, <1>2, Spending DEF ClientConnected, Events
  <2>2. life' \in Initializing \cup Serving \cup {"auth_failed"}
    BY <1>0, <1>2, StateSet DEF ClientConnected, Initializing
  <2> QED
    BY <1>0, <1>2, <2>1, <2>2, StopsKept DEF ClientConnected, IInv, TypeOK, generations
<1>3. ASSUME NEW next \in Verdicts, AuthChanges(next) PROVE IInv'
  <2>1. left' \in [Events -> Nat]
    BY <1>0, <1>3, Spending DEF AuthChanges, Events
  <2>2. life' \in Initializing \cup Serving \cup {"auth_failed"}
    BY <1>0, <1>3, StateSet DEF AuthChanges, TypeOK
  <2>3. auth' \in Verdicts /\ demand' \in {"none", "teardown", "rebuild"}
    BY <1>0, <1>3 DEF AuthChanges, TypeOK, Verdicts
  <2> QED
    BY <1>0, <1>3, <2>1, <2>2, <2>3, StopsKept DEF AuthChanges, IInv, TypeOK, generations
<1> QED
  BY <1>1, <1>2, <1>3

\* Fetches and self-builds.
LEMMA BuildingSteps ==
  ASSUME IInv, FetchNamespaces \/ BuildSteps \/ BuildFails
  PROVE  IInv'
<1>0. TypeOK /\ Stops
  BY DEF IInv
<1>1. CASE FetchNamespaces
  <2>1. left' \in [Events -> Nat]
    BY <1>0, <1>1, Spending DEF FetchNamespaces, Events
  <2>2. builds' \in [BuildStates -> Nat]
    BY <1>0, <1>1, BuildCounts, Places DEF FetchNamespaces
  <2> QED
    BY <1>0, <1>1, <2>1, <2>2, StopsKept DEF FetchNamespaces, IInv, TypeOK, generations
<1>2. CASE CheckState
  <2>1. builds' \in [BuildStates -> Nat]
    BY <1>0, <1>2, BuildCounts, Places DEF CheckState
  <2> QED
    BY <1>0, <1>2, <2>1, StopsKept DEF CheckState, IInv, TypeOK, generations, outside
<1>3. CASE Answers
  <2>1. \A level \in Levels : level # "pending" => <<"state", level>> \in BuildStates
    BY Places DEF Levels
  <2>2. builds' \in [BuildStates -> Nat]
    BY <1>0, <1>3, <2>1, BuildCounts, Places DEF Answers
  <2> QED
    BY <1>0, <1>3, <2>2, StopsKept DEF Answers, IInv, TypeOK, generations, outside
<1>4. ASSUME NEW level \in {"degraded", "ready"}, ReadState(level) PROVE IInv'
  <2>1. StateFor(life, level) # life => StateFor(life, level) \in {"degraded", "ready"}
    BY DEF StateFor
  <2>2. builds' \in [BuildStates -> Nat]
    BY <1>0, <1>4, <2>1, BuildCounts, Places DEF ReadState
  <2> QED
    BY <1>0, <1>4, <2>2, StopsKept DEF ReadState, IInv, TypeOK, generations, outside
<1>5. ASSUME NEW level \in {"degraded", "ready"}, WriteState(level) PROVE IInv'
  <2>1. builds' \in [BuildStates -> Nat]
    BY <1>0, <1>5, BuildCounts, Places DEF WriteState
  <2>2. life' \in Initializing \cup Serving \cup {"auth_failed"}
    BY <1>0, <1>5, StateSet DEF WriteState, Serving
  <2> QED
    BY <1>0, <1>5, <2>1, <2>2, StopsKept DEF WriteState, IInv, TypeOK, generations, outside
<1>6. CASE BuildFails
  <2>1. left' \in [Events -> Nat]
    BY <1>0, <1>6, Spending DEF BuildFails, Events
  <2>2. builds' \in [BuildStates -> Nat]
    BY <1>0, <1>6, BuildCounts, Places DEF BuildFails
  <2> QED
    BY <1>0, <1>6, <2>1, <2>2, StopsKept DEF BuildFails, IInv, TypeOK, generations
<1> QED
  BY <1>1, <1>2, <1>3, <1>4, <1>5, <1>6 DEF BuildSteps

\* The sources of a generation, and what its notifier hears.
LEMMA SourceSteps ==
  ASSUME IInv, NEW g \in Gens, SourcesAdvance(g) \/ Changes(g)
  PROVE  IInv'
<1>0. TypeOK /\ Stops
  BY DEF IInv
<1>1. CASE SourcesAdvance(g)
  <2>1. left' \in [Events -> Nat]
    BY <1>0, <1>1, Spending DEF SourcesAdvance, Events, TypeOK
  <2>2. source' \in [Gens -> Levels]
    BY <1>0, <1>1 DEF SourcesAdvance, TypeOK, Levels
  <2> QED
    BY <1>0, <1>1, <2>1, <2>2, StopsKept DEF SourcesAdvance, IInv, TypeOK, generations
<1>2. CASE Changes(g)
  <2> DEFINE n == Heard(note[g])
  <2>1. left' \in [Events -> Nat]
    BY <1>0, <1>2, Spending DEF Changes, Events
  <2>2. note[g] \in Notifiers
    BY <1>0 DEF TypeOK
  <2>3. 1 \in Flushes
    BY BoundsAssumption DEF Flushes
  <2>4. n \in Notifiers /\ n.stopped = note[g].stopped /\ n.flush = note[g].flush
    BY <2>2, <2>3, Notifying
  <2>5. g \notin retired
    BY <1>0, <1>2 DEF Changes, Stops
  <2>6. note' = [note EXCEPT ![g] = n] /\ UNCHANGED <<pub, retired>>
    BY <1>2 DEF Changes, generations
  <2>7. note' \in [Gens -> Notifiers] /\ Stops'
    <3> HIDE DEF n
    <3> QED
      BY <2>4, <2>5, <2>6, NoteChanges
  <2> QED
    BY <1>0, <1>2, <2>1, <2>7 DEF Changes, IInv, TypeOK, generations
<1> QED
  BY <1>1, <1>2

\* The notifier: only beginFlush starts a flush, and not once stopped.
LEMMA FlushSteps ==
  ASSUME IInv, NEW g \in Gens, NEW f \in Flushes, BeginFlush(g) \/ FlushStep(g, f)
  PROVE  IInv'
<1>0. TypeOK /\ Stops /\ note[g] \in Notifiers /\ source[g] \in Levels
  BY DEF IInv, TypeOK
<1>1. note[g].flush \in [Flushes -> [at : FlushPoints, level : Levels]]
  BY <1>0 DEF Notifiers
<1>2. g \in retired => note[g].stopped /\ \A e \in Flushes : note[g].flush[e].at = "none"
  BY <1>0 DEF Stops, Drained
<1>4. ASSUME NEW n \in Notifiers, note' = [note EXCEPT ![g] = n],
             note[g].stopped => n.stopped,
             g \in retired => \A e \in Flushes : n.flush[e].at = "none",
             builds' \in [BuildStates -> Nat],
             UNCHANGED <<outside, life, generations, source>>
      PROVE  IInv'
  <2>1. UNCHANGED <<pub, retired>>
    BY <1>4 DEF generations
  <2>2. note' \in [Gens -> Notifiers] /\ Stops'
    BY <1>4, <2>1, NoteChanges
  <2> QED
    BY <1>0, <1>4, <2>2 DEF IInv, TypeOK, outside, generations
<1>5. builds \in [BuildStates -> Nat]
  BY <1>0 DEF TypeOK
<1>6. CASE BeginFlush(g)
  <2>1. CASE note[g].stopped
    <3> DEFINE n == [note[g] EXCEPT !.armed = FALSE]
    <3>1. n \in Notifiers /\ n.stopped = note[g].stopped /\ n.flush = note[g].flush
      BY <1>0 DEF Notifiers
    <3>2. note' = [note EXCEPT ![g] = n] /\ UNCHANGED <<outside, life, generations, source, builds>>
      BY <1>6, <2>1 DEF BeginFlush
    <3> HIDE DEF n
    <3> QED
      BY <1>2, <1>4, <1>5, <3>1, <3>2
  <2>2. CASE ~note[g].stopped
    <3>1. PICK e \in Flushes : note' = [note EXCEPT ![g] = Begun(note[g], e)]
      BY <1>6, <2>2 DEF BeginFlush
    <3>2. Begun(note[g], e) \in Notifiers
      BY <1>0, Flushing
    <3>3. UNCHANGED <<outside, life, generations, source, builds>>
      BY <1>6 DEF BeginFlush
    <3> QED
      BY <1>2, <1>4, <1>5, <2>2, <3>1, <3>2, <3>3
  <2> QED
    BY <2>1, <2>2
<1>7. CASE FlushStep(g, f)
  <2>0. g \notin retired
    BY <1>2, <1>7 DEF FlushStep, ReadReadiness, Compare, CheckStopped, Ring
  <2>1. CASE ReadReadiness(g, f)
    <3> DEFINE n == [note[g] EXCEPT !.flush[f] =
                 [level |-> source[g],
                  at |-> IF note[g].flush[f].at = "read" THEN "compare" ELSE "compare dirty"]]
    <3>1. n \in Notifiers /\ n.stopped = note[g].stopped
      BY <1>0, <1>1 DEF Notifiers, FlushPoints
    <3>2. note' = [note EXCEPT ![g] = n] /\ UNCHANGED <<outside, life, generations, source, builds>>
      BY <1>0, <2>1 DEF ReadReadiness, TypeOK
    <3> HIDE DEF n
    <3> QED
      BY <1>4, <1>5, <2>0, <3>1, <3>2
  <2>2. CASE Compare(g, f)
    <3> DEFINE m == [note[g] EXCEPT !.last = note[g].flush[f].level]
               n == FlushAt(m, f, "check")
    <3>1. m \in Notifiers /\ m.stopped = note[g].stopped /\ m.flush = note[g].flush
      BY <1>0, <1>1 DEF Notifiers
    <3>2. n \in Notifiers /\ n.stopped = note[g].stopped
      <4> HIDE DEF m
      <4> QED
        BY <3>1, Flushing DEF FlushPoints
    <3>3. Ended(m, f) \in Notifiers /\ Ended(m, f).stopped = note[g].stopped
      <4> HIDE DEF m
      <4> QED
        BY <3>1, Notifying
    <3>4. /\ note' = [note EXCEPT ![g] = n] \/ note' = [note EXCEPT ![g] = Ended(m, f)]
          /\ UNCHANGED <<outside, life, generations, source, builds>>
      BY <2>2 DEF Compare
    <3> HIDE DEF n, m
    <3> QED
      BY <1>4, <1>5, <2>0, <3>2, <3>3, <3>4
  <2>3. CASE CheckStopped(g, f)
    <3> DEFINE n == IF note[g].stopped THEN Ended(note[g], f)
                    ELSE FlushAt(note[g], f, "ring")
    <3>1. Ended(note[g], f) \in Notifiers /\ Ended(note[g], f).stopped = note[g].stopped
      BY <1>0, Notifying
    <3>2. n \in Notifiers /\ n.stopped = note[g].stopped
      BY <1>0, <3>1, Flushing DEF FlushPoints
    <3>3. note' = [note EXCEPT ![g] = n] /\ UNCHANGED <<outside, life, generations, source, builds>>
      BY <2>3 DEF CheckStopped
    <3> HIDE DEF n
    <3> QED
      BY <1>4, <1>5, <2>0, <3>2, <3>3
  <2>4. CASE Ring(g, f)
    <3> DEFINE n == Ended(note[g], f)
    <3>1. n \in Notifiers /\ n.stopped = note[g].stopped
      BY <1>0, Notifying
    <3>2. note' = [note EXCEPT ![g] = n] /\ UNCHANGED <<outside, life, generations, source>>
      BY <2>4 DEF Ring
    <3>3. builds' \in [BuildStates -> Nat]
      BY <1>0, <2>4, BuildCounts, Places DEF Ring
    <3> HIDE DEF n
    <3> QED
      BY <1>4, <2>0, <3>1, <3>2, <3>3
  <2> QED
    BY <1>7, <2>1, <2>2, <2>3, <2>4 DEF FlushStep
<1> QED
  BY <1>6, <1>7

\* Publication, replacement, teardown: the flag is set before the wait.
LEMMA PublishingSteps ==
  ASSUME IInv, StartGeneration \/ TearDown \/ PublishSteps
  PROVE  IInv'
<1>0. TypeOK /\ Stops /\ pub \in Publishers /\ note \in [Gens -> Notifiers]
  BY DEF IInv, TypeOK
<1>1. MaxGens \in Nat \ {0} /\ 1 \in Flushes
  BY BoundsAssumption DEF Flushes
<1>2. ASSUME UNCHANGED <<note, retired>>, pub' \in Publishers,
             pub'.at = "stop" => pub'.previous \in Gens, pub'.at # "drain"
      PROVE  Stops'
  BY <1>0, <1>2 DEF Stops, Drained
<1>3. CASE StartGeneration
  <2> DEFINE g == pub.last + 1
             n == Heard(note[g])
  <2>1. g \in Gens /\ pub' = [at |-> "route", previous |-> route, last |-> g]
    BY <1>0, <1>1, <1>3 DEF StartGeneration, Publishers, Gens
  <2>2. note[g] \in Notifiers
    BY <1>0, <2>1
  <2>3. n \in Notifiers /\ n.stopped = note[g].stopped /\ n.flush = note[g].flush
    BY <1>1, <2>2, Notifying
  <2>4. note' = [note EXCEPT ![g] = n] /\ retired' = retired
    BY <1>3 DEF StartGeneration
  <2>5. pub' \in Publishers
    BY <1>0, <2>1 DEF TypeOK, Publishers, Gens
  <2>6. note' \in [Gens -> Notifiers]
    <3> HIDE DEF n
    <3> QED
      BY <1>0, <2>3, <2>4
  <2>7. \A h \in retired : note'[h].stopped = note[h].stopped /\ note'[h].flush = note[h].flush
    <3> HIDE DEF n
    <3> QED
      BY <1>0, <2>1, <2>3, <2>4 DEF TypeOK
  <2>8. Stops'
    BY <1>0, <2>1, <2>4, <2>7 DEF Stops, Drained
  <2>9. left' \in [Events -> Nat]
    BY <1>0, <1>3, Spending DEF StartGeneration, Events, TypeOK
  <2> QED
    BY <1>0, <1>3, <2>5, <2>6, <2>8, <2>9 DEF StartGeneration, IInv, TypeOK
<1>4. CASE TearDown
  <2>1. pub' \in Publishers /\ (pub'.at = "stop" => pub'.previous \in Gens) /\ pub'.at # "drain"
    BY <1>0, <1>4 DEF TearDown, TypeOK, Publishers
  <2> QED
    BY <1>0, <1>2, <1>4, <2>1 DEF TearDown, IInv, TypeOK
<1>5. CASE RouteGeneration
  <2>1. pub' \in Publishers /\ pub'.at = "commit"
    BY <1>0, <1>5 DEF RouteGeneration, Goto, Publishers
  <2>2. route' \in Gens \cup {NoGen}
    BY <1>0, <1>1, <1>5 DEF RouteGeneration, Publishers, Gens, NoGen
  <2> QED
    BY <1>0, <1>2, <1>5, <2>1, <2>2 DEF RouteGeneration, IInv, TypeOK, outside
<1>6. CASE CommitGeneration
  <2>1. pub' \in Publishers /\ pub'.at \in {"build", "load"}
    BY <1>0, <1>6 DEF CommitGeneration, Goto, Publishers
  <2> QED
    BY <1>0, <1>2, <1>6, <2>1 DEF CommitGeneration, IInv, TypeOK, outside
<1>7. CASE SetLoading
  <2>1. pub' \in Publishers /\ pub'.at = "build"
    BY <1>0, <1>7 DEF SetLoading, Goto, Publishers
  <2>2. life' \in Initializing \cup Serving \cup {"auth_failed"}
    BY <1>0, <1>7, StateSet DEF SetLoading, Serving
  <2> QED
    BY <1>0, <1>2, <1>7, <2>1, <2>2 DEF SetLoading, IInv, TypeOK, outside
<1>8. CASE StartReadiness
  <2>1. pub' \in Publishers /\ (pub'.at = "stop" => pub'.previous \in Gens) /\ pub'.at # "drain"
    BY <1>0, <1>8 DEF StartReadiness, Goto, Publishers
  <2>2. builds' \in [BuildStates -> Nat]
    BY <1>0, <1>8, BuildCounts, Places DEF StartReadiness, BuildAtPublication
  <2> QED
    BY <1>0, <1>2, <1>8, <2>1, <2>2 DEF StartReadiness, IInv, TypeOK, outside
<1>9. CASE StopNotifier
  <2> DEFINE g == pub.previous
  <2>1. g \in Gens /\ note[g] \in Notifiers
    BY <1>0, <1>9 DEF StopNotifier, Stops
  <2>2. PICK n \in Notifiers : /\ note' = [note EXCEPT ![g] = n]
                               /\ n.stopped /\ n.flush = note[g].flush
    <3>1. PICK fired \in BOOLEAN : note' = [note EXCEPT ![g].stopped = TRUE,
                                                      ![g].armed = @ /\ fired]
      BY <1>9 DEF StopNotifier
    <3> DEFINE n == [note[g] EXCEPT !.stopped = TRUE, !.armed = note[g].armed /\ fired]
    <3>2. n \in Notifiers /\ n.stopped /\ n.flush = note[g].flush
      BY <2>1 DEF Notifiers
    <3>3. note' = [note EXCEPT ![g] = n]
      BY <1>0, <2>1, <3>1
    <3> QED
      BY <3>2, <3>3
  <2>3. note' \in [Gens -> Notifiers]
    BY <1>0, <2>2
  <2>4. pub' \in Publishers /\ pub'.at = "drain" /\ pub'.previous = g
    BY <1>0, <1>9 DEF StopNotifier, Goto, Publishers
  <2>5. retired' = retired /\ retired \subseteq Gens
    BY <1>0, <1>9 DEF StopNotifier, TypeOK
  <2>6. Stops'
    BY <1>0, <2>1, <2>2, <2>4, <2>5 DEF Stops, Drained
  <2> QED
    BY <1>0, <1>9, <2>3, <2>4, <2>6 DEF StopNotifier, IInv, TypeOK, outside
<1>10. CASE RetireGeneration
  <2> DEFINE g == pub.previous
             n == [note[g] EXCEPT !.dirty = FALSE, !.last = "unknown"]
  <2>1. g \in Gens /\ note[g] \in Notifiers /\ note[g].stopped
    BY <1>0, <1>10 DEF RetireGeneration, Stops
  <2>2. n \in Notifiers /\ n.stopped = note[g].stopped /\ n.flush = note[g].flush
    BY <2>1 DEF Notifiers
  <2>3. note' = [note EXCEPT ![g] = n]
    BY <1>0, <1>10, <2>1 DEF RetireGeneration
  <2>4. retired' = retired \cup {g} /\ retired \subseteq Gens
    BY <1>0, <1>10 DEF RetireGeneration, TypeOK
  <2>5. pub' \in Publishers /\ pub'.at = "idle"
    BY <1>0, <1>10 DEF RetireGeneration, Publishers
  <2>6. source' \in [Gens -> Levels]
    BY <1>0, <1>10 DEF RetireGeneration, TypeOK, Levels
  <2>7. Drained(g)
    BY <1>10 DEF RetireGeneration
  <2> HIDE DEF n, g
  <2>8. note' \in [Gens -> Notifiers]
    BY <1>0, <2>2, <2>3
  <2>9. Stops'
    BY <1>0, <2>1, <2>2, <2>3, <2>4, <2>5, <2>7 DEF Stops, Drained
  <2> QED
    BY <1>0, <1>10, <2>1, <2>4, <2>5, <2>6, <2>8, <2>9 DEF RetireGeneration, IInv, TypeOK, outside
<1> QED
  BY <1>3, <1>4, <1>5, <1>6, <1>7, <1>8, <1>9, <1>10 DEF PublishSteps

-----------------------------------------------------------------------------
LEMMA StepKeeps == IInv /\ [Next]_vars => IInv'
<1> SUFFICES ASSUME IInv, [Next]_vars PROVE IInv'
  OBVIOUS
<1>1. CASE Next
  BY <1>1, OutsideSteps, BuildingSteps, SourceSteps, FlushSteps, PublishingSteps,
     BoundsAssumption DEF Next, Flushes
<1>2. CASE UNCHANGED vars
  BY <1>2, StopsKept DEF IInv, TypeOK, vars
<1> QED
  BY <1>1, <1>2

\* Every variable has its type (clusterLifecycle, NamespaceChangeNotifier).
THEOREM TypeCorrect == Spec => []TypeOK
<1>1. IInv => TypeOK
  BY DEF IInv
<1> QED
  BY InitHolds, StepKeeps, <1>1, PTL DEF Spec

\* A generation whose stop has returned rings no more (Stop, beginFlush).
THEOREM StoppedIsQuiet == Spec => []QuietAfterStop
<1>1. IInv => QuietAfterStop
  BY DEF IInv, Stops, Drained, QuietAfterStop
<1> QED
  BY InitHolds, StepKeeps, <1>1, PTL DEF Spec
=============================================================================
