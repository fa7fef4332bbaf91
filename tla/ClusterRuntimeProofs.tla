------------------------ MODULE ClusterRuntimeProofs ------------------------
(***************************************************************************)
(* Proofs about ClusterRuntime for every number of outside events and of   *)
(* generations: types, the exclusion of slotted work, that no manager is   *)
(* ever left running where nothing can stop it, and that replacement is    *)
(* seamless, leaves one generation and loses no scope edit.                *)
(*                                                                         *)
(* FeedsAreReclaimable does not depend on who overlaps whom.  Its reason   *)
(* is Held_: a manager is started by the worker that built it, and between *)
(* start and commit that worker still has it in hand; afterwards it is     *)
(* among the committed runtimes until it is stopped.  The table, which     *)
(* workers overwrite under each other, plays no part.                      *)
(*                                                                         *)
(* The other three do depend on it.  Their invariant, in the second half   *)
(* of this module, says for each point of the one worker that works which  *)
(* generations serve, feed, are committed and watched, and routed.         *)
(***************************************************************************)
EXTENDS ClusterRuntime, TLAPS

Points == {"idle", "slot", "sync", "plan", "apply", "replace", "take", "unroute",
           "drop", "retire", "clients", "build", "check", "start", "publish",
           "snapshot", "route", "commit", "end", "done", "cool", "install"}
Nexts == {"end", "done", "clients"}

WorkerState == [pc : Points, next : Nexts, new : Refs, previous : Refs,
                target : Refs, expected : Refs]
GenState == [feeding : SUBSET Gens, serving : SUBSET Gens, cooled : SUBSET Gens,
             committed : SUBSET Gens, watching : SUBSET Gens, scope : [Gens -> Nat]]
OpsState == [begun : SUBSET Workers, cancelled : SUBSET Workers, held : SUBSET Workers]
TierState == [visible : BOOLEAN, planned : {"live", "cold"}, applied : {"live", "cold"}]
Intent == {i \in Job : i.kind \in Kinds}
Pending == {j \in Job : j.kind # "none"}
IntentState == [last : Nat, pending : SUBSET Intent, batch : SUBSET Intent,
                latest : [Kinds -> Nat]]

\* Where a worker has a generation of its own in hand, and where it has
\* started it and not yet committed it.
Building == {"check", "start", "publish", "snapshot", "route", "commit"}
Holding == {"publish", "snapshot", "route", "commit", "replace"}

LocalsOK(r) ==
  /\ r \in WorkerState
  /\ r.pc \in Building => r.new # NoGen
  /\ r.pc = "install" => r.previous # NoGen

OutsideOK ==
  /\ left \in [Events -> Nat]
  /\ auth \in {"valid", "recovering", "invalid"}
  /\ intents \in IntentState /\ jobs \subseteq Pending /\ holder \in Job
  /\ rebuilding \in BOOLEAN /\ overlapped \in BOOLEAN
  /\ scope \in [version : Nat, queued : BOOLEAN] /\ selGen \in Nat
  /\ ops \in OpsState /\ tier \in TierState

Typed ==
  /\ OutsideOK
  /\ worker \in [Workers -> WorkerState] /\ \A w \in Workers : LocalsOK(worker[w])
  /\ table \in Refs /\ route \in Refs /\ gen \in GenState

\* Every running manager is committed, or in the hands of the worker that
\* started it.
Held_ ==
  \A g \in gen.feeding :
    g \in gen.committed \/ \E w \in Workers : worker[w].pc \in Holding /\ worker[w].new = g

\* The slot: who works with it holds it, who holds or waits for it has begun.
SlotOK ==
  /\ ops.held \subseteq ops.begun
  /\ ~{"mutation", "revalidator"} \subseteq ops.held
  /\ Working("mutation") /\ Slotted("mutation", holder) => "mutation" \in ops.held
  /\ Working("revalidator") => "revalidator" \in ops.held
  /\ \A w \in Workers : worker[w].pc = "slot" => w = "mutation" /\ "mutation" \in ops.begun
  /\ holder = NoJob => worker["mutation"].pc = "idle"

IInv == Typed /\ Held_ /\ SlotOK

LEMMA IInvImplies == IInv => TypeOK /\ FeedsAreReclaimable /\ SlotExcludes
<1> SUFFICES ASSUME IInv PROVE TypeOK /\ FeedsAreReclaimable /\ SlotExcludes
  OBVIOUS
<1>1. TypeOK
  <2>1. /\ intents.last \in Nat /\ intents.latest \in [Kinds -> Nat]
        /\ intents.pending \cup intents.batch \cup jobs \cup {holder} \subseteq Job
    BY DEF IInv, Typed, OutsideOK, IntentState, Intent, Pending
  <2>2. \A w \in Workers :
          {worker[w].new, worker[w].previous, worker[w].target, worker[w].expected} \subseteq Refs
    BY DEF IInv, Typed, WorkerState
  <2> QED
    BY <2>1, <2>2 DEF IInv, Typed, OutsideOK, OpsState, TierState, GenState, TypeOK
<1>2. FeedsAreReclaimable
  BY DEF IInv, Held_, FeedsAreReclaimable
<1>3. SlotExcludes
  BY DEF IInv, SlotOK, SlotExcludes
<1> QED
  BY <1>1, <1>2, <1>3

LEMMA IdleOK == LocalsOK(Idle) /\ Idle.pc = "idle" /\ Idle.new = NoGen
BY DEF Idle, LocalsOK, WorkerState, Points, Nexts, Refs, Building

LEMMA InitIInv == Init => IInv
<1> SUFFICES ASSUME Init PROVE IInv
  OBVIOUS
<1>1. 1 \in Gens
  BY MaxGensAssumption DEF Gens
<1>2. NoJob \in Job
  BY DEF NoJob, Job
<1>3. OutsideOK
  <2>1. intents \in IntentState
    BY DEF Init, IntentState
  <2>2. ops \in OpsState /\ tier \in TierState
    BY DEF Init, OpsState, TierState
  <2>3. scope \in [version : Nat, queued : BOOLEAN]
    BY DEF Init
  <2> QED
    BY <1>2, <2>1, <2>2, <2>3, BudgetAssumption DEF Init, OutsideOK
<1>4. Typed
  <2>1. [g \in Gens |-> 0] \in [Gens -> Nat]
    OBVIOUS
  <2>2. gen \in GenState
    BY <1>1, <2>1 DEF Init, GenState
  <2>3. \A w \in Workers : worker[w] = Idle
    BY DEF Init
  <2>4. worker \in [Workers -> WorkerState]
    BY IdleOK DEF Init, LocalsOK
  <2> QED
    BY <1>1, <1>3, <2>2, <2>3, <2>4, IdleOK DEF Init, Typed, Refs
<1>5. Held_
  BY DEF Init, Held_
<1>6. SlotOK
  <2>1. worker["mutation"].pc = "idle" /\ worker["revalidator"].pc = "idle"
        /\ \A w \in Workers : worker[w].pc = "idle"
    BY IdleOK DEF Init, Workers
  <2>2. ops.held = {} /\ ops.begun = {}
    BY DEF Init
  <2> QED
    BY <2>1, <2>2 DEF SlotOK, Working
<1> QED
  BY <1>4, <1>5, <1>6 DEF IInv

-----------------------------------------------------------------------------
(* A step that moves one worker, and no job, intent or operation.          *)

LEMMA StepKeeps ==
  ASSUME IInv, NEW w \in Workers, Working(w),
         NEW r, LocalsOK(r), r.pc \notin {"slot"}, worker' = [worker EXCEPT ![w] = r],
         table' \in Refs, route' \in Refs, gen' \in GenState, left' \in [Events -> Nat],
         \A g \in gen'.feeding :
           \/ g \in gen'.committed
           \/ r.pc \in Holding /\ r.new = g
           \/ g \in gen.feeding \ gen.committed
                /\ (worker[w].pc \in Holding /\ worker[w].new = g => r.pc \in Holding /\ r.new = g),
         UNCHANGED outside
  PROVE  IInv'
<1>1. /\ worker \in [Workers -> WorkerState] /\ r \in WorkerState
      /\ worker' \in [Workers -> WorkerState]
      /\ worker'[w] = r /\ \A v \in Workers \ {w} : worker'[v] = worker[v]
  BY DEF IInv, Typed, LocalsOK
<1>2. Typed'
  BY <1>1 DEF IInv, Typed, OutsideOK, outside
<1>3. Held_'
  BY <1>1 DEF IInv, Held_
<1>4. SlotOK'
  BY <1>1 DEF IInv, SlotOK, Working, Slotted, outside
<1> QED
  BY <1>2, <1>3, <1>4 DEF IInv

\* Stopping generations never leaves a manager uncommitted.
LEMMA StopFacts ==
  ASSUME gen \in GenState, NEW gs
  PROVE  /\ StopProducers(gs) \in GenState /\ Stop(gs) \in GenState
         /\ StopProducers(gs).feeding = gen.feeding \ gs
         /\ Stop(gs).feeding = gen.feeding \ gs
         /\ StopProducers(gs).committed = gen.committed \ gs
         /\ Stop(gs).committed = gen.committed \ gs
BY DEF StopProducers, Stop, GenState

LEMMA RollbackFacts ==
  ASSUME gen \in GenState, NEW g
  PROVE  /\ Rollback(g) \in GenState
         /\ Rollback(g).feeding = gen.feeding \ {g}
         /\ Rollback(g).committed = gen.committed \ {g}
<1>1. Stop({g}) \in GenState /\ Stop({g}).feeding = gen.feeding \ {g}
      /\ Stop({g}).committed = gen.committed \ {g}
  BY StopFacts
<1> QED
  BY <1>1 DEF Rollback, GenState

LEMMA BuiltFacts ==
  ASSUME Typed, Free # {}
  PROVE  /\ NewGen \in Gens /\ NewGen # NoGen
         /\ Built(NewGen) \in GenState
         /\ Built(NewGen).feeding = gen.feeding /\ Built(NewGen).committed = gen.committed
<1>1. NewGen \in Gens
  BY DEF NewGen, Free
<1>2. NewGen # NoGen
  BY <1>1, MaxGensAssumption DEF Gens, NoGen
<1> QED
  BY <1>1, <1>2 DEF Built, GenState, Typed, OutsideOK

LEMMA SpendFacts ==
  ASSUME left \in [Events -> Nat], NEW e \in Events, Spend(e)
  PROVE  left' \in [Events -> Nat]
BY DEF Spend, Events
LEMMA StandsAt ==
  ASSUME IInv, NEW w \in Workers, NEW p, At(w, p), p \notin {"idle", "slot"}
  PROVE  /\ worker \in [Workers -> WorkerState] /\ worker[w] \in WorkerState
         /\ LocalsOK(worker[w]) /\ worker[w].pc = p /\ Working(w)
         /\ gen \in GenState /\ table \in Refs /\ route \in Refs
         /\ left \in [Events -> Nat] /\ NoGen \in Refs
BY DEF IInv, Typed, OutsideOK, At, Working, Refs

\* A worker that changes its own record and leaves the generations alone, or
\* only stops some: whatever it had started stays in its hands.
LEMMA QuietStep ==
  ASSUME IInv, NEW w \in Workers, Working(w),
         NEW r, LocalsOK(r), r.pc # "slot", worker' = [worker EXCEPT ![w] = r],
         worker[w].pc \in Holding => r.pc \in Holding /\ r.new = worker[w].new,
         table' \in Refs, route' \in Refs, left' \in [Events -> Nat],
         gen' = gen \/ \E gs : gen' = Stop(gs) \/ gen' = StopProducers(gs),
         UNCHANGED outside
  PROVE  IInv'
<1>1. gen \in GenState
  BY DEF IInv, Typed
<1>2. gen' \in GenState
      /\ \A g \in gen'.feeding :
            g \in gen.feeding /\ (g \in gen'.committed \/ g \notin gen.committed)
  BY <1>1, StopFacts
<1> QED
  BY <1>2, StepKeeps

LEMMA GotoRecord ==
  ASSUME worker \in [Workers -> WorkerState], NEW w \in Workers, NEW q, Goto(w, q),
         q \in Points, LocalsOK(worker[w]),
         q \in Building => worker[w].new # NoGen, q # "install"
  PROVE  LET r == [worker[w] EXCEPT !.pc = q]
         IN LocalsOK(r) /\ r.pc = q /\ r.new = worker[w].new
              /\ worker' = [worker EXCEPT ![w] = r]
BY DEF Goto, WorkerState, LocalsOK

LEMMA FinishRecord ==
  ASSUME worker \in [Workers -> WorkerState], NEW w \in Workers, Finish(w)
  PROVE  LET r == [worker[w] EXCEPT !.pc = "end", !.next = "end"]
         IN LocalsOK(r) /\ r.pc = "end" /\ worker' = [worker EXCEPT ![w] = r]
BY DEF Finish, WorkerState, LocalsOK, Points, Nexts, Building

LEMMA GotoStep ==
  ASSUME IInv, NEW w \in Workers, Working(w), NEW q \in Points, Goto(w, q),
         q \notin {"slot", "install"}, q \in Building => worker[w].new # NoGen,
         worker[w].pc \in Holding => q \in Holding,
         table' \in Refs, route' \in Refs, left' \in [Events -> Nat],
         gen' = gen, UNCHANGED outside
  PROVE  IInv'
<1> DEFINE r == [worker[w] EXCEPT !.pc = q]
<1>1. worker \in [Workers -> WorkerState] /\ LocalsOK(worker[w])
  BY DEF IInv, Typed
<1>2. LocalsOK(r) /\ r.pc = q /\ r.new = worker[w].new /\ worker' = [worker EXCEPT ![w] = r]
  BY <1>1, GotoRecord
<1> HIDE DEF r
<1> QED
  BY <1>2, QuietStep

LEMMA FinishStep ==
  ASSUME IInv, NEW w \in Workers, Working(w), Finish(w), worker[w].pc \notin Holding,
         table' \in Refs, route' \in Refs, left' \in [Events -> Nat],
         gen' = gen \/ \E gs : gen' = Stop(gs) \/ gen' = StopProducers(gs),
         UNCHANGED outside
  PROVE  IInv'
<1> DEFINE r == [worker[w] EXCEPT !.pc = "end", !.next = "end"]
<1>1. worker \in [Workers -> WorkerState]
  BY DEF IInv, Typed
<1>2. LocalsOK(r) /\ r.pc = "end" /\ worker' = [worker EXCEPT ![w] = r]
  BY <1>1, FinishRecord
<1> HIDE DEF r
<1> QED
  BY <1>2, QuietStep

-----------------------------------------------------------------------------
(* The steps of a teardown.                                                *)

LEMMA TakeKeeps == ASSUME IInv, NEW w \in Workers, Take(w) PROVE IInv'
<1> DEFINE r == [worker[w] EXCEPT
      !.previous = table,
      !.pc = IF table = NoGen THEN worker[w].next ELSE "unroute",
      !.next = IF table = NoGen THEN "end" ELSE worker[w].next]
<1>1. worker \in [Workers -> WorkerState] /\ worker[w] \in WorkerState
      /\ worker[w].pc = "take" /\ Working(w) /\ table \in Refs /\ route \in Refs
      /\ left \in [Events -> Nat] /\ NoGen \in Refs
  BY StandsAt DEF Take
<1>2. worker' = [worker EXCEPT ![w] = r]
  BY <1>1 DEF Take, WorkerState
<1>3. LocalsOK(r) /\ r.pc # "slot"
  BY <1>1 DEF LocalsOK, WorkerState, Points, Nexts, Building
<1>4. worker[w].pc \notin Holding
  BY <1>1 DEF Holding
<1> HIDE DEF r
<1> QED
  BY <1>1, <1>2, <1>3, <1>4, QuietStep DEF Take

LEMMA UnrouteKeeps == ASSUME IInv, NEW w \in Workers, Unroute(w) PROVE IInv'
<1> DEFINE r == [worker[w] EXCEPT !.target = table, !.pc = "drop"]
<1>1. worker \in [Workers -> WorkerState] /\ worker[w] \in WorkerState
      /\ worker[w].pc = "unroute" /\ Working(w) /\ table \in Refs /\ route \in Refs
      /\ left \in [Events -> Nat]
  BY StandsAt DEF Unroute
<1>2. worker' = [worker EXCEPT ![w] = r]
  BY <1>1 DEF Unroute, WorkerState
<1>3. LocalsOK(r) /\ r.pc # "slot"
  BY <1>1 DEF LocalsOK, WorkerState, Points, Building
<1>4. worker[w].pc \notin Holding
  BY <1>1 DEF Holding
<1> HIDE DEF r
<1> QED
  BY <1>1, <1>2, <1>3, <1>4, QuietStep DEF Unroute

LEMMA DropKeeps == ASSUME IInv, NEW w \in Workers, Drop(w) PROVE IInv'
<1>1. worker[w] \in WorkerState /\ worker[w].pc = "drop" /\ Working(w)
      /\ table \in Refs /\ left \in [Events -> Nat]
  BY StandsAt DEF Drop
<1>2. worker[w].pc \notin Holding /\ worker[w].target \in Refs /\ "retire" \in Points \ Building
  BY <1>1 DEF Holding, WorkerState, Points, Building
<1> QED
  BY <1>1, <1>2, GotoStep DEF Drop

LEMMA RetireKeeps == ASSUME IInv, NEW w \in Workers, Retire(w) PROVE IInv'
<1> DEFINE r == [worker[w] EXCEPT !.pc = worker[w].next, !.next = "end"]
<1>1. worker \in [Workers -> WorkerState] /\ worker[w] \in WorkerState
      /\ worker[w].pc = "retire" /\ Working(w) /\ table \in Refs /\ route \in Refs
      /\ left \in [Events -> Nat]
  BY StandsAt DEF Retire
<1>2. worker' = [worker EXCEPT ![w] = r]
  BY <1>1 DEF Retire, WorkerState
<1>3. LocalsOK(r) /\ r.pc # "slot"
  BY <1>1 DEF LocalsOK, WorkerState, Points, Nexts, Building
<1>4. worker[w].pc \notin Holding
  BY <1>1 DEF Holding
<1> HIDE DEF r
<1> QED
  BY <1>1, <1>2, <1>3, <1>4, QuietStep DEF Retire

-----------------------------------------------------------------------------
(* The steps of a rebuild.                                                 *)

LEMMA RebuildClientsKeeps == ASSUME IInv, NEW w \in Workers, RebuildClients(w) PROVE IInv'
<1>1. worker[w].pc = "clients" /\ Working(w) /\ table \in Refs /\ route \in Refs
      /\ left \in [Events -> Nat]
  BY StandsAt DEF RebuildClients
<1>2. worker[w].pc \notin Holding /\ "build" \in Points \ Building
  BY <1>1 DEF Holding, Points, Building
<1>3. CASE Finish(w)
  BY <1>1, <1>2, <1>3, FinishStep DEF RebuildClients
<1>4. CASE Goto(w, "build")
  BY <1>1, <1>2, <1>4, GotoStep DEF RebuildClients
<1> QED
  BY <1>3, <1>4 DEF RebuildClients

LEMMA ClientsFailKeeps == ASSUME IInv, NEW w \in Workers, ClientsFail(w) PROVE IInv'
<1>1. worker[w].pc = "clients" /\ Working(w)
      /\ table \in Refs /\ route \in Refs /\ left \in [Events -> Nat]
  BY StandsAt DEF ClientsFail
<1>2. worker[w].pc \notin Holding /\ left' \in [Events -> Nat]
  BY <1>1, SpendFacts DEF Holding, ClientsFail, Events
<1> QED
  BY <1>1, <1>2, FinishStep DEF ClientsFail

LEMMA BuildSubsystemKeeps == ASSUME IInv, NEW w \in Workers, BuildSubsystem(w) PROVE IInv'
<1> DEFINE r == [worker[w] EXCEPT !.new = NewGen,
                   !.pc = IF w = "revalidator" THEN "check" ELSE "start"]
<1>1. worker \in [Workers -> WorkerState] /\ worker[w] \in WorkerState
      /\ worker[w].pc = "build" /\ Working(w) /\ table \in Refs /\ route \in Refs
      /\ left \in [Events -> Nat]
  BY StandsAt DEF BuildSubsystem
<1>2. worker[w].pc \notin Holding
  BY <1>1 DEF Holding
<1>3. CASE Stale(w)
  BY <1>1, <1>2, <1>3, FinishStep DEF BuildSubsystem
<1>4. CASE ~Stale(w)
  <2>1. Typed /\ Free # {}
    BY <1>4 DEF BuildSubsystem, IInv
  <2>2. NewGen \in Refs /\ NewGen # NoGen /\ Built(NewGen) \in GenState
        /\ Built(NewGen).feeding = gen.feeding /\ Built(NewGen).committed = gen.committed
    BY <2>1, BuiltFacts DEF Refs
  <2>3. worker' = [worker EXCEPT ![w] = r]
    BY <1>1, <1>4 DEF BuildSubsystem, WorkerState
  <2>4. LocalsOK(r) /\ r.pc # "slot"
    BY <1>1, <2>2 DEF LocalsOK, WorkerState, Points
  <2>5. gen' = Built(NewGen)
    BY <1>4 DEF BuildSubsystem
  <2> HIDE DEF r
  <2> QED
    BY <1>1, <1>2, <2>2, <2>3, <2>4, <2>5, StepKeeps DEF BuildSubsystem
<1> QED
  BY <1>3, <1>4

LEMMA CheckExpectedKeeps == ASSUME IInv, CheckExpected PROVE IInv'
<1> DEFINE w == "revalidator"
<1>0. w \in Workers /\ At(w, "check")
  BY DEF Workers, CheckExpected
<1>1. LocalsOK(worker[w]) /\ worker[w].pc = "check" /\ Working(w) /\ table \in Refs
      /\ route \in Refs /\ left \in [Events -> Nat]
  BY <1>0, StandsAt
<1>2. worker[w].pc \notin Holding /\ "start" \in Points /\ worker[w].new # NoGen
  BY <1>1 DEF Holding, Points, LocalsOK, Building
<1>3. CASE Stale(w)
  <2>1. Finish(w) /\ gen' = Stop({worker[w].new})
    BY <1>3 DEF CheckExpected
  <2> HIDE DEF w
  <2> QED
    BY <1>0, <1>1, <1>2, <2>1, FinishStep DEF CheckExpected
<1>4. CASE ~Stale(w)
  <2>1. Goto(w, "start") /\ gen' = gen
    BY <1>4 DEF CheckExpected
  <2> HIDE DEF w
  <2> QED
    BY <1>0, <1>1, <1>2, <2>1, GotoStep DEF CheckExpected
<1> QED
  BY <1>3, <1>4

\* What starting and committing do to the sets Held_ is about.
LEMMA StartedFacts ==
  ASSUME gen \in GenState, NEW g \in Gens
  PROVE  Started(g) \in GenState /\ Started(g).feeding = gen.feeding \cup {g}
         /\ Started(g).committed = gen.committed
BY DEF Started, GenState

LEMMA CommittedFacts ==
  ASSUME gen \in GenState, NEW g \in Gens
  PROVE  Committed(g) \in GenState /\ Committed(g).feeding = gen.feeding
         /\ Committed(g).committed = gen.committed \cup {g}
BY DEF Committed, GenState

LEMMA StartGenerationKeeps == ASSUME IInv, NEW w \in Workers, StartGeneration(w) PROVE IInv'
<1> DEFINE r == [worker[w] EXCEPT !.previous = table, !.pc = "publish"]
<1>1. worker \in [Workers -> WorkerState] /\ worker[w] \in WorkerState
      /\ LocalsOK(worker[w]) /\ worker[w].pc = "start" /\ Working(w) /\ gen \in GenState
      /\ table \in Refs /\ route \in Refs /\ left \in [Events -> Nat]
  BY StandsAt DEF StartGeneration
<1>2. worker' = [worker EXCEPT ![w] = r]
  BY <1>1 DEF StartGeneration, WorkerState
<1>3. LocalsOK(r) /\ r.pc # "slot" /\ r.pc \in Holding /\ r.new = worker[w].new
  BY <1>1 DEF LocalsOK, WorkerState, Points, Building, Holding
<1>4. worker[w].pc \notin Holding /\ worker[w].new \in Gens
  BY <1>1 DEF Holding, Building, LocalsOK, WorkerState, Refs
<1>5. gen' \in GenState /\ gen'.feeding = gen.feeding \cup {worker[w].new}
      /\ gen'.committed = gen.committed
  BY <1>1, <1>4, StartedFacts DEF StartGeneration
<1> HIDE DEF r
<1> QED
  BY <1>1, <1>2, <1>3, <1>4, <1>5, StepKeeps DEF StartGeneration

LEMMA PublishGenerationKeeps ==
  ASSUME IInv, NEW w \in Workers, PublishGeneration(w) PROVE IInv'
<1>1. worker[w] \in WorkerState /\ LocalsOK(worker[w]) /\ worker[w].pc = "publish"
      /\ Working(w) /\ route \in Refs /\ left \in [Events -> Nat]
  BY StandsAt DEF PublishGeneration
<1>2. worker[w].new \in Refs \ {NoGen} /\ "snapshot" \in Points \cap Holding
  BY <1>1 DEF Holding, Building, LocalsOK, WorkerState, Points
<1> QED
  BY <1>1, <1>2, GotoStep DEF PublishGeneration

LEMMA SnapshotTopologyKeeps ==
  ASSUME IInv, NEW w \in Workers, SnapshotTopology(w) PROVE IInv'
<1> DEFINE r == [worker[w] EXCEPT !.target = table, !.pc = "route"]
<1>1. worker \in [Workers -> WorkerState] /\ worker[w] \in WorkerState
      /\ LocalsOK(worker[w]) /\ worker[w].pc = "snapshot" /\ Working(w)
      /\ table \in Refs /\ route \in Refs /\ left \in [Events -> Nat]
  BY StandsAt DEF SnapshotTopology
<1>2. worker' = [worker EXCEPT ![w] = r]
  BY <1>1 DEF SnapshotTopology, WorkerState
<1>3. LocalsOK(r) /\ r.pc # "slot" /\ r.pc \in Holding /\ r.new = worker[w].new
  BY <1>1 DEF LocalsOK, WorkerState, Points, Building, Holding
<1> HIDE DEF r
<1> QED
  BY <1>1, <1>2, <1>3, QuietStep DEF SnapshotTopology

LEMMA RouteGenerationKeeps ==
  ASSUME IInv, NEW w \in Workers, RouteGeneration(w) PROVE IInv'
<1>1. worker[w] \in WorkerState /\ LocalsOK(worker[w]) /\ worker[w].pc = "route"
      /\ Working(w) /\ table \in Refs /\ left \in [Events -> Nat]
  BY StandsAt DEF RouteGeneration
<1>2. worker[w].new # NoGen /\ worker[w].target \in Refs /\ "commit" \in Points \cap Holding
  BY <1>1 DEF Holding, Building, LocalsOK, WorkerState, Points
<1> QED
  BY <1>1, <1>2, GotoStep DEF RouteGeneration

\* A rollback may end a worker that had started a manager: it stops that one.
LEMMA RollbackStep ==
  ASSUME IInv, NEW w \in Workers, Working(w), Finish(w), gen' = Rollback(worker[w].new),
         table' \in Refs, route' \in Refs, left' \in [Events -> Nat], UNCHANGED outside
  PROVE  IInv'
<1> DEFINE r == [worker[w] EXCEPT !.pc = "end", !.next = "end"]
<1>1. worker \in [Workers -> WorkerState] /\ gen \in GenState
  BY DEF IInv, Typed
<1>2. LocalsOK(r) /\ r.pc = "end" /\ worker' = [worker EXCEPT ![w] = r]
  BY <1>1, FinishRecord
<1>3. gen' \in GenState /\ gen'.feeding = gen.feeding \ {worker[w].new}
      /\ gen'.committed = gen.committed \ {worker[w].new}
  BY <1>1, RollbackFacts
<1> HIDE DEF r
<1> QED
  BY <1>2, <1>3, StepKeeps

LEMMA RoutingFailsKeeps == ASSUME IInv, NEW w \in Workers, RoutingFails(w) PROVE IInv'
<1>1. worker[w] \in WorkerState /\ Working(w) /\ route \in Refs /\ left \in [Events -> Nat]
  BY StandsAt DEF RoutingFails
<1>2. worker[w].previous \in Refs /\ left' \in [Events -> Nat]
  BY <1>1, SpendFacts DEF WorkerState, RoutingFails, Events
<1> QED
  BY <1>1, <1>2, RollbackStep DEF RoutingFails

LEMMA CommitGenerationKeeps ==
  ASSUME IInv, NEW w \in Workers, CommitGeneration(w) PROVE IInv'
<1> DEFINE r == [worker[w] EXCEPT !.pc = "retire"]
<1>1. worker \in [Workers -> WorkerState] /\ worker[w] \in WorkerState
      /\ LocalsOK(worker[w]) /\ worker[w].pc = "commit" /\ Working(w) /\ gen \in GenState
      /\ table \in Refs /\ route \in Refs /\ left \in [Events -> Nat]
  BY StandsAt DEF CommitGeneration
<1>2. LocalsOK(r) /\ r.pc = "retire" /\ worker' = [worker EXCEPT ![w] = r]
  BY <1>1, GotoRecord DEF CommitGeneration, Points, Building
<1>3. worker[w].new \in Gens
  BY <1>1 DEF Building, LocalsOK, WorkerState, Refs
<1>4. gen' \in GenState /\ gen'.feeding = gen.feeding
      /\ gen'.committed = gen.committed \cup {worker[w].new}
  BY <1>1, <1>3, CommittedFacts DEF CommitGeneration
<1> HIDE DEF r
<1> QED
  BY <1>1, <1>2, <1>4, StepKeeps DEF CommitGeneration

-----------------------------------------------------------------------------
(* The steps of a selection command and of the governor.                   *)

LEMMA Names == {"mutation", "revalidator", "governor"} = Workers
BY DEF Workers

LEMMA SyncClientsKeeps == ASSUME IInv, SyncClients PROVE IInv'
<1>1. worker["mutation"].pc = "sync" /\ Working("mutation")
      /\ table \in Refs /\ route \in Refs /\ left \in [Events -> Nat]
  BY StandsAt, Names DEF SyncClients
<1>2. worker["mutation"].pc \notin Holding /\ "plan" \in Points \ Building
  BY <1>1 DEF Holding, Points, Building
<1>3. CASE Finish("mutation")
  BY <1>1, <1>2, <1>3, FinishStep, Names DEF SyncClients
<1>4. CASE Goto("mutation", "plan")
  BY <1>1, <1>2, <1>4, GotoStep, Names DEF SyncClients
<1> QED
  BY <1>3, <1>4 DEF SyncClients

LEMMA PlanSelectionKeeps == ASSUME IInv, PlanSelection PROVE IInv'
<1> DEFINE m == worker["mutation"]
           q == [m EXCEPT !.new = NewGen, !.target = NewGen, !.pc = "apply"]
           r == [m EXCEPT !.target = table, !.pc = "apply"]
<1>1. worker \in [Workers -> WorkerState] /\ m \in WorkerState
      /\ m.pc = "plan" /\ Working("mutation") /\ table \in Refs /\ route \in Refs
      /\ left \in [Events -> Nat]
  BY StandsAt, Names DEF PlanSelection
<1>2. m.pc \notin Holding
  BY <1>1 DEF Holding
<1>3. CASE ~SelectionCurrent
  BY <1>1, <1>2, <1>3, FinishStep, Names DEF PlanSelection
<1>4. CASE SelectionCurrent /\ table = NoGen /\ auth = "valid"
  <2>1. Typed /\ Free # {}
    BY <1>4 DEF PlanSelection, IInv
  <2>2. NewGen \in Refs /\ NewGen # NoGen /\ Built(NewGen) \in GenState
        /\ Built(NewGen).feeding = gen.feeding /\ Built(NewGen).committed = gen.committed
    BY <2>1, BuiltFacts DEF Refs
  <2>3. worker' = [worker EXCEPT !["mutation"] = q]
    BY <1>1, <1>4 DEF PlanSelection, WorkerState
  <2>4. LocalsOK(q) /\ q.pc # "slot"
    BY <1>1, <2>2 DEF LocalsOK, WorkerState, Points, Building
  <2>5. gen' = Built(NewGen)
    BY <1>4 DEF PlanSelection
  <2> HIDE DEF q, r
  <2> QED
    BY <1>1, <1>2, <2>2, <2>3, <2>4, <2>5, StepKeeps, Names DEF PlanSelection
<1>5. CASE SelectionCurrent /\ ~(table = NoGen /\ auth = "valid")
  <2>1. worker' = [worker EXCEPT !["mutation"] = r] /\ gen' = gen
    BY <1>1, <1>5 DEF PlanSelection, WorkerState
  <2>2. LocalsOK(r) /\ r.pc # "slot"
    BY <1>1 DEF LocalsOK, WorkerState, Points, Building
  <2> HIDE DEF q, r
  <2> QED
    BY <1>1, <1>2, <2>1, <2>2, QuietStep, Names DEF PlanSelection
<1> QED
  BY <1>3, <1>4, <1>5

LEMMA ApplyRoutesKeeps == ASSUME IInv, ApplyRoutes PROVE IInv'
<1> DEFINE m == worker["mutation"]
           r == [m EXCEPT !.pc = "replace"]
<1>1. worker \in [Workers -> WorkerState] /\ m \in WorkerState /\ LocalsOK(m)
      /\ m.pc = "apply" /\ Working("mutation") /\ gen \in GenState /\ table \in Refs
      /\ left \in [Events -> Nat]
  BY StandsAt, Names DEF ApplyRoutes
<1>2. LocalsOK(r) /\ r.pc = "replace" /\ r.new = m.new
      /\ worker' = [worker EXCEPT !["mutation"] = r]
  BY <1>1, GotoRecord, Names DEF ApplyRoutes, Points, Building
<1>3. m.target \in Refs /\ m.pc \notin Holding /\ r.pc \in Holding
  BY <1>1, <1>2 DEF WorkerState, Holding
<1>4. gen' \in GenState /\ gen'.committed = gen.committed
      /\ gen'.feeding \subseteq gen.feeding \cup {m.new}
  <2>1. CASE m.new = NoGen
    BY <1>1, <2>1 DEF ApplyRoutes
  <2>2. CASE m.new # NoGen
    <3>1. m.new \in Gens
      BY <1>1, <2>2 DEF WorkerState, Refs
    <3> QED
      BY <1>1, <2>2, <3>1, StartedFacts DEF ApplyRoutes
  <2> QED
    BY <2>1, <2>2
<1>5. \A g \in gen'.feeding : g = m.new \/ g \in gen'.committed \/ g \in gen.feeding \ gen.committed
  BY <1>4
<1>6. route' \in Refs
  BY <1>3 DEF ApplyRoutes
<1> HIDE DEF r
<1> QED
  BY <1>1, <1>2, <1>3, <1>4, <1>5, <1>6, StepKeeps, Names DEF ApplyRoutes

LEMMA ApplyingFailsKeeps == ASSUME IInv, ApplyingFails PROVE IInv'
<1>1. Working("mutation") /\ table \in Refs /\ route \in Refs /\ left \in [Events -> Nat]
  BY StandsAt, Names DEF ApplyingFails
<1>2. left' \in [Events -> Nat]
  BY <1>1, SpendFacts DEF ApplyingFails, Events
<1> QED
  BY <1>1, <1>2, RollbackStep, Names DEF ApplyingFails

LEMMA ReplaceTableKeeps == ASSUME IInv, ReplaceTable PROVE IInv'
<1> DEFINE m == worker["mutation"]
           r == [m EXCEPT !.previous = IF m.target = NoGen THEN table ELSE NoGen,
                          !.next = "end",
                          !.pc = IF m.new = NoGen THEN "retire" ELSE "commit"]
<1>1. worker \in [Workers -> WorkerState] /\ m \in WorkerState /\ m.pc = "replace"
      /\ Working("mutation") /\ gen \in GenState /\ table \in Refs /\ route \in Refs
      /\ left \in [Events -> Nat] /\ NoGen \in Refs
  BY StandsAt, Names DEF ReplaceTable
<1>2. worker' = [worker EXCEPT !["mutation"] = r] /\ table' \in Refs
  BY <1>1 DEF ReplaceTable, WorkerState
<1>3. LocalsOK(r) /\ r.pc # "slot" /\ r.new = m.new
  BY <1>1 DEF LocalsOK, WorkerState, Points, Nexts, Building
<1>4. \A g \in gen.feeding : g = m.new => r.pc \in Holding
  <2>1. NoGen \notin gen.feeding
    BY <1>1, MaxGensAssumption DEF GenState, Gens, NoGen
  <2>2. m.new # NoGen => r.pc = "commit"
    BY <1>1 DEF WorkerState
  <2> HIDE DEF r
  <2> QED
    BY <2>1, <2>2 DEF Holding
<1> HIDE DEF r
<1> QED
  BY <1>1, <1>2, <1>3, <1>4, StepKeeps, Names DEF ReplaceTable

LEMMA CoolFeedsKeeps == ASSUME IInv, CoolFeeds PROVE IInv'
<1> DEFINE m == worker["governor"]
           r == [m EXCEPT !.previous = table,
                          !.pc = IF table = NoGen THEN "end" ELSE "install"]
<1>1. worker \in [Workers -> WorkerState] /\ m \in WorkerState /\ m.pc = "cool"
      /\ Working("governor") /\ table \in Refs /\ route \in Refs
      /\ left \in [Events -> Nat]
  BY StandsAt, Names DEF CoolFeeds
<1>2. worker' = [worker EXCEPT !["governor"] = r]
  BY <1>1 DEF CoolFeeds, WorkerState
<1>3. LocalsOK(r) /\ r.pc # "slot" /\ m.pc \notin Holding
  BY <1>1 DEF LocalsOK, WorkerState, Points, Building, Holding
<1> HIDE DEF r
<1> QED
  BY <1>1, <1>2, <1>3, QuietStep, Names DEF CoolFeeds

LEMMA InstallCooledKeeps == ASSUME IInv, InstallCooled PROVE IInv'
<1> DEFINE m == worker["governor"]
           r == [m EXCEPT !.pc = "end"]
<1>1. worker \in [Workers -> WorkerState] /\ m \in WorkerState /\ LocalsOK(m)
      /\ m.pc = "install" /\ Working("governor") /\ gen \in GenState /\ table \in Refs
      /\ route \in Refs /\ left \in [Events -> Nat]
  BY StandsAt, Names DEF InstallCooled
<1>2. LocalsOK(r) /\ r.pc = "end" /\ worker' = [worker EXCEPT !["governor"] = r]
  BY <1>1, GotoRecord, Names DEF InstallCooled, Points, Building
<1>3. m.previous \in Gens
  BY <1>1 DEF WorkerState, LocalsOK, Refs
<1>4. gen' \in GenState /\ gen'.feeding = gen.feeding /\ gen'.committed = gen.committed
  BY <1>1, <1>3 DEF InstallCooled, GenState
<1>5. m.pc \notin Holding
  BY <1>1 DEF Holding
<1> HIDE DEF r
<1> QED
  BY <1>1, <1>2, <1>4, <1>5, StepKeeps, Names DEF InstallCooled

LEMMA CoolingFailsKeeps == ASSUME IInv, CoolingFails PROVE IInv'
<1>1. worker["governor"].pc = "install" /\ Working("governor") /\ table \in Refs
      /\ route \in Refs /\ left \in [Events -> Nat]
  BY StandsAt, Names DEF CoolingFails
<1>2. worker["governor"].pc \notin Holding /\ "take" \in Points \ Building
      /\ left' \in [Events -> Nat]
  BY <1>1, SpendFacts DEF Holding, Points, Building, CoolingFails, Events
<1> QED
  BY <1>1, <1>2, GotoStep, Names DEF CoolingFails

-----------------------------------------------------------------------------
(* Outside events and the intent queue: no worker moves.                   *)

LEMMA OutsideStep ==
  ASSUME IInv, OutsideOK', UNCHANGED <<ops, worker, holder, table, route, gen>>
  PROVE  IInv'
<1>1. Typed'
  BY DEF IInv, Typed
<1>2. Held_'
  BY DEF IInv, Held_
<1>3. SlotOK'
  BY DEF IInv, SlotOK, Working, Slotted
<1> QED
  BY <1>1, <1>2, <1>3 DEF IInv

LEMMA PublishFacts ==
  ASSUME intents \in IntentState, NEW k \in Kinds, NEW t \in BOOLEAN, Publish(k, t)
  PROVE  intents' \in IntentState
<1> DEFINE new == [NoJob EXCEPT !.kind = k, !.id = intents.last + 1, !.teardown = t]
           kept == {i \in intents.pending : i.kind # k}
<1>1. intents.last + 1 \in Nat
  BY DEF IntentState
<1>2. new \in Job /\ new.kind \in Kinds
  BY <1>1 DEF NoJob, Job
<1>3. new \in Intent
  BY <1>2 DEF Intent
<1>4. kept \in SUBSET Intent
  BY DEF IntentState
<1>5. intents' = [intents EXCEPT !.last = intents.last + 1, !.pending = kept \cup {new}]
  BY DEF Publish
<1> HIDE DEF new, kept
<1>6. kept \cup {new} \in SUBSET Intent
  BY <1>3, <1>4
<1> QED
  BY <1>1, <1>5, <1>6 DEF IntentState

LEMMA AuthChangesKeeps == ASSUME IInv, NEW next, AuthChanges(next) PROVE IInv'
<1>1. left' \in [Events -> Nat]
  BY SpendFacts DEF IInv, Typed, OutsideOK, AuthChanges, Events
<1>2. intents' \in IntentState
  BY PublishFacts DEF IInv, Typed, OutsideOK, AuthChanges, Kinds
<1>3. auth' \in {"valid", "recovering", "invalid"}
  BY DEF AuthChanges
<1>4. UNCHANGED <<rebuilding, scope, selGen, jobs, holder, ops, worker, table, route, gen,
                  tier, overlapped>>
  BY DEF AuthChanges
<1>5. OutsideOK'
  BY <1>1, <1>2, <1>3, <1>4 DEF IInv, Typed, OutsideOK
<1> QED
  BY <1>4, <1>5, OutsideStep

LEMMA TransportFailsKeeps == ASSUME IInv, TransportFails PROVE IInv'
<1>1. left' \in [Events -> Nat]
  BY SpendFacts DEF IInv, Typed, OutsideOK, TransportFails, Events
<1>2. intents' \in IntentState
  BY PublishFacts DEF IInv, Typed, OutsideOK, TransportFails, Kinds
<1>3. OutsideOK'
  BY <1>1, <1>2 DEF IInv, Typed, OutsideOK, TransportFails
<1> QED
  BY <1>3, OutsideStep DEF TransportFails

LEMMA KubeconfigChangesKeeps == ASSUME IInv, KubeconfigChanges PROVE IInv'
<1>1. left' \in [Events -> Nat]
  BY SpendFacts DEF IInv, Typed, OutsideOK, KubeconfigChanges, Events
<1>2. intents' \in IntentState
  BY PublishFacts DEF IInv, Typed, OutsideOK, KubeconfigChanges, Kinds
<1>3. OutsideOK'
  BY <1>1, <1>2 DEF IInv, Typed, OutsideOK, KubeconfigChanges
<1> QED
  BY <1>3, OutsideStep DEF KubeconfigChanges

LEMMA DrainKeeps == ASSUME IInv, Drain PROVE IInv'
<1>1. intents' \in IntentState
  BY DEF IInv, Typed, OutsideOK, Drain, IntentState
<1>2. OutsideOK'
  BY <1>1 DEF IInv, Typed, OutsideOK, Drain
<1> QED
  BY <1>2, OutsideStep DEF Drain

LEMMA ConsumeKeeps == ASSUME IInv, Consume PROVE IInv'
<1>1. intents \in IntentState /\ jobs \subseteq Pending /\ selGen \in Nat
  BY DEF IInv, Typed, OutsideOK
<1>2. PICK i \in intents.batch :
        LET accepted == i.id > intents.latest[i.kind]
            supersedes == i.kind # "auth"
        IN /\ intents' = [intents EXCEPT
                !.batch = @ \ {i},
                !.latest[i.kind] = IF accepted THEN i.id ELSE @]
           /\ IF ~accepted THEN UNCHANGED <<selGen, jobs>>
              ELSE /\ selGen' = IF supersedes THEN selGen + 1 ELSE selGen
                   /\ jobs' = jobs \cup
                        {IF supersedes THEN [i EXCEPT !.sel = selGen + 1] ELSE i}
  BY DEF Consume
<1>3. i \in Intent /\ i \in Job /\ i.kind \in Kinds /\ i.id \in Nat
  BY <1>1 DEF IntentState, Intent, Job
<1>4. intents' \in IntentState
  <2> DEFINE latest == [intents.latest EXCEPT ![i.kind] =
                          IF i.id > intents.latest[i.kind] THEN i.id
                          ELSE intents.latest[i.kind]]
  <2>1. latest \in [Kinds -> Nat]
    BY <1>1, <1>3 DEF IntentState
  <2>2. intents' = [intents EXCEPT !.batch = intents.batch \ {i}, !.latest = latest]
    BY <1>1, <1>2 DEF IntentState
  <2> HIDE DEF latest
  <2> QED
    BY <1>1, <2>1, <2>2 DEF IntentState
<1>5. selGen' \in Nat
  BY <1>1, <1>2
<1>6. i \in Pending /\ [i EXCEPT !.sel = selGen + 1] \in Pending
  BY <1>1, <1>3 DEF Pending, Job, Kinds
<1>7. jobs' \subseteq Pending
  BY <1>1, <1>2, <1>6
<1>8. OutsideOK'
  BY <1>4, <1>5, <1>7 DEF IInv, Typed, OutsideOK, Consume
<1> QED
  BY <1>8, OutsideStep DEF Consume

LEMMA EditScopeKeeps == ASSUME IInv, EditScope PROVE IInv'
<1>1. left' \in [Events -> Nat]
  BY SpendFacts DEF IInv, Typed, OutsideOK, EditScope, Events
<1>2. [NoJob EXCEPT !.kind = "scope"] \in Pending
  BY DEF NoJob, Pending, Job
<1>3. jobs' \subseteq Pending /\ scope' \in [version : Nat, queued : BOOLEAN]
  BY <1>2 DEF IInv, Typed, OutsideOK, EditScope
<1>4. OutsideOK'
  BY <1>1, <1>3 DEF IInv, Typed, OutsideOK, EditScope
<1> QED
  BY <1>4, OutsideStep DEF EditScope

LEMMA ChangeSelectionKeeps ==
  ASSUME IInv, NEW supersedes \in BOOLEAN, ChangeSelection(supersedes) PROVE IInv'
<1>1. left' \in [Events -> Nat]
  BY SpendFacts DEF IInv, Typed, OutsideOK, ChangeSelection, Events
<1> DEFINE n == IF supersedes THEN selGen + 1 ELSE 0
<1>2. n \in Nat /\ selGen' \in Nat
  BY DEF IInv, Typed, OutsideOK, ChangeSelection
<1>3. jobs' = jobs \cup {[NoJob EXCEPT !.kind = "select", !.sel = n]}
  BY DEF ChangeSelection
<1> HIDE DEF n
<1>4. [NoJob EXCEPT !.kind = "select", !.sel = n] \in Pending
  BY <1>2 DEF NoJob, Pending, Job
<1>5. OutsideOK'
  BY <1>1, <1>2, <1>3, <1>4 DEF IInv, Typed, OutsideOK, ChangeSelection
<1> QED
  BY <1>5, OutsideStep DEF ChangeSelection

LEMMA SkipSupersededKeeps == ASSUME IInv, NEW j \in jobs, SkipSuperseded(j) PROVE IInv'
<1>1. OutsideOK'
  BY DEF IInv, Typed, OutsideOK, SkipSuperseded
<1> QED
  BY <1>1, OutsideStep DEF SkipSuperseded

LEMMA SwitchTabKeeps == ASSUME IInv, SwitchTab PROVE IInv'
<1>1. left' \in [Events -> Nat]
  BY SpendFacts DEF IInv, Typed, OutsideOK, SwitchTab, Events
<1>2. tier' \in TierState
  BY DEF IInv, Typed, OutsideOK, SwitchTab, TierState
<1>3. OutsideOK'
  BY <1>1, <1>2 DEF IInv, Typed, OutsideOK, SwitchTab
<1> QED
  BY <1>3, OutsideStep DEF SwitchTab

-----------------------------------------------------------------------------
(* Steps that begin or end a worker's work.                                *)

LEMMA WorkerReplaced ==
  ASSUME Typed, NEW w \in Workers, NEW r, LocalsOK(r), worker' = [worker EXCEPT ![w] = r]
  PROVE  /\ worker' \in [Workers -> WorkerState] /\ \A v \in Workers : LocalsOK(worker'[v])
         /\ worker'[w] = r /\ \A v \in Workers \ {w} : worker'[v] = worker[v]
BY DEF Typed, LocalsOK

\* Nothing is lost by replacing the record of a worker that holds no manager.
LEMMA HeldKeeps ==
  ASSUME Held_, UNCHANGED gen,
         \A w \in Workers : worker[w].pc \in Holding => worker'[w] = worker[w]
  PROVE  Held_'
BY DEF Held_

LEMMA OverlapFacts ==
  ASSUME NEW w, NEW j, Overlap(w, j)
  PROVE  overlapped' \in BOOLEAN
BY Zenon DEF Overlap

LEMMA StartSlottedKeeps == ASSUME IInv, NEW j \in jobs, StartSlotted(j) PROVE IInv'
<1>1. CASE ~IsCurrent(j)
  <2>1. OutsideOK'
    BY <1>1 DEF IInv, Typed, OutsideOK, StartSlotted
  <2> QED
    BY <1>1, <2>1, OutsideStep DEF StartSlotted
<1>2. CASE IsCurrent(j)
  <2> DEFINE r == [worker["mutation"] EXCEPT !.pc = "slot"]
  <2>1. worker["mutation"].pc = "idle" /\ Typed
    BY DEF IInv, SlotOK, StartSlotted
  <2>2. LocalsOK(r) /\ r.pc = "slot" /\ worker' = [worker EXCEPT !["mutation"] = r]
    <3>1. worker["mutation"] \in WorkerState /\ "mutation" \in Workers
      BY <2>1 DEF Typed, Workers
    <3> QED
      BY <1>2, <2>1, <3>1 DEF StartSlotted, Goto, LocalsOK, WorkerState, Points, Building, Typed
  <2> HIDE DEF r
  <2>3. /\ worker' \in [Workers -> WorkerState] /\ \A v \in Workers : LocalsOK(worker'[v])
        /\ worker'["mutation"] = r /\ \A v \in Workers \ {"mutation"} : worker'[v] = worker[v]
    BY <2>1, <2>2, WorkerReplaced, Names
  <2>4. holder' = j /\ j \in Job /\ j.kind # "none"
    BY <1>2 DEF StartSlotted, IInv, Typed, OutsideOK, Pending
  <2>5. ops' \in OpsState /\ ops'.begun = ops.begun \cup {"mutation"} /\ ops'.held = ops.held
    <3> DEFINE c == IF j.kind = "transport" THEN ops.begun ELSE ops.cancelled
    <3>1. ops \in OpsState
      BY <2>1 DEF Typed, OutsideOK
    <3>2. c \in SUBSET Workers
      BY <3>1 DEF OpsState
    <3>3. ops' = [ops EXCEPT !.begun = ops.begun \cup {"mutation"}, !.cancelled = c]
      BY <1>2 DEF StartSlotted
    <3> HIDE DEF c
    <3> QED
      BY <3>1, <3>2, <3>3, Names DEF OpsState
  <2>6. Typed'
    BY <2>1, <2>3, <2>4, <2>5 DEF StartSlotted, Typed, OutsideOK
  <2>7. Held_'
    BY <2>1, <2>3, HeldKeeps DEF IInv, StartSlotted, Holding
  <2>8. SlotOK'
    <3>1. holder' # NoJob
      BY <2>4 DEF NoJob
    <3>2. ~Working("mutation")' /\ (Working("revalidator")' <=> Working("revalidator"))
      BY <2>2, <2>3, Names DEF Working
    <3> QED
      BY <2>2, <2>3, <2>5, <3>1, <3>2, Names DEF IInv, SlotOK
  <2> QED
    BY <2>6, <2>7, <2>8 DEF IInv
<1> QED
  BY <1>1, <1>2

LEMMA StartUnslottedKeeps == ASSUME IInv, NEW j \in jobs, StartUnslotted(j) PROVE IInv'
<1> DEFINE r == IF j.kind = "select" THEN [Idle EXCEPT !.pc = "sync"]
                ELSE [Idle EXCEPT !.pc = "take", !.next = "clients"]
<1>1. worker["mutation"].pc = "idle" /\ Typed
  BY DEF IInv, SlotOK, StartUnslotted
<1>2. LocalsOK(r) /\ r.pc \in {"sync", "take"} /\ worker' = [worker EXCEPT !["mutation"] = r]
  BY DEF StartUnslotted, LocalsOK, Idle, WorkerState, Points, Nexts, Building, Refs
<1> HIDE DEF r
<1>3. /\ worker' \in [Workers -> WorkerState] /\ \A v \in Workers : LocalsOK(worker'[v])
      /\ worker'["mutation"] = r /\ \A v \in Workers \ {"mutation"} : worker'[v] = worker[v]
  BY <1>1, <1>2, WorkerReplaced, Names
<1>4. selGen' \in Nat
  BY <1>1 DEF StartUnslotted, Typed, OutsideOK
<1>5. holder' \in Job /\ holder'.kind = j.kind /\ j.kind # "none"
      /\ j.kind \notin {"auth", "transport", "scope"}
  BY <1>1, <1>4 DEF StartUnslotted, Typed, OutsideOK, Pending, Job, Slotted
<1>6. overlapped' \in BOOLEAN
  BY OverlapFacts DEF StartUnslotted
<1>7. Typed'
  BY <1>1, <1>3, <1>4, <1>5, <1>6 DEF StartUnslotted, Typed, OutsideOK
<1>8. Held_'
  BY <1>1, <1>3, HeldKeeps DEF IInv, StartUnslotted, Holding
<1>9. SlotOK'
  <2>1. holder' # NoJob /\ ~Slotted("mutation", holder')
    BY <1>5 DEF NoJob, Slotted
  <2>2. UNCHANGED ops /\ (Working("revalidator")' <=> Working("revalidator"))
    BY <1>3, Names DEF Working, StartUnslotted
  <2>3. \A w \in Workers : worker'[w].pc = "slot" => worker[w].pc = "slot"
    BY <1>2, <1>3
  <2>4. ~Slotted("mutation", holder)'
    BY <2>1 DEF Slotted
  <2> QED
    BY <2>1, <2>2, <2>3, <2>4 DEF IInv, SlotOK
<1> QED
  BY <1>7, <1>8, <1>9 DEF IInv

LEMMA EnterSlotKeeps == ASSUME IInv, EnterSlot PROVE IInv'
<1> DEFINE r == [Idle EXCEPT
       !.pc = CASE ~IsCurrent(holder) -> "end"
                [] IsCurrent(holder) /\ (holder.teardown \/ holder.kind = "scope") -> "take"
                [] OTHER -> "clients",
       !.next = IF holder.kind = "scope" THEN "clients" ELSE "end"]
<1>1. worker["mutation"].pc = "slot" /\ Typed /\ ops.held = {} /\ "mutation" \in ops.begun
      /\ holder # NoJob
  BY Names DEF IInv, SlotOK, EnterSlot, SlotFree
<1>2. worker' = [worker EXCEPT !["mutation"] = r]
  BY DEF EnterSlot
<1>3. LocalsOK(r) /\ r.pc # "slot"
  <2> DEFINE q == CASE ~IsCurrent(holder) -> "end"
                    [] IsCurrent(holder) /\ (holder.teardown \/ holder.kind = "scope") -> "take"
                    [] OTHER -> "clients"
  <2>1. q \in {"end", "take", "clients"}
    OBVIOUS
  <2> HIDE DEF q
  <2>2. r = [Idle EXCEPT !.pc = q, !.next = IF holder.kind = "scope" THEN "clients" ELSE "end"]
    BY DEF q
  <2> HIDE DEF r
  <2> QED
    BY <2>1, <2>2 DEF LocalsOK, Idle, WorkerState, Points, Nexts, Building, Refs
<1> HIDE DEF r
<1>4. /\ worker' \in [Workers -> WorkerState] /\ \A v \in Workers : LocalsOK(worker'[v])
      /\ worker'["mutation"] = r /\ \A v \in Workers \ {"mutation"} : worker'[v] = worker[v]
  BY <1>1, <1>2, <1>3, WorkerReplaced, Names
<1>5. ops' \in OpsState /\ ops'.held = {"mutation"} /\ ops'.begun = ops.begun
  BY <1>1, Names DEF EnterSlot, Typed, OutsideOK, OpsState
<1>6. overlapped' \in BOOLEAN
  BY OverlapFacts DEF EnterSlot
<1>7. scope' \in [version : Nat, queued : BOOLEAN]
  BY <1>1 DEF EnterSlot, Typed, OutsideOK
<1>8. Typed'
  BY <1>1, <1>4, <1>5, <1>6, <1>7 DEF EnterSlot, Typed, OutsideOK
<1>9. Held_'
  BY <1>1, <1>4, HeldKeeps DEF IInv, EnterSlot, Holding
<1>10. SlotOK'
  <2>1. ~Working("revalidator")' /\ UNCHANGED holder
    BY <1>1, <1>4, Names DEF IInv, SlotOK, Working, EnterSlot
  <2>2. \A w \in Workers : worker'[w].pc = "slot" => worker[w].pc = "slot"
    BY <1>3, <1>4
  <2> QED
    BY <1>1, <1>5, <2>1, <2>2 DEF IInv, SlotOK
<1> QED
  BY <1>8, <1>9, <1>10 DEF IInv

LEMMA EndMutationKeeps == ASSUME IInv, EndMutation PROVE IInv'
<1>1. worker["mutation"].pc = "end" /\ Typed
  BY DEF IInv, EndMutation
<1>2. /\ worker' \in [Workers -> WorkerState] /\ \A v \in Workers : LocalsOK(worker'[v])
      /\ worker'["mutation"] = Idle /\ \A v \in Workers \ {"mutation"} : worker'[v] = worker[v]
  BY <1>1, IdleOK, WorkerReplaced, Names DEF EndMutation
<1>3. holder' = NoJob /\ NoJob \in Job /\ rebuilding' \in BOOLEAN
  BY <1>1 DEF EndMutation, NoJob, Job, Typed, OutsideOK
<1>4. ops' \in OpsState /\ ops'.held = ops.held \ {"mutation"}
      /\ ops'.begun = ops.begun \ {"mutation"}
  BY <1>1 DEF EndMutation, Typed, OutsideOK, OpsState
<1>5. Typed'
  BY <1>1, <1>2, <1>3, <1>4 DEF EndMutation, Typed, OutsideOK
<1>6. Held_'
  BY <1>1, <1>2, HeldKeeps DEF IInv, EndMutation, Holding
<1>7. SlotOK'
  <2>1. ~Working("mutation")' /\ (Working("revalidator")' <=> Working("revalidator"))
    BY <1>2, IdleOK, Names DEF Working
  <2>2. \A w \in Workers : worker'[w].pc # "slot"
    BY <1>2, IdleOK DEF IInv, SlotOK
  <2> QED
    BY <1>2, <1>4, <2>1, <2>2, IdleOK DEF IInv, SlotOK
<1> QED
  BY <1>5, <1>6, <1>7 DEF IInv

LEMMA StartReplacementKeeps == ASSUME IInv, NEW g \in Gens, StartReplacement(g) PROVE IInv'
<1> DEFINE r == [Idle EXCEPT !.pc = "clients", !.expected = g]
<1>1. Typed /\ ops.begun = {} /\ ops.held = {}
  BY DEF IInv, SlotOK, StartReplacement
<1>2. worker["revalidator"].pc = "idle" /\ worker["mutation"].pc # "slot"
      /\ (Working("mutation") => ~Slotted("mutation", holder))
  BY <1>1, Names DEF IInv, SlotOK, Working
<1>3. LocalsOK(r) /\ r.pc = "clients"
  BY DEF LocalsOK, Idle, WorkerState, Points, Nexts, Building, Refs
<1>4. worker' = [worker EXCEPT !["revalidator"] = r]
  BY DEF StartReplacement
<1> HIDE DEF r
<1>5. /\ worker' \in [Workers -> WorkerState] /\ \A v \in Workers : LocalsOK(worker'[v])
      /\ worker'["revalidator"] = r
      /\ \A v \in Workers \ {"revalidator"} : worker'[v] = worker[v]
  BY <1>1, <1>3, <1>4, WorkerReplaced, Names
<1>6. left' \in [Events -> Nat] /\ overlapped' \in BOOLEAN
  BY <1>1, SpendFacts, OverlapFacts DEF Typed, OutsideOK, StartReplacement, Events
<1>7. ops' \in OpsState /\ ops'.held = {"revalidator"} /\ ops'.begun = {"revalidator"}
  BY Names DEF StartReplacement, OpsState
<1>8. Typed'
  BY <1>1, <1>5, <1>6, <1>7 DEF StartReplacement, Typed, OutsideOK
<1>9. Held_'
  BY <1>2, <1>5, HeldKeeps DEF IInv, StartReplacement, Holding
<1>10. SlotOK'
  <2>1. (Working("mutation")' <=> Working("mutation")) /\ UNCHANGED holder
    BY <1>5, Names DEF Working, StartReplacement
  <2>2. ~(Working("mutation")' /\ Slotted("mutation", holder)')
    BY <1>2, <2>1 DEF Slotted
  <2>3. \A w \in Workers : worker'[w].pc # "slot"
    BY <1>2, <1>3, <1>5 DEF IInv, SlotOK
  <2>4. worker'["mutation"] = worker["mutation"]
    BY <1>5, Names
  <2> QED
    BY <1>7, <2>1, <2>2, <2>3, <2>4 DEF IInv, SlotOK
<1> QED
  BY <1>8, <1>9, <1>10 DEF IInv

LEMMA EndReplacementKeeps == ASSUME IInv, EndReplacement PROVE IInv'
<1>1. worker["revalidator"].pc = "end" /\ Typed
  BY DEF IInv, EndReplacement
<1>2. /\ worker' \in [Workers -> WorkerState] /\ \A v \in Workers : LocalsOK(worker'[v])
      /\ worker'["revalidator"] = Idle
      /\ \A v \in Workers \ {"revalidator"} : worker'[v] = worker[v]
  BY <1>1, IdleOK, WorkerReplaced, Names DEF EndReplacement
<1>3. ops' \in OpsState /\ ops'.held = ops.held \ {"revalidator"}
      /\ ops'.begun = ops.begun \ {"revalidator"}
  BY <1>1 DEF EndReplacement, Typed, OutsideOK, OpsState
<1>4. Typed'
  BY <1>1, <1>2, <1>3 DEF EndReplacement, Typed, OutsideOK
<1>5. Held_'
  BY <1>1, <1>2, HeldKeeps DEF IInv, EndReplacement, Holding
<1>6. SlotOK'
  <2>1. ~Working("revalidator")' /\ (Working("mutation")' <=> Working("mutation"))
        /\ worker'["mutation"] = worker["mutation"] /\ UNCHANGED holder
    BY <1>2, IdleOK, Names DEF Working, EndReplacement
  <2>2. \A w \in Workers : worker'[w].pc = "slot" => worker[w].pc = "slot" /\ w = "mutation"
    BY <1>2, IdleOK DEF IInv, SlotOK
  <2>3. Slotted("mutation", holder)' <=> Slotted("mutation", holder)
    BY <2>1 DEF Slotted
  <2> QED
    BY <1>3, <2>1, <2>2, <2>3 DEF IInv, SlotOK
<1> QED
  BY <1>4, <1>5, <1>6 DEF IInv

\* The governor takes no part in the slot.
LEMMA GovernorStep ==
  ASSUME IInv, NEW r, LocalsOK(r), r.pc # "slot", worker["governor"].pc \notin Holding,
         worker' = [worker EXCEPT !["governor"] = r],
         tier' \in TierState, overlapped' \in BOOLEAN,
         UNCHANGED <<left, auth, intents, rebuilding, scope, selGen, jobs, holder, ops,
                     table, route, gen>>
  PROVE  IInv'
<1>1. /\ worker' \in [Workers -> WorkerState] /\ \A v \in Workers : LocalsOK(worker'[v])
      /\ worker'["governor"] = r /\ \A v \in Workers \ {"governor"} : worker'[v] = worker[v]
  BY WorkerReplaced, Names DEF IInv
<1>2. Typed'
  BY <1>1 DEF IInv, Typed, OutsideOK
<1>3. Held_'
  BY <1>1, HeldKeeps DEF IInv
<1>4. SlotOK'
  <2>1. worker'["mutation"] = worker["mutation"] /\ worker'["revalidator"] = worker["revalidator"]
    BY <1>1, Names
  <2>2. \A w \in Workers : worker'[w].pc = "slot" => worker[w].pc = "slot"
    BY <1>1
  <2> QED
    BY <2>1, <2>2 DEF IInv, SlotOK, Working, Slotted
<1> QED
  BY <1>2, <1>3, <1>4 DEF IInv

LEMMA ReconcileKeeps ==
  ASSUME IInv, NEW pc \in {"end", "done", "clients", "cool", "take"}, Reconcile(pc)
  PROVE  IInv'
<1> DEFINE r == [Idle EXCEPT !.pc = pc, !.next = IF pc = "take" THEN "done" ELSE "end"]
<1>1. LocalsOK(r) /\ r.pc # "slot"
  BY DEF LocalsOK, Idle, WorkerState, Points, Nexts, Building, Refs
<1>2. worker' = [worker EXCEPT !["governor"] = r]
  BY DEF Reconcile
<1>3. worker["governor"].pc \notin Holding /\ overlapped' \in BOOLEAN
  BY OverlapFacts DEF Reconcile, Holding
<1>4. tier' \in TierState
  BY DEF IInv, Typed, OutsideOK, Reconcile, TierState, Assigned
<1> HIDE DEF r
<1> QED
  BY <1>1, <1>2, <1>3, <1>4, GovernorStep DEF Reconcile

LEMMA EndReconcileKeeps == ASSUME IInv, EndReconcile PROVE IInv'
<1>1. worker["governor"].pc \notin Holding
  BY DEF EndReconcile, Holding
<1>2. tier' \in TierState
  BY DEF IInv, Typed, OutsideOK, EndReconcile, TierState
<1>3. overlapped' \in BOOLEAN
  BY DEF IInv, Typed, OutsideOK, EndReconcile
<1> QED
  BY <1>1, <1>2, <1>3, IdleOK, GovernorStep DEF EndReconcile

-----------------------------------------------------------------------------
LEMMA NextIInv == IInv /\ [Next]_vars => IInv'
<1>1. ASSUME IInv, UNCHANGED vars PROVE IInv'
  BY <1>1 DEF vars, IInv, Typed, OutsideOK, LocalsOK, Held_, SlotOK, Working, Slotted
<1>2. ASSUME IInv, Next PROVE IInv'
  <2>1. CASE \E next \in {"valid", "recovering", "invalid"} : AuthChanges(next)
    BY <1>2, <2>1, AuthChangesKeeps
  <2>2. CASE TransportFails \/ KubeconfigChanges \/ EditScope \/ SwitchTab
    BY <1>2, <2>2, TransportFailsKeeps, KubeconfigChangesKeeps, EditScopeKeeps,
       SwitchTabKeeps
  <2>3. CASE \E supersedes \in BOOLEAN : ChangeSelection(supersedes)
    BY <1>2, <2>3, ChangeSelectionKeeps
  <2>4. CASE \E g \in Gens : StartReplacement(g)
    BY <1>2, <2>4, StartReplacementKeeps
  <2>5. CASE Drain \/ Consume
    BY <1>2, <2>5, DrainKeeps, ConsumeKeeps
  <2>6. CASE \E j \in jobs : SkipSuperseded(j) \/ StartSlotted(j) \/ StartUnslotted(j)
    BY <1>2, <2>6, SkipSupersededKeeps, StartSlottedKeeps, StartUnslottedKeeps
  <2>7. CASE EnterSlot \/ EndMutation \/ EndReplacement
    BY <1>2, <2>7, EnterSlotKeeps, EndMutationKeeps, EndReplacementKeeps
  <2>8. CASE \E pc \in {"end", "done", "clients", "cool", "take"} : Reconcile(pc)
    BY <1>2, <2>8, ReconcileKeeps
  <2>9. CASE EndReconcile \/ CoolFeeds \/ InstallCooled \/ CoolingFails
    BY <1>2, <2>9, EndReconcileKeeps, CoolFeedsKeeps, InstallCooledKeeps,
       CoolingFailsKeeps
  <2>10. CASE CheckExpected \/ SyncClients \/ PlanSelection \/ ApplyRoutes
                \/ ApplyingFails \/ ReplaceTable
    BY <1>2, <2>10, CheckExpectedKeeps, SyncClientsKeeps, PlanSelectionKeeps,
       ApplyRoutesKeeps, ApplyingFailsKeeps, ReplaceTableKeeps
  <2>11. CASE \E w \in Workers : Take(w) \/ Unroute(w) \/ Drop(w) \/ Retire(w)
    BY <1>2, <2>11, TakeKeeps, UnrouteKeeps, DropKeeps, RetireKeeps
  <2>12. CASE \E w \in Workers : RebuildClients(w) \/ ClientsFail(w) \/ BuildSubsystem(w)
    BY <1>2, <2>12, RebuildClientsKeeps, ClientsFailKeeps, BuildSubsystemKeeps
  <2>13. CASE \E w \in Workers :
           \/ StartGeneration(w) \/ PublishGeneration(w) \/ SnapshotTopology(w)
           \/ RouteGeneration(w) \/ RoutingFails(w) \/ CommitGeneration(w)
    BY <1>2, <2>13, StartGenerationKeeps, PublishGenerationKeeps, SnapshotTopologyKeeps,
       RouteGenerationKeeps, RoutingFailsKeeps, CommitGenerationKeeps
  <2> QED
    BY <1>2, <2>1, <2>2, <2>3, <2>4, <2>5, <2>6, <2>7, <2>8, <2>9, <2>10, <2>11,
       <2>12, <2>13 DEF Next
<1> QED
  BY <1>1, <1>2

LEMMA Invariance == Spec => []IInv
<1>1. Init => IInv
  BY InitIInv
<1>2. IInv /\ [Next]_vars => IInv'
  BY NextIInv
<1> QED
  BY <1>1, <1>2, PTL DEF Spec

\* Every variable of the cluster runtime keeps its type, whatever the number
\* of outside events: jobs, intents and generations are well formed.
THEOREM TypeCorrect == Spec => []TypeOK
<1>1. IInv => TypeOK
  BY IInvImplies
<1> QED
  BY <1>1, Invariance, PTL

\* beginClusterOperation's slot does its work: auth, transport and scope
\* mutations never run beside a permission replacement, and the check of
\* rebuildForPermissionChange that no operation has begun is enough for it.
THEOREM SlotExclusion == Spec => []SlotExcludes
<1>1. IInv => SlotExcludes
  BY IInvImplies
<1> QED
  BY <1>1, Invariance, PTL

\* No interleaving of mutations, replacements and the governor, failures
\* included, leaves a generation's manager feeding where no stop reaches it.
THEOREM FeedsReclaimable == Spec => []FeedsAreReclaimable
<1>1. IInv => FeedsAreReclaimable
  BY IInvImplies
<1> QED
  BY <1>1, Invariance, PTL

-----------------------------------------------------------------------------
(* Replacement without overlap.  As long as no work without the slot has   *)
(* met other work, at most one worker works (Alone), and where it stands   *)
(* says which generations there are: at rest the one in the table, which   *)
(* is routed, serves, and feeds unless it is cooled; while one is          *)
(* replaced, the old one serves until the routes have left it.             *)

One(g) == {g} \ {NoGen}
LiveOne(g) == {h \in One(g) : h \notin gen.cooled}

\* The generations that feed are committed and watched, and they are gs.
Producing(gs) == gen.feeding = gs /\ gen.committed = gs /\ gen.watching = gs
Upholds(g) == gen.serving = One(g) /\ Producing(LiveOne(g))
Drained(g) == gen.serving = One(g) /\ Producing({})
Resting == Upholds(table) /\ route = table

\* Generation new of a worker beside generation old.
Beside(new, old) ==
  /\ new \in Gens \ gen.cooled /\ new # old
  /\ gen.serving = One(old) \cup {new}
StartedBeside(new, old) == Beside(new, old) /\ gen.feeding = LiveOne(old) \cup {new}

Early == {"sync", "plan", "clients", "build", "cool", "install", "take", "unroute", "drop"}

OldAlone(r) ==
  /\ r.pc \in Early => r.new = NoGen
  /\ r.pc \in {"sync", "plan", "clients", "build", "cool", "end", "done"} => Resting
  /\ r.pc = "take" => (Upholds(table) \/ Drained(table)) /\ route = table
  /\ r.pc = "install" => Drained(table) /\ route = table /\ r.previous = table
OldLeaves(r) ==
  r.pc \in {"unroute", "drop"} =>
    /\ Upholds(r.previous) \/ Drained(r.previous)
    /\ table = NoGen /\ route = r.previous
    /\ r.pc = "drop" => r.target = NoGen
NewBuilt(r) ==
  r.pc \in {"check", "start"} =>
    Beside(r.new, table) /\ Producing(LiveOne(table)) /\ route = table
NewStarted(r) ==
  r.pc \in {"publish", "snapshot", "route", "commit"} =>
    /\ StartedBeside(r.new, r.previous)
    /\ gen.watching = gen.feeding /\ gen.committed = LiveOne(r.previous)
    /\ table = IF r.pc = "publish" THEN r.previous ELSE r.new
    /\ route = IF r.pc = "commit" THEN r.new ELSE r.previous
    /\ r.pc = "route" => r.target = r.new
Selecting(r) ==
  r.pc \in {"apply", "replace"} =>
    IF r.new = NoGen THEN Resting /\ r.target = table
    ELSE /\ Beside(r.new, NoGen) /\ table = NoGen /\ r.target = r.new
         /\ gen.feeding = (IF r.pc = "apply" THEN {} ELSE {r.new})
         /\ gen.watching = gen.feeding /\ gen.committed = {}
         /\ route = IF r.pc = "apply" THEN NoGen ELSE r.new
Retiring(r) ==
  r.pc = "retire" =>
    /\ route = table
    /\ IF r.new = NoGen
       THEN \/ Upholds(table) /\ r.previous = NoGen
            \/ (Upholds(r.previous) \/ Drained(r.previous)) /\ table = NoGen
       ELSE /\ table = r.new /\ StartedBeside(r.new, r.previous)
            /\ gen.committed = gen.feeding /\ gen.watching = {r.new}

\* Only a teardown has something to follow it.
ThenEnds(r) ==
  r.pc \notin {"take", "unroute", "drop"} /\ (r.pc = "retire" => r.new # NoGen) => r.next = "end"

PhaseOf(r) ==
  /\ ThenEnds(r) /\ OldAlone(r) /\ OldLeaves(r)
  /\ NewBuilt(r) /\ NewStarted(r) /\ Selecting(r) /\ Retiring(r)
Phase(w) == PhaseOf(worker[w])

Alone == \A v, w \in Workers : Working(v) /\ Working(w) => v = w

Seamless ==
  ~overlapped => /\ Alone
                 /\ AtRest => Resting
                 /\ \A w \in Workers : Working(w) => Phase(w)

\* Scope edits: a rebuild is queued or not yet begun while one is needed, and
\* what is in the table, or about to come into it, has the persisted scope.
ScopeJob == [NoJob EXCEPT !.kind = "scope"]
UpToDate(g) == g # NoGen => gen.scope[g] = scope.version
ScopePhase(w) ==
  /\ worker[w].pc \in Building \cup {"apply", "replace", "retire"} => UpToDate(worker[w].new)
  /\ worker[w].pc \in {"publish", "snapshot", "route"} => UpToDate(worker[w].previous)
  /\ ~(w = "mutation" /\ holder.kind = "scope" /\ worker[w].pc = "take") => UpToDate(table)
ScopeQueued ==
  scope.queued => ScopeJob \in jobs \/ (holder = ScopeJob /\ worker["mutation"].pc = "slot")
ScopeOK ==
  ~overlapped /\ ~scope.queued =>
    /\ AtRest => UpToDate(table)
    /\ \A w \in Workers : Working(w) => ScopePhase(w)

\* A step of a working worker that keeps working.
Continues(w) ==
  /\ Working(w) /\ Working(w)' /\ \A v \in Workers \ {w} : worker'[v] = worker[v]
  /\ Phase(w) => Phase(w)'
  /\ Phase(w) /\ ScopePhase(w) => ScopePhase(w)'

LEMMA StopFields ==
  ASSUME gen \in GenState, NEW gs
  PROVE  /\ Stop(gs).serving = gen.serving \ gs /\ Stop(gs).feeding = gen.feeding \ gs
         /\ Stop(gs).committed = gen.committed \ gs
         /\ Stop(gs).watching = gen.watching \ (gs \cap gen.committed)
         /\ Stop(gs).cooled = gen.cooled /\ Stop(gs).scope = gen.scope
         /\ StopProducers(gs).serving = gen.serving
         /\ StopProducers(gs).feeding = gen.feeding \ gs
         /\ StopProducers(gs).committed = gen.committed \ gs
         /\ StopProducers(gs).watching = gen.watching \ (gs \cap gen.committed)
         /\ StopProducers(gs).cooled = gen.cooled /\ StopProducers(gs).scope = gen.scope
BY DEF Stop, StopProducers, GenState

\* One worker moves to a point of its own.
LEMMA Moved ==
  ASSUME IInv, NEW w \in Workers, NEW p, At(w, p), p \notin {"idle", "slot"},
         NEW r, worker' = [worker EXCEPT ![w] = r], r.pc \notin {"idle", "slot"}
  PROVE  /\ worker'[w] = r /\ worker[w] \in WorkerState /\ worker[w].pc = p
         /\ Working(w) /\ Working(w)' /\ \A v \in Workers \ {w} : worker'[v] = worker[v]
         /\ gen \in GenState /\ table \in Refs /\ route \in Refs
<1>1. worker \in [Workers -> WorkerState] /\ worker[w] \in WorkerState /\ worker[w].pc = p
      /\ Working(w) /\ gen \in GenState /\ table \in Refs /\ route \in Refs
  BY StandsAt
<1>2. worker'[w] = r /\ \A v \in Workers \ {w} : worker'[v] = worker[v]
  BY <1>1
<1> QED
  BY <1>1, <1>2 DEF Working

LEMMA TakePhase == ASSUME IInv, NEW w \in Workers, Take(w) PROVE Continues(w)
<1> DEFINE r == [worker[w] EXCEPT
      !.previous = table,
      !.pc = IF table = NoGen THEN worker[w].next ELSE "unroute",
      !.next = IF table = NoGen THEN "end" ELSE worker[w].next]
<1>0. At(w, "take") /\ worker[w] \in WorkerState /\ table \in Refs
  BY StandsAt DEF Take
<1>1. worker' = [worker EXCEPT ![w] = r]
  BY <1>0, StandsAt DEF Take, WorkerState
<1>2. /\ r.previous = table /\ r.new = worker[w].new /\ r.target = worker[w].target
      /\ r.pc = IF table = NoGen THEN worker[w].next ELSE "unroute"
      /\ r.next = IF table = NoGen THEN "end" ELSE worker[w].next
      /\ worker[w].next \in Nexts
  BY <1>0 DEF WorkerState
<1> HIDE DEF r
<1>3. /\ worker'[w] = r /\ worker[w].pc = "take"
      /\ Working(w) /\ Working(w)' /\ \A v \in Workers \ {w} : worker'[v] = worker[v]
      /\ gen \in GenState
  BY <1>0, <1>1, <1>2, Moved DEF Nexts
<1>4. ASSUME Phase(w) PROVE Phase(w)'
  <2>1. /\ r.new = NoGen /\ route = table /\ (Upholds(table) \/ Drained(table))
        /\ table' = NoGen /\ route' = route
    BY <1>2, <1>3, <1>4 DEF Phase, PhaseOf, ThenEnds, OldAlone, OldLeaves, NewBuilt, NewStarted, Selecting, Retiring, Early, Take, outside
  <2>2. CASE table = NoGen
    <3>1. /\ gen' = Stop(gen.committed) /\ r.pc \in Nexts
      BY <1>2, <2>2 DEF Take
    <3>2. Resting'
      BY <1>3, <2>1, <2>2, <3>1, StopFields DEF Resting, Upholds, Drained, Producing, LiveOne, One
    <3> QED
      BY <1>2, <1>3, <2>1, <2>2, <3>1, <3>2 DEF Phase, PhaseOf, ThenEnds, OldAlone, OldLeaves, NewBuilt, NewStarted, Selecting, Retiring, Nexts, Early
  <2>3. CASE table # NoGen
    <3>1. gen' = gen /\ r.pc = "unroute"
      BY <1>2, <2>3 DEF Take
    <3>2. Upholds(worker[w].previous)' \/ Drained(worker[w].previous)'
      BY <1>2, <1>3, <2>1, <3>1 DEF Upholds, Drained, Producing, LiveOne, One
    <3> QED
      BY <1>2, <1>3, <2>1, <3>1, <3>2 DEF Phase, PhaseOf, ThenEnds, OldAlone, OldLeaves, NewBuilt, NewStarted, Selecting, Retiring, Early
  <2> QED
    BY <2>2, <2>3
<1>5. ASSUME Phase(w) PROVE ScopePhase(w)'
  <2>1. table' = NoGen /\ r.pc \in {"end", "done", "clients", "unroute"}
    BY <1>2 DEF Nexts, Take
  <2> QED
    BY <1>3, <2>1 DEF ScopePhase, UpToDate, Building
<1> QED
  BY <1>3, <1>4, <1>5 DEF Continues

\* A worker that goes to q, or ends, with its generations in hand.
Same(w) == /\ worker'[w].next \in {worker[w].next, "end"} /\ worker'[w].new = worker[w].new /\ worker'[w].previous = worker[w].previous
           /\ worker'[w].target = worker[w].target
Known(w, p) ==
  /\ worker[w] \in WorkerState /\ LocalsOK(worker[w]) /\ worker[w].pc = p
  /\ Working(w) /\ Working(w)' /\ \A v \in Workers \ {w} : worker'[v] = worker[v]
  /\ gen \in GenState /\ table \in Refs /\ route \in Refs

LEMMA Goes ==
  ASSUME IInv, NEW w \in Workers, NEW p, At(w, p), p \notin {"idle", "slot"},
         NEW q, Goto(w, q), q \notin {"idle", "slot"}
  PROVE  Known(w, p) /\ Same(w) /\ worker'[w].pc = q
<1> DEFINE r == [worker[w] EXCEPT !.pc = q]
<1>1. worker' = [worker EXCEPT ![w] = r] /\ LocalsOK(worker[w])
  BY StandsAt DEF Goto
<1>2. r.pc = q /\ r.new = worker[w].new /\ r.previous = worker[w].previous
      /\ r.target = worker[w].target /\ r.next = worker[w].next
  BY StandsAt DEF WorkerState
<1> HIDE DEF r
<1> QED
  BY <1>1, <1>2, Moved DEF Known, Same

LEMMA Ends ==
  ASSUME IInv, NEW w \in Workers, NEW p, At(w, p), p \notin {"idle", "slot"}, Finish(w)
  PROVE  Known(w, p) /\ Same(w) /\ worker'[w].pc = "end"
<1> DEFINE r == [worker[w] EXCEPT !.pc = "end", !.next = "end"]
<1>1. worker' = [worker EXCEPT ![w] = r] /\ LocalsOK(worker[w])
  BY StandsAt DEF Finish
<1>2. r.pc = "end" /\ r.new = worker[w].new /\ r.previous = worker[w].previous
      /\ r.target = worker[w].target /\ r.next = "end"
  BY StandsAt DEF WorkerState
<1> HIDE DEF r
<1> QED
  BY <1>1, <1>2, Moved DEF Known, Same

\* A worker that ends, or goes on to build, beside the generation at rest.
LEMMA AtRestAgain ==
  ASSUME NEW w \in Workers, worker'[w].pc \in {"end", "done", "clients", "build", "plan"},
         worker'[w].pc \in {"clients", "build", "plan"} => worker'[w].new = NoGen,
         worker'[w].next = "end", Resting'
  PROVE  Phase(w)'
BY DEF Phase, PhaseOf, ThenEnds, OldAlone, OldLeaves, NewBuilt, NewStarted, Selecting, Retiring, Early

LEMMA UnroutePhase == ASSUME IInv, NEW w \in Workers, Unroute(w) PROVE Continues(w)
<1> DEFINE r == [worker[w] EXCEPT !.target = table, !.pc = "drop"]
<1>0. At(w, "unroute") /\ worker[w] \in WorkerState
  BY StandsAt DEF Unroute
<1>1. worker' = [worker EXCEPT ![w] = r]
  BY <1>0, StandsAt DEF Unroute, WorkerState
<1>2. /\ r.previous = worker[w].previous /\ r.new = worker[w].new /\ r.target = table
      /\ r.pc = "drop"
  BY <1>0 DEF WorkerState
<1> HIDE DEF r
<1>3. /\ worker'[w] = r /\ worker[w].pc = "unroute"
      /\ Working(w) /\ Working(w)' /\ \A v \in Workers \ {w} : worker'[v] = worker[v]
  BY <1>0, <1>1, <1>2, Moved
<1>4. table' = table /\ route' = route /\ gen' = gen /\ scope' = scope /\ holder' = holder
  BY DEF Unroute, outside
<1>5. ASSUME Phase(w) PROVE Phase(w)'
  BY <1>2, <1>3, <1>4, <1>5
     DEF Phase, PhaseOf, ThenEnds, OldAlone, OldLeaves, NewBuilt, NewStarted, Selecting, Retiring, Early,
         Upholds, Drained, Producing, LiveOne, One
<1>6. ASSUME ScopePhase(w) PROVE ScopePhase(w)'
  BY <1>2, <1>3, <1>4, <1>6 DEF ScopePhase, UpToDate, Building
<1> QED
  BY <1>3, <1>5, <1>6 DEF Continues

LEMMA DropPhase == ASSUME IInv, NEW w \in Workers, Drop(w) PROVE Continues(w)
<1>1. Known(w, "drop") /\ Same(w) /\ worker'[w].pc = "retire"
  BY Goes DEF Drop
<1>2. /\ table' = table /\ route' = worker[w].target /\ gen' = gen /\ scope' = scope
      /\ holder' = holder
  BY DEF Drop, outside
<1>3. ASSUME Phase(w) PROVE Phase(w)' /\ worker'[w].new = NoGen
  BY <1>1, <1>2, <1>3
     DEF Phase, PhaseOf, ThenEnds, OldAlone, OldLeaves, NewBuilt, NewStarted, Selecting, Retiring, Early,
         Upholds, Drained, Producing, LiveOne, One, Known, Same
<1>4. ASSUME Phase(w), ScopePhase(w) PROVE ScopePhase(w)'
  BY <1>1, <1>2, <1>3, <1>4 DEF ScopePhase, UpToDate, Building, Known, Same
<1> QED
  BY <1>1, <1>3, <1>4 DEF Continues, Known

LEMMA RetirePhase == ASSUME IInv, NEW w \in Workers, Retire(w) PROVE Continues(w)
<1> DEFINE r == [worker[w] EXCEPT !.pc = worker[w].next, !.next = "end"]
<1>0. At(w, "retire") /\ worker[w] \in WorkerState
  BY StandsAt DEF Retire
<1>1. worker' = [worker EXCEPT ![w] = r]
  BY <1>0, StandsAt DEF Retire, WorkerState
<1>2. r.new = worker[w].new /\ r.pc \in Nexts /\ r.pc = worker[w].next /\ r.next = "end"
  BY <1>0 DEF WorkerState
<1> HIDE DEF r
<1>3. /\ worker'[w] = r /\ worker[w].pc = "retire"
      /\ Working(w) /\ Working(w)' /\ \A v \in Workers \ {w} : worker'[v] = worker[v]
      /\ gen \in GenState
  BY <1>0, <1>1, <1>2, Moved DEF Nexts
<1>4. /\ table' = table /\ route' = route /\ scope' = scope /\ holder' = holder
      /\ gen' = IF worker[w].previous # worker[w].new THEN Stop({worker[w].previous}) ELSE gen
  BY DEF Retire, outside
<1>a. ASSUME Phase(w) PROVE r.pc = "clients" => r.new = NoGen
  BY <1>2, <1>3, <1>a DEF Phase, PhaseOf, ThenEnds
<1>5. ASSUME Phase(w) PROVE Resting'
  <2> DEFINE p == worker[w].previous
             n == worker[w].new
  <2>1. Retiring(worker[w])
    BY <1>5 DEF Phase, PhaseOf
  <2>2. CASE n = NoGen /\ p = NoGen
    BY <1>3, <1>4, <2>1, <2>2
       DEF Retiring, Resting, Upholds, Drained, Producing, LiveOne, One
  <2>3. CASE n = NoGen /\ p # NoGen
    <3>1. (Upholds(p) \/ Drained(p)) /\ table = NoGen /\ route = NoGen /\ gen' = Stop({p})
      BY <1>3, <1>4, <2>1, <2>3 DEF Retiring
    <3> HIDE DEF p, n
    <3> QED
      BY <1>3, <1>4, <3>1, StopFields
         DEF Resting, Upholds, Drained, Producing, LiveOne, One
  <2>4. CASE n # NoGen
    <3>1. /\ table = n /\ route = n /\ StartedBeside(n, p) /\ gen.committed = gen.feeding
          /\ gen.watching = {n} /\ gen' = Stop({p})
      BY <1>3, <1>4, <2>1, <2>4 DEF Retiring, StartedBeside, Beside
    <3> HIDE DEF p, n
    <3> QED
      BY <1>3, <1>4, <2>4, <3>1, StopFields
         DEF Resting, Upholds, Producing, LiveOne, One, StartedBeside, Beside
  <2> QED
    BY <2>2, <2>3, <2>4
<1>6. ASSUME ScopePhase(w) PROVE ScopePhase(w)'
  <2>1. gen'.scope = gen.scope
    BY <1>3, <1>4, StopFields
  <2> QED
    BY <1>2, <1>3, <1>4, <1>6, <2>1 DEF ScopePhase, UpToDate, Building, Nexts
<1>7. ASSUME Phase(w) PROVE Phase(w)'
  BY <1>2, <1>3, <1>a, <1>5, <1>7, AtRestAgain DEF Nexts
<1> QED
  BY <1>3, <1>6, <1>7 DEF Continues

LEMMA RebuildClientsPhase == ASSUME IInv, NEW w \in Workers, RebuildClients(w) PROVE Continues(w)
<1>1. /\ Known(w, "clients") /\ Same(w) /\ worker'[w].pc \in {"end", "build"}
  BY Goes, Ends DEF RebuildClients
<1>2. table' = table /\ route' = route /\ gen' = gen /\ scope' = scope /\ holder' = holder
  BY DEF RebuildClients, outside
<1>3. ASSUME Phase(w) PROVE Phase(w)'
  BY <1>1, <1>2, <1>3
     DEF Phase, PhaseOf, ThenEnds, OldAlone, OldLeaves, NewBuilt, NewStarted, Selecting, Retiring, Early,
         Known, Same, Resting, Upholds, Producing, LiveOne, One
<1>4. ASSUME ScopePhase(w) PROVE ScopePhase(w)'
  BY <1>1, <1>2, <1>4 DEF ScopePhase, UpToDate, Building, Known
<1> QED
  BY <1>1, <1>3, <1>4 DEF Continues, Known

LEMMA ClientsFailPhase == ASSUME IInv, NEW w \in Workers, ClientsFail(w) PROVE Continues(w)
<1>1. /\ Known(w, "clients") /\ Same(w) /\ worker'[w].pc = "end"
  BY Ends DEF ClientsFail
<1>2. table' = table /\ route' = route /\ gen' = gen /\ scope' = scope /\ holder' = holder
  BY DEF ClientsFail, outside
<1>3. ASSUME Phase(w) PROVE Phase(w)'
  BY <1>1, <1>2, <1>3
     DEF Phase, PhaseOf, ThenEnds, OldAlone, OldLeaves, NewBuilt, NewStarted, Selecting, Retiring, Early,
         Known, Same, Resting, Upholds, Producing, LiveOne, One
<1>4. ASSUME ScopePhase(w) PROVE ScopePhase(w)'
  BY <1>1, <1>2, <1>4 DEF ScopePhase, UpToDate, Building, Known
<1> QED
  BY <1>1, <1>3, <1>4 DEF Continues, Known

\* A generation that is built is none of those at work.
LEMMA NewIsFree ==
  ASSUME Typed, Free # {}
  PROVE  /\ NewGen \in Gens /\ NewGen # NoGen /\ NewGen # table
         /\ NewGen \notin gen.serving /\ NewGen \notin gen.feeding
         /\ NewGen \notin gen.committed /\ NewGen \notin gen.watching
         /\ Built(NewGen).serving = gen.serving \cup {NewGen}
         /\ Built(NewGen).feeding = gen.feeding /\ Built(NewGen).committed = gen.committed
         /\ Built(NewGen).watching = gen.watching
         /\ Built(NewGen).cooled = gen.cooled \ {NewGen}
         /\ Built(NewGen).scope = [gen.scope EXCEPT ![NewGen] = scope.version]
         /\ \A g \in Gens \ {NewGen} : Built(NewGen).scope[g] = gen.scope[g]
         /\ Built(NewGen).scope[NewGen] = scope.version
<1>1. NewGen \in Free
  BY DEF NewGen
<1>2. NewGen \in Gens /\ NewGen # NoGen
  BY BuiltFacts
<1>3. gen \in GenState
  BY DEF Typed
<1>4. Built(NewGen) = [gen EXCEPT !.serving = gen.serving \cup {NewGen},
                                  !.cooled = gen.cooled \ {NewGen},
                                  !.scope = [gen.scope EXCEPT ![NewGen] = scope.version]]
  BY <1>3 DEF Built, GenState
<1> HIDE DEF NewGen
<1> QED
  BY <1>1, <1>2, <1>3, <1>4 DEF Free, GenState

LEMMA BuildSubsystemPhase ==
  ASSUME IInv, NEW w \in Workers, BuildSubsystem(w) PROVE Continues(w)
<1>0. At(w, "build") /\ worker[w] \in WorkerState /\ Typed
  BY StandsAt DEF BuildSubsystem, IInv
<1>1. table' = table /\ route' = route /\ scope' = scope /\ holder' = holder
  BY DEF BuildSubsystem, outside
<1>2. CASE Stale(w)
  <2>1. Known(w, "build") /\ Same(w) /\ worker'[w].pc = "end" /\ gen' = gen
    BY <1>0, <1>2, Ends DEF BuildSubsystem
  <2>2. ASSUME Phase(w) PROVE Phase(w)'
    BY <1>1, <2>1, <2>2
       DEF Phase, PhaseOf, ThenEnds, OldAlone, OldLeaves, NewBuilt, NewStarted, Selecting, Retiring, Early,
           Known, Same, Resting, Upholds, Producing, LiveOne, One
  <2>3. ASSUME ScopePhase(w) PROVE ScopePhase(w)'
    BY <1>1, <2>1, <2>3 DEF ScopePhase, UpToDate, Building, Known
  <2> QED
    BY <2>1, <2>2, <2>3 DEF Continues, Known
<1>3. CASE ~Stale(w)
  <2> DEFINE r == [worker[w] EXCEPT !.new = NewGen,
                     !.pc = IF w = "revalidator" THEN "check" ELSE "start"]
  <2>1. /\ worker' = [worker EXCEPT ![w] = r] /\ gen' = Built(NewGen) /\ Free # {}
    BY <1>0, <1>3, StandsAt DEF BuildSubsystem, WorkerState
  <2>2. r.new = NewGen /\ r.pc \in {"check", "start"} /\ r.next = worker[w].next
    BY <1>0 DEF WorkerState
  <2> HIDE DEF r
  <2>3. /\ worker'[w] = r /\ worker[w].pc = "build"
        /\ Working(w) /\ Working(w)' /\ \A v \in Workers \ {w} : worker'[v] = worker[v]
        /\ table \in Refs
    BY <1>0, <2>1, <2>2, Moved
  <2>a. PICK n : n = NewGen
    OBVIOUS
  <2>4. /\ n \in Gens /\ n # NoGen /\ n # table /\ gen' = Built(n) /\ r.new = n
        /\ gen'.serving = gen.serving \cup {n} /\ gen'.feeding = gen.feeding
        /\ gen'.committed = gen.committed /\ gen'.watching = gen.watching
        /\ gen'.cooled = gen.cooled \ {n} /\ gen'.scope[n] = scope.version
        /\ \A g \in Gens \ {n} : gen'.scope[g] = gen.scope[g]
    BY <1>0, <2>1, <2>2, <2>a, NewIsFree
  <2>5. ASSUME Phase(w) PROVE Phase(w)'
    <3>1. Resting /\ worker[w].next = "end"
      BY <2>3, <2>5 DEF Phase, PhaseOf, OldAlone, ThenEnds
    <3>2. Beside(n, table)' /\ Producing(LiveOne(table))' /\ route' = table'
      <4>1. LiveOne(table)' = LiveOne(table)
        BY <1>1, <2>4 DEF LiveOne, One
      <4> QED
        BY <1>1, <2>a, <2>4, <3>1, <4>1
           DEF Beside, Resting, Upholds, Producing, One
    <3>3. (worker[w].new)' = n /\ worker'[w].next = "end"
      BY <2>2, <2>3, <2>4, <3>1
    <3> QED
      BY <2>2, <2>3, <3>2, <3>3
         DEF Phase, PhaseOf, ThenEnds, OldAlone, OldLeaves, NewBuilt, NewStarted, Selecting, Retiring, Early,
             Beside
  <2>6. ASSUME ScopePhase(w) PROVE ScopePhase(w)'
    <3>1. UpToDate(table)
      BY <2>3, <2>6 DEF ScopePhase
    <3> QED
      BY <1>1, <2>2, <2>3, <2>4, <3>1 DEF ScopePhase, UpToDate, Building, Refs
  <2> QED
    BY <2>3, <2>5, <2>6 DEF Continues
<1> QED
  BY <1>2, <1>3

LEMMA CheckExpectedPhase == ASSUME IInv, CheckExpected PROVE Continues("revalidator")
<1> DEFINE w == "revalidator"
<1>0. w \in Workers /\ At(w, "check") /\ gen \in GenState
  BY DEF CheckExpected, Workers, IInv, Typed
<1>1. table' = table /\ route' = route /\ scope' = scope /\ holder' = holder
  BY DEF CheckExpected, outside
<1>2. CASE Stale(w)
  <2>0. Finish(w) /\ gen' = Stop({worker[w].new})
    BY <1>2 DEF CheckExpected
  <2> HIDE DEF w
  <2>1. Known(w, "check") /\ Same(w) /\ worker'[w].pc = "end"
    BY <1>0, <2>0, Ends
  <2>2. ASSUME Phase(w) PROVE Phase(w)'
    <3> DEFINE n == worker[w].new
    <3>1. Beside(n, table) /\ Producing(LiveOne(table)) /\ route = table /\ worker[w].next = "end"
      BY <2>1, <2>2 DEF Phase, PhaseOf, ThenEnds, NewBuilt, Known
    <3>2. gen' = Stop({n})
      BY <2>0
    <3> HIDE DEF n
    <3>3. Resting'
      BY <1>0, <1>1, <3>1, <3>2, StopFields
         DEF Resting, Upholds, Beside, Producing, LiveOne, One
    <3> QED
      BY <1>0, <2>1, <3>1, <3>3, AtRestAgain DEF Same
  <2>3. ASSUME ScopePhase(w) PROVE ScopePhase(w)'
    BY <1>0, <1>1, <2>0, <2>1, <2>3, StopFields DEF ScopePhase, UpToDate, Building, Known
  <2> QED
    BY <2>1, <2>2, <2>3 DEF Continues, Known, w
<1>3. CASE ~Stale(w)
  <2>0. Goto(w, "start") /\ gen' = gen
    BY <1>3 DEF CheckExpected
  <2> HIDE DEF w
  <2>1. Known(w, "check") /\ Same(w) /\ worker'[w].pc = "start"
    BY <1>0, <2>0, Goes
  <2>2. ASSUME Phase(w) PROVE Phase(w)'
    BY <1>1, <2>0, <2>1, <2>2
       DEF Phase, PhaseOf, ThenEnds, OldAlone, OldLeaves, NewBuilt, NewStarted, Selecting, Retiring, Early,
           Known, Same, Beside, Producing, LiveOne, One
  <2>3. ASSUME ScopePhase(w) PROVE ScopePhase(w)'
    BY <1>1, <2>0, <2>1, <2>3 DEF ScopePhase, UpToDate, Building, Known, Same
  <2> QED
    BY <2>1, <2>2, <2>3 DEF Continues, Known, w
<1> QED
  BY <1>2, <1>3

LEMMA StartedFields ==
  ASSUME gen \in GenState, NEW g
  PROVE  /\ Started(g).serving = gen.serving /\ Started(g).feeding = gen.feeding \cup {g}
         /\ Started(g).committed = gen.committed /\ Started(g).watching = gen.watching \cup {g}
         /\ Started(g).cooled = gen.cooled /\ Started(g).scope = gen.scope
         /\ Committed(g).serving = gen.serving /\ Committed(g).feeding = gen.feeding
         /\ Committed(g).committed = gen.committed \cup {g}
         /\ Committed(g).watching = gen.watching \ gen.committed
         /\ Committed(g).cooled = gen.cooled /\ Committed(g).scope = gen.scope
         /\ Rollback(g).serving = gen.serving \ {g} /\ Rollback(g).feeding = gen.feeding \ {g}
         /\ Rollback(g).committed = gen.committed \ {g}
         /\ Rollback(g).watching = gen.watching \ {g}
         /\ Rollback(g).cooled = gen.cooled /\ Rollback(g).scope = gen.scope
BY DEF Started, Committed, Rollback, Stop, StopProducers, GenState

LEMMA StartGenerationPhase ==
  ASSUME IInv, NEW w \in Workers, StartGeneration(w) PROVE Continues(w)
<1> DEFINE r == [worker[w] EXCEPT !.previous = table, !.pc = "publish"]
<1>0. At(w, "start") /\ worker[w] \in WorkerState
  BY StandsAt DEF StartGeneration
<1>1. worker' = [worker EXCEPT ![w] = r]
  BY <1>0, StandsAt DEF StartGeneration, WorkerState
<1>2. /\ r.previous = table /\ r.new = worker[w].new /\ r.next = worker[w].next
      /\ r.pc = "publish"
  BY <1>0 DEF WorkerState
<1> HIDE DEF r
<1>3. /\ worker'[w] = r /\ worker[w].pc = "start" /\ gen \in GenState
      /\ Working(w) /\ Working(w)' /\ \A v \in Workers \ {w} : worker'[v] = worker[v]
  BY <1>0, <1>1, <1>2, Moved
<1>4. /\ table' = table /\ route' = route /\ scope' = scope /\ holder' = holder
      /\ gen' = Started(worker[w].new)
  BY DEF StartGeneration, outside
<1>5. ASSUME Phase(w) PROVE Phase(w)'
  <2>1. /\ Beside(worker[w].new, table) /\ Producing(LiveOne(table)) /\ route = table
        /\ worker[w].next = "end"
    BY <1>3, <1>5 DEF Phase, PhaseOf, ThenEnds, NewBuilt
  <2>a. PICK x : x = worker[w].new
    OBVIOUS
  <2>2. gen' = Started(x) /\ (worker[w].new)' = x /\ (worker[w].previous)' = table
        /\ (worker[w].pc)' = "publish" /\ (worker[w].next)' = "end"
    BY <1>2, <1>3, <1>4, <2>1, <2>a
  <2>3. LiveOne(table)' = LiveOne(table) /\ One(table)' = One(table)
    BY <1>3, <1>4, <2>2, StartedFields DEF LiveOne, One
  <2>4. /\ x \in Gens \ gen'.cooled /\ x # table' /\ gen'.serving = One(table)' \cup {x}
        /\ gen'.feeding = LiveOne(table)' \cup {x}
        /\ gen'.watching = gen'.feeding /\ gen'.committed = LiveOne(table)'
    <3>1. /\ x \in Gens \ gen.cooled /\ x # table /\ gen.serving = One(table) \cup {x}
          /\ gen.feeding = LiveOne(table) /\ gen.committed = LiveOne(table)
          /\ gen.watching = LiveOne(table)
      BY <2>1, <2>a DEF Beside, Producing
    <3>2. /\ gen'.serving = gen.serving /\ gen'.feeding = gen.feeding \cup {x}
          /\ gen'.committed = gen.committed /\ gen'.watching = gen.watching \cup {x}
          /\ gen'.cooled = gen.cooled
      BY <1>3, <2>2, StartedFields
    <3> QED
      BY <1>4, <2>3, <3>1, <3>2
  <2>5. Beside(worker[w].new, worker[w].previous)' /\ LiveOne(worker[w].previous)' = LiveOne(table)'
    BY <1>4, <2>2, <2>4 DEF Beside, LiveOne, One
  <2>6. NewStarted(worker[w])'
    BY <1>4, <2>1, <2>2, <2>4, <2>5 DEF NewStarted, StartedBeside
  <2> QED
    BY <2>2, <2>6
       DEF Phase, PhaseOf, ThenEnds, OldAlone, OldLeaves, NewBuilt, Selecting, Retiring, Early
<1>6. ASSUME ScopePhase(w) PROVE ScopePhase(w)'
  BY <1>2, <1>3, <1>4, <1>6, StartedFields DEF ScopePhase, UpToDate, Building
<1> QED
  BY <1>3, <1>5, <1>6 DEF Continues

LEMMA PublishGenerationPhase ==
  ASSUME IInv, NEW w \in Workers, PublishGeneration(w) PROVE Continues(w)
<1>1. Known(w, "publish") /\ Same(w) /\ worker'[w].pc = "snapshot"
  BY Goes DEF PublishGeneration
<1>2. /\ table' = worker[w].new /\ route' = route /\ gen' = gen /\ scope' = scope
      /\ holder' = holder
  BY DEF PublishGeneration, outside
<1>3. ASSUME Phase(w) PROVE Phase(w)'
  BY <1>1, <1>2, <1>3
     DEF Phase, PhaseOf, ThenEnds, OldAlone, OldLeaves, NewBuilt, NewStarted, Selecting, Retiring, Early,
         Known, Same, StartedBeside, Beside, LiveOne, One
<1>4. ASSUME ScopePhase(w) PROVE ScopePhase(w)'
  BY <1>1, <1>2, <1>4 DEF ScopePhase, UpToDate, Building, Known, Same
<1> QED
  BY <1>1, <1>3, <1>4 DEF Continues, Known

LEMMA SnapshotTopologyPhase ==
  ASSUME IInv, NEW w \in Workers, SnapshotTopology(w) PROVE Continues(w)
<1> DEFINE r == [worker[w] EXCEPT !.target = table, !.pc = "route"]
<1>0. At(w, "snapshot") /\ worker[w] \in WorkerState
  BY StandsAt DEF SnapshotTopology
<1>1. worker' = [worker EXCEPT ![w] = r]
  BY <1>0, StandsAt DEF SnapshotTopology, WorkerState
<1>2. /\ r.previous = worker[w].previous /\ r.new = worker[w].new /\ r.next = worker[w].next
      /\ r.target = table /\ r.pc = "route"
  BY <1>0 DEF WorkerState
<1> HIDE DEF r
<1>3. /\ worker'[w] = r /\ worker[w].pc = "snapshot"
      /\ Working(w) /\ Working(w)' /\ \A v \in Workers \ {w} : worker'[v] = worker[v]
  BY <1>0, <1>1, <1>2, Moved
<1>4. table' = table /\ route' = route /\ gen' = gen /\ scope' = scope /\ holder' = holder
  BY DEF SnapshotTopology, outside
<1>5. ASSUME Phase(w) PROVE Phase(w)'
  BY <1>2, <1>3, <1>4, <1>5
     DEF Phase, PhaseOf, ThenEnds, OldAlone, OldLeaves, NewBuilt, NewStarted, Selecting, Retiring, Early,
         StartedBeside, Beside, LiveOne, One
<1>6. ASSUME ScopePhase(w) PROVE ScopePhase(w)'
  BY <1>2, <1>3, <1>4, <1>6 DEF ScopePhase, UpToDate, Building
<1> QED
  BY <1>3, <1>5, <1>6 DEF Continues

LEMMA RouteGenerationPhase ==
  ASSUME IInv, NEW w \in Workers, RouteGeneration(w) PROVE Continues(w)
<1>1. Known(w, "route") /\ Same(w) /\ worker'[w].pc = "commit"
  BY Goes DEF RouteGeneration
<1>2. /\ route' = worker[w].target /\ table' = table /\ gen' = gen /\ scope' = scope
      /\ holder' = holder
  BY DEF RouteGeneration, outside
<1>3. ASSUME Phase(w) PROVE Phase(w)'
  BY <1>1, <1>2, <1>3
     DEF Phase, PhaseOf, ThenEnds, OldAlone, OldLeaves, NewBuilt, NewStarted, Selecting, Retiring, Early,
         Known, Same, StartedBeside, Beside, LiveOne, One
<1>4. ASSUME ScopePhase(w) PROVE ScopePhase(w)'
  BY <1>1, <1>2, <1>4 DEF ScopePhase, UpToDate, Building, Known, Same
<1> QED
  BY <1>1, <1>3, <1>4 DEF Continues, Known

LEMMA RoutingFailsPhase ==
  ASSUME IInv, NEW w \in Workers, RoutingFails(w) PROVE Continues(w)
<1>1. Known(w, "route") /\ Same(w) /\ worker'[w].pc = "end"
  BY Ends DEF RoutingFails
<1>2. /\ table' = worker[w].previous /\ route' = route /\ gen' = Rollback(worker[w].new)
      /\ scope' = scope /\ holder' = holder
  BY DEF RoutingFails, outside
<1>3. ASSUME Phase(w) PROVE Phase(w)'
  <2> DEFINE n == worker[w].new
             p == worker[w].previous
  <2>1. /\ StartedBeside(n, p) /\ gen.watching = gen.feeding /\ gen.committed = LiveOne(p)
        /\ route = p /\ worker[w].next = "end"
    BY <1>1, <1>3 DEF Phase, PhaseOf, ThenEnds, NewStarted, Known
  <2>2. gen' = Rollback(n) /\ table' = p /\ gen \in GenState
    BY <1>1, <1>2 DEF Known
  <2> HIDE DEF n, p
  <2>3. Resting'
    BY <1>2, <2>1, <2>2, StartedFields
       DEF Resting, Upholds, StartedBeside, Beside, Producing, LiveOne, One
  <2> QED
    BY <1>1, <2>1, <2>3, AtRestAgain DEF Same
<1>4. ASSUME ScopePhase(w) PROVE ScopePhase(w)'
  BY <1>1, <1>2, <1>4, StartedFields DEF ScopePhase, UpToDate, Building, Known, Same
<1> QED
  BY <1>1, <1>3, <1>4 DEF Continues, Known

LEMMA CommitGenerationPhase ==
  ASSUME IInv, NEW w \in Workers, CommitGeneration(w) PROVE Continues(w)
<1>1. Known(w, "commit") /\ Same(w) /\ worker'[w].pc = "retire"
  BY Goes DEF CommitGeneration
<1>2. /\ table' = table /\ route' = route /\ gen' = Committed(worker[w].new)
      /\ scope' = scope /\ holder' = holder
  BY DEF CommitGeneration, outside
<1>3. ASSUME Phase(w) PROVE Phase(w)'
  <2> DEFINE n == worker[w].new
             p == worker[w].previous
  <2>1. /\ StartedBeside(n, p) /\ gen.watching = gen.feeding /\ gen.committed = LiveOne(p)
        /\ table = n /\ route = n /\ worker[w].next = "end"
    BY <1>1, <1>3 DEF Phase, PhaseOf, ThenEnds, NewStarted, Known
  <2>2. gen' = Committed(n) /\ gen \in GenState /\ (worker[w].new)' = n
        /\ (worker[w].previous)' = p /\ n # NoGen /\ (worker[w].next)' = "end"
    BY <1>1, <1>2, <2>1 DEF Known, Same, LocalsOK, Building
  <2> HIDE DEF n, p
  <2>a. PICK x, y : x = n /\ y = p
    OBVIOUS
  <2>b. /\ x \in Gens \ gen.cooled /\ x # y /\ gen.serving = One(y) \cup {x}
        /\ gen.feeding = LiveOne(y) \cup {x} /\ gen.watching = LiveOne(y) \cup {x}
        /\ gen.committed = LiveOne(y) /\ gen' = Committed(x)
    BY <2>1, <2>2, <2>a DEF StartedBeside, Beside
  <2>c. x \notin LiveOne(y) /\ LiveOne(y) = {y} \ ({NoGen} \cup gen.cooled)
    BY <2>b DEF LiveOne, One
  <2>d. /\ gen'.watching = gen.watching \ gen.committed /\ gen'.serving = gen.serving
        /\ gen'.feeding = gen.feeding /\ gen'.committed = gen.committed \cup {x}
        /\ gen'.cooled = gen.cooled
    BY <2>2, <2>b, StartedFields
  <2>e. gen'.watching = {x} /\ gen'.committed = gen'.feeding
    BY <2>b, <2>c, <2>d
  <2>3. gen'.committed = gen'.feeding /\ gen'.watching = {x}
        /\ x \in Gens \ gen'.cooled /\ x # y /\ gen'.serving = One(y) \cup {x}
        /\ gen'.feeding = ({y} \ ({NoGen} \cup gen'.cooled)) \cup {x}
    BY <2>b, <2>c, <2>d, <2>e
  <2>4. StartedBeside(worker[w].new, worker[w].previous)'
    BY <2>2, <2>3, <2>a DEF StartedBeside, Beside, LiveOne, One
  <2> QED
    BY <1>1, <1>2, <2>1, <2>2, <2>3, <2>4, <2>a
       DEF Phase, PhaseOf, ThenEnds, OldAlone, OldLeaves, NewBuilt, NewStarted, Selecting, Retiring, Early
<1>4. ASSUME ScopePhase(w) PROVE ScopePhase(w)'
  BY <1>1, <1>2, <1>4, StartedFields DEF ScopePhase, UpToDate, Building, Known, Same
<1> QED
  BY <1>1, <1>3, <1>4 DEF Continues, Known

LEMMA SyncClientsPhase == ASSUME IInv, SyncClients PROVE Continues("mutation")
<1>a. PICK w : w = "mutation"
  OBVIOUS
<1>0. w \in Workers /\ At(w, "sync") /\ (Goto(w, "plan") \/ Finish(w))
  BY <1>a DEF SyncClients, Workers
<1>1. Known(w, "sync") /\ Same(w) /\ worker'[w].pc \in {"end", "plan"}
  BY <1>0, Goes, Ends
<1>2. table' = table /\ route' = route /\ gen' = gen /\ scope' = scope /\ holder' = holder
  BY DEF SyncClients, outside
<1>3. ASSUME Phase(w) PROVE Phase(w)'
  BY <1>1, <1>2, <1>3
     DEF Phase, PhaseOf, ThenEnds, OldAlone, OldLeaves, NewBuilt, NewStarted, Selecting, Retiring, Early,
         Known, Same, Resting, Upholds, Producing, LiveOne, One
<1>4. ASSUME ScopePhase(w) PROVE ScopePhase(w)'
  BY <1>1, <1>2, <1>4 DEF ScopePhase, UpToDate, Building, Known
<1>5. Continues(w)
  BY <1>1, <1>3, <1>4 DEF Continues, Known
<1> QED
  BY <1>a, <1>5

LEMMA PlanSelectionPhase == ASSUME IInv, PlanSelection PROVE Continues("mutation")
<1>a. PICK w : w = "mutation"
  OBVIOUS
<1>b. SUFFICES Continues(w)
  BY <1>a
<1>0. /\ w \in Workers /\ At(w, "plan") /\ worker[w] \in WorkerState /\ Typed
      /\ worker \in [Workers -> WorkerState] /\ table \in Refs /\ gen \in GenState
  BY <1>a, StandsAt, Names DEF PlanSelection, IInv
<1>1. table' = table /\ route' = route /\ scope' = scope /\ holder' = holder
  BY DEF PlanSelection, outside
<1>2. CASE ~SelectionCurrent
  <2>1. Known(w, "plan") /\ Same(w) /\ worker'[w].pc = "end" /\ gen' = gen
    BY <1>a, <1>0, <1>2, Ends DEF PlanSelection
  <2>2. ASSUME Phase(w) PROVE Phase(w)'
    BY <1>1, <2>1, <2>2
       DEF Phase, PhaseOf, ThenEnds, OldAlone, OldLeaves, NewBuilt, NewStarted, Selecting, Retiring, Early,
           Known, Same, Resting, Upholds, Producing, LiveOne, One
  <2>3. ASSUME ScopePhase(w) PROVE ScopePhase(w)'
    BY <1>1, <2>1, <2>3 DEF ScopePhase, UpToDate, Building, Known
  <2> QED
    BY <2>1, <2>2, <2>3 DEF Continues, Known
<1>3. CASE SelectionCurrent /\ table = NoGen /\ auth = "valid"
  <2> DEFINE r == [worker[w] EXCEPT !.new = NewGen, !.target = NewGen, !.pc = "apply"]
  <2>1. /\ worker' = [worker EXCEPT ![w] = r] /\ gen' = Built(NewGen) /\ Free # {}
    BY <1>a, <1>0, <1>3 DEF PlanSelection, WorkerState
  <2>2. r.new = NewGen /\ r.target = NewGen /\ r.pc = "apply" /\ r.next = worker[w].next
    BY <1>0 DEF WorkerState
  <2> HIDE DEF r
  <2>3. /\ worker'[w] = r /\ worker[w].pc = "plan"
        /\ Working(w) /\ Working(w)' /\ \A v \in Workers \ {w} : worker'[v] = worker[v]
    BY <1>0, <2>1, <2>2, Moved
  <2>b. PICK n : n = NewGen
    OBVIOUS
  <2>4. /\ n \in Gens /\ n # NoGen /\ gen' = Built(n) /\ r.new = n /\ r.target = n
        /\ gen'.serving = gen.serving \cup {n} /\ gen'.feeding = gen.feeding
        /\ gen'.committed = gen.committed /\ gen'.watching = gen.watching
        /\ gen'.cooled = gen.cooled \ {n} /\ gen'.scope[n] = scope.version
    BY <1>0, <2>1, <2>2, <2>b, NewIsFree
  <2>5. ASSUME Phase(w) PROVE Phase(w)'
    <3>1. Resting /\ worker[w].next = "end"
      BY <2>3, <2>5 DEF Phase, PhaseOf, OldAlone, ThenEnds
    <3>2. gen.serving = {} /\ gen.feeding = {} /\ gen.committed = {} /\ gen.watching = {}
          /\ route = NoGen
      BY <1>3, <3>1 DEF Resting, Upholds, Producing, LiveOne, One
    <3>3. /\ (worker[w].new)' = n /\ (worker[w].target)' = n /\ worker'[w].next = "end"
          /\ (worker[w].pc)' = "apply"
      BY <2>2, <2>3, <2>4, <3>1
    <3>4. gen'.serving = {n} /\ gen'.feeding = {} /\ gen'.committed = {} /\ gen'.watching = {}
          /\ n \in Gens \ gen'.cooled
      BY <2>4, <3>2
    <3>5. Selecting(worker[w])'
      BY <1>1, <1>3, <2>4, <3>2, <3>3, <3>4 DEF Selecting, Beside, One
    <3> QED
      BY <3>3, <3>5
         DEF Phase, PhaseOf, ThenEnds, OldAlone, OldLeaves, NewBuilt, NewStarted, Retiring, Early
  <2>6. ScopePhase(w)'
    BY <1>1, <1>3, <2>2, <2>3, <2>4 DEF ScopePhase, UpToDate, Building
  <2> QED
    BY <2>3, <2>5, <2>6 DEF Continues
<1>4. CASE SelectionCurrent /\ ~(table = NoGen /\ auth = "valid")
  <2> DEFINE r == [worker[w] EXCEPT !.target = table, !.pc = "apply"]
  <2>1. /\ worker' = [worker EXCEPT ![w] = r] /\ gen' = gen
    BY <1>a, <1>0, <1>4 DEF PlanSelection, WorkerState
  <2>2. r.new = worker[w].new /\ r.target = table /\ r.pc = "apply" /\ r.next = worker[w].next
    BY <1>0 DEF WorkerState
  <2> HIDE DEF r
  <2>3. /\ worker'[w] = r /\ worker[w].pc = "plan"
        /\ Working(w) /\ Working(w)' /\ \A v \in Workers \ {w} : worker'[v] = worker[v]
    BY <1>0, <2>1, <2>2, Moved
  <2>5. ASSUME Phase(w) PROVE Phase(w)' /\ worker[w].new = NoGen
    BY <1>1, <2>1, <2>2, <2>3, <2>5
       DEF Phase, PhaseOf, ThenEnds, OldAlone, OldLeaves, NewBuilt, NewStarted, Selecting, Retiring, Early,
           Resting, Upholds, Producing, LiveOne, One
  <2>6. ASSUME Phase(w), ScopePhase(w) PROVE ScopePhase(w)'
    BY <1>1, <2>1, <2>2, <2>3, <2>5, <2>6 DEF ScopePhase, UpToDate, Building
  <2> QED
    BY <2>3, <2>5, <2>6 DEF Continues
<1> QED
  BY <1>2, <1>3, <1>4

LEMMA ApplyRoutesPhase == ASSUME IInv, ApplyRoutes PROVE Continues("mutation")
<1>a. PICK w : w = "mutation"
  OBVIOUS
<1>0. w \in Workers /\ At(w, "apply") /\ Goto(w, "replace")
  BY <1>a DEF ApplyRoutes, Workers
<1>1. Known(w, "apply") /\ Same(w) /\ worker'[w].pc = "replace"
  BY <1>0, Goes
<1>2. /\ table' = table /\ route' = worker[w].target /\ scope' = scope /\ holder' = holder
      /\ gen' = IF worker[w].new = NoGen THEN gen ELSE Started(worker[w].new)
  BY <1>a DEF ApplyRoutes, outside
<1>3. ASSUME Phase(w) PROVE Phase(w)'
  <2>0. Selecting(worker[w]) /\ worker[w].next = "end" /\ worker'[w].next = "end"
    BY <1>1, <1>3 DEF Phase, PhaseOf, ThenEnds, Known, Same
  <2>1. CASE worker[w].new = NoGen
    BY <1>1, <1>2, <2>0, <2>1
       DEF Phase, PhaseOf, ThenEnds, OldAlone, OldLeaves, NewBuilt, NewStarted, Selecting, Retiring, Early,
           Known, Same, Resting, Upholds, Producing, LiveOne, One
  <2>2. CASE worker[w].new # NoGen
    <3>1. PICK n : n = worker[w].new
      OBVIOUS
    <3>2. /\ n \in Gens \ gen.cooled /\ n # NoGen /\ gen.serving = {n} /\ table = NoGen
          /\ worker[w].target = n /\ gen.feeding = {} /\ gen.watching = {} /\ gen.committed = {}
      BY <1>1, <2>0, <2>2, <3>1 DEF Selecting, Beside, One, Known
    <3>3. gen' = Started(n) /\ gen \in GenState
      BY <1>1, <1>2, <2>2, <3>1 DEF Known
    <3>4. /\ gen'.serving = {n} /\ gen'.feeding = {n} /\ gen'.watching = {n}
          /\ gen'.committed = {} /\ gen'.cooled = gen.cooled
      BY <3>2, <3>3, StartedFields
    <3>5. (worker[w].new)' = n /\ (worker[w].target)' = n /\ (worker[w].pc)' = "replace"
      BY <1>1, <3>1, <3>2 DEF Same
    <3>6. Selecting(worker[w])'
      BY <1>2, <3>2, <3>4, <3>5 DEF Selecting, Beside, One
    <3> QED
      BY <2>0, <3>5, <3>6
         DEF Phase, PhaseOf, ThenEnds, OldAlone, OldLeaves, NewBuilt, NewStarted, Retiring, Early
  <2> QED
    BY <2>1, <2>2
<1>4. ASSUME ScopePhase(w) PROVE ScopePhase(w)'
  BY <1>1, <1>2, <1>4, StartedFields DEF ScopePhase, UpToDate, Building, Known, Same
<1>5. Continues(w)
  BY <1>1, <1>3, <1>4 DEF Continues, Known
<1> QED
  BY <1>a, <1>5

LEMMA ApplyingFailsPhase == ASSUME IInv, ApplyingFails PROVE Continues("mutation")
<1>a. PICK w : w = "mutation"
  OBVIOUS
<1>0. w \in Workers /\ At(w, "apply") /\ Finish(w)
  BY <1>a DEF ApplyingFails, Workers
<1>1. Known(w, "apply") /\ Same(w) /\ worker'[w].pc = "end"
  BY <1>0, Ends
<1>2. /\ table' = table /\ route' = route /\ scope' = scope /\ holder' = holder
      /\ gen' = Rollback(worker[w].new)
  BY <1>a DEF ApplyingFails, outside
<1>3. ASSUME Phase(w) PROVE Phase(w)'
  <2>0. Selecting(worker[w]) /\ worker[w].next = "end" /\ gen \in GenState /\ NoGen \notin Gens
    BY <1>1, <1>3 DEF Phase, PhaseOf, ThenEnds, Known, NoGen, Gens
  <2>3. Resting'
    <3>1. CASE worker[w].new = NoGen
      <4>1. Resting
        BY <1>1, <2>0, <3>1 DEF Selecting, Known
      <4>2. /\ gen'.serving = gen.serving /\ gen'.feeding = gen.feeding /\ gen'.cooled = gen.cooled
            /\ gen'.watching = gen.watching /\ gen'.committed = gen.committed
        <5>1. gen' = Rollback(NoGen)
          BY <1>2, <3>1
        <5>2. /\ gen.serving \ {NoGen} = gen.serving /\ gen.feeding \ {NoGen} = gen.feeding
              /\ gen.watching \ {NoGen} = gen.watching
              /\ gen.committed \ {NoGen} = gen.committed
          <6>1. /\ gen.serving \subseteq Gens /\ gen.feeding \subseteq Gens
                /\ gen.watching \subseteq Gens /\ gen.committed \subseteq Gens
            BY <2>0 DEF GenState
          <6> QED
            BY <2>0, <6>1
        <5> QED
          BY <2>0, <5>1, <5>2, StartedFields
      <4> QED
        BY <1>2, <4>1, <4>2 DEF Resting, Upholds, Producing, LiveOne, One
    <3>2. CASE worker[w].new # NoGen
      <4>1. /\ gen.serving = {worker[w].new} /\ table = NoGen /\ route = NoGen
            /\ gen.feeding = {} /\ gen.watching = {} /\ gen.committed = {}
        BY <1>1, <2>0, <3>2 DEF Selecting, Beside, One, Known
      <4>2. /\ gen'.serving = {} /\ gen'.feeding = {}
            /\ gen'.watching = {} /\ gen'.committed = {}
        BY <1>2, <2>0, <4>1, StartedFields
      <4> QED
        BY <1>2, <4>1, <4>2 DEF Resting, Upholds, Producing, LiveOne, One
    <3> QED
      BY <3>1, <3>2
  <2> QED
    BY <1>0, <1>1, <2>0, <2>3, AtRestAgain DEF Same
<1>4. ASSUME ScopePhase(w) PROVE ScopePhase(w)'
  BY <1>1, <1>2, <1>4, StartedFields DEF ScopePhase, UpToDate, Building, Known, Same
<1>5. Continues(w)
  BY <1>1, <1>3, <1>4 DEF Continues, Known
<1> QED
  BY <1>a, <1>5

LEMMA ReplaceTablePhase == ASSUME IInv, ReplaceTable PROVE Continues("mutation")
<1>a. PICK w : w = "mutation"
  OBVIOUS
<1>b. SUFFICES Continues(w)
  BY <1>a
<1> DEFINE m == worker[w]
           r == [m EXCEPT !.previous = IF m.target = NoGen THEN table ELSE NoGen,
                          !.next = "end",
                          !.pc = IF m.new = NoGen THEN "retire" ELSE "commit"]
<1>0. w \in Workers /\ At(w, "replace") /\ worker[w] \in WorkerState /\ NoGen \in Refs
      /\ table \in Refs
  BY <1>a, StandsAt, Names DEF ReplaceTable
<1>1. worker' = [worker EXCEPT ![w] = r]
  BY <1>a, <1>0 DEF ReplaceTable
<1>2. /\ r.previous = (IF m.target = NoGen THEN table ELSE NoGen) /\ r.new = m.new
      /\ r.next = "end" /\ r.target = m.target
      /\ r.pc = IF m.new = NoGen THEN "retire" ELSE "commit"
  BY <1>0 DEF WorkerState
<1> HIDE DEF r
<1>3. /\ worker'[w] = r /\ worker[w].pc = "replace" /\ gen \in GenState
      /\ Working(w) /\ Working(w)' /\ \A v \in Workers \ {w} : worker'[v] = worker[v]
  BY <1>0, <1>1, <1>2, Moved
<1>4. /\ table' = worker[w].target /\ route' = route /\ scope' = scope /\ holder' = holder
      /\ gen' = gen
  BY <1>a DEF ReplaceTable, outside
<1>5. ASSUME Phase(w) PROVE Phase(w)'
  <2>0. Selecting(worker[w])
    BY <1>5 DEF Phase, PhaseOf
  <2>1. CASE worker[w].new = NoGen
    <3>1. Resting /\ worker[w].target = table
      BY <1>3, <2>0, <2>1 DEF Selecting
    <3>2. /\ (worker[w].previous)' = NoGen /\ (worker[w].new)' = NoGen
          /\ (worker[w].pc)' = "retire" /\ (worker[w].next)' = "end" /\ table' = table
      BY <1>2, <1>3, <1>4, <2>1, <3>1
    <3>3. Upholds(table)' /\ route' = table'
      BY <1>4, <3>1, <3>2 DEF Resting, Upholds, Producing, LiveOne, One
    <3> QED
      BY <3>2, <3>3
         DEF Phase, PhaseOf, ThenEnds, OldAlone, OldLeaves, NewBuilt, NewStarted, Selecting, Retiring, Early
  <2>2. CASE worker[w].new # NoGen
    <3>1. PICK n : n = worker[w].new
      OBVIOUS
    <3>2. /\ n \in Gens \ gen.cooled /\ n # NoGen /\ gen.serving = {n}
          /\ worker[w].target = n /\ gen.feeding = {n} /\ gen.watching = {n} /\ gen.committed = {}
          /\ route = n
      BY <1>3, <2>0, <2>2, <3>1 DEF Selecting, Beside, One
    <3>3. /\ (worker[w].previous)' = NoGen /\ (worker[w].new)' = n
          /\ (worker[w].pc)' = "commit" /\ (worker[w].next)' = "end" /\ table' = n
      BY <1>2, <1>3, <1>4, <2>2, <3>1, <3>2
    <3>4. NewStarted(worker[w])'
      BY <1>4, <3>2, <3>3 DEF NewStarted, StartedBeside, Beside, LiveOne, One
    <3> QED
      BY <3>3, <3>4
         DEF Phase, PhaseOf, ThenEnds, OldAlone, OldLeaves, NewBuilt, Selecting, Retiring, Early
  <2> QED
    BY <2>1, <2>2
<1>6. ASSUME Phase(w), ScopePhase(w) PROVE ScopePhase(w)'
  <2>1. UpToDate(worker[w].new) /\ UpToDate(table)
    BY <1>3, <1>6 DEF ScopePhase
  <2>2. worker[w].target \in {worker[w].new, table}
    BY <1>3, <1>6 DEF Phase, PhaseOf, Selecting
  <2> QED
    BY <1>2, <1>3, <1>4, <2>1, <2>2 DEF ScopePhase, UpToDate, Building
<1> QED
  BY <1>3, <1>5, <1>6 DEF Continues

LEMMA CoolFeedsPhase == ASSUME IInv, CoolFeeds PROVE Continues("governor")
<1>a. PICK w : w = "governor"
  OBVIOUS
<1>b. SUFFICES Continues(w)
  BY <1>a
<1> DEFINE r == [worker[w] EXCEPT !.previous = table,
                          !.pc = IF table = NoGen THEN "end" ELSE "install"]
<1>0. w \in Workers /\ At(w, "cool") /\ worker[w] \in WorkerState
  BY <1>a, StandsAt, Names DEF CoolFeeds
<1>1. worker' = [worker EXCEPT ![w] = r]
  BY <1>a, <1>0, StandsAt DEF CoolFeeds, WorkerState
<1>2. /\ r.previous = table /\ r.new = worker[w].new /\ r.next = worker[w].next
      /\ r.pc = IF table = NoGen THEN "end" ELSE "install"
  BY <1>0 DEF WorkerState
<1> HIDE DEF r
<1>3. /\ worker'[w] = r /\ worker[w].pc = "cool" /\ gen \in GenState
      /\ Working(w) /\ Working(w)' /\ \A v \in Workers \ {w} : worker'[v] = worker[v]
  BY <1>0, <1>1, <1>2, Moved
<1>4. /\ table' = table /\ route' = route /\ scope' = scope /\ holder' = holder
      /\ gen' = StopProducers({table})
  BY <1>a DEF CoolFeeds, outside
<1>5. ASSUME Phase(w) PROVE Phase(w)'
  <2>1. Resting /\ worker[w].new = NoGen /\ worker[w].next = "end"
    BY <1>3, <1>5 DEF Phase, PhaseOf, ThenEnds, OldAlone, Early
  <2>2. /\ (worker[w].previous)' = table /\ (worker[w].new)' = NoGen /\ (worker[w].next)' = "end"
        /\ (worker[w].pc)' = IF table = NoGen THEN "end" ELSE "install"
    BY <1>2, <1>3, <2>1
  <2>3. Drained(table)' /\ route' = table'
    BY <1>3, <1>4, <2>1, StopFields
       DEF Resting, Upholds, Drained, Producing, LiveOne, One
  <2>4. table = NoGen => Resting'
    BY <1>4, <2>3 DEF Resting, Upholds, Drained, Producing, LiveOne, One
  <2> QED
    BY <1>4, <2>2, <2>3, <2>4
       DEF Phase, PhaseOf, ThenEnds, OldAlone, OldLeaves, NewBuilt, NewStarted, Selecting, Retiring, Early
<1>6. ASSUME ScopePhase(w) PROVE ScopePhase(w)'
  BY <1>2, <1>3, <1>4, <1>6, StopFields DEF ScopePhase, UpToDate, Building
<1> QED
  BY <1>3, <1>5, <1>6 DEF Continues

LEMMA InstallCooledPhase == ASSUME IInv, InstallCooled PROVE Continues("governor")
<1>a. PICK w : w = "governor"
  OBVIOUS
<1>b. SUFFICES Continues(w)
  BY <1>a
<1>0. w \in Workers /\ At(w, "install") /\ Goto(w, "end")
  BY <1>a DEF InstallCooled, Workers
<1>1. Known(w, "install") /\ Same(w) /\ worker'[w].pc = "end"
  BY <1>0, Goes
<1>2. /\ table' = table /\ route' = route /\ scope' = scope /\ holder' = holder
      /\ gen' = [gen EXCEPT !.cooled = @ \cup {worker[w].previous}]
  BY <1>a DEF InstallCooled, outside
<1>c. /\ gen'.serving = gen.serving /\ gen'.feeding = gen.feeding /\ gen'.watching = gen.watching
      /\ gen'.committed = gen.committed /\ gen'.scope = gen.scope
      /\ gen'.cooled = gen.cooled \cup {worker[w].previous}
  BY <1>1, <1>2 DEF Known, GenState
<1>3. ASSUME Phase(w) PROVE Phase(w)'
  <2>1. /\ Drained(table) /\ route = table /\ worker[w].previous = table
        /\ worker[w].next = "end"
    BY <1>1, <1>3 DEF Phase, PhaseOf, ThenEnds, OldAlone, Known
  <2>2. Resting'
    BY <1>2, <1>c, <2>1 DEF Resting, Upholds, Drained, Producing, LiveOne, One
  <2> QED
    BY <1>0, <1>1, <2>1, <2>2, AtRestAgain DEF Same
<1>4. ASSUME ScopePhase(w) PROVE ScopePhase(w)'
  BY <1>1, <1>2, <1>c, <1>4 DEF ScopePhase, UpToDate, Building, Known
<1> QED
  BY <1>1, <1>3, <1>4 DEF Continues, Known

LEMMA CoolingFailsPhase == ASSUME IInv, CoolingFails PROVE Continues("governor")
<1>a. PICK w : w = "governor"
  OBVIOUS
<1>b. SUFFICES Continues(w)
  BY <1>a
<1>0. w \in Workers /\ At(w, "install") /\ Goto(w, "take")
  BY <1>a DEF CoolingFails, Workers
<1>1. Known(w, "install") /\ Same(w) /\ worker'[w].pc = "take"
  BY <1>0, Goes
<1>2. /\ table' = table /\ route' = route /\ scope' = scope /\ holder' = holder /\ gen' = gen
  BY <1>a DEF CoolingFails, outside
<1>3. ASSUME Phase(w) PROVE Phase(w)'
  BY <1>1, <1>2, <1>3
     DEF Phase, PhaseOf, ThenEnds, OldAlone, OldLeaves, NewBuilt, NewStarted, Selecting, Retiring, Early,
         Known, Same, Drained, Upholds, Producing, LiveOne, One
<1>4. ASSUME ScopePhase(w) PROVE ScopePhase(w)'
  BY <1>1, <1>2, <1>4 DEF ScopePhase, UpToDate, Building, Known
<1> QED
  BY <1>1, <1>3, <1>4 DEF Continues, Known

-----------------------------------------------------------------------------
(* How work begins, goes on and ends without other work beside it.         *)

\* A step of a worker at work.
LEMMA KeepsWorking ==
  ASSUME Seamless, ScopeQueued, ScopeOK, NEW w \in Workers, Continues(w), UNCHANGED outside
  PROVE  Seamless' /\ ScopeQueued' /\ ScopeOK'
<1>1. /\ Working(w) /\ Working(w)' /\ \A v \in Workers \ {w} : worker'[v] = worker[v]
      /\ \A v \in Workers \ {w} : Working(v)' <=> Working(v)
  BY DEF Continues, Working
<1>2. UNCHANGED <<scope, jobs, holder, overlapped>>
  BY DEF outside
<1>3. ~AtRest'
  BY <1>1 DEF AtRest
<1>4. ASSUME ~overlapped PROVE \A v \in Workers : Working(v)' => v = w
  BY <1>1, <1>4 DEF Seamless, Alone
<1>5. ASSUME ~overlapped PROVE Phase(w) /\ Phase(w)'
  BY <1>1, <1>5 DEF Seamless, Continues
<1>6. Seamless'
  BY <1>2, <1>3, <1>4, <1>5 DEF Seamless, Alone
<1>7. ASSUME ~overlapped, ~scope.queued PROVE ScopePhase(w)'
  BY <1>1, <1>5, <1>7 DEF ScopeOK, Continues
<1>8. ScopeOK'
  BY <1>2, <1>3, <1>4, <1>7 DEF ScopeOK
<1>9. ScopeQueued'
  BY <1>1, <1>2, Names DEF ScopeQueued, Working
<1> QED
  BY <1>6, <1>8, <1>9

\* A step that leaves the workers and the generations alone.
LEMMA Stays ==
  ASSUME Seamless, ScopeOK, UNCHANGED <<table, route, gen, overlapped>>,
         \A v \in Workers : Working(v)' <=> Working(v),
         \A v \in Workers : Working(v) => worker'[v] = worker[v],
         scope' = scope \/ scope'.queued,
         holder' = holder \/ ~Working("mutation")
  PROVE  Seamless' /\ ScopeOK'
<1>1. AtRest' <=> AtRest
  BY DEF AtRest
<1>2. Resting' <=> Resting
  BY DEF Resting, Upholds, Producing, LiveOne, One
<1>3. ASSUME NEW v \in Workers, Working(v), Phase(v) PROVE Phase(v)'
  BY <1>2, <1>3
     DEF Phase, PhaseOf, ThenEnds, OldAlone, OldLeaves, NewBuilt, NewStarted, Selecting, Retiring, Early,
         StartedBeside, Beside, Upholds, Drained, Producing, LiveOne, One
<1>4. Seamless'
  BY <1>1, <1>2, <1>3 DEF Seamless, Alone
<1>5. CASE scope'.queued
  BY <1>4, <1>5 DEF ScopeOK
<1>6. CASE scope' = scope
  <2>1. ASSUME NEW v \in Workers, Working(v), ScopePhase(v) PROVE ScopePhase(v)'
    BY <1>6, <2>1 DEF ScopePhase, UpToDate
  <2>2. UpToDate(table)' <=> UpToDate(table)
    BY <1>6 DEF UpToDate
  <2> QED
    BY <1>1, <1>4, <1>6, <2>1, <2>2 DEF ScopeOK
<1> QED
  BY <1>5, <1>6

\* Work that begins where nothing works finds the generation at rest.
LEMMA Begins ==
  ASSUME IInv, Seamless, ScopeOK, NEW w \in Workers, ~Working(w),
         NEW r, worker' = [worker EXCEPT ![w] = r],
         r.pc \in {"sync", "take", "clients", "cool", "end", "done"}, r.new = NoGen,
         r.pc # "take" => r.next = "end",
         UNCHANGED <<table, route, gen>>,
         ~overlapped' => ~overlapped /\ \A o \in Workers \ {w} : ~Working(o),
         \/ scope' = scope
         \/ w = "mutation" /\ holder'.kind = "scope" /\ r.pc = "take"
  PROVE  Seamless' /\ ScopeOK'
<1>1. worker'[w] = r /\ \A v \in Workers \ {w} : worker'[v] = worker[v]
  BY DEF IInv, Typed
<1> SUFFICES ASSUME ~overlapped' PROVE Seamless' /\ ScopeOK'
  BY DEF Seamless, ScopeOK
<1>2. ~overlapped /\ \A o \in Workers \ {w} : ~Working(o)
  OBVIOUS
<1>3. AtRest /\ Resting
  BY <1>2 DEF AtRest, Seamless
<1>4. Working(w)' /\ \A v \in Workers : Working(v)' => v = w
  BY <1>1, <1>2 DEF Working
<1>5. Resting'
  BY <1>3 DEF Resting, Upholds, Producing, LiveOne, One
<1>6. Upholds(table)' /\ route' = table'
  BY <1>5 DEF Resting
<1>7. Phase(w)'
  BY <1>1, <1>5, <1>6
     DEF Phase, PhaseOf, ThenEnds, OldAlone, OldLeaves, NewBuilt, NewStarted, Selecting, Retiring, Early
<1>8. ~AtRest'
  BY <1>4 DEF AtRest
<1>9. Seamless'
  BY <1>4, <1>7, <1>8 DEF Seamless, Alone
<1>10. ASSUME ~scope'.queued PROVE ScopePhase(w)'
  <2>1. CASE scope' = scope
    <3>1. UpToDate(table)
      BY <1>2, <1>3, <1>10, <2>1 DEF ScopeOK
    <3> QED
      BY <1>1, <2>1, <3>1 DEF ScopePhase, UpToDate, Building
  <2>2. CASE w = "mutation" /\ holder'.kind = "scope" /\ r.pc = "take"
    BY <1>1, <2>2 DEF ScopePhase, Building
  <2> QED
    BY <2>1, <2>2
<1> QED
  BY <1>4, <1>8, <1>9, <1>10 DEF ScopeOK

\* Work that ends leaves the generation at rest.
LEMMA Concludes ==
  ASSUME IInv, Seamless, ScopeOK, NEW w \in Workers, worker[w].pc \in {"end", "done"},
         worker' = [worker EXCEPT ![w] = Idle],
         UNCHANGED <<table, route, gen, scope, overlapped>>
  PROVE  Seamless' /\ ScopeOK'
<1>1. worker'[w] = Idle /\ \A v \in Workers \ {w} : worker'[v] = worker[v]
  BY DEF IInv, Typed
<1> SUFFICES ASSUME ~overlapped' PROVE Seamless' /\ ScopeOK'
  BY DEF Seamless, ScopeOK
<1>2. Working(w) /\ \A v \in Workers \ {w} : ~Working(v)
  <2>1. Working(w)
    BY DEF Working
  <2> QED
    BY <2>1 DEF Seamless, Alone
<1>3. \A v \in Workers : ~Working(v)'
  BY <1>1, <1>2, IdleOK DEF Working
<1>4. Resting
  BY <1>2 DEF Seamless, Phase, PhaseOf, OldAlone
<1>5. Resting'
  BY <1>4 DEF Resting, Upholds, Producing, LiveOne, One
<1>6. Seamless'
  BY <1>3, <1>5 DEF Seamless, Alone
<1>7. ASSUME ~scope'.queued PROVE UpToDate(table)'
  BY <1>2, <1>7 DEF ScopeOK, ScopePhase, UpToDate
<1> QED
  BY <1>3, <1>6, <1>7 DEF ScopeOK

-----------------------------------------------------------------------------
(* The steps that begin and end work.                                      *)

LEMMA ScopeJobKind == ScopeJob.kind = "scope" /\ ScopeJob.sel = 0 /\ ScopeJob # NoJob
                        /\ NoJob.kind = "none"
BY DEF ScopeJob, NoJob

LEMMA StartSlottedSeam ==
  ASSUME IInv, Seamless, ScopeQueued, ScopeOK, NEW j \in jobs, StartSlotted(j)
  PROVE  Seamless' /\ ScopeQueued' /\ ScopeOK'
<1>1. worker["mutation"].pc = "idle" /\ Typed
  BY DEF IInv, SlotOK, StartSlotted
<1>2. UNCHANGED <<table, route, gen, overlapped, scope>> /\ jobs' = jobs \ {j} /\ holder = NoJob
  BY DEF StartSlotted
<1>3. CASE ~IsCurrent(j)
  <2>1. UNCHANGED <<holder, worker>> /\ j.kind = "auth"
    BY <1>3 DEF StartSlotted, IsCurrent
  <2>2. Seamless' /\ ScopeOK'
    BY <1>2, <2>1, Stays DEF Working
  <2> QED
    BY <1>2, <2>1, <2>2, ScopeJobKind DEF ScopeQueued
<1>4. CASE IsCurrent(j)
  <2>1. /\ worker'["mutation"].pc = "slot" /\ holder' = j
        /\ \A v \in Workers \ {"mutation"} : worker'[v] = worker[v]
    BY <1>1, <1>4, Names DEF StartSlotted, Goto, Typed, WorkerState
  <2>2. \A v \in Workers : Working(v)' <=> Working(v)
    BY <1>1, <2>1 DEF Working
  <2>3. \A v \in Workers : Working(v) => worker'[v] = worker[v]
    BY <1>1, <2>1 DEF Working
  <2>4. ~Working("mutation")
    BY <1>1 DEF Working
  <2>5. Seamless' /\ ScopeOK'
    BY <1>2, <2>2, <2>3, <2>4, Stays
  <2>6. ScopeQueued'
    BY <1>2, <2>1, ScopeJobKind DEF ScopeQueued
  <2> QED
    BY <2>5, <2>6
<1> QED
  BY <1>3, <1>4

LEMMA StartUnslottedSeam ==
  ASSUME IInv, Seamless, ScopeQueued, ScopeOK, NEW j \in jobs, StartUnslotted(j)
  PROVE  Seamless' /\ ScopeQueued' /\ ScopeOK'
<1> DEFINE r == IF j.kind = "select" THEN [Idle EXCEPT !.pc = "sync"]
                ELSE [Idle EXCEPT !.pc = "take", !.next = "clients"]
<1>1. ~Working("mutation") /\ holder = NoJob
  BY DEF IInv, SlotOK, StartUnslotted, Working
<1>2. /\ r.pc \in {"sync", "take"} /\ r.new = NoGen /\ (r.pc # "take" => r.next = "end")
      /\ worker' = [worker EXCEPT !["mutation"] = r]
  BY DEF StartUnslotted, Idle
<1> HIDE DEF r
<1>3. UNCHANGED <<table, route, gen, scope>> /\ jobs' = jobs \ {j}
      /\ ~Slotted("mutation", j) /\ Overlap("mutation", j)
  BY DEF StartUnslotted
<1>4. ~overlapped' => ~overlapped /\ \A o \in Workers \ {"mutation"} : ~Working(o)
  BY <1>3 DEF Overlap
<1>5. Seamless' /\ ScopeOK'
  BY <1>1, <1>2, <1>3, <1>4, Begins, Names
<1>6. j # ScopeJob
  BY <1>3, ScopeJobKind DEF Slotted
<1>7. ScopeQueued'
  BY <1>1, <1>3, <1>6, ScopeJobKind DEF ScopeQueued
<1> QED
  BY <1>5, <1>7

LEMMA EnterSlotSeam ==
  ASSUME IInv, Seamless, ScopeQueued, ScopeOK, EnterSlot
  PROVE  Seamless' /\ ScopeQueued' /\ ScopeOK'
<1> DEFINE q == CASE ~IsCurrent(holder) -> "end"
                  [] IsCurrent(holder) /\ (holder.teardown \/ holder.kind = "scope") -> "take"
                  [] OTHER -> "clients"
           r == [Idle EXCEPT !.pc = q, !.next = IF holder.kind = "scope" THEN "clients" ELSE "end"]
<1>1. ~Working("mutation") /\ ops.held = {} /\ worker' = [worker EXCEPT !["mutation"] = r]
  BY DEF EnterSlot, Working, SlotFree
<1>2. /\ q \in {"end", "take", "clients"}
      /\ holder.kind = "scope" => q = "take"
  BY DEF IsCurrent
<1> HIDE DEF q
<1>3. /\ r.pc \in {"end", "take", "clients"} /\ r.new = NoGen /\ (r.pc # "take" => r.next = "end")
      /\ (holder.kind = "scope" => r.pc = "take")
  BY <1>2 DEF Idle
<1> HIDE DEF r
<1>4. /\ UNCHANGED <<table, route, gen, jobs, holder>> /\ Overlap("mutation", holder)
      /\ scope' = IF holder.kind = "scope" THEN [scope EXCEPT !.queued = FALSE] ELSE scope
  BY DEF EnterSlot
<1>5. ~Working("revalidator")
  BY <1>1 DEF IInv, SlotOK
<1>6. ~overlapped' => ~overlapped /\ \A o \in Workers \ {"mutation"} : ~Working(o)
  <2>1. ~Slotted("governor", holder)
    BY DEF Slotted
  <2> QED
    BY <1>4, <1>5, <2>1 DEF Overlap, Workers
<1>7. Seamless' /\ ScopeOK'
  BY <1>1, <1>3, <1>4, <1>6, Begins, Names
<1>8. ScopeQueued'
  <2>1. scope \in [version : Nat, queued : BOOLEAN]
    BY DEF IInv, Typed, OutsideOK
  <2> QED
    BY <1>4, <2>1, ScopeJobKind DEF ScopeQueued
<1> QED
  BY <1>7, <1>8

LEMMA EndMutationSeam ==
  ASSUME IInv, Seamless, ScopeQueued, ScopeOK, EndMutation
  PROVE  Seamless' /\ ScopeQueued' /\ ScopeOK'
<1>1. Seamless' /\ ScopeOK'
  BY Concludes, Names DEF EndMutation
<1>2. ScopeQueued'
  BY DEF ScopeQueued, EndMutation
<1> QED
  BY <1>1, <1>2

LEMMA StartReplacementSeam ==
  ASSUME IInv, Seamless, ScopeQueued, ScopeOK, NEW g \in Gens, StartReplacement(g)
  PROVE  Seamless' /\ ScopeQueued' /\ ScopeOK'
<1> DEFINE r == [Idle EXCEPT !.pc = "clients", !.expected = g]
<1>1. ops.begun = {} /\ ops.held = {}
  BY DEF IInv, SlotOK, StartReplacement
<1>2. /\ ~Working("revalidator") /\ worker["mutation"].pc # "slot"
      /\ ~(Working("mutation") /\ Slotted("mutation", holder))
  BY <1>1, Names DEF IInv, SlotOK
<1>3. worker' = [worker EXCEPT !["revalidator"] = r] /\ r.pc = "clients" /\ r.new = NoGen
      /\ r.next = "end"
  BY DEF StartReplacement, Idle
<1> HIDE DEF r
<1>4. /\ UNCHANGED <<table, route, gen, jobs, holder, scope>> /\ Overlap("revalidator", NoJob)
  BY DEF StartReplacement
<1>5. ~overlapped' => ~overlapped /\ \A o \in Workers \ {"revalidator"} : ~Working(o)
  <2>1. ~Slotted("governor", holder)
    BY DEF Slotted
  <2> QED
    BY <1>2, <1>4, <2>1 DEF Overlap, Workers
<1>6. Seamless' /\ ScopeOK'
  BY <1>2, <1>3, <1>4, <1>5, Begins, Names
<1>7. ScopeQueued'
  BY <1>2, <1>4 DEF ScopeQueued
<1> QED
  BY <1>6, <1>7

LEMMA EndReplacementSeam ==
  ASSUME IInv, Seamless, ScopeQueued, ScopeOK, EndReplacement
  PROVE  Seamless' /\ ScopeQueued' /\ ScopeOK'
<1>1. Seamless' /\ ScopeOK'
  BY Concludes, Names DEF EndReplacement
<1>2. worker'["mutation"] = worker["mutation"]
  BY Names DEF IInv, Typed, EndReplacement
<1>3. ScopeQueued'
  BY <1>2 DEF ScopeQueued, EndReplacement
<1> QED
  BY <1>1, <1>3

LEMMA ReconcileSeam ==
  ASSUME IInv, Seamless, ScopeQueued, ScopeOK,
         NEW pc \in {"end", "done", "clients", "cool", "take"}, Reconcile(pc)
  PROVE  Seamless' /\ ScopeQueued' /\ ScopeOK'
<1> DEFINE r == [Idle EXCEPT !.pc = pc, !.next = IF pc = "take" THEN "done" ELSE "end"]
<1>1. ~Working("governor")
  BY DEF Reconcile, Working
<1>2. worker' = [worker EXCEPT !["governor"] = r] /\ r.pc = pc /\ r.new = NoGen
      /\ (r.pc # "take" => r.next = "end")
  BY DEF Reconcile, Idle
<1> HIDE DEF r
<1>3. UNCHANGED <<table, route, gen, jobs, holder, scope>> /\ Overlap("governor", NoJob)
  BY DEF Reconcile
<1>4. ~overlapped' => ~overlapped /\ \A o \in Workers \ {"governor"} : ~Working(o)
  BY <1>3 DEF Overlap, Slotted
<1>5. Seamless' /\ ScopeOK'
  BY <1>1, <1>2, <1>3, <1>4, Begins, Names
<1>6. worker'["mutation"] = worker["mutation"]
  BY <1>2, Names DEF IInv, Typed
<1>7. ScopeQueued'
  BY <1>3, <1>6 DEF ScopeQueued
<1> QED
  BY <1>5, <1>7

LEMMA EndReconcileSeam ==
  ASSUME IInv, Seamless, ScopeQueued, ScopeOK, EndReconcile
  PROVE  Seamless' /\ ScopeQueued' /\ ScopeOK'
<1>1. Seamless' /\ ScopeOK'
  BY Concludes, Names DEF EndReconcile
<1>2. worker'["mutation"] = worker["mutation"]
  BY Names DEF IInv, Typed, EndReconcile
<1>3. ScopeQueued'
  BY <1>2 DEF ScopeQueued, EndReconcile
<1> QED
  BY <1>1, <1>3

-----------------------------------------------------------------------------
(* Outside events move no worker and drop no scope rebuild.                *)

LEMMA OutsideSeam ==
  ASSUME Seamless, ScopeQueued, ScopeOK,
         UNCHANGED <<worker, table, route, gen, overlapped, holder, scope>>,
         ScopeJob \in jobs => ScopeJob \in jobs'
  PROVE  Seamless' /\ ScopeQueued' /\ ScopeOK'
<1>1. Seamless' /\ ScopeOK'
  BY Stays DEF Working
<1>2. ScopeQueued'
  BY DEF ScopeQueued
<1> QED
  BY <1>1, <1>2

LEMMA EditScopeSeam ==
  ASSUME Seamless, ScopeQueued, ScopeOK, EditScope
  PROVE  Seamless' /\ ScopeQueued' /\ ScopeOK'
<1>1. UNCHANGED <<worker, table, route, gen, overlapped, holder>> /\ scope'.queued
      /\ jobs' = IF scope.queued THEN jobs ELSE jobs \cup {ScopeJob}
  BY DEF EditScope, RebuildQueued, ScopeJob
<1>2. Seamless' /\ ScopeOK'
  BY <1>1, Stays DEF Working
<1>3. ScopeQueued'
  BY <1>1 DEF ScopeQueued
<1> QED
  BY <1>2, <1>3

LEMMA QueueSeam ==
  ASSUME Seamless, ScopeQueued, ScopeOK, Drain \/ Consume
  PROVE  Seamless' /\ ScopeQueued' /\ ScopeOK'
<1>1. CASE Drain
  BY <1>1, OutsideSeam DEF Drain
<1>2. CASE Consume
  <2>1. jobs \subseteq jobs'
    BY <1>2 DEF Consume
  <2> QED
    BY <1>2, <2>1, OutsideSeam DEF Consume
<1> QED
  BY <1>1, <1>2

LEMMA SkipSupersededSeam ==
  ASSUME Seamless, ScopeQueued, ScopeOK, NEW j \in jobs, SkipSuperseded(j)
  PROVE  Seamless' /\ ScopeQueued' /\ ScopeOK'
<1>1. j # ScopeJob
  BY ScopeJobKind DEF SkipSuperseded, Superseded
<1> QED
  BY <1>1, OutsideSeam DEF SkipSuperseded

LEMMA StepSeam ==
  ASSUME IInv, Seamless, ScopeQueued, ScopeOK, NEW w \in Workers,
         \/ Take(w) \/ Unroute(w) \/ Drop(w) \/ Retire(w)
         \/ RebuildClients(w) \/ ClientsFail(w) \/ BuildSubsystem(w)
         \/ StartGeneration(w) \/ PublishGeneration(w) \/ SnapshotTopology(w)
         \/ RouteGeneration(w) \/ RoutingFails(w) \/ CommitGeneration(w)
  PROVE  Seamless' /\ ScopeQueued' /\ ScopeOK'
<1>1. Continues(w)
  BY TakePhase, UnroutePhase, DropPhase, RetirePhase, RebuildClientsPhase, ClientsFailPhase,
     BuildSubsystemPhase, StartGenerationPhase, PublishGenerationPhase,
     SnapshotTopologyPhase, RouteGenerationPhase, RoutingFailsPhase, CommitGenerationPhase
<1>2. UNCHANGED outside
  BY DEF Take, Unroute, Drop, Retire, RebuildClients, ClientsFail, BuildSubsystem,
         StartGeneration, PublishGeneration, SnapshotTopology, RouteGeneration, RoutingFails,
         CommitGeneration
<1> QED
  BY <1>1, <1>2, KeepsWorking

LEMMA OwnStepSeam ==
  ASSUME IInv, Seamless, ScopeQueued, ScopeOK,
         \/ CoolFeeds \/ InstallCooled \/ CoolingFails \/ CheckExpected
         \/ SyncClients \/ PlanSelection \/ ApplyRoutes \/ ApplyingFails \/ ReplaceTable
  PROVE  Seamless' /\ ScopeQueued' /\ ScopeOK'
<1>1. UNCHANGED outside
  BY DEF CoolFeeds, InstallCooled, CoolingFails, CheckExpected, SyncClients, PlanSelection,
         ApplyRoutes, ApplyingFails, ReplaceTable
<1>2. \E w \in Workers : Continues(w)
  BY CoolFeedsPhase, InstallCooledPhase, CoolingFailsPhase, CheckExpectedPhase,
     SyncClientsPhase, PlanSelectionPhase, ApplyRoutesPhase, ApplyingFailsPhase,
     ReplaceTablePhase, Names
<1> QED
  BY <1>1, <1>2, KeepsWorking

LEMMA NextSeam ==
  IInv /\ Seamless /\ ScopeQueued /\ ScopeOK /\ [Next]_vars
    => Seamless' /\ ScopeQueued' /\ ScopeOK'
<1> SUFFICES ASSUME IInv, Seamless, ScopeQueued, ScopeOK, [Next]_vars
             PROVE  Seamless' /\ ScopeQueued' /\ ScopeOK'
  OBVIOUS
<1>1. CASE UNCHANGED vars
  BY <1>1, OutsideSeam DEF vars
<1>2. CASE \E next \in {"valid", "recovering", "invalid"} : AuthChanges(next)
  BY <1>2, OutsideSeam DEF AuthChanges
<1>3. CASE TransportFails \/ KubeconfigChanges \/ SwitchTab
  BY <1>3, OutsideSeam DEF TransportFails, KubeconfigChanges, SwitchTab
<1>4. CASE EditScope
  BY <1>4, EditScopeSeam
<1>5. CASE \E supersedes \in BOOLEAN : ChangeSelection(supersedes)
  BY <1>5, OutsideSeam DEF ChangeSelection
<1>6. CASE Drain \/ Consume
  BY <1>6, QueueSeam
<1>7. CASE \E j \in jobs : SkipSuperseded(j) \/ StartSlotted(j) \/ StartUnslotted(j)
  BY <1>7, SkipSupersededSeam, StartSlottedSeam, StartUnslottedSeam
<1>8. CASE EnterSlot \/ EndMutation \/ EndReplacement \/ EndReconcile
  BY <1>8, EnterSlotSeam, EndMutationSeam, EndReplacementSeam, EndReconcileSeam
<1>9. CASE \E g \in Gens : StartReplacement(g)
  BY <1>9, StartReplacementSeam
<1>10. CASE \E pc \in {"end", "done", "clients", "cool", "take"} : Reconcile(pc)
  BY <1>10, ReconcileSeam
<1>11. CASE \/ CoolFeeds \/ InstallCooled \/ CoolingFails \/ CheckExpected
            \/ SyncClients \/ PlanSelection \/ ApplyRoutes \/ ApplyingFails \/ ReplaceTable
  BY <1>11, OwnStepSeam
<1>12. CASE \E w \in Workers :
              \/ Take(w) \/ Unroute(w) \/ Drop(w) \/ Retire(w)
              \/ RebuildClients(w) \/ ClientsFail(w) \/ BuildSubsystem(w)
              \/ StartGeneration(w) \/ PublishGeneration(w) \/ SnapshotTopology(w)
              \/ RouteGeneration(w) \/ RoutingFails(w) \/ CommitGeneration(w)
  BY <1>12, StepSeam
<1> QED
  BY <1>1, <1>2, <1>3, <1>4, <1>5, <1>6, <1>7, <1>8, <1>9, <1>10, <1>11, <1>12 DEF Next

LEMMA InitSeam == Init => Seamless /\ ScopeQueued /\ ScopeOK
<1> SUFFICES ASSUME Init PROVE Seamless /\ ScopeQueued /\ ScopeOK
  OBVIOUS
<1>1. \A w \in Workers : ~Working(w)
  BY IdleOK DEF Init, Working
<1>2. 1 \in Gens /\ 1 # NoGen
  BY MaxGensAssumption DEF Gens, NoGen
<1>3. Resting
  BY <1>2 DEF Init, Resting, Upholds, Producing, LiveOne, One
<1>4. UpToDate(table)
  BY <1>2 DEF Init, UpToDate
<1>5. ~scope.queued
  BY DEF Init
<1> QED
  BY <1>1, <1>3, <1>4, <1>5 DEF Seamless, Alone, ScopeQueued, ScopeOK

LEMMA SeamInvariance == Spec => [](IInv /\ Seamless /\ ScopeQueued /\ ScopeOK)
<1>1. Init => IInv /\ Seamless /\ ScopeQueued /\ ScopeOK
  BY InitIInv, InitSeam
<1>2. (IInv /\ Seamless /\ ScopeQueued /\ ScopeOK) /\ [Next]_vars
        => (IInv /\ Seamless /\ ScopeQueued /\ ScopeOK)'
  BY NextIInv, NextSeam
<1> QED
  BY <1>1, <1>2, PTL DEF Spec

\* Wherever its one worker stands, what is routed serves.
LEMMA PhaseServes == ASSUME IInv, NEW w \in Workers, Working(w), Phase(w) PROVE RouteServes
<1>1. worker[w].pc \in Points \ {"idle", "slot"}
  BY DEF IInv, Typed, WorkerState, Working
<1>2. CASE worker[w].pc \in {"sync", "plan", "clients", "build", "cool", "end", "done", "take",
                             "install"}
  BY <1>2 DEF Phase, PhaseOf, OldAlone, Resting, Upholds, Drained, One, RouteServes
<1>3. CASE worker[w].pc \in {"unroute", "drop"}
  BY <1>3 DEF Phase, PhaseOf, OldLeaves, Upholds, Drained, One, RouteServes
<1>4. CASE worker[w].pc \in {"check", "start"}
  BY <1>4 DEF Phase, PhaseOf, NewBuilt, Beside, One, RouteServes
<1>5. CASE worker[w].pc \in {"publish", "snapshot", "route", "commit"}
  BY <1>5 DEF Phase, PhaseOf, NewStarted, StartedBeside, Beside, One, RouteServes
<1>6. CASE worker[w].pc \in {"apply", "replace"}
  BY <1>6 DEF Phase, PhaseOf, Selecting, Resting, Upholds, Beside, One, RouteServes
<1>7. CASE worker[w].pc = "retire"
  BY <1>7 DEF Phase, PhaseOf, Retiring, StartedBeside, Beside, Upholds, One, RouteServes
<1> QED
  BY <1>1, <1>2, <1>3, <1>4, <1>5, <1>6, <1>7 DEF Points

LEMMA SeamImplies ==
  IInv /\ Seamless /\ ScopeQueued /\ ScopeOK
    => ReplacementIsSeamless /\ OneGeneration /\ ScopeReachesTable
<1> SUFFICES ASSUME IInv, Seamless, ScopeQueued, ScopeOK
             PROVE  ReplacementIsSeamless /\ OneGeneration /\ ScopeReachesTable
  OBVIOUS
<1>1. ReplacementIsSeamless
  <2> SUFFICES ASSUME ~overlapped PROVE RouteServes
    BY DEF ReplacementIsSeamless
  <2>1. CASE AtRest
    BY <2>1 DEF Seamless, Resting, Upholds, One, RouteServes
  <2>2. CASE ~AtRest
    BY <2>2, PhaseServes DEF AtRest, Seamless
  <2> QED
    BY <2>1, <2>2
<1>2. OneGeneration
  <2> SUFFICES ASSUME ~overlapped, AtRest
               PROVE  /\ gen.feeding \cup gen.serving \subseteq {table} /\ route = table
                      /\ gen.watching = {g \in {table} : Live(g)}
    BY DEF OneGeneration
  <2>1. Resting
    BY DEF Seamless
  <2> QED
    BY <2>1 DEF Resting, Upholds, Producing, LiveOne, One, Live
<1>3. ScopeReachesTable
  BY DEF ScopeReachesTable, ScopeQueued, ScopeOK, ScopeJob, UpToDate
<1> QED
  BY <1>1, <1>2, <1>3

\* Replacing a generation is invisible to the streams: as long as work without
\* the cluster's slot has met no other work, the generation the aggregate
\* handlers route to still serves, at every point of a rebuild, a teardown, a
\* selection update and a cooling, whatever fails on the way.
THEOREM SeamlessReplacement == Spec => []ReplacementIsSeamless
<1>1. IInv /\ Seamless /\ ScopeQueued /\ ScopeOK => ReplacementIsSeamless
  BY SeamImplies
<1> QED
  BY <1>1, SeamInvariance, PTL

\* When nothing works on the cluster, exactly the generation in the table
\* serves and feeds, it is the routed one, and its revalidator watches it if it
\* is live: no path of activation, retirement or rollback leaves a second one.
THEOREM OneGenerationLeft == Spec => []OneGeneration
<1>1. IInv /\ Seamless /\ ScopeQueued /\ ScopeOK => OneGeneration
  BY SeamImplies
<1> QED
  BY <1>1, SeamInvariance, PTL

\* A scope edit is never lost: a rebuild that is flagged as queued waits for
\* the lock or the slot, and without one the table's generation was built from
\* the persisted scope.
THEOREM ScopeEditsReachTable == Spec => []ScopeReachesTable
<1>1. IInv /\ Seamless /\ ScopeQueued /\ ScopeOK => ScopeReachesTable
  BY SeamImplies
<1> QED
  BY <1>1, SeamInvariance, PTL
=============================================================================
