------------------------ MODULE SnapshotServiceProofs ------------------------
(***************************************************************************)
(* The safety properties of SnapshotService, and that it implements        *)
(* SnapshotReads, for every number of callers, keys, flights and changes.  *)
(***************************************************************************)
EXTENDS SnapshotService, TLAPS

-----------------------------------------------------------------------------
(* The inductive invariant                                                  *)

\* The calls that have made their plan.
Planned(r) == req[r].at \in {"loading", "joining", "waiting"}

\* v answers every call of the flight's group, and the current
\* announcement if the group is the current one.
Fresh(f, v) ==
  /\ v <= data
  /\ flight[f].group.inv = invalidation => announced <= v
  /\ \A r \in Requests :
       Planned(r) /\ req[r].group.inv = flight[f].group.inv => req[r].asked <= v

Counts ==
  /\ announced <= data
  /\ \A r \in Requests : req[r].asked <= announced
  /\ \A r \in Requests : req[r].group.inv <= invalidation
  /\ \A f \in Slots : flight[f].group.inv <= invalidation

BuildsFresh ==
  \A f \in Slots :
    /\ flight[f].built.kind = "snapshot" => Fresh(f, flight[f].built.version)
    /\ flight[f].result.kind = "snapshot" => Fresh(f, flight[f].result.version)

CacheFresh ==
  \A k \in Keys :
    /\ cache[k].kind \in {"nothing", "snapshot"}
    /\ cache[k].kind = "snapshot" => announced <= cache[k].version /\ cache[k].version <= data

FlightsOK ==
  /\ \A f \in Slots : ~flight[f].completed =>
       /\ flights[flight[f].group] = f
       /\ flight[f].at # "gone"
       /\ flight[f].result = Nothing
  /\ \A f \in Slots : flight[f].at = "storing" => flight[f].built.kind = "snapshot"
  /\ \A f \in Slots : flight[f].at = "completing" => flight[f].built.kind # "nothing"
  /\ \A f \in Slots : flight[f].built.kind # "canceled"
  /\ \A g \in Groups : flights[g] # NoFlight =>
       ~flight[flights[g]].completed /\ flight[flights[g]].group = g

\* A waiting call and its flight.
Served(r, f) ==
  /\ flight[f].group = req[r].group
  /\ flight[f].completed => flight[f].result.kind # "nothing"
  /\ flight[f].result.kind = "canceled" => req[r].cancelled

CallsOK ==
  /\ \A r \in Requests : req[r].at = "waiting" <=> req[r].flight # NoFlight
  /\ \A r \in Requests : req[r].at = "waiting" => Served(r, req[r].flight)
  /\ \A r \in Requests : req[r].at # "idle" => req[r].answer = Nothing
  /\ \A r \in Requests : req[r].at = "idle" => req[r].asked = 0

RetireOK ==
  /\ retired <=> retiring # "no"
  /\ RetiredIsQuiet

IInv == /\ TypeOK
        /\ Counts
        /\ BuildsFresh
        /\ CacheFresh
        /\ FlightsOK
        /\ CallsOK
        /\ RetireOK

-----------------------------------------------------------------------------
(* Facts about the values                                                   *)

\* A result is one of five kinds, and its version tells two of a kind apart.
LEMMA ResultFacts ==
  /\ Nothing \in Results /\ Nothing.kind = "nothing" /\ Nothing.version = 0
  /\ \A v \in Versions : Snapshot(v) \in Results /\ Snapshot(v).kind = "snapshot"
                         /\ Snapshot(v).version = v
  /\ \A e \in {"failed", "canceled", "retired"} :
       Result(e) \in Results /\ Result(e).kind = e
  /\ \A x \in Results :
       /\ x.kind \in {"nothing", "snapshot", "failed", "canceled", "retired"}
       /\ x.version \in Versions
       /\ x.kind = "nothing" => x = Nothing
       /\ x.kind = "snapshot" => x = Snapshot(x.version)
       /\ x.kind \notin {"nothing", "snapshot"} => x \in Errors
BY BoundsAssumption DEF Results, Snapshots, Errors, Nothing, Result, Snapshot, Versions

\* The group an unused flight names is a group of count 0.
LEMMA AGroupFacts == AGroup \in Groups /\ AGroup.inv = 0
<1>1. PICK k \in Keys : TRUE
  BY KeysAssumption
<1>2. [key |-> k, bypass |-> FALSE, inv |-> 0] \in Groups
  BY BoundsAssumption DEF Groups, Versions
<1>3. \E g \in Groups : g.inv = 0
  BY <1>2
<1> QED
  BY <1>3 DEF AGroup

\* The parts of a group key.
LEMMA GroupFacts ==
  \A g \in Groups : g.inv \in Versions /\ g.key \in Keys /\ g.bypass \in BOOLEAN
BY DEF Groups

\* Versions are natural numbers and begin with 0.
LEMMA VersionFacts == Versions \subseteq Nat /\ 0 \in Versions /\ MaxData \in Nat
BY BoundsAssumption DEF Versions

\* A flight that does not exist is completed, without a group's entry or a result.
LEMMA FreeFlightFacts ==
  /\ FreeFlight \in [at : BuildSteps, group : Groups, completed : BOOLEAN,
                     built : Results, result : Results]
  /\ FreeFlight.at = "gone" /\ FreeFlight.completed /\ FreeFlight.group = AGroup
  /\ FreeFlight.built = Nothing /\ FreeFlight.result = Nothing
BY ResultFacts, AGroupFacts DEF FreeFlight, BuildSteps

\* What TypeOK says of one entry, one flight and one call.
LEMMA TypeFacts ==
  ASSUME TypeOK
  PROVE  /\ data \in Nat /\ announced \in Nat /\ invalidation \in Nat
         /\ \A k \in Keys : cache[k] \in Results /\ cache[k].version \in Nat
         /\ \A f \in Slots : /\ flight[f].group \in Groups
                              /\ flight[f].group.inv \in Nat
                              /\ flight[f].built \in Results
                              /\ flight[f].built.version \in Nat
                              /\ flight[f].result \in Results
                              /\ flight[f].result.version \in Nat
         /\ \A r \in Requests : /\ req[r].group \in Groups
                                 /\ req[r].group.inv \in Nat
                                 /\ req[r].asked \in Nat
                                 /\ req[r].flight \in Slots \cup {NoFlight}
                                 /\ req[r].answer \in Results
         /\ \A g \in Groups : flights[g] \in Slots \cup {NoFlight}
<1>1. \A x \in Results : x.version \in Nat
  BY ResultFacts, VersionFacts
<1>2. \A g \in Groups : g.inv \in Nat
  BY GroupFacts, VersionFacts
<1>3. \A k \in Keys : cache[k] \in Results
  BY DEF TypeOK
<1>4. \A f \in Slots : /\ flight[f].group \in Groups /\ flight[f].built \in Results
                      /\ flight[f].result \in Results
  BY DEF TypeOK
<1>5. \A r \in Requests : /\ req[r].group \in Groups /\ req[r].asked \in Versions
                         /\ req[r].flight \in Slots \cup {NoFlight}
                         /\ req[r].answer \in Results
  BY DEF TypeOK
<1>6. data \in Versions /\ announced \in Versions /\ invalidation \in Versions
      /\ \A g \in Groups : flights[g] \in Slots \cup {NoFlight}
  BY DEF TypeOK
<1> QED
  BY <1>1, <1>2, <1>3, <1>4, <1>5, <1>6, VersionFacts

-----------------------------------------------------------------------------
(* The initial state                                                        *)

\* A new service (newService) satisfies the invariant.
LEMMA InitIInv == Init => IInv
<1> SUFFICES ASSUME Init PROVE IInv
  OBVIOUS
<1> USE ResultFacts, AGroupFacts, VersionFacts DEF Init
<1>1. TypeOK
  BY FreeFlightFacts DEF TypeOK, Idle, RequestSteps
<1>2. Counts /\ CacheFresh
  BY FreeFlightFacts DEF Counts, CacheFresh, Idle
<1>3. BuildsFresh
  BY FreeFlightFacts DEF BuildsFresh
<1>4. FlightsOK
  BY FreeFlightFacts DEF FlightsOK
<1>5. CallsOK
  BY DEF CallsOK, Idle
<1>6. RetireOK
  BY DEF RetireOK, RetiredIsQuiet
<1> QED
  BY <1>1, <1>2, <1>3, <1>4, <1>5, <1>6 DEF IInv

-----------------------------------------------------------------------------
(* Steps that leave calls and flights alone                                 *)

\* A change of the stores ages nothing the service holds: it was not announced.
LEMMA ChangeStep == IInv /\ Change => IInv'
<1> SUFFICES ASSUME IInv, Change PROVE IInv'
  OBVIOUS
<1> USE VersionFacts DEF IInv, Change
<1>1. TypeOK'
  BY BoundsAssumption DEF TypeOK, Versions
<1>2. data' = data + 1 /\ data \in Nat
  BY DEF TypeOK
<1>3. Counts'
  BY <1>2, TypeFacts DEF Counts
<1>4. CacheFresh'
  BY <1>2, TypeFacts DEF CacheFresh
<1>5. BuildsFresh'
  BY <1>2, TypeFacts DEF BuildsFresh, Fresh, Planned
<1>6. FlightsOK' /\ CallsOK' /\ RetireOK'
  BY DEF FlightsOK, CallsOK, Served, RetireOK, RetiredIsQuiet
<1> QED
  BY <1>1, <1>3, <1>4, <1>5, <1>6

\* InvalidateDomainCache empties the cache, and no group of the new count exists.
LEMMA InvalidateStep == IInv /\ InvalidateDomainCache => IInv'
<1> SUFFICES ASSUME IInv, InvalidateDomainCache PROVE IInv'
  OBVIOUS
<1> USE VersionFacts, TypeFacts DEF IInv, InvalidateDomainCache
<1>1. /\ invalidation < data /\ invalidation' = invalidation + 1
      /\ announced' = data /\ announced <= data
      /\ \A k \in Keys : cache'[k] = Nothing
  BY DEF Counts
<1>2. TypeOK'
  BY <1>1, ResultFacts DEF TypeOK, Versions
<1>3. Counts'
  BY <1>1 DEF Counts
<1>4. CacheFresh'
  BY <1>1, ResultFacts DEF CacheFresh
<1>5. BuildsFresh'
  BY <1>1 DEF BuildsFresh, Fresh, Planned, Counts
<1>6. FlightsOK' /\ CallsOK'
  BY DEF FlightsOK, CallsOK, Served
<1>7. RetireOK'
  BY <1>1 DEF RetireOK, RetiredIsQuiet
<1> QED
  BY <1>2, <1>3, <1>4, <1>5, <1>6, <1>7

\* Dropping an expired entry (loadCache) keeps the invariant.
LEMMA ExpireStep == ASSUME IInv, NEW k \in Keys, Expire(k) PROVE IInv'
<1> USE VersionFacts, TypeFacts DEF IInv, Expire
<1>1. \A j \in Keys : cache'[j] = IF j = k THEN Nothing ELSE cache[j]
  BY DEF TypeOK
<1>2. TypeOK'
  BY ResultFacts DEF TypeOK
<1>3. CacheFresh'
  BY <1>1, ResultFacts DEF CacheFresh
<1>4. Counts' /\ BuildsFresh' /\ FlightsOK' /\ CallsOK'
  BY DEF Counts, BuildsFresh, Fresh, Planned, FlightsOK, CallsOK, Served
<1>5. RetireOK'
  BY <1>1 DEF RetireOK, RetiredIsQuiet
<1> QED
  BY <1>2, <1>3, <1>4, <1>5

\* Retire sets its flag: from here on calls and builds that look are refused.
LEMMA RetireBegins == IInv /\ Retire => IInv'
<1> SUFFICES ASSUME IInv, Retire PROVE IInv'
  OBVIOUS
<1> USE DEF IInv, Retire
<1>1. TypeOK'
  BY DEF TypeOK
<1>2. Counts' /\ BuildsFresh' /\ CacheFresh' /\ FlightsOK' /\ CallsOK'
  BY DEF Counts, BuildsFresh, Fresh, Planned, CacheFresh, FlightsOK, CallsOK, Served
<1>3. RetireOK'
  BY DEF RetireOK, RetiredIsQuiet
<1> QED
  BY <1>1, <1>2, <1>3

\* Retire's drain gets servingMu only when no builder is inside, then empties the cache.
LEMMA RetireDrainsStep == IInv /\ RetireDrains => IInv'
<1> SUFFICES ASSUME IInv, RetireDrains PROVE IInv'
  OBVIOUS
<1> USE DEF IInv, RetireDrains
<1>1. TypeOK'
  BY ResultFacts DEF TypeOK
<1>2. CacheFresh'
  BY ResultFacts DEF CacheFresh
<1>3. Counts' /\ BuildsFresh' /\ FlightsOK' /\ CallsOK'
  BY DEF Counts, BuildsFresh, Fresh, Planned, FlightsOK, CallsOK, Served
<1>4. RetireOK'
  BY DEF RetireOK, RetiredIsQuiet
<1> QED
  BY <1>1, <1>2, <1>3, <1>4

-----------------------------------------------------------------------------
(* Steps of a call that hold no flight                                      *)

Calls == [at : RequestSteps, group : Groups, asked : Versions, cancelled : BOOLEAN,
          flight : Slots \cup {NoFlight}, answer : Results]

\* A call may become q without touching anything else, as long as q is not
\* waiting, is no younger than the announcement and, once planned, is
\* answered by whatever its group has built.
LEMMA CallChanges ==
  ASSUME IInv, NEW r \in Requests, NEW q \in Calls,
         req' = [req EXCEPT ![r] = q],
         UNCHANGED <<data, announced, invalidation, cache, flights, flight, retired,
                     retiring>>,
         req[r].at # "waiting",
         q.at # "waiting",
         q.flight = NoFlight,
         q.asked <= announced,
         q.group.inv <= invalidation,
         q.at # "idle" => q.answer = Nothing,
         q.at = "idle" => q.asked = 0,
         q.at \in {"loading", "joining"} =>
           \A f \in Slots : flight[f].group.inv = q.group.inv =>
             /\ flight[f].built.kind = "snapshot" => q.asked <= flight[f].built.version
             /\ flight[f].result.kind = "snapshot" => q.asked <= flight[f].result.version
  PROVE  IInv'
<1> USE DEF IInv
<1>1. \A p \in Requests : req'[p] = IF p = r THEN q ELSE req[p]
  BY DEF TypeOK
<1>2. TypeOK'
  BY DEF TypeOK, Calls
<1>3. Counts'
  BY <1>1 DEF Counts
<1>4. CacheFresh' /\ RetireOK' /\ FlightsOK'
  BY DEF CacheFresh, RetireOK, RetiredIsQuiet, FlightsOK
<1>5. BuildsFresh'
  BY <1>1 DEF BuildsFresh, Fresh, Planned
<1>6. CallsOK'
  BY <1>1, TypeFacts, NoFlightAssumption DEF CallsOK, Served
<1> QED
  BY <1>2, <1>3, <1>4, <1>5, <1>6

\* A call that ends keeps nothing but its answer.
LEMMA CallEnds ==
  ASSUME IInv, NEW r \in Requests, NEW res \in Results,
         req[r].at # "waiting",
         req' = Answered(r, res),
         UNCHANGED <<data, announced, invalidation, cache, flights, flight, retired,
                     retiring>>
  PROVE  IInv'
<1>1. Idle(res) \in Calls
  BY AGroupFacts, VersionFacts DEF Idle, Calls, RequestSteps
<1>2. /\ Idle(res).at = "idle" /\ Idle(res).flight = NoFlight /\ Idle(res).asked = 0
      /\ Idle(res).group.inv = 0
  BY AGroupFacts DEF Idle
<1>3. 0 <= announced /\ 0 <= invalidation
  BY TypeFacts DEF IInv
<1> QED
  BY <1>1, <1>2, <1>3, CallChanges DEF Answered

\* A snapshot of the cache answers whatever is announced.
LEMMA CachedFacts ==
  ASSUME IInv, NEW g \in Groups
  PROVE  /\ Cached(g) \in Results
         /\ Cached(g).kind \in {"nothing", "snapshot"}
         /\ Cached(g).kind = "snapshot" =>
              announced <= Cached(g).version /\ Cached(g).version <= data
BY TypeFacts, ResultFacts, GroupFacts DEF Cached, IInv, CacheFresh

\* A call begins with the last announcement as its floor.
LEMMA ArriveStep == ASSUME IInv, NEW r \in Requests, Arrive(r) PROVE IInv'
<1>1. CASE retired
  BY <1>1, ResultFacts, CallEnds DEF Arrive
<1>2. CASE ~retired
  <2> DEFINE q == [Idle(Nothing) EXCEPT !.at = "arrived", !.asked = announced]
  <2>1. /\ q.at = "arrived" /\ q.group = AGroup /\ q.asked = announced
        /\ q.flight = NoFlight /\ q.answer = Nothing
    BY DEF Idle
  <2>2. q \in Calls
    BY AGroupFacts, ResultFacts DEF Idle, Calls, RequestSteps, IInv, TypeOK
  <2>3. announced <= announced /\ 0 <= invalidation
    BY TypeFacts DEF IInv
  <2>4. req' = [req EXCEPT ![r] = q]
    BY <1>2 DEF Arrive
  <2> HIDE DEF q
  <2> QED
    BY <2>1, <2>2, <2>3, <2>4, AGroupFacts, CallChanges DEF Arrive
<1> QED
  BY <1>1, <1>2 DEF IInv, TypeOK

\* A call registers its context with the generation (withGenerationContext).
LEMMA RegisterStep == ASSUME IInv, NEW r \in Requests, Register(r) PROVE IInv'
<1> DEFINE q == [req[r] EXCEPT !.at = "planning"]
<1>1. req[r] \in Calls /\ req[r].at = "arrived"
  BY DEF IInv, TypeOK, Calls, Register
<1>2. /\ q \in Calls /\ q.at = "planning" /\ q.asked = req[r].asked
      /\ q.group = req[r].group /\ q.flight = req[r].flight /\ q.answer = req[r].answer
  BY <1>1 DEF Calls, RequestSteps, Registered
<1>3. /\ req[r].flight = NoFlight /\ req[r].asked <= announced
      /\ req[r].group.inv <= invalidation /\ req[r].answer = Nothing
  BY <1>1 DEF IInv, CallsOK, Counts
<1>4. req' = [req EXCEPT ![r] = q]
  BY DEF Register
<1> HIDE DEF q
<1> QED
  BY <1>1, <1>2, <1>3, <1>4, CallChanges DEF Register

\* A plan that fails (permission, readiness) ends its call with an error.
LEMMA PlanFailsStep == ASSUME IInv, NEW r \in Requests, PlanFails(r) PROVE IInv'
BY ResultFacts, CallEnds DEF PlanFails

\* A plan takes the current count, so every build of its group is at least as new
\* as the last announcement.
LEMMA PlanStep ==
  ASSUME IInv, NEW r \in Requests, NEW k \in Keys, NEW b \in BOOLEAN, Plan(r, k, b)
  PROVE  IInv'
<1>1. CASE req[r].cancelled
  BY <1>1, ResultFacts, CallEnds DEF Plan
<1>2. CASE ~req[r].cancelled
  <2> DEFINE g == [key |-> k, bypass |-> b, inv |-> invalidation]
             q == [req[r] EXCEPT !.at = "loading", !.group = g]
  <2>1. req[r] \in Calls /\ req[r].at = "planning"
    BY DEF IInv, TypeOK, Calls, Plan
  <2>2. g \in Groups /\ g.inv = invalidation
    BY DEF Groups, IInv, TypeOK
  <2> HIDE DEF g
  <2>3. /\ q \in Calls /\ q.at = "loading" /\ q.asked = req[r].asked /\ q.group = g
        /\ q.flight = req[r].flight /\ q.answer = req[r].answer
    BY <2>1, <2>2 DEF Calls, RequestSteps, Registered
  <2>4. /\ req[r].flight = NoFlight /\ req[r].asked <= announced
        /\ req[r].answer = Nothing
    BY <2>1 DEF IInv, CallsOK, Counts
  <2>5. req' = [req EXCEPT ![r] = q]
    BY <1>2, <2>1 DEF Plan, g
  <2>6. ASSUME NEW f \in Slots, flight[f].group.inv = q.group.inv
        PROVE  /\ flight[f].built.kind = "snapshot" => q.asked <= flight[f].built.version
               /\ flight[f].result.kind = "snapshot" => q.asked <= flight[f].result.version
    BY <2>2, <2>3, <2>4, <2>6, TypeFacts DEF IInv, BuildsFresh, Fresh
  <2> HIDE DEF q
  <2>7. invalidation <= invalidation
    BY TypeFacts DEF IInv
  <2> QED
    BY <2>1, <2>2, <2>3, <2>4, <2>5, <2>6, <2>7, CallChanges DEF Plan
<1> QED
  BY <1>1, <1>2

\* A cached snapshot that ends the call is at least as new as its floor.
LEMMA LoadCacheStep == ASSUME IInv, NEW r \in Requests, LoadCache(r) PROVE IInv'
<1>1. req[r] \in Calls /\ req[r].at = "loading" /\ req[r].group \in Groups
  BY DEF IInv, TypeOK, Calls, LoadCache
<1>2. CASE Cached(req[r].group).kind = "snapshot"
  BY <1>1, <1>2, CachedFacts, CallEnds DEF LoadCache
<1>3. CASE Cached(req[r].group).kind # "snapshot"
  <2> DEFINE q == [req[r] EXCEPT !.at = "joining"]
  <2>1. /\ q \in Calls /\ q.at = "joining" /\ q.asked = req[r].asked
        /\ q.group = req[r].group /\ q.flight = req[r].flight /\ q.answer = req[r].answer
    BY <1>1 DEF Calls, RequestSteps, Registered
  <2>2. /\ req[r].flight = NoFlight /\ req[r].asked <= announced
        /\ req[r].group.inv <= invalidation /\ req[r].answer = Nothing
    BY <1>1 DEF IInv, CallsOK, Counts
  <2>3. ASSUME NEW f \in Slots, flight[f].group.inv = q.group.inv
        PROVE  /\ flight[f].built.kind = "snapshot" => q.asked <= flight[f].built.version
               /\ flight[f].result.kind = "snapshot" => q.asked <= flight[f].result.version
    BY <1>1, <2>1, <2>3 DEF IInv, BuildsFresh, Fresh, Planned
  <2>4. req' = [req EXCEPT ![r] = q]
    BY <1>3 DEF LoadCache
  <2> HIDE DEF q
  <2> QED
    BY <1>1, <2>1, <2>2, <2>3, <2>4, CallChanges DEF LoadCache
<1> QED
  BY <1>2, <1>3

\* Cancelling contexts, of one call or of many, changes nothing else.
LEMMA CancelStep == ASSUME IInv, NEW r \in Requests, CallerCancels(r) PROVE IInv'
<1> USE DEF IInv, CallerCancels
<1>1. \A p \in Requests : /\ req'[p].at = req[p].at /\ req'[p].group = req[p].group
                         /\ req'[p].asked = req[p].asked
                         /\ req'[p].flight = req[p].flight
                         /\ req'[p].answer = req[p].answer
                         /\ req[p].cancelled => req'[p].cancelled
  BY DEF TypeOK
<1>2. TypeOK'
  BY DEF TypeOK
<1>3. Counts' /\ CacheFresh' /\ RetireOK' /\ FlightsOK'
  BY <1>1 DEF Counts, CacheFresh, RetireOK, RetiredIsQuiet, FlightsOK
<1>4. BuildsFresh'
  BY <1>1 DEF BuildsFresh, Fresh, Planned
<1>5. CallsOK'
  BY <1>1 DEF CallsOK, Served
<1> QED
  BY <1>2, <1>3, <1>4, <1>5

-----------------------------------------------------------------------------
(* Joining and leaving a flight                                             *)

\* What is built stays fresh while calls only leave their groups and flights
\* only hand results on.
LEMMA FreshKept ==
  ASSUME BuildsFresh,
         UNCHANGED <<data, announced, invalidation>>,
         \A p \in Requests : Planned(p)' =>
           Planned(p) /\ req'[p].group = req[p].group /\ req'[p].asked = req[p].asked,
         \A f \in Slots :
           /\ flight'[f].built.kind = "snapshot" =>
                flight'[f].group = flight[f].group /\ flight'[f].built = flight[f].built
           /\ flight'[f].result.kind = "snapshot" =>
                /\ flight'[f].group = flight[f].group
                /\ flight'[f].result \in {flight[f].built, flight[f].result}
  PROVE  BuildsFresh'
<1>1. ASSUME NEW f \in Slots, NEW v, Fresh(f, v), flight'[f].group = flight[f].group
      PROVE  Fresh(f, v)'
  BY <1>1 DEF Fresh
<1> QED
  BY <1>1 DEF BuildsFresh

\* Joining an existing flight: its group carries the call's own count.
LEMMA JoinOtherStep == ASSUME IInv, NEW r \in Requests, JoinOther(r) PROVE IInv'
<1> USE DEF IInv
<1>1. /\ req[r].at = "joining" /\ req[r].group \in Groups
      /\ flights[req[r].group] # NoFlight /\ flights[req[r].group] \in Slots
  BY TypeFacts DEF JoinOther
<1>2. PICK f \in Slots : f = flights[req[r].group] /\ f # NoFlight
  BY <1>1
<1> DEFINE q == [req[r] EXCEPT !.at = "waiting", !.flight = f]
<1>3. /\ req' = [req EXCEPT ![r] = q]
      /\ UNCHANGED <<data, announced, invalidation, cache, flights, flight, retired,
                     retiring>>
  BY <1>2 DEF JoinOther
<1>4. ~flight[f].completed /\ flight[f].group = req[r].group /\ flight[f].result = Nothing
  BY <1>1, <1>2 DEF FlightsOK
<1>5. /\ q \in Calls /\ q.at = "waiting" /\ q.flight = f /\ q.group = req[r].group
      /\ q.asked = req[r].asked /\ q.answer = req[r].answer
  BY DEF TypeOK, Calls, RequestSteps, Registered
<1>6. \A p \in Requests : req'[p] = IF p = r THEN q ELSE req[p]
  BY <1>3 DEF TypeOK
<1>7. TypeOK'
  BY <1>3, <1>5 DEF TypeOK, Calls
<1> HIDE DEF q
<1>8. Counts'
  BY <1>3, <1>5, <1>6 DEF Counts
<1>9. CacheFresh' /\ RetireOK' /\ FlightsOK'
  BY <1>3 DEF CacheFresh, RetireOK, RetiredIsQuiet, FlightsOK
<1>10. BuildsFresh'
  BY <1>1, <1>3, <1>5, <1>6, FreshKept DEF Planned
<1>11. CallsOK'
  <2>1. Served(r, f)'
    BY <1>3, <1>4, <1>5, <1>6, ResultFacts DEF Served
  <2>2. \A p \in Requests \ {r} : (req[p].at = "waiting" => Served(p, req[p].flight))'
    BY <1>3, <1>6 DEF CallsOK, Served
  <2> QED
    BY <1>1, <1>2, <1>5, <1>6, <2>1, <2>2 DEF CallsOK
<1> QED
  BY <1>7, <1>8, <1>9, <1>10, <1>11

\* A new flight is registered under its group, and its goroutine started.
LEMMA JoinNewStep == ASSUME IInv, NEW r \in Requests, JoinNew(r) PROVE IInv'
<1> USE DEF IInv
<1>1. PICK f \in Slots :
        /\ Free(f)
        /\ flight' = [flight EXCEPT ![f] = NewFlight(req[r].group)]
        /\ flights' = [flights EXCEPT ![req[r].group] = f]
        /\ req' = [req EXCEPT ![r].at = "waiting", ![r].flight = f]
  BY DEF JoinNew
<1>2. /\ req[r].at = "joining" /\ req[r].group \in Groups
      /\ flights[req[r].group] = NoFlight /\ f # NoFlight
      /\ flight[f].at = "gone" /\ \A p \in Requests : req[p].flight # f
      /\ UNCHANGED <<data, announced, invalidation, cache, retired, retiring>>
  BY <1>1, TypeFacts, NoFlightAssumption DEF JoinNew, Free
<1> DEFINE q == [req[r] EXCEPT !.at = "waiting", !.flight = f]
           n == NewFlight(req[r].group)
<1>3. /\ q \in Calls /\ q.at = "waiting" /\ q.flight = f /\ q.group = req[r].group
      /\ q.asked = req[r].asked /\ q.answer = req[r].answer
  BY DEF TypeOK, Calls, RequestSteps, Registered
<1>4. /\ n.at = "start" /\ n.group = req[r].group /\ ~n.completed /\ n.built = Nothing
      /\ n.result = Nothing
      /\ n \in [at : BuildSteps, group : Groups, completed : BOOLEAN, built : Results,
               result : Results]
  BY <1>2, ResultFacts DEF NewFlight, BuildSteps
<1>5. /\ req' = [req EXCEPT ![r] = q]
      /\ \A p \in Requests : req'[p] = IF p = r THEN q ELSE req[p]
  BY <1>1 DEF TypeOK
<1>6. /\ \A e \in Slots : flight'[e] = IF e = f THEN n ELSE flight[e]
      /\ \A g \in Groups : flights'[g] = IF g = req[r].group THEN f ELSE flights[g]
  BY <1>1 DEF TypeOK
<1>7. TypeOK'
  BY <1>1, <1>2, <1>3, <1>4, <1>5 DEF TypeOK, Calls
<1> HIDE DEF q, n
<1>8. Counts'
  BY <1>2, <1>3, <1>4, <1>5, <1>6 DEF Counts
<1>9. CacheFresh' /\ RetireOK'
  BY <1>2, <1>4, <1>6 DEF CacheFresh, RetireOK, RetiredIsQuiet, Serving
<1>10. BuildsFresh'
  BY <1>2, <1>3, <1>4, <1>5, <1>6, ResultFacts, FreshKept DEF Planned
<1>11. FlightsOK'
  <2>1. \A g \in Groups : flights[g] # f
    BY <1>2 DEF FlightsOK
  <2> QED
    BY <1>2, <1>4, <1>6, <2>1, NoFlightAssumption, ResultFacts, TypeFacts DEF FlightsOK
<1>12. CallsOK'
  <2>1. Served(r, f)'
    BY <1>3, <1>4, <1>5, <1>6, ResultFacts DEF Served
  <2>2. \A p \in Requests \ {r} : (req[p].at = "waiting" => Served(p, req[p].flight))'
    BY <1>2, <1>5, <1>6, TypeFacts DEF CallsOK, Served
  <2> QED
    BY <1>2, <1>3, <1>5, <2>1, <2>2 DEF CallsOK
<1> QED
  BY <1>7, <1>8, <1>9, <1>10, <1>11, <1>12

-----------------------------------------------------------------------------
(* Flights that end                                                         *)

Flights == [at : BuildSteps, group : Groups, completed : BOOLEAN, built : Results,
            result : Results]

\* A slot is left as it is, or emptied once its flight is over and unattended.
LEMMA SweptFacts ==
  ASSUME NEW fl, NEW rq, fl \in [Slots -> Flights]
  PROVE  /\ Swept(fl, rq) \in [Slots -> Flights]
         /\ \A f \in Slots :
              \/ Swept(fl, rq)[f] = fl[f]
              \/ /\ Swept(fl, rq)[f] = FreeFlight
                 /\ fl[f].at = "gone"
                 /\ \A r \in Requests : rq[r].flight # f
BY FreeFlightFacts DEF Swept, Flights

\* Finishing gives the flights of F that had none their one result.
LEMMA FinishedFacts ==
  ASSUME NEW fl, NEW F, NEW res \in Results, fl \in [Slots -> Flights]
  PROVE  /\ Finished(fl, F, res) \in [Slots -> Flights]
         /\ \A f \in Slots :
              LET new == Finished(fl, F, res)[f]
              IN  /\ new.at = fl[f].at /\ new.group = fl[f].group
                  /\ new.built = fl[f].built
                  /\ new.completed = (fl[f].completed \/ f \in F)
                  /\ new.result = IF f \in F /\ ~fl[f].completed THEN res
                                  ELSE fl[f].result
<1>1. ASSUME NEW f \in Slots
      PROVE  LET new == Finished(fl, F, res)[f]
             IN  /\ new \in Flights
                 /\ new.at = fl[f].at /\ new.group = fl[f].group
                 /\ new.built = fl[f].built
                 /\ new.completed = (fl[f].completed \/ f \in F)
                 /\ new.result = IF f \in F /\ ~fl[f].completed THEN res
                                 ELSE fl[f].result
  <2>1. fl[f] \in Flights
    OBVIOUS
  <2>2. CASE f \in F /\ ~fl[f].completed
    BY <2>1, <2>2 DEF Finished, Flights
  <2>3. CASE ~(f \in F /\ ~fl[f].completed)
    BY <2>1, <2>3 DEF Finished, Flights
  <2> QED
    BY <2>2, <2>3
<1>2. Finished(fl, F, res) = [f \in Slots |-> Finished(fl, F, res)[f]]
  BY DEF Finished
<1> QED
  BY <1>1, <1>2

\* The request's group is the current one or an old one; a call that ends
\* leaves the types and the other calls as they are.
LEMMA AnsweredFacts ==
  ASSUME TypeOK, NEW r \in Requests, NEW res \in Results
  PROVE  /\ Answered(r, res) \in [Requests -> Calls]
         /\ \A p \in Requests : Answered(r, res)[p] = IF p = r THEN Idle(res) ELSE req[p]
         /\ Idle(res).at = "idle" /\ Idle(res).flight = NoFlight /\ Idle(res).asked = 0
         /\ Idle(res).group.inv = 0
<1>1. Idle(res) \in Calls
  BY AGroupFacts, VersionFacts DEF Idle, Calls, RequestSteps
<1> QED
  BY <1>1, AGroupFacts DEF Answered, Idle, TypeOK, Calls

\* A waiting call takes the result of its flight and leaves.
LEMMA ReceiveStep == ASSUME IInv, NEW r \in Requests, Receive(r) PROVE IInv'
<1> USE DEF IInv
<1> DEFINE res == flight[req[r].flight].result
<1>1. /\ req[r].at = "waiting" /\ req' = Answered(r, res)
      /\ flight' = Swept(flight, req')
      /\ UNCHANGED <<data, announced, invalidation, cache, flights, retired, retiring>>
  BY DEF Receive
<1>2. res \in Results
  BY <1>1, TypeFacts DEF CallsOK
<1>3. /\ \A p \in Requests : p # r => req'[p] = req[p]
      /\ req'[r].at = "idle" /\ req'[r].flight = NoFlight /\ req'[r].asked = 0
      /\ req'[r].group.inv = 0 /\ req' \in [Requests -> Calls]
  BY <1>1, <1>2, AnsweredFacts
<1> HIDE DEF res
<1>4. flight \in [Slots -> Flights]
  BY DEF TypeOK, Flights
<1>5. /\ flight' \in [Slots -> Flights]
      /\ \A e \in Slots : \/ flight'[e] = flight[e]
                         \/ /\ flight'[e] = FreeFlight /\ flight[e].at = "gone"
                            /\ \A p \in Requests : req'[p].flight # e
  BY <1>1, <1>4, SweptFacts
<1>6. TypeOK'
  BY <1>1, <1>3, <1>5 DEF TypeOK, Flights, Calls
<1>7. Counts'
  BY <1>1, <1>3, <1>5, AGroupFacts, FreeFlightFacts, TypeFacts DEF Counts
<1>8. CacheFresh'
  BY <1>1 DEF CacheFresh
<1>9. RetireOK'
  BY <1>1, <1>5, FreeFlightFacts DEF RetireOK, RetiredIsQuiet, Serving
<1>10. BuildsFresh'
  BY <1>1, <1>3, <1>5, FreeFlightFacts, ResultFacts, FreshKept DEF Planned
<1>11. FlightsOK'
  BY <1>1, <1>5, FreeFlightFacts, ResultFacts, TypeFacts DEF FlightsOK
<1>12. CallsOK'
  BY <1>1, <1>3, <1>5, TypeFacts DEF CallsOK, Served
<1> QED
  BY <1>6, <1>7, <1>8, <1>9, <1>10, <1>11, <1>12

\* A slot that is emptied, and a flight of F that ends: what a step that ends
\* flights may do to one slot.
Emptied(e) == /\ flight'[e] = FreeFlight
              /\ \A p \in Requests : req'[p].flight # e
              /\ \A g \in Groups : flights'[g] # e
Ended(e, F) ==
  /\ flight'[e].group = flight[e].group
  /\ flight'[e].completed = (flight[e].completed \/ e \in F)
  /\ \/ flight'[e].at = flight[e].at /\ flight'[e].built = flight[e].built
     \/ /\ flight'[e].at = "gone" /\ flight'[e].built = Nothing
        /\ flight[e].completed \/ e \in F
  /\ \/ flight'[e].result = flight[e].result /\ (flight[e].completed \/ e \notin F)
     \/ /\ ~flight[e].completed /\ e \in F
        /\ flight'[e].result.kind # "nothing"
        /\ flight'[e].result.kind = "snapshot" => flight'[e].result = flight[e].built
        /\ flight'[e].result.kind = "canceled" =>
             \A p \in Requests : req'[p].flight = e => req'[p].cancelled

\* What such a step may do to one call: end it, or cancel its context.
CallEnded(p) == /\ req'[p].at = "idle" /\ req'[p].flight = NoFlight
                /\ req'[p].asked = 0 /\ req'[p].group.inv = 0
CallStays(p) == /\ req'[p].at = req[p].at /\ req'[p].group = req[p].group
                /\ req'[p].asked = req[p].asked /\ req'[p].flight = req[p].flight
                /\ req'[p].answer = req[p].answer
                /\ req[p].cancelled => req'[p].cancelled

\* Every step that finishes the flights of F.
LEMMA FinishStep ==
  ASSUME IInv, TypeOK', RetireOK', CacheFresh', NEW F \in SUBSET Slots,
         UNCHANGED <<data, announced, invalidation>>,
         \A g \in Groups : flights'[g] = IF flights[g] \in F THEN NoFlight ELSE flights[g],
         \A p \in Requests : CallEnded(p) \/ CallStays(p),
         \A e \in Slots : Emptied(e) \/ Ended(e, F)
  PROVE  IInv'
<1> USE DEF IInv
<1>1. Counts'
  BY AGroupFacts, FreeFlightFacts, TypeFacts DEF Counts, Emptied, Ended, CallEnded, CallStays
<1>3. BuildsFresh'
  BY FreeFlightFacts, ResultFacts, FreshKept DEF Planned, Emptied, Ended, CallEnded, CallStays
<1>4. FlightsOK'
  <2>1. ASSUME NEW e \in Slots, ~flight'[e].completed
        PROVE  /\ flights'[flight'[e].group] = e
               /\ flight'[e].at # "gone"
               /\ flight'[e].result = Nothing
    <3>1. Ended(e, F) /\ ~flight[e].completed /\ e \notin F
      BY <2>1, FreeFlightFacts DEF Emptied, Ended
    <3>2. flights[flight[e].group] = e /\ flight[e].group \in Groups
      BY <3>1, TypeFacts DEF FlightsOK
    <3> QED
      BY <3>1, <3>2 DEF Ended, FlightsOK
  <2>2. ASSUME NEW e \in Slots
        PROVE  /\ flight'[e].at = "storing" => flight'[e].built.kind = "snapshot"
               /\ flight'[e].at = "completing" => flight'[e].built.kind # "nothing"
               /\ flight'[e].built.kind # "canceled"
    BY FreeFlightFacts, ResultFacts DEF Emptied, Ended, FlightsOK
  <2>3. ASSUME NEW g \in Groups, flights'[g] # NoFlight
        PROVE  ~flight'[flights'[g]].completed /\ flight'[flights'[g]].group = g
    <3>1. PICK h \in Slots : h = flights[g] /\ h = flights'[g] /\ h \notin F
      BY <2>3, TypeFacts
    <3>2. h # NoFlight /\ ~flight[h].completed /\ flight[h].group = g
      BY <3>1, NoFlightAssumption DEF FlightsOK
    <3>3. Ended(h, F)
      BY <3>1 DEF Emptied
    <3> QED
      BY <3>1, <3>2, <3>3 DEF Ended
  <2> QED
    BY <2>1, <2>2, <2>3 DEF FlightsOK
<1>5. CallsOK'
  <2>1. \A p \in Requests : (req[p].at = "waiting" => Served(p, req[p].flight))'
    <3> SUFFICES ASSUME NEW p \in Requests, req'[p].at = "waiting"
                 PROVE  Served(p, req[p].flight)'
      OBVIOUS
    <3>1. CallStays(p) /\ req[p].at = "waiting" /\ Served(p, req[p].flight)
      BY DEF CallEnded, CallStays, CallsOK
    <3>2. PICK h \in Slots : h = req[p].flight /\ h = req'[p].flight
      BY <3>1, TypeFacts DEF CallStays, CallsOK
    <3>3. Ended(h, F)
      BY <3>2 DEF Emptied
    <3>4. /\ flight[h].group = req[p].group
          /\ flight[h].completed => flight[h].result.kind # "nothing"
          /\ flight[h].result.kind = "canceled" => req[p].cancelled
      BY <3>1, <3>2 DEF Served
    <3>5. flight'[h].group = req'[p].group
      BY <3>1, <3>3, <3>4 DEF Ended, CallStays
    <3>6. flight'[h].completed => flight'[h].result.kind # "nothing"
      BY <3>3, <3>4 DEF Ended
    <3>7. flight'[h].result.kind = "canceled" => req'[p].cancelled
      BY <3>1, <3>2, <3>3, <3>4 DEF Ended, CallStays
    <3> QED
      BY <3>2, <3>5, <3>6, <3>7 DEF Served
  <2>2. \A p \in Requests : (req[p].at = "waiting" <=> req[p].flight # NoFlight)'
    BY DEF CallsOK, CallEnded, CallStays
  <2>3. \A p \in Requests : (req[p].at # "idle" => req[p].answer = Nothing)'
    BY DEF CallsOK, CallEnded, CallStays
  <2>4. \A p \in Requests : (req[p].at = "idle" => req[p].asked = 0)'
    BY DEF CallsOK, CallEnded, CallStays
  <2> QED
    BY <2>1, <2>2, <2>3, <2>4, Zenon DEF CallsOK
<1> QED
  BY <1>1, <1>3, <1>4, <1>5

\* The map never holds a completed flight: Deleted takes all of F out.
LEMMA DeletedFacts ==
  ASSUME IInv, NEW F \in SUBSET Slots
  PROVE  /\ Deleted(F) \in [Groups -> Slots \cup {NoFlight}]
         /\ \A g \in Groups :
              Deleted(F)[g] = IF flights[g] \in F THEN NoFlight ELSE flights[g]
BY TypeFacts, NoFlightAssumption DEF Deleted, IInv, FlightsOK

\* A cancelled call leaves, and cancels the build only if it was the last one waiting.
LEMMA AbandonStep == ASSUME IInv, NEW r \in Requests, Abandon(r) PROVE IInv'
<1> USE DEF IInv
<1> DEFINE res == Result("canceled")
<1>1. PICK f \in Slots : f = req[r].flight
  BY TypeFacts DEF Abandon, CallsOK
<1>2. PICK F \in SUBSET Slots : F = Left(r)
  BY <1>1 DEF Left
<1>3. /\ req[r].at = "waiting" /\ req' = Answered(r, res)
      /\ flights' = Deleted(F)
      /\ flight' = Swept(Finished(flight, F, res), req')
      /\ UNCHANGED <<data, announced, invalidation, cache, retired, retiring>>
  BY <1>2 DEF Abandon
<1>4. res \in Results /\ res.kind = "canceled"
  BY ResultFacts
<1> HIDE DEF res
<1>5. /\ \A p \in Requests : p # r => req'[p] = req[p]
      /\ CallEnded(r) /\ req' \in [Requests -> Calls]
  BY <1>3, <1>4, AnsweredFacts DEF CallEnded
<1>6. flight \in [Slots -> Flights]
  BY DEF TypeOK, Flights
<1> DEFINE fl == Finished(flight, F, res)
<1>7. /\ fl \in [Slots -> Flights]
      /\ \A e \in Slots : /\ fl[e].at = flight[e].at /\ fl[e].group = flight[e].group
                         /\ fl[e].built = flight[e].built
                         /\ fl[e].completed = (flight[e].completed \/ e \in F)
                         /\ fl[e].result = IF e \in F /\ ~flight[e].completed THEN res
                                           ELSE flight[e].result
  BY <1>4, <1>6, FinishedFacts
<1> HIDE DEF fl
<1>8. /\ flight' \in [Slots -> Flights]
      /\ \A e \in Slots : \/ flight'[e] = fl[e]
                         \/ /\ flight'[e] = FreeFlight /\ fl[e].at = "gone"
                            /\ \A p \in Requests : req'[p].flight # e
  BY <1>3, <1>7, SweptFacts DEF fl
<1>9. /\ flights' \in [Groups -> Slots \cup {NoFlight}]
      /\ \A g \in Groups : flights'[g] = IF flights[g] \in F THEN NoFlight ELSE flights[g]
  BY <1>3, DeletedFacts
<1>10. TypeOK'
  BY <1>3, <1>5, <1>8, <1>9 DEF TypeOK, Flights, Calls
<1>11. RetireOK'
  BY <1>3, <1>7, <1>8, FreeFlightFacts DEF RetireOK, RetiredIsQuiet, Serving
<1>12. \A p \in Requests : CallEnded(p) \/ CallStays(p)
  BY <1>5 DEF CallStays
<1>13. ASSUME NEW e \in Slots PROVE Emptied(e) \/ Ended(e, F)
  <2>1. CASE flight'[e] = fl[e]
    <3>1. \A p \in Requests : req'[p].flight = e => e \notin F
      BY <1>1, <1>2, <1>5, NoFlightAssumption DEF Left, OthersWait, CallEnded
    <3> QED
      BY <1>4, <1>7, <2>1, <3>1 DEF Ended
  <2>2. CASE /\ flight'[e] = FreeFlight /\ fl[e].at = "gone"
             /\ \A p \in Requests : req'[p].flight # e
    BY <1>7, <1>9, <2>2, NoFlightAssumption DEF Emptied, FlightsOK
  <2> QED
    BY <1>8, <2>1, <2>2
<1>14. CacheFresh'
  BY <1>3 DEF CacheFresh
<1> QED
  BY <1>3, <1>9, <1>10, <1>11, <1>12, <1>13, <1>14, FinishStep

-----------------------------------------------------------------------------
(* Steps of a build                                                         *)

\* A build under way may become n, its group and result staying, and put a
\* fresh snapshot in the cache on the way.
LEMMA FlightChanges ==
  ASSUME IInv, NEW f \in Slots, NEW n \in Flights,
         flight' = [flight EXCEPT ![f] = n],
         UNCHANGED <<data, announced, invalidation, flights, req, retired, retiring>>,
         cache' \in [Keys -> Results], CacheFresh',
         retiring = "done" => cache' = cache /\ n.at \notin Serving,
         n.group = flight[f].group,
         n.completed = flight[f].completed,
         n.result = flight[f].result,
         n.at # "gone",
         n.at = "storing" => n.built.kind = "snapshot",
         n.at = "completing" => n.built.kind # "nothing",
         n.built.kind # "canceled",
         n.built.kind = "snapshot" => Fresh(f, n.built.version)
  PROVE  IInv'
<1> USE DEF IInv
<1>1. \A e \in Slots : flight'[e] = IF e = f THEN n ELSE flight[e]
  BY DEF TypeOK
<1>2. TypeOK'
  BY DEF TypeOK, Flights
<1>3. Counts'
  BY <1>1 DEF Counts
<1>4. BuildsFresh'
  <2>1. ASSUME NEW e \in Slots, NEW v, Fresh(e, v) PROVE Fresh(e, v)'
    BY <1>1, <2>1 DEF Fresh, Planned
  <2> QED
    BY <1>1, <2>1 DEF BuildsFresh
<1>5. FlightsOK'
  <2>1. ASSUME NEW e \in Slots
        PROVE  /\ flight'[e].group = flight[e].group
               /\ flight'[e].completed = flight[e].completed
               /\ flight'[e].result = flight[e].result
    BY <1>1
  <2>2. \A g \in Groups : (flights[g] # NoFlight =>
          ~flight[flights[g]].completed /\ flight[flights[g]].group = g)'
    BY <2>1, TypeFacts DEF FlightsOK
  <2>3. \A e \in Slots : (~flight[e].completed =>
          /\ flights[flight[e].group] = e
          /\ flight[e].at # "gone"
          /\ flight[e].result = Nothing)'
    BY <1>1, <2>1 DEF FlightsOK
  <2>4. \A e \in Slots : /\ (flight[e].at = "storing" => flight[e].built.kind = "snapshot")'
                        /\ (flight[e].at = "completing" => flight[e].built.kind # "nothing")'
                        /\ (flight[e].built.kind # "canceled")'
    BY <1>1 DEF FlightsOK
  <2> QED
    BY <2>2, <2>3, <2>4 DEF FlightsOK
<1>6. CallsOK'
  BY <1>1, TypeFacts DEF CallsOK, Served
<1>7. RetireOK'
  BY <1>1 DEF RetireOK, RetiredIsQuiet
<1> QED
  BY <1>2, <1>3, <1>4, <1>5, <1>6, <1>7

\* A build that is over leaves its result to complete, or nothing.
LEMMA BuildEnds ==
  ASSUME IInv, NEW f \in Slots, NEW res \in Results,
         flight[f].at # "gone",
         flight' = Built(f, res),
         UNCHANGED <<data, announced, invalidation, flights, req, retired, retiring>>,
         cache' \in [Keys -> Results], CacheFresh',
         retiring = "done" => cache' = cache,
         flight[f].completed \/ res.kind \notin {"nothing", "canceled"},
         res.kind = "snapshot" => Fresh(f, res.version)
  PROVE  IInv'
<1> USE DEF IInv
<1>1. flight \in [Slots -> Flights] /\ flight[f] \in Flights
  BY DEF TypeOK, Flights
<1>2. CASE ~flight[f].completed
  <2> DEFINE n == [flight[f] EXCEPT !.at = "completing", !.built = res]
  <2>1. /\ n \in Flights /\ n.at = "completing" /\ n.built = res
        /\ n.group = flight[f].group /\ n.completed = flight[f].completed
        /\ n.result = flight[f].result
    BY <1>1 DEF Flights, BuildSteps
  <2>2. flight' = [flight EXCEPT ![f] = n]
    BY <1>1, <1>2 DEF Built
  <2> HIDE DEF n
  <2> QED
    BY <1>2, <2>1, <2>2, FlightChanges DEF Serving
<1>3. CASE flight[f].completed
  <2>1. PICK fl \in [Slots -> Flights] :
          /\ \A e \in Slots : e # f => fl[e] = flight[e]
          /\ fl[f].group = flight[f].group /\ fl[f].completed = flight[f].completed
          /\ fl[f].result = flight[f].result
          /\ fl[f].at = "gone" /\ fl[f].built = Nothing
          /\ flight' = Swept(fl, req)
    <3> DEFINE fl == [flight EXCEPT ![f].at = "gone", ![f].built = Nothing]
    <3>1. /\ fl \in [Slots -> Flights]
          /\ \A e \in Slots : e # f => fl[e] = flight[e]
          /\ fl[f].group = flight[f].group /\ fl[f].completed = flight[f].completed
          /\ fl[f].result = flight[f].result
          /\ fl[f].at = "gone" /\ fl[f].built = Nothing
      BY ZenonT(60), <1>1, ResultFacts DEF Flights, BuildSteps
    <3>2. flight' = Swept(fl, req)
      BY <1>3 DEF Built
    <3> QED
      BY <3>1, <3>2
  <2>2. /\ flight' \in [Slots -> Flights]
        /\ \A e \in Slots : \/ flight'[e] = fl[e]
                           \/ /\ flight'[e] = FreeFlight /\ fl[e].at = "gone"
                              /\ \A p \in Requests : req[p].flight # e
    BY <2>1, SweptFacts
  <2>3. TypeOK'
    BY <2>2 DEF TypeOK, Flights
  <2>4. RetireOK'
    <3>1. ASSUME NEW e \in Slots, flight'[e].at \in Serving
          PROVE  flight[e].at \in Serving
      BY <2>1, <2>2, <3>1, FreeFlightFacts DEF Serving
    <3> QED
      BY <3>1 DEF RetireOK, RetiredIsQuiet
  <2>5. ASSUME NEW e \in Slots PROVE Emptied(e) \/ Ended(e, {})
    <3>1. CASE flight'[e] = fl[e]
      <4>1. CASE e = f
        BY <1>3, <2>1, <3>1, <4>1 DEF Ended
      <4>2. CASE e # f
        BY <2>1, <3>1, <4>2, <1>1 DEF Ended, Flights
      <4> QED
        BY <4>1, <4>2
    <3>2. CASE /\ flight'[e] = FreeFlight /\ fl[e].at = "gone"
               /\ \A p \in Requests : req[p].flight # e
      <4>1. flight[e].completed
        BY <1>3, <2>1, <3>2 DEF FlightsOK
      <4> QED
        BY <3>2, <4>1, NoFlightAssumption DEF Emptied, FlightsOK
    <3> QED
      BY <2>2, <3>1, <3>2
  <2>6. \A p \in Requests : CallStays(p)
    BY DEF CallStays
  <2> QED
    BY <2>3, <2>4, <2>5, <2>6, FinishStep
<1> QED
  BY <1>2, <1>3 DEF TypeOK

\* A build takes servingMu and looks at retired once more.
LEMMA EnterBuildStep == ASSUME IInv, NEW f \in Slots, EnterBuild(f) PROVE IInv'
<1> USE DEF IInv
<1>1. /\ flight[f].at = "start" /\ flight \in [Slots -> Flights]
      /\ UNCHANGED <<data, announced, invalidation, cache, flights, req, retired, retiring>>
  BY DEF EnterBuild, TypeOK, Flights
<1>2. cache' \in [Keys -> Results] /\ CacheFresh'
  BY <1>1 DEF TypeOK, CacheFresh
<1>3. CASE retired
  BY <1>1, <1>2, <1>3, ResultFacts, BuildEnds DEF EnterBuild
<1>4. CASE ~retired
  <2> DEFINE n == [flight[f] EXCEPT !.at = "loading"]
  <2>1. /\ n \in Flights /\ n.at = "loading" /\ n.built = flight[f].built
        /\ n.group = flight[f].group /\ n.completed = flight[f].completed
        /\ n.result = flight[f].result
    BY <1>1 DEF Flights, BuildSteps, Serving
  <2>2. flight' = [flight EXCEPT ![f] = n]
    BY <1>4 DEF EnterBuild
  <2> HIDE DEF n
  <2>3. retiring # "done"
    BY <1>4 DEF RetireOK
  <2>4. /\ n.built.kind # "canceled"
        /\ n.built.kind = "snapshot" => Fresh(f, n.built.version)
    BY <2>1 DEF FlightsOK, BuildsFresh
  <2> QED
    BY <1>1, <1>2, <2>1, <2>2, <2>3, <2>4, FlightChanges
<1> QED
  BY <1>3, <1>4 DEF TypeOK

\* A build that finds the cache filled returns the entry.
LEMMA LoadBuildCacheStep == ASSUME IInv, NEW f \in Slots, LoadBuildCache(f) PROVE IInv'
<1> USE DEF IInv
<1>1. /\ flight[f].at = "loading" /\ flight \in [Slots -> Flights]
      /\ flight[f].group \in Groups
      /\ UNCHANGED <<data, announced, invalidation, cache, flights, req, retired, retiring>>
  BY DEF LoadBuildCache, TypeOK, Flights
<1>2. cache' \in [Keys -> Results] /\ CacheFresh'
  BY <1>1 DEF TypeOK, CacheFresh
<1>3. PICK hit \in Results : hit = Cached(flight[f].group)
  BY <1>1, CachedFacts
<1>4. CASE hit.kind = "snapshot"
  <2>1. announced <= hit.version /\ hit.version <= data /\ hit.version \in Nat
    BY <1>1, <1>3, <1>4, CachedFacts, ResultFacts, VersionFacts
  <2>2. Fresh(f, hit.version)
    BY <2>1, TypeFacts DEF Fresh, Counts
  <2>3. flight' = Built(f, hit)
    BY <1>3, <1>4 DEF LoadBuildCache
  <2> QED
    BY <1>1, <1>2, <1>4, <2>2, <2>3, BuildEnds
<1>5. CASE hit.kind # "snapshot"
  <2> DEFINE n == [flight[f] EXCEPT !.at = "reading"]
  <2>1. /\ n \in Flights /\ n.at = "reading" /\ n.built = flight[f].built
        /\ n.group = flight[f].group /\ n.completed = flight[f].completed
        /\ n.result = flight[f].result
    BY <1>1 DEF Flights, BuildSteps, Serving
  <2>2. flight' = [flight EXCEPT ![f] = n]
    BY <1>3, <1>5 DEF LoadBuildCache
  <2> HIDE DEF n
  <2>3. retiring # "done"
    BY <1>1 DEF RetireOK, RetiredIsQuiet, Serving
  <2>4. /\ n.built.kind # "canceled"
        /\ n.built.kind = "snapshot" => Fresh(f, n.built.version)
    BY <2>1 DEF FlightsOK, BuildsFresh
  <2> QED
    BY <1>1, <1>2, <2>1, <2>2, <2>3, <2>4, FlightChanges
<1> QED
  BY <1>4, <1>5

\* A build reads the stores as they are, with all that was announced so far.
LEMMA ReadStoresStep == ASSUME IInv, NEW f \in Slots, ReadStores(f) PROVE IInv'
<1> USE DEF IInv
<1>1. /\ flight[f].at = "reading" /\ flight \in [Slots -> Flights]
      /\ UNCHANGED <<data, announced, invalidation, cache, flights, req, retired, retiring>>
  BY DEF ReadStores, TypeOK, Flights
<1>2. cache' \in [Keys -> Results] /\ CacheFresh'
  BY <1>1 DEF TypeOK, CacheFresh
<1>3. CASE flight[f].completed
  BY <1>1, <1>2, <1>3, ResultFacts, BuildEnds DEF ReadStores
<1>4. CASE ~flight[f].completed
  <2>1. PICK s \in Results : s = Snapshot(data) /\ s.kind = "snapshot" /\ s.version = data
    BY ResultFacts DEF TypeOK
  <2> DEFINE n == [flight[f] EXCEPT !.at = "storing", !.built = s]
  <2>2. /\ n \in Flights /\ n.at = "storing" /\ n.built = s
        /\ n.group = flight[f].group /\ n.completed = flight[f].completed
        /\ n.result = flight[f].result
    BY <1>1 DEF Flights, BuildSteps, Serving
  <2>3. flight' = [flight EXCEPT ![f] = n]
    BY <1>4, <2>1 DEF ReadStores
  <2> HIDE DEF n
  <2>4. retiring # "done"
    BY <1>1 DEF RetireOK, RetiredIsQuiet, Serving
  <2>5. Fresh(f, data)
    BY TypeFacts DEF Fresh, Counts
  <2> QED
    BY <1>1, <1>2, <2>1, <2>2, <2>3, <2>4, <2>5, FlightChanges
<1> QED
  BY <1>3, <1>4

\* A build that fails, or is cancelled, has an error for its calls.
LEMMA BuildFailsStep == ASSUME IInv, NEW f \in Slots, BuildFails(f) PROVE IInv'
<1> USE DEF IInv
<1>1. /\ flight[f].at = "reading" /\ flight' = Built(f, Result("failed"))
      /\ UNCHANGED <<data, announced, invalidation, cache, flights, req, retired, retiring>>
  BY DEF BuildFails
<1>2. cache' \in [Keys -> Results] /\ CacheFresh'
  BY <1>1 DEF TypeOK, CacheFresh
<1> QED
  BY <1>1, <1>2, ResultFacts, BuildEnds

\* A build stores its snapshot only under the count its plan was made with.
LEMMA StoreCacheStep ==
  ASSUME IInv, NEW f \in Slots, NEW whole \in BOOLEAN, StoreCache(f, whole)
  PROVE  IInv'
<1> USE DEF IInv
<1>1. PICK s \in Results : s = flight[f].built
  BY TypeFacts
<1>2. /\ flight[f].at = "storing" /\ flight' = Built(f, s)
      /\ s.kind = "snapshot" /\ Fresh(f, s.version)
      /\ UNCHANGED <<data, announced, invalidation, flights, req, retired, retiring>>
  BY <1>1 DEF StoreCache, FlightsOK, BuildsFresh
<1>3. PICK k \in Keys : k = flight[f].group.key
  BY TypeFacts, GroupFacts
<1>4. \/ cache' = cache
      \/ invalidation = flight[f].group.inv /\ cache' = [cache EXCEPT ![k] = s]
  BY <1>1, <1>3 DEF StoreCache, MayStore
<1>5. cache' \in [Keys -> Results]
  BY <1>4 DEF TypeOK
<1>6. CacheFresh'
  <2>1. CASE cache' = cache
    BY <1>2, <2>1 DEF CacheFresh
  <2>2. CASE invalidation = flight[f].group.inv /\ cache' = [cache EXCEPT ![k] = s]
    <3>1. announced <= s.version /\ s.version <= data
      BY <1>2, <2>2 DEF Fresh
    <3>2. \A j \in Keys : cache'[j] = IF j = k THEN s ELSE cache[j]
      BY <2>2 DEF TypeOK
    <3> QED
      BY <1>2, <3>1, <3>2 DEF CacheFresh
  <2> QED
    BY <1>4, <2>1, <2>2
<1>7. retiring # "done"
  BY <1>2 DEF RetireOK, RetiredIsQuiet, Serving
<1> QED
  BY <1>2, <1>5, <1>6, <1>7, BuildEnds

\* A build hands its result to the flight, unless the flight was cancelled before.
LEMMA CompleteStep == ASSUME IInv, NEW f \in Slots, Complete(f) PROVE IInv'
<1> USE DEF IInv
<1>1. PICK res \in Results : res = flight[f].built
  BY TypeFacts
<1>2. /\ flight[f].at = "completing" /\ res.kind # "nothing" /\ res.kind # "canceled"
      /\ flights' = Deleted({f})
      /\ UNCHANGED <<data, announced, invalidation, cache, req, retired, retiring>>
  BY <1>1 DEF Complete, FlightsOK
<1>3. flight \in [Slots -> Flights]
  BY DEF TypeOK, Flights
<1>4. PICK fl \in [Slots -> Flights] :
        /\ fl = Finished(flight, {f}, res)
        /\ \A e \in Slots : /\ fl[e].at = flight[e].at /\ fl[e].group = flight[e].group
                           /\ fl[e].built = flight[e].built
                           /\ fl[e].completed = (flight[e].completed \/ e \in {f})
                           /\ fl[e].result = IF e \in {f} /\ ~flight[e].completed THEN res
                                             ELSE flight[e].result
  BY <1>3, FinishedFacts
<1>5. PICK fm \in [Slots -> Flights] :
        /\ fm = [fl EXCEPT ![f].at = "gone", ![f].built = Nothing]
        /\ \A e \in Slots : e # f => fm[e] = fl[e]
        /\ fm[f].at = "gone" /\ fm[f].built = Nothing /\ fm[f].group = fl[f].group
        /\ fm[f].completed = fl[f].completed /\ fm[f].result = fl[f].result
  <2> DEFINE fm == [fl EXCEPT ![f].at = "gone", ![f].built = Nothing]
  <2>1. fl \in [Slots -> Flights] /\ fl[f] \in Flights
    OBVIOUS
  <2>2. /\ fm \in [Slots -> Flights]
        /\ \A e \in Slots : e # f => fm[e] = fl[e]
        /\ fm[f].at = "gone" /\ fm[f].built = Nothing /\ fm[f].group = fl[f].group
        /\ fm[f].completed = fl[f].completed /\ fm[f].result = fl[f].result
    BY <2>1, ResultFacts DEF Flights, BuildSteps
  <2> QED
    BY <2>2
<1>6. /\ flight' = Swept(fm, req)
      /\ fm[f].at = "gone" /\ fm[f].built = Nothing /\ fm[f].group = flight[f].group
      /\ fm[f].completed
      /\ flight[f].completed => fm[f].result = flight[f].result
      /\ ~flight[f].completed => fm[f].result = res
      /\ \A e \in Slots \ {f} :
           /\ fm[e].at = flight[e].at /\ fm[e].group = flight[e].group
           /\ fm[e].built = flight[e].built /\ fm[e].result = flight[e].result
           /\ fm[e].completed = flight[e].completed
  <2>1. flight' = Swept(fm, req)
    BY <1>1, <1>4, <1>5 DEF Complete
  <2>2. fm[f].completed
    BY <1>4, <1>5
  <2>3. ASSUME NEW e \in Slots, e # f
        PROVE  fm[e].completed = flight[e].completed
    <3>1. fl[e].completed = (flight[e].completed \/ e \in {f}) /\ fm[e] = fl[e]
      BY <1>4, <1>5, <2>3
    <3>2. flight[e].completed \in BOOLEAN
      BY <1>3 DEF Flights
    <3>3. (flight[e].completed \/ e \in {f}) = flight[e].completed
      BY <2>3, <3>2
    <3> QED
      BY <3>1, <3>3
  <2> QED
    BY <1>4, <1>5, <2>1, <2>2, <2>3
<1>7. /\ flight' \in [Slots -> Flights]
      /\ \A e \in Slots : \/ flight'[e] = fm[e]
                         \/ /\ flight'[e] = FreeFlight /\ fm[e].at = "gone"
                            /\ \A p \in Requests : req[p].flight # e
  <2>1. flight' = Swept(fm, req) /\ fm \in [Slots -> Flights]
    BY <1>6
  <2> QED
    BY <2>1, SweptFacts
<1>8. /\ flights' \in [Groups -> Slots \cup {NoFlight}]
      /\ \A g \in Groups : flights'[g] = IF flights[g] \in {f} THEN NoFlight ELSE flights[g]
  BY <1>2, DeletedFacts
<1>9. TypeOK'
  BY <1>2, <1>7, <1>8 DEF TypeOK, Flights
<1>10. CacheFresh'
  BY <1>2 DEF CacheFresh
<1>11. RetireOK'
  <2>1. ASSUME NEW e \in Slots, flight'[e].at \in Serving
        PROVE  flight[e].at \in Serving
    BY <1>6, <1>7, <2>1, FreeFlightFacts DEF Serving
  <2> QED
    BY <1>2, <2>1 DEF RetireOK, RetiredIsQuiet
<1>12. ASSUME NEW e \in Slots PROVE Emptied(e) \/ Ended(e, {f})
  <2>1. CASE flight'[e] = fm[e]
    <3>1. CASE e = f
      BY <1>1, <1>2, <1>6, <2>1, <3>1 DEF Ended
    <3>2. CASE e # f
      BY <1>3, <1>6, <2>1, <3>2 DEF Ended, Flights
    <3> QED
      BY <3>1, <3>2
  <2>2. CASE /\ flight'[e] = FreeFlight /\ fm[e].at = "gone"
             /\ \A p \in Requests : req[p].flight # e
    <3>1. \A g \in Groups : flights'[g] # e
      <4>1. CASE e = f
        BY <1>8, <4>1, NoFlightAssumption
      <4>2. CASE e # f
        <5>1. flight[e].completed
          BY <1>6, <2>2, <4>2 DEF FlightsOK
        <5> QED
          BY <1>8, <5>1, NoFlightAssumption DEF FlightsOK
      <4> QED
        BY <4>1, <4>2
    <3> QED
      BY <1>2, <2>2, <3>1 DEF Emptied
  <2> QED
    BY <1>7, <2>1, <2>2
<1>13. \A p \in Requests : CallStays(p)
  BY <1>2 DEF CallStays
<1> QED
  BY <1>2, <1>8, <1>9, <1>10, <1>11, <1>12, <1>13, FinishStep

-----------------------------------------------------------------------------
(* CancelInFlight and Retire                                                *)

\* cancelAll completes every registered flight with a cancellation for its calls.
LEMMA CancelAllStep ==
  ASSUME IInv, CancelAll, UNCHANGED <<data, announced, invalidation, cache>>,
         TypeOK', RetireOK'
  PROVE  IInv'
<1> USE DEF IInv
<1>1. PICK res \in Results : res = Result("canceled") /\ res.kind = "canceled"
  BY ResultFacts
<1>2. PICK F \in SUBSET Slots : F = Current
  BY TypeFacts DEF Current
<1>3. \A g \in Groups : flights'[g] = IF flights[g] \in F THEN NoFlight ELSE flights[g]
  BY <1>2 DEF CancelAll, Current
<1>4. \A p \in Requests : CallStays(p) /\ (req[p].at \in Registered => req'[p].cancelled)
  BY DEF CancelAll, CallStays, TypeOK
<1>5. /\ flight' = Finished(flight, F, res)
      /\ flight \in [Slots -> Flights]
  BY <1>1, <1>2 DEF CancelAll, TypeOK, Flights
<1>6. \A e \in Slots : /\ flight'[e].at = flight[e].at /\ flight'[e].group = flight[e].group
                      /\ flight'[e].built = flight[e].built
                      /\ flight'[e].completed = (flight[e].completed \/ e \in F)
                      /\ flight'[e].result = IF e \in F /\ ~flight[e].completed THEN res
                                              ELSE flight[e].result
  BY <1>5, FinishedFacts
<1>7. ASSUME NEW e \in Slots PROVE Ended(e, F)
  <2>1. \A p \in Requests : req'[p].flight = e => req'[p].cancelled
    BY <1>4, NoFlightAssumption DEF CallStays, CallsOK, Registered
  <2> QED
    BY <1>1, <1>6, <2>1 DEF Ended
<1>8. CacheFresh'
  BY DEF CacheFresh
<1> QED
  BY <1>3, <1>4, <1>7, <1>8, FinishStep

\* cancelAll leaves well-typed flights and calls.
LEMMA CancelAllTypes ==
  ASSUME TypeOK, CancelAll
  PROVE  /\ flights' \in [Groups -> Slots \cup {NoFlight}]
         /\ flight' \in [Slots -> Flights]
         /\ req' \in [Requests -> Calls]
         /\ \A e \in Slots : flight'[e].at = flight[e].at
<1>1. flight \in [Slots -> Flights] /\ req \in [Requests -> Calls]
  BY DEF TypeOK, Flights, Calls
<1>2. flight' \in [Slots -> Flights] /\ \A e \in Slots : flight'[e].at = flight[e].at
  BY <1>1, ResultFacts, FinishedFacts DEF CancelAll
<1>3. req' \in [Requests -> Calls]
  BY <1>1 DEF CancelAll, Calls
<1> QED
  BY <1>2, <1>3 DEF CancelAll

\* CancelInFlight (a cooled cluster) cancels the calls and their flights.
LEMMA CancelInFlightStep == IInv /\ CancelInFlight => IInv'
<1> SUFFICES ASSUME IInv, CancelInFlight PROVE IInv'
  OBVIOUS
<1>1. TypeOK' /\ RetireOK'
  BY CancelAllTypes DEF CancelInFlight, IInv, TypeOK, Flights, Calls, RetireOK, RetiredIsQuiet
<1> QED
  BY <1>1, CancelAllStep DEF CancelInFlight

\* Retire's second step cancels the calls and their flights.
LEMMA RetireCancelsStep == IInv /\ RetireCancels => IInv'
<1> SUFFICES ASSUME IInv, RetireCancels PROVE IInv'
  OBVIOUS
<1>1. TypeOK' /\ RetireOK'
  BY CancelAllTypes DEF RetireCancels, IInv, TypeOK, Flights, Calls, RetireOK, RetiredIsQuiet
<1> QED
  BY <1>1, CancelAllStep DEF RetireCancels

-----------------------------------------------------------------------------
(* The theorems                                                             *)

\* The invariant speaks of the variables only.
LEMMA StutterStep == IInv /\ UNCHANGED vars => IInv'
BY DEF IInv, vars, TypeOK, Counts, BuildsFresh, Fresh, Planned, CacheFresh, FlightsOK,
       CallsOK, Served, RetireOK, RetiredIsQuiet

\* Every step of the service keeps the invariant.
LEMMA NextIInv == IInv /\ [Next]_vars => IInv'
<1> SUFFICES ASSUME IInv, [Next]_vars PROVE IInv'
  OBVIOUS
<1>1. CASE \E r \in Requests : RequestStep(r)
  BY <1>1, ArriveStep, RegisterStep, PlanFailsStep, PlanStep, LoadCacheStep, JoinOtherStep,
     JoinNewStep, ReceiveStep, AbandonStep, CancelStep, BypassesAssumption DEF RequestStep
<1>2. CASE \E f \in Slots : BuildStep(f)
  BY <1>2, EnterBuildStep, LoadBuildCacheStep, ReadStoresStep, BuildFailsStep,
     StoreCacheStep, CompleteStep DEF BuildStep
<1>3. CASE Change \/ InvalidateDomainCache \/ \E k \in Keys : Expire(k)
  BY <1>3, ChangeStep, InvalidateStep, ExpireStep
<1>4. CASE CancelInFlight \/ Retire \/ RetireStep
  BY <1>4, CancelInFlightStep, RetireBegins, RetireCancelsStep, RetireDrainsStep
     DEF RetireStep
<1>5. CASE UNCHANGED vars
  BY <1>5, StutterStep
<1> QED
  BY <1>1, <1>2, <1>3, <1>4, <1>5 DEF Next

\* The inductive invariant holds of every reachable state.
THEOREM Inductive == Spec => []IInv
BY InitIInv, NextIInv, PTL DEF Spec

(***************************************************************************)
(* The variables of Service and of its flights keep their types.           *)
(***************************************************************************)
THEOREM TypeCorrect == Spec => []TypeOK
BY Inductive, PTL DEF IInv

(***************************************************************************)
(* A shared flight never hands data from before a change to a call asked   *)
(* after its announcement, and the cache never holds such data.            *)
(***************************************************************************)
THEOREM Freshness == Spec => []AnswersAreFresh
<1>1. IInv => AnswersAreFresh
  <2> SUFFICES ASSUME IInv PROVE AnswersAreFresh
    OBVIOUS
  <2>1. ASSUME NEW r \in Requests, req[r].at = "waiting",
               flight[req[r].flight].result.kind = "snapshot"
        PROVE  req[r].asked <= flight[req[r].flight].result.version
    <3>1. PICK f \in Slots : f = req[r].flight
      BY <2>1, TypeFacts DEF IInv, CallsOK
    <3>2. flight[f].group = req[r].group /\ Fresh(f, flight[f].result.version)
      BY <2>1, <3>1 DEF IInv, CallsOK, Served, BuildsFresh
    <3> QED
      BY <2>1, <3>1, <3>2 DEF Fresh, Planned
  <2>2. \A k \in Keys : cache[k].kind = "snapshot" => announced <= cache[k].version
    BY DEF IInv, CacheFresh
  <2> QED
    BY <2>1, <2>2 DEF AnswersAreFresh
<1> QED
  BY <1>1, Inductive, PTL

(***************************************************************************)
(* No call gets the cancellation of another that shares its flight.        *)
(***************************************************************************)
THEOREM OwnCancellation == Spec => []NoForeignCancellation
<1>1. IInv => NoForeignCancellation
  BY DEF IInv, CallsOK, Served, NoForeignCancellation
<1> QED
  BY <1>1, Inductive, PTL

(***************************************************************************)
(* One live build per group, found by every later call; no waiting call is *)
(* left without a result and without a goroutine to give it one.           *)
(***************************************************************************)
THEOREM SharedBuilds == Spec => []OneBuildPerGroup
<1>1. IInv => OneBuildPerGroup
  BY TypeFacts DEF IInv, CallsOK, FlightsOK, OneBuildPerGroup
<1> QED
  BY <1>1, Inductive, PTL

(***************************************************************************)
(* After Retire returns no builder is inside the released stores.          *)
(***************************************************************************)
THEOREM Retirement == Spec => []RetiredIsQuiet
<1>1. IInv => RetiredIsQuiet
  BY DEF IInv, RetireOK
<1> QED
  BY <1>1, Inductive, PTL

-----------------------------------------------------------------------------
(* The refinement                                                           *)

Read == [r \in Requests |-> ReadOf(req[r])]

\* A step that changes nothing of the reads and the stores' history.
LEMMA InvisibleStep ==
  ASSUME UNCHANGED <<data, announced>>,
         \A p \in Requests : ReadOf(req[p])' = ReadOf(req[p])
  PROVE  UNCHANGED Reads!vars
BY DEF Reads!vars

\* A step of one call changes the read of that call alone.
LEMMA OneRead ==
  ASSUME TypeOK, NEW r \in Requests, NEW q, req' = [req EXCEPT ![r] = q]
  PROVE  Read' = [Read EXCEPT ![r] = ReadOf(q)]
BY DEF Read, ReadOf, TypeOK

\* A call that ends with an error or with a fresh snapshot is an answer.
LEMMA AnswerRefines ==
  ASSUME IInv, NEW r \in Requests, NEW res \in Results, req[r].at # "idle",
         req' = Answered(r, res), UNCHANGED <<data, announced>>,
         res.kind # "nothing",
         res.kind = "snapshot" => req[r].asked <= res.version /\ res.version <= data
  PROVE  Reads!Next
<1>1. Read' = [Read EXCEPT ![r] = Reads!Idle(res)]
  <2>1. ReadOf(Idle(res)) = Reads!Idle(res)
    BY DEF ReadOf, Idle, Reads!Idle
  <2> QED
    BY <2>1, OneRead DEF Answered, IInv
<1>2. Read[r].asking /\ Read[r].floor = req[r].asked
  BY DEF Read, ReadOf
<1>3. CASE res.kind = "snapshot"
  <2>1. PICK v \in Versions : v = res.version /\ res = Snapshot(v)
    BY <1>3, ResultFacts
  <2>2. v \in Read[r].floor .. data
    BY <1>2, <1>3, <2>1, TypeFacts, VersionFacts DEF IInv
  <2>3. Reads!AnswerSnapshot(r)
    BY <1>1, <1>2, <2>1, <2>2 DEF Reads!AnswerSnapshot, Read, Snapshot
  <2> QED
    BY <2>3 DEF Reads!Next
<1>4. CASE res.kind # "snapshot"
  <2>1. res \in Reads!Errors
    BY <1>4, ResultFacts DEF Reads!Errors, Reads!Error, Errors, Result
  <2>2. Reads!AnswerError(r)
    BY <1>1, <1>2, <2>1 DEF Reads!AnswerError, Read
  <2> QED
    BY <2>2 DEF Reads!Next
<1> QED
  BY <1>3, <1>4

\* A call that begins is an Ask of the contract, or a Refuse once retired.
LEMMA ArriveRefines ==
  ASSUME IInv, NEW r \in Requests, Arrive(r) PROVE Reads!Next
<1>1. req[r].at = "idle" /\ ~Read[r].asking /\ UNCHANGED <<data, announced>>
  BY DEF Arrive, Read, ReadOf
<1>2. CASE retired
  <2>1. ReadOf(Idle(Result("retired"))) = Reads!Idle(Reads!Error("retired"))
    BY DEF ReadOf, Idle, Reads!Idle, Result, Reads!Error
  <2>2. Read' = [Read EXCEPT ![r] = Reads!Idle(Reads!Error("retired"))]
    BY <1>2, <2>1, OneRead DEF Arrive, Answered, IInv
  <2>3. Reads!Refuse(r)
    BY <1>1, <2>2 DEF Reads!Refuse, Read
  <2> QED
    BY <2>3 DEF Reads!Next
<1>3. CASE ~retired
  <2> DEFINE q == [Idle(Nothing) EXCEPT !.at = "arrived", !.asked = announced]
  <2>1. ReadOf(q) = [asking |-> TRUE, floor |-> announced, answer |-> Reads!Error("nothing")]
    BY DEF ReadOf, Idle, Nothing, Result, Reads!Error
  <2>2. req' = [req EXCEPT ![r] = q]
    BY <1>3 DEF Arrive
  <2> HIDE DEF q
  <2>3. Read' = [Read EXCEPT ![r] = [asking |-> TRUE, floor |-> announced,
                                     answer |-> Reads!Error("nothing")]]
    BY <2>1, <2>2, OneRead DEF IInv
  <2>4. Reads!Ask(r)
    BY <1>1, <2>3 DEF Reads!Ask, Read
  <2> QED
    BY <2>4 DEF Reads!Next
<1> QED
  BY <1>2, <1>3 DEF IInv, TypeOK

\* The steps of a call between its start and its answer.
LEMMA SilentRefines ==
  ASSUME IInv, NEW r \in Requests,
         \/ Register(r)
         \/ \E k \in Keys, b \in Bypasses : Plan(r, k, b) /\ ~req[r].cancelled
         \/ LoadCache(r) /\ Cached(req[r].group).kind # "snapshot"
         \/ JoinOther(r) \/ JoinNew(r) \/ CallerCancels(r)
  PROVE  UNCHANGED Reads!vars
<1>1. /\ UNCHANGED <<data, announced>>
      /\ \A p \in Requests : /\ req'[p].at = "idle" <=> req[p].at = "idle"
                            /\ req'[p].asked = req[p].asked
                            /\ req'[p].answer = req[p].answer
  <2>1. CASE Register(r)
    BY <2>1 DEF Register, IInv, TypeOK
  <2>2. CASE \E k \in Keys, b \in Bypasses : Plan(r, k, b) /\ ~req[r].cancelled
    <3>1. PICK k \in Keys, b \in Bypasses :
            req' = [req EXCEPT ![r].at = "loading",
                              ![r].group = [key |-> k, bypass |-> b, inv |-> invalidation]]
      BY <2>2 DEF Plan
    <3>2. req[r].at = "planning" /\ UNCHANGED <<data, announced>>
      BY <2>2 DEF Plan
    <3> QED
      BY <3>1, <3>2 DEF IInv, TypeOK
  <2>3. CASE LoadCache(r) /\ Cached(req[r].group).kind # "snapshot"
    <3>1. /\ req' = [req EXCEPT ![r].at = "joining"] /\ req[r].at = "loading"
          /\ UNCHANGED <<data, announced>>
      BY <2>3 DEF LoadCache
    <3> QED
      BY <3>1 DEF IInv, TypeOK
  <2>4. CASE JoinOther(r)
    BY <2>4 DEF JoinOther, IInv, TypeOK
  <2>5. CASE JoinNew(r)
    <3>1. PICK f \in Slots : req' = [req EXCEPT ![r].at = "waiting", ![r].flight = f]
      BY <2>5 DEF JoinNew
    <3>2. req[r].at = "joining" /\ UNCHANGED <<data, announced>>
      BY <2>5 DEF JoinNew
    <3> QED
      BY <3>1, <3>2 DEF IInv, TypeOK
  <2>6. CASE CallerCancels(r)
    BY <2>6 DEF CallerCancels, IInv, TypeOK
  <2> QED
    BY <2>1, <2>2, <2>3, <2>4, <2>5, <2>6
<1>2. \A p \in Requests : ReadOf(req[p])' = ReadOf(req[p])
  BY <1>1 DEF ReadOf
<1> QED
  BY <1>1, <1>2, InvisibleStep

\* What a call does is a step of the contract or is invisible to it.
LEMMA RequestRefines ==
  ASSUME IInv, NEW r \in Requests, RequestStep(r) PROVE Reads!Next \/ UNCHANGED Reads!vars
<1>1. CASE Arrive(r)
  BY <1>1, ArriveRefines
<1>2. CASE PlanFails(r)
  BY <1>2, ResultFacts, AnswerRefines DEF PlanFails
<1>3. ASSUME NEW k \in Keys, NEW b \in Bypasses, Plan(r, k, b)
      PROVE  Reads!Next \/ UNCHANGED Reads!vars
  <2>1. CASE req[r].cancelled
    BY <1>3, <2>1, ResultFacts, AnswerRefines DEF Plan
  <2>2. CASE ~req[r].cancelled
    BY <1>3, <2>2, SilentRefines
  <2> QED
    BY <2>1, <2>2
<1>4. CASE LoadCache(r)
  <2>1. CASE Cached(req[r].group).kind = "snapshot"
    <3>1. PICK hit \in Results : hit = Cached(req[r].group)
      BY CachedFacts, TypeFacts DEF IInv
    <3>2. req[r].asked <= hit.version /\ hit.version <= data
      <4>1. announced <= hit.version /\ hit.version <= data
        BY <2>1, <3>1, CachedFacts, TypeFacts DEF IInv
      <4>2. req[r].asked <= announced /\ req[r].asked \in Nat /\ announced \in Nat
        BY TypeFacts DEF IInv, Counts
      <4>3. hit.version \in Nat
        BY ResultFacts, VersionFacts
      <4> QED
        BY <4>1, <4>2, <4>3
    <3>3. /\ req' = Answered(r, hit) /\ req[r].at # "idle" /\ hit.kind # "nothing"
          /\ UNCHANGED <<data, announced>>
      BY <1>4, <2>1, <3>1 DEF LoadCache
    <3> QED
      BY <3>2, <3>3, AnswerRefines
  <2>2. CASE Cached(req[r].group).kind # "snapshot"
    BY <1>4, <2>2, SilentRefines
  <2> QED
    BY <2>1, <2>2
<1>5. CASE Receive(r)
  <2>1. PICK f \in Slots : f = req[r].flight
    BY <1>5, TypeFacts DEF Receive, IInv, CallsOK
  <2>2. PICK res \in Results : res = flight[f].result
    BY TypeFacts DEF IInv
  <2>3. /\ req' = Answered(r, res) /\ req[r].at = "waiting" /\ flight[f].completed
        /\ UNCHANGED <<data, announced>>
    BY <1>5, <2>1, <2>2 DEF Receive
  <2>4. flight[f].group = req[r].group /\ res.kind # "nothing"
    BY <2>1, <2>2, <2>3 DEF IInv, CallsOK, Served
  <2>5. res.kind = "snapshot" => req[r].asked <= res.version /\ res.version <= data
    BY <2>2, <2>3, <2>4 DEF IInv, BuildsFresh, Fresh, Planned
  <2> QED
    BY <2>3, <2>4, <2>5, AnswerRefines
<1>6. CASE Abandon(r)
  BY <1>6, ResultFacts, AnswerRefines DEF Abandon
<1> QED
  BY <1>1, <1>2, <1>3, <1>4, <1>5, <1>6, SilentRefines DEF RequestStep

\* Every step of the service is a step of the contract or is invisible to it.
LEMMA NextRefines == IInv /\ [Next]_vars => [Reads!Next]_(Reads!vars)
<1> SUFFICES ASSUME IInv, [Next]_vars PROVE Reads!Next \/ UNCHANGED Reads!vars
  OBVIOUS
<1>1. CASE \E r \in Requests : RequestStep(r)
  BY <1>1, RequestRefines
<1>2. CASE Change
  <2>1. Reads!Change
    BY <1>2 DEF Change, Reads!Change, ReadOf
  <2> QED
    BY <2>1 DEF Reads!Next
<1>3. CASE InvalidateDomainCache
  <2>1. Reads!Announce
    BY <1>3 DEF InvalidateDomainCache, Reads!Announce, ReadOf
  <2> QED
    BY <2>1 DEF Reads!Next
<1>4. CASE (\E k \in Keys : Expire(k)) \/ (\E f \in Slots : BuildStep(f)) \/ Retire
           \/ RetireDrains \/ UNCHANGED vars
  <2>1. UNCHANGED <<data, announced, req>>
    BY <1>4 DEF Expire, BuildStep, EnterBuild, LoadBuildCache, ReadStores, BuildFails,
                StoreCache, Complete, Retire, RetireDrains, vars
  <2> QED
    BY <2>1, InvisibleStep DEF ReadOf
<1>5. CASE CancelInFlight \/ RetireCancels
  <2>1. UNCHANGED <<data, announced>> /\ CancelAll
    BY <1>5 DEF CancelInFlight, RetireCancels
  <2>2. \A p \in Requests : ReadOf(req[p])' = ReadOf(req[p])
    BY <2>1 DEF CancelAll, ReadOf, IInv, TypeOK
  <2> QED
    BY <2>1, <2>2, InvisibleStep
<1> QED
  BY <1>1, <1>2, <1>3, <1>4, <1>5 DEF Next, RetireStep

\* A new service has no read under way.
LEMMA InitRefines == Init => Reads!Init
<1> SUFFICES ASSUME Init PROVE Reads!Init
  OBVIOUS
<1>1. ReadOf(Idle(Nothing)) = Reads!Idle(Reads!Error("nothing"))
  BY DEF ReadOf, Idle, Nothing, Result, Reads!Idle, Reads!Error
<1>2. Read = [r \in Requests |-> Reads!Idle(Reads!Error("nothing"))]
  <2>1. \A r \in Requests : req[r] = Idle(Nothing)
    BY DEF Init
  <2> QED
    BY <1>1, <2>1 DEF Read
<1> QED
  BY <1>2 DEF Read, Init, Reads!Init

(***************************************************************************)
(* Build implements SnapshotReads: whatever cache, shared flights,         *)
(* cancellation and retirement do, a call answers with a snapshot that was *)
(* in the stores and is no older than the last change announced when the   *)
(* call was made, or with an error.                                        *)
(***************************************************************************)
THEOREM Implementation == Spec => ImplementsReads
BY InitRefines, NextRefines, Inductive, PTL DEF Spec, ImplementsReads, Reads!Spec
=============================================================================
