--------------------------- MODULE SnapshotService ---------------------------
(***************************************************************************)
(* backend/refresh/snapshot: service.go and service_flights.go.            *)
(* Requests for the snapshot of one domain share builds (flights), a short *)
(* cache serves what was just built, every announced change invalidates    *)
(* the cache of its domain, and a generation can be cancelled (cooling) or *)
(* retired for good while requests and builds are under way.               *)
(*                                                                         *)
(* The stores are a version number; a build reads it at one moment.  A     *)
(* cache key stands for one scope, permission and readiness fingerprint.   *)
(***************************************************************************)
EXTENDS Naturals

CONSTANTS Requests,   \* goroutines that call Build, one call at a time each
          Keys,       \* cache keys of the domain
          Slots,      \* bound: flights that exist at one time
          NoFlight,   \* no flight: a waiting request has one, a free map entry none
          MaxData,    \* bound: changes of the stores, each announced once
          Bypasses,   \* the marks WithCacheBypass leaves on the calls
          BypassesSnapshotCache  \* domain.BypassesSnapshotCache of the domain

ASSUME NoFlightAssumption == NoFlight \notin Slots
ASSUME KeysAssumption == Keys # {}
ASSUME BoundsAssumption == MaxData \in Nat
ASSUME BypassesAssumption == Bypasses \subseteq BOOLEAN
ASSUME BypassAssumption == BypassesSnapshotCache \in BOOLEAN

VARIABLES data,         \* the version of the stores
          announced,    \* history: the version at the last invalidation
          invalidation, \* invalidations[domain]
          cache,        \* cacheKey -> cached snapshot, or Nothing
          flights,      \* flights.flights: group key -> flight, or NoFlight
          flight,       \* the flights and the goroutines that build them
          req,          \* the calls of Build
          retired,      \* retired
          retiring      \* where Retire stands

vars == <<data, announced, invalidation, cache, flights, flight, req, retired,
          retiring>>

Versions == 0 .. MaxData
Result(k) == [kind |-> k, version |-> 0]
Snapshot(v) == [kind |-> "snapshot", version |-> v]
Nothing == Result("nothing")
Snapshots == {Snapshot(v) : v \in Versions}
Errors == {Result("failed"), Result("canceled"), Result("retired")}
Results == Snapshots \cup Errors \cup {Nothing}

\* snapshotBuildRequestPlan: the group key is the cache key, the bypass mark
\* and the domain's invalidation count when the plan was made.
Groups == [key : Keys, bypass : BOOLEAN, inv : Versions]
AGroup == CHOOSE g \in Groups : g.inv = 0

\* A flight's goroutine is before servingMu.RLock ("start"), inside it
\* (Serving), at complete ("completing"), or gone.
Serving == {"loading", "reading", "storing"}
BuildSteps == {"gone", "start", "completing"} \cup Serving
\* A completed flight's build context is cancelled.
FreeFlight == [at |-> "gone", group |-> AGroup, completed |-> TRUE,
               built |-> Nothing, result |-> Nothing]

\* A call's context is registered with the generation while it is Registered.
Registered == {"planning", "loading", "joining", "waiting"}
RequestSteps == {"idle", "arrived"} \cup Registered
Idle(answer) == [at |-> "idle", group |-> AGroup, asked |-> 0, cancelled |-> FALSE,
                 flight |-> NoFlight, answer |-> answer]

Init == /\ data = 0
        /\ announced = 0
        /\ invalidation = 0
        /\ cache = [k \in Keys |-> Nothing]
        /\ flights = [g \in Groups |-> NoFlight]
        /\ flight = [f \in Slots |-> FreeFlight]
        /\ req = [r \in Requests |-> Idle(Nothing)]
        /\ retired = FALSE
        /\ retiring = "no"

-----------------------------------------------------------------------------
(* The stores and the announcements of the resource stream's manager        *)

Change == /\ data < MaxData
          /\ data' = data + 1
          /\ UNCHANGED <<announced, invalidation, cache, flights, flight, req,
                         retired, retiring>>

\* Called for every change, after the stores have it.
InvalidateDomainCache ==
  /\ invalidation < data
  /\ invalidation' = invalidation + 1
  /\ cache' = [k \in Keys |-> Nothing]
  /\ announced' = data
  /\ UNCHANGED <<data, flights, flight, req, retired, retiring>>

\* An entry whose TTL is over is deleted by the next loadCache.
Expire(k) == /\ cache[k].kind = "snapshot"
             /\ cache' = [cache EXCEPT ![k] = Nothing]
             /\ UNCHANGED <<data, announced, invalidation, flights, flight, req,
                            retired, retiring>>

-----------------------------------------------------------------------------
(* Flights                                                                  *)

\* The slots of flights that ended and that nobody waits for any more.
Swept(fl, rq) ==
  [f \in Slots |-> IF fl[f].at = "gone" /\ \A r \in Requests : rq[r].flight # f
                   THEN FreeFlight ELSE fl[f]]

Free(f) == flight[f].at = "gone" /\ \A r \in Requests : req[r].flight # f

\* finishLocked of every flight of F: one terminal result, the entry deleted
\* if it is still this flight's, the build's context cancelled.
Finished(fl, F, res) ==
  [f \in Slots |-> IF f \in F /\ ~fl[f].completed
                   THEN [fl[f] EXCEPT !.completed = TRUE, !.result = res]
                   ELSE fl[f]]

\* mutant: the entry of the key is deleted, whichever flight it is
DeletedByKey(F) ==
  [g \in Groups |-> IF \E f \in F : flight[f].group = g THEN NoFlight ELSE flights[g]]
Deleted(F) ==
  [g \in Groups |-> IF flights[g] \in F /\ ~flight[flights[g]].completed
                    THEN NoFlight ELSE flights[g]]

NewFlight(g) == [at |-> "start", group |-> g, completed |-> FALSE,
                 built |-> Nothing, result |-> Nothing]

\* leave: the last waiter finishes the flight.
OthersWait(r) == \E q \in Requests \ {r} : req[q].flight = req[r].flight
LeftByAnyone(r) == {req[r].flight} \* mutant: the waiters are not counted
Left(r) == IF OthersWait(r) THEN {} ELSE {req[r].flight}

-----------------------------------------------------------------------------
(* Service.Build, one action per step between two critical sections         *)

Answered(r, res) == [req EXCEPT ![r] = Idle(res)]

Arrive(r) ==
  /\ req[r].at = "idle"
  /\ req' = IF retired THEN Answered(r, Result("retired"))
            ELSE [req EXCEPT ![r] =
                   [Idle(Nothing) EXCEPT !.at = "arrived", !.asked = announced]]
  /\ UNCHANGED <<data, announced, invalidation, cache, flights, flight, retired,
                 retiring>>

\* withGenerationContext
Register(r) ==
  /\ req[r].at = "arrived"
  /\ req' = [req EXCEPT ![r].at = "planning"]
  /\ UNCHANGED <<data, announced, invalidation, cache, flights, flight, retired,
                 retiring>>

\* prepareBuildRequest: permissions denied, informers not synced in time or
\* the context cancelled meanwhile; or the plan is made, and the context is
\* looked at once more.  The call's key and bypass mark first matter here.
PlanFails(r) ==
  /\ req[r].at = "planning"
  /\ req' = Answered(r, Result("failed"))
  /\ UNCHANGED <<data, announced, invalidation, cache, flights, flight, retired,
                 retiring>>

\* mutant: the group key has no invalidation count
PlanWithoutCount(r, k, b) ==
  /\ req[r].at = "planning"
  /\ req' = [req EXCEPT ![r].at = "loading",
                       ![r].group = [key |-> k, bypass |-> b, inv |-> 0]]
  /\ UNCHANGED <<data, announced, invalidation, cache, flights, flight, retired,
                 retiring>>

Plan(r, k, b) ==
  /\ req[r].at = "planning"
  /\ req' = IF req[r].cancelled THEN Answered(r, Result("canceled"))
            ELSE [req EXCEPT ![r].at = "loading",
                            ![r].group = [key |-> k, bypass |-> b, inv |-> invalidation]]
  /\ UNCHANGED <<data, announced, invalidation, cache, flights, flight, retired,
                 retiring>>

\* loadBuildRequestCache
Cached(g) == IF g.bypass \/ BypassesSnapshotCache THEN Nothing ELSE cache[g.key]

LoadCache(r) ==
  /\ req[r].at = "loading"
  /\ LET hit == Cached(req[r].group)
     IN  req' = IF hit.kind = "snapshot" THEN Answered(r, hit)
                ELSE [req EXCEPT ![r].at = "joining"]
  /\ UNCHANGED <<data, announced, invalidation, cache, flights, flight, retired,
                 retiring>>

\* join: the group's flight, or a new one with its goroutine.
JoinOther(r) ==
  /\ req[r].at = "joining"
  /\ flights[req[r].group] # NoFlight
  /\ req' = [req EXCEPT ![r].at = "waiting", ![r].flight = flights[req[r].group]]
  /\ UNCHANGED <<data, announced, invalidation, cache, flights, flight, retired,
                 retiring>>

JoinNew(r) ==
  /\ req[r].at = "joining"
  /\ flights[req[r].group] = NoFlight
  /\ \E f \in Slots :
       /\ Free(f)
       /\ flight' = [flight EXCEPT ![f] = NewFlight(req[r].group)]
       /\ flights' = [flights EXCEPT ![req[r].group] = f]
       /\ req' = [req EXCEPT ![r].at = "waiting", ![r].flight = f]
  /\ UNCHANGED <<data, announced, invalidation, cache, retired, retiring>>

\* The select of Build, with the deferred leave and the unregistration: the
\* flight is done, or the call's own context is.
Receive(r) ==
  /\ req[r].at = "waiting"
  /\ flight[req[r].flight].completed
  /\ req' = Answered(r, flight[req[r].flight].result)
  /\ flight' = Swept(flight, req')
  /\ UNCHANGED <<data, announced, invalidation, cache, flights, retired, retiring>>

Abandon(r) ==
  /\ req[r].at = "waiting"
  /\ req[r].cancelled
  /\ req' = Answered(r, Result("canceled"))
  /\ flights' = Deleted(Left(r))
  /\ flight' = Swept(Finished(flight, Left(r), Result("canceled")), req')
  /\ UNCHANGED <<data, announced, invalidation, cache, retired, retiring>>

\* The caller goes away (the HTTP request's context).
CallerCancels(r) ==
  /\ req[r].at \in Registered
  /\ ~req[r].cancelled
  /\ req' = [req EXCEPT ![r].cancelled = TRUE]
  /\ UNCHANGED <<data, announced, invalidation, cache, flights, flight, retired,
                 retiring>>

-----------------------------------------------------------------------------
(* buildRequestSnapshot and complete, in the flight's goroutine             *)

\* The build is over; complete does nothing for a flight already completed.
Built(f, res) ==
  IF flight[f].completed
  THEN Swept([flight EXCEPT ![f].at = "gone", ![f].built = Nothing], req)
  ELSE [flight EXCEPT ![f].at = "completing", ![f].built = res]

\* servingMu.RLock, then the second look at retired.
\* mutant: no second look at retired
EnterThoughRetired(f) ==
  /\ flight[f].at = "start"
  /\ flight' = [flight EXCEPT ![f].at = "loading"]
  /\ UNCHANGED <<data, announced, invalidation, cache, flights, req, retired,
                 retiring>>
EnterBuild(f) ==
  /\ flight[f].at = "start"
  /\ flight' = IF retired THEN Built(f, Result("retired"))
               ELSE [flight EXCEPT ![f].at = "loading"]
  /\ UNCHANGED <<data, announced, invalidation, cache, flights, req, retired,
                 retiring>>

LoadBuildCache(f) ==
  /\ flight[f].at = "loading"
  /\ LET hit == Cached(flight[f].group)
     IN  flight' = IF hit.kind = "snapshot" THEN Built(f, hit)
                   ELSE [flight EXCEPT ![f].at = "reading"]
  /\ UNCHANGED <<data, announced, invalidation, cache, flights, req, retired,
                 retiring>>

\* registry.Build returns, and the build's context is looked at.
ReadStores(f) ==
  /\ flight[f].at = "reading"
  /\ flight' = IF flight[f].completed THEN Built(f, Result("canceled"))
               ELSE [flight EXCEPT ![f].at = "storing", ![f].built = Snapshot(data)]
  /\ UNCHANGED <<data, announced, invalidation, cache, flights, req, retired,
                 retiring>>

\* registry.Build returns an error or panics.
BuildFails(f) ==
  /\ flight[f].at = "reading"
  /\ flight' = Built(f, Result("failed"))
  /\ UNCHANGED <<data, announced, invalidation, cache, flights, req, retired,
                 retiring>>

\* storeCache: not for a domain that bypasses the cache, not after an
\* invalidation since the plan, and not a partial snapshot (whole).
StoresOnceInvalidated(g) == ~BypassesSnapshotCache \* mutant: the count is not compared
MayStore(g) == ~BypassesSnapshotCache /\ invalidation = g.inv

StoreCache(f, whole) ==
  /\ flight[f].at = "storing"
  /\ cache' = IF whole /\ MayStore(flight[f].group)
              THEN [cache EXCEPT ![flight[f].group.key] = flight[f].built]
              ELSE cache
  /\ flight' = Built(f, flight[f].built)
  /\ UNCHANGED <<data, announced, invalidation, flights, req, retired, retiring>>

Complete(f) ==
  /\ flight[f].at = "completing"
  /\ flights' = Deleted({f})
  /\ flight' = Swept([Finished(flight, {f}, flight[f].built) EXCEPT ![f].at = "gone",
                                                               ![f].built = Nothing],
                     req)
  /\ UNCHANGED <<data, announced, invalidation, cache, req, retired, retiring>>

-----------------------------------------------------------------------------
(* CancelInFlight and Retire                                                *)

\* cancelAll
Current == {flights[g] : g \in Groups} \ {NoFlight}

CancelAll ==
  /\ req' = [r \in Requests |->
              [req[r] EXCEPT !.cancelled = @ \/ req[r].at \in Registered]]
  /\ flights' = [g \in Groups |-> NoFlight]
  /\ flight' = Finished(flight, Current, Result("canceled"))

CancelInFlight == /\ CancelAll
                  /\ UNCHANGED <<data, announced, invalidation, cache, retired, retiring>>

Retire == /\ retiring = "no"
          /\ retired' = TRUE
          /\ retiring' = "cancelling"
          /\ UNCHANGED <<data, announced, invalidation, cache, flights, flight, req>>

RetireCancels == /\ retiring = "cancelling"
                 /\ CancelAll
                 /\ retiring' = "draining"
                 /\ UNCHANGED <<data, announced, invalidation, cache, retired>>

\* servingMu.Lock is had when no goroutine is between RLock and RUnlock.
RetireDrains == /\ retiring = "draining"
                /\ \A f \in Slots : flight[f].at \notin Serving
                /\ cache' = [k \in Keys |-> Nothing]
                /\ retiring' = "done"
                /\ UNCHANGED <<data, announced, invalidation, flights, flight, req, retired>>

-----------------------------------------------------------------------------
RequestStep(r) == \/ Arrive(r) \/ Register(r) \/ PlanFails(r)
                  \/ \E k \in Keys, b \in Bypasses : Plan(r, k, b)
                  \/ LoadCache(r) \/ JoinOther(r) \/ JoinNew(r)
                  \/ Receive(r) \/ Abandon(r) \/ CallerCancels(r)
BuildStep(f) == \/ EnterBuild(f) \/ LoadBuildCache(f) \/ ReadStores(f)
                \/ BuildFails(f) \/ \E whole \in BOOLEAN : StoreCache(f, whole)
                \/ Complete(f)
RetireStep == RetireCancels \/ RetireDrains

Next == \/ Change \/ InvalidateDomainCache
        \/ \E k \in Keys : Expire(k)
        \/ \E r \in Requests : RequestStep(r)
        \/ \E f \in Slots : BuildStep(f)
        \/ CancelInFlight
        \/ Retire \/ RetireStep

Spec == Init /\ [][Next]_vars

-----------------------------------------------------------------------------
(* Properties                                                               *)

(***************************************************************************)
(* Types of the state of Service and snapshotBuildFlights.                 *)
(***************************************************************************)
TypeOK ==
  /\ data \in Versions
  /\ announced \in Versions
  /\ invalidation \in Versions
  /\ cache \in [Keys -> Results]
  /\ flights \in [Groups -> Slots \cup {NoFlight}]
  /\ flight \in [Slots -> [at : BuildSteps, group : Groups, completed : BOOLEAN,
                           built : Results, result : Results]]
  /\ req \in [Requests -> [at : RequestSteps, group : Groups, asked : Versions,
                           cancelled : BOOLEAN, flight : Slots \cup {NoFlight},
                           answer : Results]]
  /\ retired \in BOOLEAN
  /\ retiring \in {"no", "cancelling", "draining", "done"}

(***************************************************************************)
(* A call of Build asked after a change was announced never gets data from *)
(* before it out of a shared flight, and the cache never holds such data   *)
(* (InvalidateDomainCache, the invalidation count in the group key, and    *)
(* storeCache's comparison of it).                                         *)
(***************************************************************************)
AnswersAreFresh ==
  /\ \A r \in Requests : req[r].at = "waiting" =>
       LET result == flight[req[r].flight].result
       IN  result.kind = "snapshot" => req[r].asked <= result.version
  /\ \A k \in Keys : cache[k].kind = "snapshot" => announced <= cache[k].version

(***************************************************************************)
(* A call whose own context is alive never gets the cancellation of a call *)
(* it shares a flight with (WithoutCancel in join, the waiter count in     *)
(* leave).                                                                 *)
(***************************************************************************)
NoForeignCancellation ==
  \A r \in Requests :
    req[r].at = "waiting" /\ flight[req[r].flight].result.kind = "canceled" =>
      req[r].cancelled

(***************************************************************************)
(* One group has at most one build that is not cancelled, and it is the    *)
(* one that the next call joins; a waiting call's flight has its result or *)
(* a goroutine that will give it one (join, finishLocked).                 *)
(***************************************************************************)
OneBuildPerGroup ==
  /\ \A f \in Slots : ~flight[f].completed => flights[flight[f].group] = f
  /\ \A r \in Requests : req[r].at = "waiting" =>
       \/ flight[req[r].flight].completed
       \/ flight[req[r].flight].at # "gone"

(***************************************************************************)
(* Once Retire has returned, no builder reads the stores it released and   *)
(* the cache is and stays empty, whatever calls were under way (the second *)
(* look at retired under servingMu, the drain).                            *)
(***************************************************************************)
RetiredIsQuiet ==
  retiring = "done" => /\ \A f \in Slots : flight[f].at \notin Serving
                       /\ \A k \in Keys : cache[k] = Nothing

(***************************************************************************)
(* Build promises what SnapshotReads says: cache, shared flights,          *)
(* cancellation and retirement never make a call return data older than    *)
(* the last change announced when it was asked, or data that never was.    *)
(***************************************************************************)
ReadOf(q) == [asking |-> q.at # "idle", floor |-> q.asked, answer |-> q.answer]

Reads == INSTANCE SnapshotReads WITH read <- [r \in Requests |-> ReadOf(req[r])]

ImplementsReads == Reads!Spec
=============================================================================
