--------------------------- MODULE StreamProtocol ---------------------------
(***************************************************************************)
(* frontend/src/core/refresh/streaming/resourceStreamProtocol.ts, with the *)
(* effects ResourceStreamManager runs for it, for one subscription, and    *)
(* the orchestrator's fetch slot its signals feed.  Each reducer case is a *)
(* function of the client record c; effects are applied in order:          *)
(*   send-subscribe  appends a request token to c.sends,                   *)
(*   advance-source  writes the doorbell clock.                            *)
(* The snapshot reader (useStreamSignalRefetch) looks at the clock after   *)
(* each event and fetches when its value is not the one it last fetched    *)
(* for.                                                                    *)
(* resync-requested and resync-completed are dispatched back to back by    *)
(* resyncSubscription, so the phase 'resyncing' is never observed.         *)
(* The permission-blocked and stopping phases, and the domain that is      *)
(* re-read whole at every change (namespace-helm), are not modelled.       *)
(***************************************************************************)
EXTENDS Naturals, Sequences

CONSTANTS NoValue,
          MaxPendingChanges   \* MAX_UPDATE_QUEUE (1000)

ASSUME ProtocolAssumption == MaxPendingChanges \in Nat /\ NoValue \notin Nat

(* The resume token; n = 0 is lastSequence undefined. *)
Unset == [n |-> 0, life |-> NoValue]

InitialClient ==
  [phase |-> "connecting", expects |-> FALSE, preserved |-> FALSE, last |-> Unset,
   pending |-> 0, cooling |-> FALSE, connected |-> FALSE, sends |-> << >>,
   fetch |-> [state |-> "idle", v |-> 0], trailing |-> FALSE, data |-> NoValue,
   clock |-> NoValue, key |-> NoValue, signals |-> 0,
   refused |-> FALSE, raced |-> FALSE, muted |-> FALSE]

-----------------------------------------------------------------------------
(* orchestrator: performFetch with streamSignal.  A request in flight      *)
(* latches one trailing request.                                           *)

(* A signal that is absorbed by the request in flight. *)
FetchUnlessBusy(c) ==
  IF c.fetch.state = "idle" THEN [c EXCEPT !.fetch.state = "asked"] ELSE c

performFetch(c) ==
  IF c.fetch.state = "idle" THEN [c EXCEPT !.fetch.state = "asked"]
  ELSE [c EXCEPT !.trailing = TRUE]

(* The snapshot answers with the stores as they are now. *)
FetchAnswered(c, version) ==
  [c EXCEPT !.fetch = [state |-> "read", v |-> version], !.raced = FALSE, !.muted = FALSE]

(* applyFetchResult and finishFetch *)
FetchApplied(c) ==
  [c EXCEPT !.data = c.fetch.v, !.trailing = FALSE,
            !.fetch = [state |-> IF c.trailing THEN "asked" ELSE "idle", v |-> 0]]

hasRetainedData(c) == c.data # NoValue

(* bumpSourceVersionOnly: the doorbell's version becomes the clock's value.*)
(* muted: no snapshot has been asked for or read since a doorbell rang.    *)
AdvanceSource(c, version) == [c EXCEPT !.clock = version, !.muted = TRUE]

(* useStreamSignalRefetch, run when an event has been handled.             *)
SignalRefetch(c) ==
  IF c.clock = c.key THEN c
  ELSE [performFetch(c) EXCEPT !.key = c.clock, !.raced = FALSE, !.muted = FALSE]

(* A change's version is its sequence number; a RESET or COMPLETE has none,*)
(* and its session numbers them in the order they enter its queue, which   *)
(* is the order they are received in.                                      *)
UpdateVersion(n) == << "update", n >>
SignalVersion(n) == << "signal", n >>

-----------------------------------------------------------------------------
confirmedHealth(c) == \/ c.phase = "synchronized"
                      \/ c.phase = "awaiting-ack" /\ c.preserved

expectsReset(c) == c.phase \in {"awaiting-ack", "synchronized"} /\ c.expects

computeResourceStreamProtocolHealth(c) == c.connected /\ confirmedHealth(c)

(* ResourceStreamManager.subscribe and subscribe-sent *)
Subscribe(c) ==
  [c EXCEPT !.sends = Append(@, c.last), !.refused = FALSE,
            !.phase = "awaiting-ack", !.expects = c.last.n = 0,
            !.preserved = confirmedHealth(c)]

Synchronized(c) ==
  [c EXCEPT !.phase = "synchronized", !.preserved = FALSE, !.expects = expectsReset(c)]

(* resync-requested refused: RESYNC_COOLDOWN_MS after the last one. *)
InCooldown(c, force) == ~force /\ c.cooling

(* What is pending ends with the last sequence.                            *)
flushed(c) ==
  IF c.pending > 0 THEN [AdvanceSource(c, UpdateVersion(c.last.n)) EXCEPT !.pending = 0] ELSE c

(* resync-requested followed by resync-completed; keeps = reasons 'initial'*)
(* and 'manual refresh', which preserve confirmed health.                  *)
resyncSubscription(c, keeps, force) ==
  IF InCooldown(c, force) THEN [c EXCEPT !.refused = TRUE]
  ELSE Subscribe([flushed(c) EXCEPT !.last = Unset, !.cooling = TRUE,
                                    !.phase = "awaiting-ack",
                                    !.preserved = keeps /\ confirmedHealth(c)])

-----------------------------------------------------------------------------
(* message-received *)

Stale(c, msg) == c.last.n # 0 /\ msg.n <= c.last.n

receiveChanged(c, msg) ==
  LET d == [Synchronized(c) EXCEPT !.last = [n |-> msg.n, life |-> msg.life]]
  IN  IF Stale(c, msg) THEN c
      ELSE IF c.pending + 1 > MaxPendingChanges
      THEN resyncSubscription([d EXCEPT !.pending = 0], FALSE, TRUE)
      ELSE [d EXCEPT !.pending = @ + 1]

InitialReset(c, msg) == msg.type = "reset" /\ expectsReset(c)

receiveReset(c, msg) ==
  LET version == SignalVersion(c.signals)
  IN  IF ~InitialReset(c, msg) THEN resyncSubscription(AdvanceSource(c, version), FALSE, FALSE)
      ELSE LET d == [Synchronized(c) EXCEPT !.expects = FALSE]
           IN  IF hasRetainedData(c) THEN AdvanceSource(d, version)
               ELSE [d EXCEPT !.raced = c.fetch.state = "read"]

nextSignalVersion(c) == [c EXCEPT !.signals = @ + 1]

receiveMessage(c, msg) ==
  CASE msg.type = "changed" -> receiveChanged(c, msg)
    [] msg.type \in {"reset", "complete"} -> receiveReset(nextSignalVersion(c), msg)
    [] msg.type = "ack" -> Synchronized(c)
    [] msg.type = "error" -> resyncSubscription(c, FALSE, TRUE)

(* The session of a new connection numbers its signals from one again.     *)
connectionOpened(c) ==
  LET d == [c EXCEPT !.connected = TRUE, !.signals = 0]
  IN  IF c.last.n # 0
      THEN Subscribe([d EXCEPT !.phase = "awaiting-ack", !.preserved = FALSE])
      ELSE resyncSubscription(d, FALSE, TRUE)

connectionLost(c) ==
  LET d == [c EXCEPT !.connected = FALSE, !.phase = "connecting", !.preserved = FALSE]
  IN  IF c.last.n = 0 THEN resyncSubscription(d, FALSE, FALSE) ELSE d

(* flush-fired: UPDATE_COALESCE_MS after the first pending change *)
flushPendingChanges(c) == flushed(c)
=============================================================================
