----------------------------- MODULE StreamMux -----------------------------
(***************************************************************************)
(* backend/refresh/streammux: the sessions that carry subscriptions over   *)
(* one connection each, and backend/refresh_aggregate_resourcestream.go,   *)
(* which points them at a cluster's current Manager.  One scope is         *)
(* modelled, so a session holds at most one entry.                         *)
(*                                                                         *)
(* The outgoing queue and the socket behind it are one queue: what the     *)
(* peer has not read when the connection goes is lost, and the peer may    *)
(* have read any prefix before.                                            *)
(***************************************************************************)
EXTENDS StreamHub

CONSTANTS Sessions,            \* connections in a behaviour
          FirstManager,
          OutgoingBufferSize   \* StreamMuxOutgoingBufferSize (512)

ASSUME MuxAssumption ==
  FirstManager \in Managers /\ OutgoingBufferSize \in Nat \ {0} /\ None \notin Sessions

VARIABLES current,   \* the manager the aggregate adapter resolves to
          retiring,  \* a replaced manager: sessions still to invalidate
          sess,      \* sessions: entry, read loop, queues
          fwd        \* forwardSubscription goroutines, one per subscription

muxVars == << current, retiring, sess, fwd >>

(* Control frames, and the MODIFIED frame with its sequence number. *)
Frame(type) == [type |-> type, n |-> 0, life |-> None]
Changed(n, life) == [type |-> "changed", n |-> n, life |-> life]

(* A resume token: a sequence number and, for the properties, the life of  *)
(* the numbering it was taken from.                                        *)
NoToken == [n |-> 0, life |-> None]

NoSession == [state |-> "unused", up |-> FALSE, cur |-> None, adding |-> None,
              token |-> NoToken, inbox |-> << >>, out |-> << >>]
NoForwarder == [on |-> None, hw |-> 0]
NotRetiring == [on |-> None, todo |-> {}]

(* Handle: a session over a new connection. *)
OpenSession(requests) == [NoSession EXCEPT !.state = "open", !.up = TRUE, !.inbox = requests]

-----------------------------------------------------------------------------
(* What a session does to itself and to the hub: g = [h, ss].              *)

shutdown(g) ==
  IF g.ss.state = "done" THEN g
  ELSE [h  |-> IF g.ss.cur = None THEN g.h ELSE dropSubscriber(g.h, g.ss.cur),
        ss |-> [g.ss EXCEPT !.state = "done", !.up = FALSE, !.cur = None,
                             !.inbox = << >>, !.out = << >>]]

(* A full queue that loses the frame and keeps the connection. *)
EnqueueOrDrop(g, msg) ==
  IF Len(g.ss.out) < OutgoingBufferSize THEN [g EXCEPT !.ss.out = Append(@, msg)] ELSE g

enqueue(g, msg) ==
  IF Len(g.ss.out) < OutgoingBufferSize THEN [g EXCEPT !.ss.out = Append(@, msg)]
  ELSE shutdown(g)

(* An entry that is overwritten without being cancelled. *)
StoredOver(g, s) == [g EXCEPT !.ss.cur = s, !.ss.adding = None, !.ss.token = NoToken]

(* storeSubscription, with the session still running *)
stored(g, s) ==
  [h  |-> IF g.ss.cur = None THEN g.h ELSE dropSubscriber(g.h, g.ss.cur),
   ss |-> [g.ss EXCEPT !.cur = s, !.adding = None, !.token = NoToken]]

Room(g) == OutgoingBufferSize - Len(g.ss.out)

Resumes(g, token) ==
  resumeOK(g.h, current, token) /\ Len(resumeUpdates(g.h, current, token)) <= Room(g)

(* enqueueSubscriptionReset and enqueueResumeUpdates: a RESET, or exactly  *)
(* the missed updates, which the capacity test has made fit.               *)
caughtUp(g, token) ==
  IF g.ss.state = "done" THEN g
  ELSE IF ~Resumes(g, token) THEN enqueue(g, Frame("reset"))
  ELSE LET missed == resumeUpdates(g.h, current, token)
       IN  [g EXCEPT !.ss.out = @ \o [i \in DOMAIN missed |-> Changed(missed[i], Life(g.h, current))]]

(* The newest replayed number; live copies up to it are skipped. *)
highWater(h, token) ==
  LET missed == resumeUpdates(h, current, token)
  IN  IF resumeOK(h, current, token) /\ missed # << >> THEN missed[Len(missed)] ELSE 0

Commit(x, g) == hub' = g.h /\ sess' = [sess EXCEPT ![x] = g.ss]

-----------------------------------------------------------------------------
(* readLoop: handleSubscribe up to Adapter.Subscribe, and its second half  *)
(* under deliveryMu.                                                       *)

SessionOf(x) == [h |-> hub, ss |-> sess[x]]

(* A subscription object nothing refers to any more may be a new one. *)
Unused(s) ==
  /\ hub.sub[s].state # "live" /\ Unreferenced(s) /\ fwd[s].on = None
  /\ \A x \in Sessions : sess[x].cur # s /\ sess[x].adding # s

HandleSubscribe(x) ==
  /\ sess[x].state = "open" /\ sess[x].adding = None
  /\ sess[x].inbox # << >> /\ Head(sess[x].inbox).type = "request"
  /\ LET req == Head(sess[x].inbox)
         g   == [SessionOf(x) EXCEPT !.ss.inbox = Tail(@)]
     IN  \/ /\ SubscribeRefused(hub, current)
            /\ Commit(x, enqueue(g, Frame("error")))
         \/ /\ ~SubscribeRefused(hub, current)
            /\ \E s \in Subs :
                 /\ Unused(s)
                 /\ Commit(x, [h  |-> addSubscriber(hub, current, s),
                               ss |-> [g.ss EXCEPT !.adding = s, !.token = req.token]])
  /\ UNCHANGED << world, worker, current, retiring, fwd >>

(* The session ended while the read loop was subscribing. *)
StoreRefused(x) ==
  /\ sess[x].state = "done" /\ sess[x].adding # None
  /\ Commit(x, [h |-> Released(dropSubscriber(hub, sess[x].adding), sess[x].adding),
                ss |-> [sess[x] EXCEPT !.adding = None, !.token = NoToken]])
  /\ UNCHANGED << world, worker, current, retiring, fwd >>

AcknowledgeSubscribe(x) ==
  /\ sess[x].state = "open" /\ sess[x].adding # None
  /\ LET s     == sess[x].adding
         token == sess[x].token.n
         acked == enqueue(stored(SessionOf(x), s), Frame("ack"))
     IN  /\ Commit(x, caughtUp(acked, token))
         /\ fwd' = [fwd EXCEPT ![s] = [on |-> x, hw |-> highWater(acked.h, token)]]
  /\ UNCHANGED << world, worker, current, retiring >>

(* The read loop meets the closed connection. *)
ReadLoopEnds(x) ==
  /\ sess[x].state = "open" /\ ~sess[x].up
  /\ Commit(x, shutdown(SessionOf(x)))
  /\ UNCHANGED << world, worker, current, retiring, fwd >>

(* The connection breaks (external); the last of the bounded number of     *)
(* connections does not.                                                   *)
Disconnect(x) ==
  /\ \E y \in Sessions : sess[y].state = "unused"
  /\ sess[x].state = "open" /\ sess[x].up
  /\ sess' = [sess EXCEPT ![x].up = FALSE]
  /\ UNCHANGED << world, hub, worker, current, retiring, fwd >>

-----------------------------------------------------------------------------
(* forwardSubscription *)

(* A live copy of something the replay already carried. *)
Replayed(s) == /\ Head(hub.sub[s].chan) # Reset
               /\ Head(hub.sub[s].chan) <= fwd[s].hw

Current(x, s) == sess[x].cur = s

LiveMessage(s) ==
  LET n == Head(hub.sub[s].chan)
  IN  IF n = Reset THEN Frame("reset") ELSE Changed(n, hub.sub[s].life)

ForwardUpdate(s) ==
  LET x == fwd[s].on
      g == [SessionOf(x) EXCEPT !.h.sub[s].chan = Tail(@)]
  IN  /\ x # None /\ hub.sub[s].chan # << >>
      /\ \/ Replayed(s) /\ Commit(x, g) /\ UNCHANGED fwd
         \/ /\ ~Replayed(s) /\ Current(x, s)
            /\ Commit(x, enqueue(g, LiveMessage(s)))
            /\ UNCHANGED fwd
         \/ /\ ~Replayed(s) /\ ~Current(x, s)
            /\ Commit(x, [g EXCEPT !.h = Released(@, s)])
            /\ fwd' = [fwd EXCEPT ![s] = NoForwarder]
      /\ UNCHANGED << world, worker, current, retiring >>

(* The channels are closed, or the session is done: select may take these  *)
(* before the updates still queued.                                        *)
ForwardEnds(s) ==
  LET x == fwd[s].on
      g == [SessionOf(x) EXCEPT !.h = Released(@, s)]
  IN  /\ x # None /\ (hub.sub[s].state = "closed" \/ sess[x].state = "done")
      /\ IF Current(x, s)
         THEN Commit(x, enqueue([g EXCEPT !.ss.cur = None], Frame("complete")))
         ELSE Commit(x, g)
      /\ fwd' = [fwd EXCEPT ![s] = NoForwarder]
      /\ UNCHANGED << world, worker, current, retiring >>

-----------------------------------------------------------------------------
(* aggregateResourceStreamHandler.Update: the topology first, then every   *)
(* session's subscriptions of the cluster; the replaced subsystem is       *)
(* stopped afterwards.                                                     *)

OpenSessions == { x \in Sessions : sess[x].state = "open" }

setTopology(m) ==
  /\ m # current /\ ~hub.stopped[m] /\ retiring = NotRetiring
  /\ current' = m
  /\ retiring' = [on |-> current, todo |-> OpenSessions]
  /\ UNCHANGED << world, hub, worker, sess, fwd >>

invalidateClusterSubscriptions(x) ==
  /\ x \in retiring.todo
  /\ hub' = IF sess[x].cur = None THEN hub ELSE dropSubscriber(hub, sess[x].cur)
  /\ retiring' = [retiring EXCEPT !.todo = @ \ {x}]
  /\ UNCHANGED << world, worker, current, sess, fwd >>

StopReplaced ==
  /\ retiring.on # None /\ retiring.todo = {}
  /\ hub' = stopManager(hub, retiring.on)
  /\ retiring' = NotRetiring
  /\ UNCHANGED << world, worker, current, sess, fwd >>

MuxType ==
  LET Msgs == [type : {"ack", "reset", "complete", "error", "changed"}, n : Nat,
               life : (Managers \X Nat) \cup {None}]
  IN  /\ current \in Managers
      /\ retiring \in [on : Managers \cup {None}, todo : SUBSET Sessions]
      /\ fwd \in [Subs -> [on : Sessions \cup {None}, hw : Nat]]
      /\ \A x \in Sessions :
           /\ sess[x].state \in {"unused", "open", "done"} /\ sess[x].up \in BOOLEAN
           /\ sess[x].cur \in Subs \cup {None} /\ sess[x].adding \in Subs \cup {None}
           /\ sess[x].out \in Seq(Msgs) /\ Len(sess[x].out) <= OutgoingBufferSize
=============================================================================
