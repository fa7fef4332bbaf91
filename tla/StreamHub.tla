----------------------------- MODULE StreamHub -----------------------------
(***************************************************************************)
(* backend/refresh/resourcestream: the Manager of one cluster, seen from   *)
(* one (domain, scope) key.  Informer goroutines (Workers) announce object *)
(* changes; each subscriber has a bounded channel, and the manager keeps a *)
(* bounded resume buffer of numbered updates.                              *)
(*                                                                         *)
(* A rebuilt cluster gets a new Manager while sessions still hold          *)
(* subscriptions of the old one, so everything is indexed by manager.      *)
(* A channel holds sequence numbers (MODIFIED) and Reset (RESET).          *)
(* Sub identities are the subscription pointers: one is used again only    *)
(* when nothing refers to it any more.                                     *)
(***************************************************************************)
EXTENDS Naturals, Sequences, FiniteSets, RingSince

CONSTANTS Subs, Workers, Managers, None,
          SubscriberBufferSize,    \* ResourceStreamSubscriberBufferSize (256)
          ResumeBufferSize,        \* ResourceStreamResumeBufferSize (1000)
          MaxSubscribersPerScope,  \* ResourceStreamMaxSubscribersPerScope (100)
          MaxChanges               \* bound: object changes in a behaviour

ASSUME HubAssumption ==
  /\ SubscriberBufferSize \in Nat \ {0} /\ ResumeBufferSize \in Nat \ {0}
  /\ MaxSubscribersPerScope \in Nat /\ MaxChanges \in Nat
  /\ None \notin Managers \cup Subs

VARIABLES world,    \* number of changes applied to the backend's stores
          hub,      \* the managers' maps: seq, buf, stopped; sub, dropping
          worker    \* informer goroutines in broadcastScope

Reset == 0

(* A numbering of manager m starts again at 1 each time the scope lost its *)
(* last subscriber; life counts these restarts (history, for properties).  *)
Life(h, m) == << m, h.life[m] >>

FreeSub == [state |-> "closed", on |-> None, life |-> None, chan |-> << >>, resyncing |-> FALSE]
IdleWorker == [pc |-> "idle", on |-> None, n |-> 0, to |-> {}, at |-> None]

HubInit == /\ world = 0
           /\ hub = [seq |-> [m \in Managers |-> 0], life |-> [m \in Managers |-> 0], buf |-> [m \in Managers |-> << >>],
                     stopped |-> [m \in Managers |-> FALSE],
                     sub |-> [s \in Subs |-> FreeSub], dropping |-> {}]
           /\ worker = [w \in Workers |-> IdleWorker]

(* subscribers[domain][scope] of manager m; a subscription leaves the map  *)
(* and is closed in the same critical section.                             *)
Live(h, m) == { s \in Subs : h.sub[s].state = "live" /\ h.sub[s].on = m }

-----------------------------------------------------------------------------
(* The manager's critical sections, as functions of its maps.              *)

addSubscriber(h, m, s) ==
  [h EXCEPT !.sub[s] = [state |-> "live", on |-> m, life |-> Life(h, m),
                        chan |-> << >>, resyncing |-> FALSE]]

SubscribeRefused(h, m) ==
  h.stopped[m] \/ Cardinality(Live(h, m)) >= MaxSubscribersPerScope

clearScopeStateLocked(h, m) == 
  [h EXCEPT !.seq[m] = 0, !.buf[m] = << >>,
            !.life[m] = IF h.seq[m] > 0 THEN @ + 1 ELSE @]

dropSubscriber(h, s) ==
  IF h.sub[s].state # "live" THEN h
  ELSE LET m == h.sub[s].on
           g == [h EXCEPT !.sub[s].state = "closed"]
       IN  IF Live(g, m) = {} THEN clearScopeStateLocked(g, m) ELSE g

stopManager(h, m) ==
  LET g == [h EXCEPT !.stopped[m] = TRUE]
  IN  clearScopeStateLocked(
        [g EXCEPT !.sub = [s \in Subs |-> IF s \in Live(h, m)
                                          THEN [h.sub[s] EXCEPT !.state = "closed"]
                                          ELSE h.sub[s]]], m)

(* The ring buffer, by what RingBuffer is shown to implement. *)
Buffered(buf, n) == IF Len(buf) < ResumeBufferSize THEN Append(buf, n)
                    ELSE Append(Tail(buf), n)

(* A buffer exists exactly while its sequence counter is positive. *)
Numbered(h, m) == Live(h, m) # {} \/ h.seq[m] > 0

prepared(h, m) ==
  IF Numbered(h, m)
  THEN [h EXCEPT !.seq[m] = @ + 1, !.buf[m] = Buffered(@, h.seq[m] + 1)]
  ELSE h

(* ResumeSelector and ringbuffer Since, whose loop is Newer *)
resumeOK(h, m, token) ==
  /\ token # 0 /\ h.buf[m] # << >>
  /\ token >= Head(h.buf[m])

resumeUpdates(h, m, token) == Newer(h.buf[m], token)

(* An overflow that evicts the oldest update and reports nothing. *)
EvictedSilently(r) == [r EXCEPT !.chan = Tail(@), !.resyncing = TRUE]

(* triggerResync: the oldest queued update makes room for a RESET. *)
Overflowed(r) == [r EXCEPT !.chan = Append(Tail(@), Reset), !.resyncing = TRUE]

trySend(h, s, n) ==
  LET r == h.sub[s]
  IN  IF r.state # "live" THEN h
      ELSE IF Len(r.chan) < SubscriberBufferSize
      THEN [h EXCEPT !.sub[s].chan = Append(@, n)]
      ELSE [h EXCEPT !.sub[s] = Overflowed(r),
                     !.dropping = IF r.resyncing THEN @ \cup {s} ELSE @]

-----------------------------------------------------------------------------
(* Steps of the goroutines.                                                *)

(* An informer handler: the store behind the snapshots changes, cached     *)
(* snapshots of the domain are evicted, and a broadcast begins.            *)
Change(w, m) ==
  /\ worker[w].pc = "idle" /\ world < MaxChanges
  /\ world' = world + 1
  /\ worker' = [worker EXCEPT ![w].pc = "announce", ![w].on = m]
  /\ UNCHANGED hub

prepareBroadcast(w) ==
  LET m == worker[w].on
  IN  /\ worker[w].pc = "announce"
      /\ hub' = prepared(hub, m)
      /\ worker' = [worker EXCEPT ![w] =
                      IF Live(hub, m) = {} THEN IdleWorker
                      ELSE [@ EXCEPT !.pc = "send", !.n = hub.seq[m] + 1, !.to = Live(hub, m)]]
      /\ UNCHANGED world

Finished(r) == IF r.to = {} /\ r.at = None THEN IdleWorker ELSE r

(* broadcastScope looks at resyncing without a lock, then sends. *)
CheckResyncing(w, s) ==
  /\ worker[w].pc = "send" /\ worker[w].at = None /\ s \in worker[w].to
  /\ worker' = [worker EXCEPT ![w] =
                  Finished([worker[w] EXCEPT !.to = @ \ {s},
                                             !.at = IF hub.sub[s].resyncing THEN None ELSE s])]
  /\ UNCHANGED << world, hub >>

Send(w) ==
  /\ worker[w].pc = "send" /\ worker[w].at # None
  /\ hub' = trySend(hub, worker[w].at, worker[w].n)
  /\ worker' = [worker EXCEPT ![w] = Finished([@ EXCEPT !.at = None])]
  /\ UNCHANGED world

(* Both at once: the same thing when no other broadcast runs meanwhile. *)
CheckedSend(w, s) ==
  /\ worker[w].pc = "send" /\ worker[w].at = None /\ s \in worker[w].to
  /\ hub' = IF hub.sub[s].resyncing THEN hub ELSE trySend(hub, s, worker[w].n)
  /\ worker' = [worker EXCEPT ![w] = Finished([worker[w] EXCEPT !.to = @ \ {s}])]
  /\ UNCHANGED world

(* go m.dropSubscriber(..., DropReasonBackpressure) *)
DropGoroutine(s) ==
  /\ s \in hub.dropping
  /\ hub' = [dropSubscriber(hub, s) EXCEPT !.dropping = @ \ {s}]
  /\ UNCHANGED << world, worker >>

(* A reader lets go of s; what a closed subscription held is garbage. *)
Released(h, s) ==
  [h EXCEPT !.sub[s] = IF @.state = "live" THEN [@ EXCEPT !.chan = << >>] ELSE FreeSub]

(* Nothing in the manager points at s any more. *)
Unreferenced(s) ==
  /\ s \notin hub.dropping
  /\ \A w \in Workers : s \notin worker[w].to /\ worker[w].at # s

HubType ==
  /\ world \in 0 .. MaxChanges
  /\ hub \in [seq : [Managers -> Nat], life : [Managers -> Nat], buf : [Managers -> Seq(Nat)],
              stopped : [Managers -> BOOLEAN],
              sub : [Subs -> [state : {"live", "closed"}, on : Managers \cup {None},
                              life : (Managers \X Nat) \cup {None}, chan : Seq(Nat), resyncing : BOOLEAN]],
              dropping : SUBSET Subs]
  /\ worker \in [Workers -> [pc : {"idle", "announce", "send"}, on : Managers \cup {None},
                             n : Nat, to : SUBSET Subs, at : Subs \cup {None}]]
  /\ \A s \in Subs : Len(hub.sub[s].chan) <= SubscriberBufferSize
  /\ \A m \in Managers : Len(hub.buf[m]) <= ResumeBufferSize
=============================================================================
