--------------------------- MODULE ResourceStream ---------------------------
(***************************************************************************)
(* The resource stream end to end: informer goroutines and the Manager     *)
(* (StreamHub), sessions (StreamMux), and one frontend subscription        *)
(* (StreamProtocol) with its connection (resourceStreamConnection.ts) and  *)
(* the snapshot reader its signals drive.                                  *)
(*                                                                         *)
(* A healthy stream suppresses polling, so a change that neither reached   *)
(* the reader nor is on its way stays invisible: that is the property.     *)
(***************************************************************************)
EXTENDS StreamMux, StreamProtocol

CONSTANTS FirstSession,  \* the connection that is open already, or None
          MaxManual      \* bound: manual refreshes in a behaviour

ASSUME ClientAssumption == FirstSession \in Sessions \cup {None} /\ MaxManual \in Nat

VARIABLES client,   \* the subscription's protocol state and its reader
          sock,     \* the client's socket: a session, or None
          outbox,   \* pendingMessages: requests made while it was not open
          manuals   \* manual refreshes so far

clientVars == << client, sock, outbox, manuals >>
vars == << world, hub, worker, current, retiring, sess, fwd, client, sock, outbox, manuals >>

Requests(tokens) == [i \in DOMAIN tokens |-> [type |-> "request", token |-> tokens[i]]]

(* ResourceStreamManager.start on a page without data: a resync 'initial', *)
(* and one snapshot is fetched.  The connection is shared with other       *)
(* subscriptions: it is open already, or about to be opened.               *)
Init ==
  LET c == performFetch(resyncSubscription([InitialClient EXCEPT !.connected = FirstSession # None],
                                           TRUE, FALSE))
  IN  /\ HubInit
      /\ current = FirstManager /\ retiring = NotRetiring
      /\ fwd = [s \in Subs |-> NoForwarder]
      /\ sess = [x \in Sessions |-> IF x = FirstSession THEN OpenSession(Requests(c.sends)) ELSE NoSession]
      /\ client = [c EXCEPT !.sends = << >>]
      /\ outbox = IF FirstSession = None THEN c.sends ELSE << >>
      /\ sock = FirstSession /\ manuals = 0

SocketOpen == sock # None /\ sess[sock].up

(* The client after an event whose requests have gone out, and after the   *)
(* reader has seen the clock the event left.                               *)
Rendered(c) == [SignalRefetch(c) EXCEPT !.sends = << >>]

(* Run the effects of c: requests go to the open socket or wait. *)
Perform(c) ==
  /\ client' = Rendered(c)
  /\ IF SocketOpen
     THEN /\ sess' = [sess EXCEPT ![sock].inbox = @ \o Requests(c.sends)]
          /\ UNCHANGED outbox
     ELSE outbox' = outbox \o c.sends /\ UNCHANGED sess

Quiet == UNCHANGED << world, hub, worker, current, retiring, fwd >>

-----------------------------------------------------------------------------
(* Receipt of the next frame. *)
handleMessage ==
  /\ SocketOpen /\ sess[sock].out # << >>
  /\ LET c == receiveMessage(client, Head(sess[sock].out))
     IN  /\ client' = Rendered(c)
         /\ sess' = [sess EXCEPT ![sock].out = Tail(@),
                                 ![sock].inbox = @ \o Requests(c.sends)]
  /\ Quiet /\ UNCHANGED << sock, outbox, manuals >>

(* onclose or onerror *)
handleConnectionError ==
  /\ sock # None /\ ~sess[sock].up
  /\ LET c == connectionLost(client)
     IN  client' = Rendered(c) /\ outbox' = outbox \o c.sends
  /\ sock' = None
  /\ Quiet /\ UNCHANGED << sess, manuals >>

(* connect and handleOpen: the delegate first, then the waiting requests. *)
handleOpen(x) ==
  /\ sock = None /\ sess[x].state = "unused"
  /\ LET c == connectionOpened(client)
     IN  /\ client' = Rendered(c)
         /\ sess' = [sess EXCEPT ![x] = OpenSession(Requests(c.sends \o outbox))]
  /\ sock' = x /\ outbox' = << >>
  /\ Quiet /\ UNCHANGED manuals

(* refreshOnce *)
refreshOnce ==
  /\ manuals < MaxManual
  /\ Perform(resyncSubscription(client, TRUE, TRUE))
  /\ manuals' = manuals + 1
  /\ Quiet /\ UNCHANGED sock

FlushFired ==
  /\ client.pending > 0
  /\ Perform(flushPendingChanges(client))
  /\ Quiet /\ UNCHANGED << sock, manuals >>

CooldownEnds ==
  /\ client.cooling
  /\ client' = [client EXCEPT !.cooling = FALSE]
  /\ Quiet /\ UNCHANGED << sess, sock, outbox, manuals >>

(* reconcileStreamingFetch: the scheduled poll is skipped while the stream *)
(* is healthy and there is data.                                           *)
FallbackPoll ==
  /\ ~computeResourceStreamProtocolHealth(client) \/ ~hasRetainedData(client)
  /\ client.fetch.state = "idle" /\ client.data # world
  /\ client' = performFetch(client)
  /\ Quiet /\ UNCHANGED << sess, sock, outbox, manuals >>

SnapshotRead ==
  /\ client.fetch.state = "asked"
  /\ client' = FetchAnswered(client, world)
  /\ Quiet /\ UNCHANGED << sess, sock, outbox, manuals >>

SnapshotApplied ==
  /\ client.fetch.state = "read"
  /\ client' = FetchApplied(client)
  /\ Quiet /\ UNCHANGED << sess, sock, outbox, manuals >>

-----------------------------------------------------------------------------
HubStep ==
  /\ \/ \E w \in Workers : Change(w, current) \/ prepareBroadcast(w)
     \/ \E w \in Workers, s \in Subs : CheckedSend(w, s)
     \/ \E s \in Subs : DropGoroutine(s)
  /\ UNCHANGED muxVars /\ UNCHANGED clientVars

MuxStep ==
  /\ \/ \E x \in Sessions : \/ HandleSubscribe(x) \/ StoreRefused(x) \/ AcknowledgeSubscribe(x)
                            \/ ReadLoopEnds(x) \/ Disconnect(x)
                            \/ invalidateClusterSubscriptions(x)
     \/ \E s \in Subs : ForwardUpdate(s) \/ ForwardEnds(s)
     \/ \E m \in Managers : setTopology(m)
     \/ StopReplaced
  /\ UNCHANGED clientVars

ClientStep == \/ handleMessage \/ handleConnectionError \/ refreshOnce
              \/ FlushFired \/ CooldownEnds \/ FallbackPoll \/ SnapshotRead \/ SnapshotApplied
              \/ \E x \in Sessions : handleOpen(x)

Next == HubStep \/ MuxStep \/ ClientStep

Spec == Init /\ [][Next]_vars

-----------------------------------------------------------------------------
TypeOK ==
  /\ HubType /\ MuxType
  /\ client.phase \in {"connecting", "awaiting-ack", "synchronized"}
  /\ client.expects \in BOOLEAN /\ client.preserved \in BOOLEAN
  /\ client.pending \in 0 .. MaxPendingChanges
  /\ client.data \in (0 .. MaxChanges) \cup {NoValue} /\ client.sends = << >>
  /\ sock \in Sessions \cup {None} /\ manuals \in 0 .. MaxManual

(* Nothing is under way between the stores and the reader. *)
Settled ==
  /\ \A w \in Workers : worker[w].pc = "idle"
  /\ hub.dropping = {} /\ retiring = NotRetiring
  /\ SocketOpen
  /\ sess[sock].inbox = << >> /\ sess[sock].adding = None /\ sess[sock].out = << >>
  /\ \A s \in Subs : fwd[s].on = sock => hub.sub[s].chan = << >> /\ hub.sub[s].state = "live"
  /\ client.fetch.state = "idle" /\ client.pending = 0

Healthy == computeResourceStreamProtocolHealth(client)

(* The subscription's sequence numbers are not those that the client's     *)
(* last sequence was taken from.                                           *)
Misnumbered == /\ sock # None /\ sess[sock].cur # None /\ client.last.n # 0
               /\ hub.sub[sess[sock].cur].life # client.last.life

(* The current manager serves the client's subscription and has not        *)
(* stopped sending to it after an overflow.                                *)
Served == sess[sock].cur \in Live(hub, current) /\ ~hub.sub[sess[sock].cur].resyncing

(* Freshness of a healthy stream (handleSubscribe, forwardSubscription,    *)
(* receiveChanged, receiveReset, useStreamSignalRefetch): when nothing is  *)
(* under way and the stream reports healthy, so that no poll will run, the *)
(* reader shows the latest change, whatever was overtaken, replayed,       *)
(* overflowed, reconnected or replaced in between.  Four situations are    *)
(* excepted: a subscription not served (ResetRearms); a last sequence of   *)
(* another numbering, which the client cannot tell from its own; an        *)
(* initial RESET that finds the first fetch answered but not applied       *)
(* (raced); and a doorbell whose version is the one the reader last        *)
(* fetched for, with no snapshot read since (muted: ResetReconciles).      *)
HealthyIsFresh ==
  Healthy /\ Settled /\ Served /\ ~Misnumbered /\ ~client.raced /\ ~client.muted
    => client.data = world

(* "A reset that cannot prove continuity advances a declared signal clock  *)
(* and performs one immediate non-manual reconciliation before that        *)
(* retained snapshot is trusted" (docs/architecture/refresh-system.md):    *)
(* the same freshness without the last exception.  A RESET of a new        *)
(* connection may repeat the version that the reader last fetched for.     *)
ResetReconciles ==
  Healthy /\ Settled /\ Served /\ ~Misnumbered /\ ~client.raced => client.data = world

(* A healthy settled stream is served (storeSubscription, forwardLive,     *)
(* deliverSubscriptionMessage, resyncSubscription), unless the cooldown    *)
(* refused the client a re-subscription.                                   *)
HealthyIsServed == Healthy /\ Settled /\ ~client.refused => Served

(* Every subscriber a manager serves belongs to a session that reads it,   *)
(* so that none holds a place under the limit, or keeps a scope's resume   *)
(* state alive, for nobody (storeSubscription, shutdown, dropSubscriber).  *)
NoOrphanSubscriber ==
  \A s \in Subs : hub.sub[s].state = "live" =>
    \E x \in Sessions : sess[x].cur = s \/ sess[x].adding = s

(* "a later RESET or manager-replacement COMPLETE re-arms the              *)
(* subscription" (docs/architecture/refresh-system.md): resync-requested   *)
(* is refused during the cooldown, without exception for these two.  No    *)
(* run checks it: the code does not keep it (README, section 3.2).         *)
ResetRearms == Healthy /\ Settled => Served
=============================================================================
