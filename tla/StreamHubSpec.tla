--------------------------- MODULE StreamHubSpec ---------------------------
(***************************************************************************)
(* The resource-stream manager on its own, under arbitrary readers: they   *)
(* subscribe, take from their channel at their own pace, cancel, and the   *)
(* manager may be stopped at any time.                                     *)
(***************************************************************************)
EXTENDS StreamHub

VARIABLES known,    \* history: state of the stores each reader has been told of
          told      \* history: readers that have taken a RESET

readersVars == << world, hub, worker, known, told >>

ReadersInit == HubInit /\ known = [s \in Subs |-> 0] /\ told = {}

(* SubscribeSelector: a reader fetches after it is registered. *)
SubscribeSelector(s, m) ==
  /\ hub.sub[s] = FreeSub /\ Unreferenced(s) /\ ~SubscribeRefused(hub, m)
  /\ hub' = addSubscriber(hub, m, s)
  /\ known' = [known EXCEPT ![s] = world]
  /\ UNCHANGED << world, worker, told >>

(* A reader takes the next message and refetches, or, after a RESET, knows *)
(* that it has to subscribe again.                                         *)
Receive(s) ==
  /\ hub.sub[s].chan # << >>
  /\ hub' = [hub EXCEPT !.sub[s].chan = Tail(@)]
  /\ known' = [known EXCEPT ![s] = world]
  /\ told' = IF Head(hub.sub[s].chan) = Reset THEN told \cup {s} ELSE told
  /\ UNCHANGED << world, worker >>

Cancel(s) ==
  /\ hub.sub[s].state = "live"
  /\ hub' = dropSubscriber(hub, s)
  /\ UNCHANGED << world, worker, known, told >>

Stop(m) ==
  /\ ~hub.stopped[m]
  /\ hub' = stopManager(hub, m)
  /\ UNCHANGED << world, worker, known, told >>

(* The reader has drained its closed channel and drops its reference. *)
Forget(s) ==
  /\ hub.sub[s].state = "closed" /\ hub.sub[s] # FreeSub /\ hub.sub[s].chan = << >>
  /\ hub' = Released(hub, s)
  /\ told' = told \ {s} /\ known' = [known EXCEPT ![s] = 0]
  /\ UNCHANGED << world, worker >>

HubGoroutines ==
  /\ \/ \E w \in Workers, m \in Managers : Change(w, m)
     \/ \E w \in Workers : prepareBroadcast(w) \/ Send(w)
     \/ \E w \in Workers, s \in Subs : CheckResyncing(w, s)
     \/ \E s \in Subs : DropGoroutine(s)
  /\ UNCHANGED << known, told >>

ReadersNext ==
  \/ HubGoroutines
  \/ \E s \in Subs : Receive(s) \/ Cancel(s) \/ Forget(s)
  \/ \E s \in Subs, m \in Managers : SubscribeSelector(s, m)
  \/ \E m \in Managers : Stop(m)

ReadersSpec == ReadersInit /\ [][ReadersNext]_readersVars

-----------------------------------------------------------------------------
ReadersTypeOK ==
  /\ HubType
  /\ known \in [Subs -> 0 .. MaxChanges] /\ told \subseteq Subs

(* A broadcast of manager m still has to reach s. *)
OnItsWay(s) ==
  \E w \in Workers :
    \/ worker[w].pc = "announce" /\ worker[w].on = hub.sub[s].on
    \/ s \in worker[w].to \/ worker[w].at = s

(* No change is lost silently (broadcastScope, trySend, triggerResync): a  *)
(* registered reader that does not know the latest state of the stores has *)
(* a message waiting, or is about to get one, or has taken a RESET, which  *)
(* tells it to start over; whatever the pace of the reader and however     *)
(* broadcasts interleave.                                                  *)
NoSilentLoss ==
  \A s \in Subs :
    hub.sub[s].state = "live" /\ known[s] < world =>
      hub.sub[s].chan # << >> \/ OnItsWay(s) \/ s \in told

(* A reader that overflowed is never left without the news: until it takes *)
(* the RESET, the RESET is in its channel, although later overflows evict  *)
(* the oldest entries and the channel may be closed meanwhile.             *)
ResetReachesReader ==
  \A s \in Subs :
    hub.sub[s].resyncing /\ s \notin told =>
      \E i \in DOMAIN hub.sub[s].chan : hub.sub[s].chan[i] = Reset

(* The resume buffer is the newest part of the scope's numbering, with no  *)
(* hole in it, and exists only while the scope has subscribers             *)
(* (prepareBroadcast, clearScopeStateLocked): a token from an earlier life *)
(* of the scope is not distinguishable from a current one by the buffer.   *)
BufferIsTail ==
  \A m \in Managers :
    LET b == hub.buf[m]
    IN  /\ Len(b) > 0 <=> hub.seq[m] > 0
        /\ \A i \in DOMAIN b : b[i] = hub.seq[m] - Len(b) + i
        /\ Live(hub, m) = {} => hub.seq[m] = 0

(* Stop is terminal for a manager: no subscriber is left and none can join *)
(* (Stop, addSubscriber).                                                  *)
StopIsTerminal == \A m \in Managers : hub.stopped[m] => Live(hub, m) = {} /\ hub.seq[m] = 0
=============================================================================
