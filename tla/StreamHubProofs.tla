-------------------------- MODULE StreamHubProofs --------------------------
(***************************************************************************)
(* Proofs about StreamHubSpec for every value of its constants: any number *)
(* of informer goroutines, readers and changes, any size of the channels   *)
(* and of the resume buffer.                                               *)
(*                                                                         *)
(* The manager's maps are one record, changed by the functions of          *)
(* StreamHub one after the other.  So the invariant of the maps is a       *)
(* predicate of such a record, and each function has a lemma saying that   *)
(* it preserves it; an action then only has to name the function it calls. *)
(*                                                                         *)
(* The second part uses the same lemmas for ResourceStream, where the      *)
(* readers are the sessions of StreamMux and the client behind them: no    *)
(* subscription stays in a manager without a session.                      *)
(*                                                                         *)
(* The third part follows what is on its way between the stores and the    *)
(* reader of the client, and ends in the stream's two promises: a healthy  *)
(* connection that has settled is served, and shows what the stores hold.  *)
(*                                                                         *)
(* The last part is about the buffer a resume is answered from: RingBuffer,*)
(* of any capacity and any numbering, stays ordered, holds a suffix of     *)
(* what was added, implements BoundedLog and answers a resume token        *)
(* exactly.                                                                *)
(***************************************************************************)
EXTENDS StreamHubSpec, ResourceStream, RingBuffer, WellFoundedInduction, TLAPS

Lives == (Managers \X Nat) \cup {None}

Subscription ==
  [state : {"live", "closed"}, on : Managers \cup {None}, life : Lives,
 chan : Seq(Nat), resyncing : BOOLEAN]

Maps == [seq : [Managers -> Nat], life : [Managers -> Nat], buf : [Managers -> Seq(Nat)],
         stopped : [Managers -> BOOLEAN], sub : [Subs -> Subscription],
         dropping : SUBSET Subs]

InformerState == [pc : {"idle", "announce", "send"}, on : Managers \cup {None},
                  n : Nat, to : SUBSET Subs, at : Subs \cup {None}]

\* The resume buffer of manager m is the tail of its numbering.
Tail_(h, m) ==
  /\ Len(h.buf[m]) <= ResumeBufferSize
  /\ Len(h.buf[m]) > 0 <=> h.seq[m] > 0
  /\ \A i \in DOMAIN h.buf[m] : h.buf[m][i] = h.seq[m] - Len(h.buf[m]) + i

MapsOK(h) ==
  /\ h \in Maps
  /\ \A s \in Subs : /\ Len(h.sub[s].chan) <= SubscriberBufferSize
                     /\ h.sub[s].state = "live" => h.sub[s].on \in Managers
  /\ \A m \in Managers : /\ Tail_(h, m)
                         /\ Live(h, m) = {} => h.seq[m] = 0
                         /\ h.stopped[m] => Live(h, m) = {}

\* Until a reader in set t has taken it, an overflow leaves RESET in its channel.
ResetOK(h, t) ==
  \A s \in Subs :
    h.sub[s].resyncing /\ s \notin t =>
      \E i \in DOMAIN h.sub[s].chan : h.sub[s].chan[i] = Reset

IInv ==
  /\ MapsOK(hub) /\ ResetOK(hub, told)
  /\ world \in 0 .. MaxChanges
  /\ worker \in [Workers -> InformerState]
  /\ \A w \in Workers : worker[w].pc # "idle" => worker[w].on \in Managers
  /\ known \in [Subs -> 0 .. MaxChanges] /\ told \subseteq Subs

LEMMA IInvImplies == IInv => ReadersTypeOK /\ BufferIsTail /\ StopIsTerminal /\ ResetReachesReader
BY DEF IInv, ReadersTypeOK, HubType, MapsOK, Maps, Lives, Subscription, InformerState, Tail_,
       ResetOK, BufferIsTail, StopIsTerminal, ResetReachesReader

-----------------------------------------------------------------------------
(* The functions of the manager's maps.                                    *)

LEMMA SubscribeKeeps ==
  ASSUME NEW h, MapsOK(h), NEW m \in Managers, NEW s \in Subs,
         h.sub[s].state = "closed", ~SubscribeRefused(h, m)
  PROVE  LET g == addSubscriber(h, m, s) IN
         MapsOK(g) /\ \A r \in Subs \ {s} : g.sub[r] = h.sub[r]
<1> DEFINE g == addSubscriber(h, m, s)
<1>1. h \in Maps
  BY DEF MapsOK
<1>2. g \in Maps
  <2> DEFINE r == [state |-> "live", on |-> m, life |-> Life(h, m), chan |-> << >>,
                   resyncing |-> FALSE]
  <2>1. Life(h, m) \in Managers \X Nat
    BY <1>1 DEF Life, Maps
  <2>2. << >> \in Seq(Nat)
    OBVIOUS
  <2>3. r \in Subscription
    BY <2>1, <2>2 DEF Subscription, Lives
  <2> HIDE DEF r
  <2>4. [h EXCEPT !.sub[s] = r] \in Maps
    BY <1>1, <2>3 DEF Maps
  <2> QED
    BY <2>4 DEF addSubscriber, r
<1>3. /\ g.buf = h.buf /\ g.seq = h.seq /\ g.stopped = h.stopped
      /\ g.sub[s].chan = << >> /\ g.sub[s].on = m /\ g.sub[s].state = "live"
      /\ \A r \in Subs \ {s} : g.sub[r] = h.sub[r]
  BY <1>1 DEF Maps, addSubscriber
<1>4. h.sub[s].state = "closed" /\ ~h.stopped[m]
  BY DEF SubscribeRefused
<1>5. /\ Live(g, m) # {}
      /\ \A k \in Managers \ {m} : Live(g, k) = Live(h, k)
  BY <1>3, <1>4 DEF Live
<1>6. \A r \in Subs : /\ Len(g.sub[r].chan) <= SubscriberBufferSize
                      /\ g.sub[r].state = "live" => g.sub[r].on \in Managers
  BY <1>3, HubAssumption DEF MapsOK
<1>7. \A k \in Managers : /\ Tail_(g, k)
                          /\ Live(g, k) = {} => g.seq[k] = 0
                          /\ g.stopped[k] => Live(g, k) = {}
  BY <1>3, <1>4, <1>5 DEF MapsOK, Tail_
<1> QED
  BY <1>2, <1>3, <1>6, <1>7 DEF MapsOK

\* What a change of one subscription's channel keeps.
LEMMA ChannelKeeps ==
  ASSUME NEW h, MapsOK(h), NEW s \in Subs, NEW r \in Subscription,
         r.state = h.sub[s].state, r.state = "live" => r.on = h.sub[s].on,
         Len(r.chan) <= SubscriberBufferSize
  PROVE  MapsOK([h EXCEPT !.sub[s] = r])
<1> DEFINE g == [h EXCEPT !.sub[s] = r]
<1>1. h \in Maps
  BY DEF MapsOK
<1>2. g \in Maps
  BY <1>1 DEF Maps
<1>3. /\ g.buf = h.buf /\ g.seq = h.seq /\ g.stopped = h.stopped
      /\ g.sub[s] = r /\ \A q \in Subs \ {s} : g.sub[q] = h.sub[q]
  BY <1>1 DEF Maps
<1>4. \A k \in Managers : Live(g, k) = Live(h, k)
  BY <1>3 DEF Live
<1>5. \A q \in Subs : /\ Len(g.sub[q].chan) <= SubscriberBufferSize
                      /\ g.sub[q].state = "live" => g.sub[q].on \in Managers
  BY <1>3 DEF MapsOK
<1>6. \A k \in Managers : /\ Tail_(g, k)
                          /\ Live(g, k) = {} => g.seq[k] = 0
                          /\ g.stopped[k] => Live(g, k) = {}
  BY <1>3, <1>4 DEF MapsOK, Tail_
<1> QED
  BY <1>2, <1>5, <1>6 DEF MapsOK

LEMMA ClearFacts ==
  ASSUME NEW h \in Maps, NEW m \in Managers
  PROVE  LET g == clearScopeStateLocked(h, m) IN
         /\ g \in Maps
         /\ g.sub = h.sub /\ g.stopped = h.stopped /\ g.dropping = h.dropping
         /\ g.seq[m] = 0 /\ g.buf[m] = << >>
         /\ \A k \in Managers \ {m} : g.seq[k] = h.seq[k] /\ g.buf[k] = h.buf[k]
<1> DEFINE g == clearScopeStateLocked(h, m)
           life == IF h.seq[m] > 0 THEN h.life[m] + 1 ELSE h.life[m]
<1>1. life \in Nat
  BY DEF Maps
<1> HIDE DEF life
<1>2. g = [seq |-> [h.seq EXCEPT ![m] = 0], life |-> [h.life EXCEPT ![m] = life],
           buf |-> [h.buf EXCEPT ![m] = << >>], stopped |-> h.stopped, sub |-> h.sub,
           dropping |-> h.dropping]
  <2>1. g = [h EXCEPT !.seq = [h.seq EXCEPT ![m] = 0],
                      !.life = [h.life EXCEPT ![m] = life],
                      !.buf = [h.buf EXCEPT ![m] = << >>]]
    BY DEF Maps, clearScopeStateLocked, life
  <2> QED
    BY <2>1 DEF Maps
<1> HIDE DEF g
<1>3. << >> \in Seq(Nat)
  OBVIOUS
<1>4. g \in Maps
  BY <1>1, <1>2, <1>3 DEF Maps
<1>5. /\ g.sub = h.sub /\ g.stopped = h.stopped /\ g.dropping = h.dropping
      /\ g.seq[m] = 0 /\ g.buf[m] = << >>
      /\ \A k \in Managers \ {m} : g.seq[k] = h.seq[k] /\ g.buf[k] = h.buf[k]
  BY <1>2 DEF Maps
<1> QED
  BY <1>4, <1>5 DEF g

LEMMA DropKeeps ==
  ASSUME NEW h, MapsOK(h), NEW s \in Subs
  PROVE  LET g == dropSubscriber(h, s) IN
         /\ MapsOK(g)
         /\ g.sub[s].state = "closed"
         /\ g.sub[s].chan = h.sub[s].chan /\ g.sub[s].resyncing = h.sub[s].resyncing
         /\ \A q \in Subs \ {s} : g.sub[q] = h.sub[q]
<1> DEFINE m == h.sub[s].on
           c == [h EXCEPT !.sub[s].state = "closed"]
           g == dropSubscriber(h, s)
<1>1. h \in Maps
  BY DEF MapsOK
<1>2. CASE h.sub[s].state # "live"
  BY <1>1, <1>2 DEF dropSubscriber, Maps, Subscription
<1>3. CASE h.sub[s].state = "live"
  <2>1. m \in Managers
    BY <1>3 DEF MapsOK
  <2>2. /\ c \in Maps /\ c.buf = h.buf /\ c.seq = h.seq /\ c.stopped = h.stopped
        /\ c.sub[s].state = "closed"
        /\ c.sub[s].chan = h.sub[s].chan /\ c.sub[s].resyncing = h.sub[s].resyncing
        /\ \A q \in Subs \ {s} : c.sub[q] = h.sub[q]
    <3> DEFINE r == [h.sub[s] EXCEPT !.state = "closed"]
    <3>1. h.sub[s] \in Subscription
      BY <1>1 DEF Maps
    <3>2. /\ r \in Subscription
          /\ r.state = "closed" /\ r.chan = h.sub[s].chan
          /\ r.resyncing = h.sub[s].resyncing
      BY <3>1 DEF Subscription
    <3>3. c = [h EXCEPT !.sub[s] = r]
      OBVIOUS
    <3> HIDE DEF r, c
    <3> QED
      BY <1>1, <3>2, <3>3 DEF Maps
  <2> HIDE DEF c
  <2>3. \A k \in Managers : /\ Live(c, k) \subseteq Live(h, k)
                            /\ k # m => Live(c, k) = Live(h, k)
    BY <2>2 DEF Live
  <2>4. \A q \in Subs : /\ Len(c.sub[q].chan) <= SubscriberBufferSize
                        /\ c.sub[q].state = "live" => c.sub[q].on \in Managers
    BY <2>2 DEF MapsOK
  <2>5. \A k \in Managers : Tail_(c, k)
    BY <2>2 DEF MapsOK, Tail_
  <2>6. CASE Live(c, m) # {}
    <3>1. g = c
      BY <1>3, <2>6 DEF dropSubscriber, c
    <3>2. \A k \in Managers : /\ Live(c, k) = {} => c.seq[k] = 0
                              /\ c.stopped[k] => Live(c, k) = {}
      BY <2>2, <2>3, <2>6 DEF MapsOK
    <3> QED
      BY <2>2, <2>4, <2>5, <3>1, <3>2 DEF MapsOK
  <2>7. CASE Live(c, m) = {}
    <3>1. g = clearScopeStateLocked(c, m)
      BY <1>3, <2>7 DEF dropSubscriber, c
    <3> HIDE DEF g, m
    <3>2. /\ g \in Maps /\ g.sub = c.sub /\ g.stopped = c.stopped
          /\ g.seq[m] = 0 /\ g.buf[m] = << >>
          /\ \A k \in Managers \ {m} : g.seq[k] = c.seq[k] /\ g.buf[k] = c.buf[k]
      BY <2>1, <2>2, <3>1, ClearFacts
    <3>3. \A k \in Managers : Live(g, k) = Live(c, k)
      BY <3>2 DEF Live
    <3>4. Tail_(g, m)
      BY <3>2, HubAssumption DEF Tail_
    <3>5. \A k \in Managers \ {m} : Tail_(g, k)
      BY <2>5, <3>2 DEF Tail_
    <3>6. \A k \in Managers : /\ Live(g, k) = {} => g.seq[k] = 0
                              /\ g.stopped[k] => Live(g, k) = {}
      BY <2>2, <2>3, <2>7, <3>2, <3>3 DEF MapsOK
    <3> QED
      BY <2>2, <2>4, <3>2, <3>4, <3>5, <3>6 DEF MapsOK, g
  <2> QED
    BY <2>6, <2>7
<1> QED
  BY <1>2, <1>3

LEMMA StopKeeps ==
  ASSUME NEW h, MapsOK(h), NEW m \in Managers
  PROVE  LET g == stopManager(h, m) IN
         /\ MapsOK(g)
         /\ \A s \in Subs : /\ g.sub[s].state = "live" => g.sub[s] = h.sub[s]
                            /\ g.sub[s].chan = h.sub[s].chan
                            /\ g.sub[s].resyncing = h.sub[s].resyncing
<1> DEFINE closed(s) == IF s \in Live(h, m) THEN [h.sub[s] EXCEPT !.state = "closed"]
                                            ELSE h.sub[s]
           sub == [s \in Subs |-> closed(s)]
           c == [[h EXCEPT !.stopped[m] = TRUE] EXCEPT !.sub = sub]
           g == stopManager(h, m)
<1>1. h \in Maps
  BY DEF MapsOK
<1>2. \A s \in Subs : h.sub[s] \in Subscription
  BY <1>1 DEF Maps
<1>3. \A s \in Subs : /\ closed(s) \in Subscription
                      /\ closed(s).chan = h.sub[s].chan
                      /\ closed(s).resyncing = h.sub[s].resyncing
                      /\ s \in Live(h, m) => closed(s).state = "closed"
                      /\ s \notin Live(h, m) => closed(s) = h.sub[s]
  BY <1>2 DEF Subscription
<1> HIDE DEF closed
<1>4. sub \in [Subs -> Subscription] /\ \A s \in Subs : sub[s] = closed(s)
  BY <1>3
<1> HIDE DEF sub
<1>5. /\ c \in Maps /\ c.buf = h.buf /\ c.seq = h.seq /\ c.sub = sub
      /\ \A k \in Managers \ {m} : c.stopped[k] = h.stopped[k]
  BY <1>1, <1>4 DEF Maps
<1>6. g = clearScopeStateLocked(c, m)
  BY DEF stopManager, sub, closed
<1> HIDE DEF c, g
<1>7. /\ g \in Maps /\ g.sub = c.sub /\ g.stopped = c.stopped
      /\ g.seq[m] = 0 /\ g.buf[m] = << >>
      /\ \A k \in Managers \ {m} : g.seq[k] = c.seq[k] /\ g.buf[k] = c.buf[k]
  BY <1>5, <1>6, ClearFacts
<1>8. \A s \in Subs : /\ g.sub[s].state = "live" => g.sub[s] = h.sub[s]
                      /\ s \in Live(h, m) => g.sub[s].state = "closed"
                      /\ s \notin Live(h, m) => g.sub[s] = h.sub[s]
                      /\ g.sub[s].chan = h.sub[s].chan
                      /\ g.sub[s].resyncing = h.sub[s].resyncing
  BY <1>3, <1>4, <1>5, <1>7
<1>9. /\ Live(g, m) = {}
      /\ \A k \in Managers \ {m} : Live(g, k) = Live(h, k)
  BY <1>8 DEF Live
<1>10. \A q \in Subs : /\ Len(g.sub[q].chan) <= SubscriberBufferSize
                       /\ g.sub[q].state = "live" => g.sub[q].on \in Managers
  BY <1>8 DEF MapsOK
<1>11. Tail_(g, m)
  BY <1>7, HubAssumption DEF Tail_
<1>12. \A k \in Managers \ {m} : Tail_(g, k)
  BY <1>5, <1>7 DEF Tail_, MapsOK
<1>13. \A k \in Managers : /\ Live(g, k) = {} => g.seq[k] = 0
                           /\ g.stopped[k] => Live(g, k) = {}
  BY <1>5, <1>7, <1>9 DEF MapsOK
<1> QED
  BY <1>7, <1>8, <1>10, <1>11, <1>12, <1>13 DEF MapsOK, g

LEMMA DroppingKeeps ==
  ASSUME NEW h, MapsOK(h), NEW D \in SUBSET Subs
  PROVE  LET g == [h EXCEPT !.dropping = D] IN MapsOK(g) /\ g.sub = h.sub
<1> DEFINE g == [h EXCEPT !.dropping = D]
<1>1. h \in Maps
  BY DEF MapsOK
<1>2. /\ g \in Maps /\ g.sub = h.sub /\ g.seq = h.seq /\ g.buf = h.buf
      /\ g.stopped = h.stopped
  BY <1>1 DEF Maps
<1> HIDE DEF g
<1>3. \A k \in Managers : Live(g, k) = Live(h, k)
  BY <1>2 DEF Live
<1>4. \A k \in Managers : Tail_(g, k)
  BY <1>2 DEF MapsOK, Tail_
<1> QED
  BY <1>2, <1>3, <1>4 DEF MapsOK, g

\* What a sequence holds after an element was added to its end, without and
\* with the loss of its first.
LEMMA AppendFacts ==
  ASSUME NEW q \in Seq(Nat), NEW n \in Nat
  PROVE  /\ Append(q, n) \in Seq(Nat) /\ Len(Append(q, n)) = Len(q) + 1
         /\ Append(q, n)[Len(q) + 1] = n /\ Append(q, n) # << >>
         /\ \A i \in 1 .. Len(q) : Append(q, n)[i] = q[i]
<1>1. Append(q, n) \in Seq(Nat) /\ Len(Append(q, n)) = Len(q) + 1
  OBVIOUS
<1>2. Append(q, n)[Len(q) + 1] = n
  OBVIOUS
<1>3. Append(q, n) # << >>
  BY <1>1
<1>4. \A i \in 1 .. Len(q) : Append(q, n)[i] = q[i]
  OBVIOUS
<1> QED
  BY <1>1, <1>2, <1>3, <1>4

LEMMA TailAppendFacts ==
  ASSUME NEW q \in Seq(Nat), NEW n \in Nat, Len(q) > 0
  PROVE  LET c == Append(Tail(q), n) IN
         /\ c \in Seq(Nat) /\ Len(c) = Len(q) /\ c[Len(q)] = n /\ c # << >>
         /\ \A i \in 1 .. Len(q) - 1 : c[i] = q[i + 1]
<1>1. /\ Tail(q) \in Seq(Nat) /\ Len(Tail(q)) = Len(q) - 1
      /\ \A i \in 1 .. Len(q) - 1 : Tail(q)[i] = q[i + 1]
  OBVIOUS
<1> QED
  BY <1>1, AppendFacts

\* What the resume buffer holds after one more number.
LEMMA BufferedFacts ==
  ASSUME NEW b \in Seq(Nat), NEW n \in Nat, Len(b) <= ResumeBufferSize
  PROVE  LET c == Buffered(b, n) IN
         /\ c \in Seq(Nat) /\ Len(c) \in 1 .. ResumeBufferSize /\ c[Len(c)] = n
         /\ \/ Len(c) = Len(b) + 1 /\ \A i \in 1 .. Len(b) : c[i] = b[i]
            \/ Len(c) = Len(b) /\ \A i \in 1 .. Len(b) - 1 : c[i] = b[i + 1]
<1>1. CASE Len(b) < ResumeBufferSize
  BY <1>1, AppendFacts, HubAssumption DEF Buffered
<1>2. CASE ~(Len(b) < ResumeBufferSize)
  <2>1. Len(b) = ResumeBufferSize /\ Len(b) > 0
    BY <1>2, HubAssumption
  <2>2. Buffered(b, n) = Append(Tail(b), n)
    BY <1>2 DEF Buffered
  <2> QED
    BY <2>1, <2>2, TailAppendFacts, HubAssumption
<1> QED
  BY <1>1, <1>2

LEMMA PreparedKeeps ==
  ASSUME NEW h, MapsOK(h), NEW m \in Managers
  PROVE  MapsOK(prepared(h, m)) /\ prepared(h, m).sub = h.sub
<1> DEFINE n == h.seq[m] + 1
           b == Buffered(h.buf[m], n)
           g == prepared(h, m)
<1>1. h \in Maps
  BY DEF MapsOK
<1>2. CASE ~Numbered(h, m)
  BY <1>2 DEF prepared
<1>3. CASE Numbered(h, m)
  <2>1. Live(h, m) # {}
    BY <1>1, <1>3 DEF Numbered, MapsOK
  <2>2. /\ n \in Nat /\ n > 0 /\ h.seq[m] = n - 1 /\ h.buf[m] \in Seq(Nat)
        /\ Len(h.buf[m]) <= ResumeBufferSize
        /\ \A i \in 1 .. Len(h.buf[m]) : h.buf[m][i] = n - 1 - Len(h.buf[m]) + i
    <3>1. h.seq[m] \in Nat /\ h.buf[m] \in Seq(Nat)
      BY <1>1 DEF Maps
    <3>2. /\ Len(h.buf[m]) <= ResumeBufferSize
          /\ \A i \in 1 .. Len(h.buf[m]) : h.buf[m][i] = h.seq[m] - Len(h.buf[m]) + i
      BY <3>1 DEF MapsOK, Tail_
    <3> QED
      BY <3>1, <3>2
  <2> HIDE DEF n
  <2>3. /\ b \in Seq(Nat) /\ Len(b) \in 1 .. ResumeBufferSize /\ b[Len(b)] = n
        /\ \/ Len(b) = Len(h.buf[m]) + 1
              /\ \A i \in 1 .. Len(h.buf[m]) : b[i] = h.buf[m][i]
           \/ Len(b) = Len(h.buf[m])
              /\ \A i \in 1 .. Len(h.buf[m]) - 1 : b[i] = h.buf[m][i + 1]
    BY <2>2, BufferedFacts
  <2> HIDE DEF b
  <2>4. g = [h EXCEPT !.seq = [h.seq EXCEPT ![m] = n], !.buf = [h.buf EXCEPT ![m] = b]]
    BY <1>1, <1>3 DEF prepared, Maps, n, b
  <2> HIDE DEF g
  <2>5. /\ g \in Maps /\ g.sub = h.sub /\ g.stopped = h.stopped
        /\ g.seq[m] = n /\ g.buf[m] = b
        /\ \A k \in Managers \ {m} : g.seq[k] = h.seq[k] /\ g.buf[k] = h.buf[k]
    BY <1>1, <2>2, <2>3, <2>4 DEF Maps
  <2>6. \A k \in Managers : Live(g, k) = Live(h, k)
    BY <2>5 DEF Live
  <2>7. ASSUME NEW i \in 1 .. Len(b) PROVE b[i] = n - Len(b) + i
    <3> DEFINE a == h.buf[m]
    <3>1. Len(a) \in Nat /\ Len(b) \in Nat /\ i \in Nat /\ 1 <= i /\ i <= Len(b)
      BY <2>2, <2>3
    <3>5. \A j \in 1 .. Len(a) : a[j] = n - 1 - Len(a) + j
      BY <2>2
    <3> HIDE DEF a
    <3>2. CASE i = Len(b)
      BY <2>2, <2>3, <3>1, <3>2
    <3>3. CASE i # Len(b) /\ Len(b) = Len(a) + 1 /\ \A j \in 1 .. Len(a) : b[j] = a[j]
      <4>1. i \in 1 .. Len(a)
        BY <3>1, <3>3
      <4>2. a[i] = n - 1 - Len(a) + i /\ b[i] = a[i]
        BY <3>3, <3>5, <4>1
      <4> QED
        BY <2>2, <3>1, <3>3, <4>2
    <3>4. CASE i # Len(b) /\ Len(b) = Len(a) /\ \A j \in 1 .. Len(a) - 1 : b[j] = a[j + 1]
      <4>1. i + 1 \in 1 .. Len(a) /\ i \in 1 .. Len(a) - 1
        BY <3>1, <3>4
      <4>2. a[i + 1] = n - 1 - Len(a) + (i + 1) /\ b[i] = a[i + 1]
        BY <3>4, <3>5, <4>1
      <4> QED
        BY <2>2, <3>1, <3>4, <4>2
    <3> QED
      BY <2>3, <3>2, <3>3, <3>4 DEF a
  <2>8. Tail_(g, m)
    <3>1. g.buf[m] = b /\ g.seq[m] = n /\ DOMAIN b = 1 .. Len(b)
      BY <2>3, <2>5
    <3>2. Len(b) <= ResumeBufferSize /\ Len(b) > 0
      BY <2>3, HubAssumption
    <3> QED
      BY <2>2, <2>7, <3>1, <3>2 DEF Tail_
  <2>9. \A k \in Managers \ {m} : Tail_(g, k)
    BY <2>5 DEF MapsOK, Tail_
  <2> QED
    BY <2>1, <2>5, <2>6, <2>8, <2>9 DEF MapsOK, g
<1> QED
  BY <1>2, <1>3

\* A message, or a RESET in its place, is in the channel of a live subscription.
LEMMA TrySendKeeps ==
  ASSUME NEW h, MapsOK(h), NEW t, ResetOK(h, t), NEW s \in Subs, NEW n \in Nat
  PROVE  LET g == trySend(h, s, n) IN
         /\ MapsOK(g) /\ ResetOK(g, t)
         /\ g.sub[s].state = h.sub[s].state
         /\ h.sub[s].state = "live" => g.sub[s].chan # << >> /\ g.sub[s].on = h.sub[s].on
         /\ \A q \in Subs \ {s} : g.sub[q] = h.sub[q]
<1> DEFINE r == h.sub[s]
           g == trySend(h, s, n)
<1>1. h \in Maps /\ r \in Subscription /\ Len(r.chan) <= SubscriberBufferSize
  BY DEF MapsOK, Maps
<1>2. CASE r.state # "live"
  BY <1>2 DEF trySend
<1>3. CASE r.state = "live" /\ Len(r.chan) < SubscriberBufferSize
  <2> DEFINE p == [r EXCEPT !.chan = Append(@, n)]
  <2>1. r.chan \in Seq(Nat) /\ Append(r.chan, n) \in Seq(Nat)
    BY <1>1, AppendFacts DEF Subscription
  <2>2. /\ p \in Subscription /\ p.state = r.state /\ p.on = r.on
        /\ p.resyncing = r.resyncing /\ p.chan = Append(r.chan, n)
    BY <1>1, <2>1 DEF Subscription
  <2>3. g = [h EXCEPT !.sub[s] = p]
    BY <1>3 DEF trySend
  <2> HIDE DEF p, g, r
  <2>4. MapsOK(g)
    <3>1. Len(p.chan) <= SubscriberBufferSize
      BY <1>3, <2>1, <2>2, AppendFacts, HubAssumption
    <3> QED
      BY <2>2, <2>3, <3>1, ChannelKeeps DEF r
  <2>5. g.sub[s] = p /\ \A q \in Subs \ {s} : g.sub[q] = h.sub[q]
    BY <1>1, <2>3 DEF Maps
  <2>6. p.chan # << >>
    BY <2>1, <2>2, AppendFacts
  <2>7. ResetOK(g, t)
    <3>1. ASSUME r.resyncing, s \notin t
          PROVE  \E i \in DOMAIN p.chan : p.chan[i] = Reset
      <4>1. PICK i \in DOMAIN r.chan : r.chan[i] = Reset
        BY <3>1 DEF ResetOK, r
      <4>2. i \in DOMAIN p.chan /\ p.chan[i] = Reset
        BY <2>1, <2>2, <4>1, AppendFacts
      <4> QED
        BY <4>2
    <3> QED
      BY <2>2, <2>5, <3>1 DEF ResetOK
  <2> QED
    BY <2>2, <2>4, <2>5, <2>6, <2>7 DEF g, r
<1>4. CASE r.state = "live" /\ ~(Len(r.chan) < SubscriberBufferSize)
  <2> DEFINE p == Overflowed(r)
             D == IF r.resyncing THEN h.dropping \cup {s} ELSE h.dropping
             c == [h EXCEPT !.sub[s] = p]
  <2>1. Len(r.chan) > 0 /\ r.chan \in Seq(Nat)
    BY <1>1, <1>4, HubAssumption DEF Subscription
  <2>2. /\ Append(Tail(r.chan), Reset) \in Seq(Nat)
        /\ Len(Append(Tail(r.chan), Reset)) = Len(r.chan)
        /\ Append(Tail(r.chan), Reset)[Len(r.chan)] = Reset
    BY <2>1, TailAppendFacts DEF Reset
  <2>3. /\ p \in Subscription /\ p.state = r.state /\ p.on = r.on
        /\ p.chan = Append(Tail(r.chan), Reset)
    BY <1>1, <2>2 DEF Subscription, Overflowed
  <2>4. g = [c EXCEPT !.dropping = D]
    BY <1>1, <1>4 DEF trySend, Maps
  <2>5. D \in SUBSET Subs
    BY <1>1 DEF Maps
  <2> HIDE DEF p, D, g, r
  <2>6. MapsOK(c)
    BY <1>1, <1>4, <2>2, <2>3, ChannelKeeps DEF r
  <2>7. c.sub[s] = p /\ \A q \in Subs \ {s} : c.sub[q] = h.sub[q]
    BY <1>1 DEF Maps
  <2> HIDE DEF c
  <2>8. MapsOK(g) /\ g.sub = c.sub
    BY <2>4, <2>5, <2>6, DroppingKeeps
  <2>9. p.chan # << >> /\ \E i \in DOMAIN p.chan : p.chan[i] = Reset
    <3>1. p.chan # << >>
      BY <2>1, <2>3, TailAppendFacts DEF Reset
    <3>2. Len(r.chan) \in DOMAIN p.chan /\ p.chan[Len(r.chan)] = Reset
      BY <2>1, <2>2, <2>3
    <3> QED
      BY <3>1, <3>2
  <2>10. ResetOK(g, t)
    BY <2>7, <2>8, <2>9 DEF ResetOK
  <2> QED
    BY <2>3, <2>7, <2>8, <2>9, <2>10 DEF g, r
<1> QED
  BY <1>2, <1>3, <1>4

-----------------------------------------------------------------------------
(* The steps.                                                              *)

LEMMA InitIInv == ReadersInit => IInv
<1> SUFFICES ASSUME ReadersInit PROVE IInv
  OBVIOUS
<1> USE DEF ReadersInit, HubInit
<1>1. FreeSub \in Subscription /\ << >> \in Seq(Nat) /\ IdleWorker \in InformerState
  BY DEF FreeSub, Subscription, Lives, IdleWorker, InformerState
<1>2. hub \in Maps
  BY <1>1 DEF Maps
<1>3. MapsOK(hub)
  BY <1>2, HubAssumption DEF MapsOK, Tail_, FreeSub, Live
<1>4. ResetOK(hub, told)
  BY DEF ResetOK, FreeSub
<1>5. world \in 0 .. MaxChanges /\ known \in [Subs -> 0 .. MaxChanges]
  BY HubAssumption
<1> QED
  BY <1>1, <1>3, <1>4, <1>5 DEF IInv, IdleWorker

\* The steps of a reader.
LEMMA ReaderStep ==
  ASSUME IInv, NEW s \in Subs
  PROVE  /\ \A m \in Managers : SubscribeSelector(s, m) => IInv'
         /\ Receive(s) => IInv'
         /\ Cancel(s) => IInv'
         /\ Forget(s) => IInv'
<1> DEFINE r == hub.sub[s]
<1>1. /\ MapsOK(hub) /\ ResetOK(hub, told) /\ hub \in Maps
      /\ r \in Subscription /\ r.chan \in Seq(Nat) /\ Len(r.chan) <= SubscriberBufferSize
  BY DEF IInv, MapsOK, Maps, Subscription
<1>2. ASSUME NEW m \in Managers, SubscribeSelector(s, m) PROVE IInv'
  <2>1. MapsOK(hub')
    BY <1>1, <1>2, SubscribeKeeps DEF SubscribeSelector, FreeSub
  <2>2. /\ hub'.sub[s].resyncing = FALSE
        /\ \A q \in Subs \ {s} : hub'.sub[q] = hub.sub[q]
    BY <1>1, <1>2 DEF SubscribeSelector, addSubscriber, Maps
  <2>3. ResetOK(hub', told')
    BY <1>1, <1>2, <2>2 DEF ResetOK, SubscribeSelector
  <2> QED
    BY <1>2, <2>1, <2>3 DEF IInv, SubscribeSelector
<1>3. ASSUME Receive(s) PROVE IInv'
  <2> DEFINE p == [r EXCEPT !.chan = Tail(@)]
  <2>1. /\ Len(r.chan) > 0 /\ Tail(r.chan) \in Seq(Nat)
        /\ Len(Tail(r.chan)) = Len(r.chan) - 1
        /\ \A i \in 1 .. Len(r.chan) - 1 : Tail(r.chan)[i] = r.chan[i + 1]
    BY <1>1, <1>3 DEF Receive
  <2>2. /\ p \in Subscription /\ p.state = r.state /\ p.on = r.on
        /\ p.chan = Tail(r.chan) /\ p.resyncing = r.resyncing
    BY <1>1, <2>1 DEF Subscription
  <2>3. hub' = [hub EXCEPT !.sub[s] = p]
    BY <1>3 DEF Receive
  <2>4. Len(p.chan) <= SubscriberBufferSize
    BY <1>1, <2>1, <2>2, HubAssumption
  <2> HIDE DEF p, r
  <2>5. MapsOK(hub')
    BY <1>1, <2>2, <2>3, <2>4, ChannelKeeps DEF r
  <2>6. hub'.sub[s] = p /\ \A q \in Subs \ {s} : hub'.sub[q] = hub.sub[q]
    BY <1>1, <2>3 DEF Maps
  <2>7. /\ told \subseteq told' /\ told' \subseteq Subs
        /\ Head(r.chan) = Reset => s \in told'
    BY <1>3 DEF Receive, IInv, r
  <2>8. ASSUME r.resyncing, s \notin told' PROVE \E i \in DOMAIN p.chan : p.chan[i] = Reset
    <3>1. PICK i \in DOMAIN r.chan : r.chan[i] = Reset
      BY <1>1, <2>7, <2>8 DEF ResetOK, r
    <3>2. i # 1
      BY <1>1, <2>1, <2>7, <2>8, <3>1
    <3>3. i - 1 \in 1 .. Len(r.chan) - 1 /\ (i - 1) + 1 = i
      BY <1>1, <3>1, <3>2
    <3>4. i - 1 \in DOMAIN p.chan /\ p.chan[i - 1] = Reset
      BY <2>1, <2>2, <3>1, <3>3
    <3> QED
      BY <3>4
  <2>9. ResetOK(hub', told')
    BY ZenonT(60), <1>1, <2>2, <2>6, <2>7, <2>8 DEF ResetOK, r
  <2> QED
    BY <1>3, <2>5, <2>7, <2>9 DEF IInv, Receive
<1>4. ASSUME Cancel(s) PROVE IInv'
  <2>1. hub' = dropSubscriber(hub, s) /\ told' = told
    BY <1>4 DEF Cancel
  <2>2. /\ MapsOK(hub')
        /\ \A q \in Subs : /\ hub'.sub[q].resyncing = hub.sub[q].resyncing
                            /\ hub'.sub[q].chan = hub.sub[q].chan
    BY <1>1, <2>1, DropKeeps
  <2>3. ResetOK(hub', told')
    BY <1>1, <2>1, <2>2 DEF ResetOK
  <2> QED
    BY <1>4, <2>2, <2>3 DEF IInv, Cancel
<1>5. ASSUME Forget(s) PROVE IInv'
  <2>1. FreeSub \in Subscription /\ Len(FreeSub.chan) = 0 /\ FreeSub.state = "closed"
        /\ FreeSub.resyncing = FALSE
    BY DEF FreeSub, Subscription, Lives
  <2>2. hub' = [hub EXCEPT !.sub[s] = FreeSub]
    BY <1>5 DEF Forget, Released
  <2>3. MapsOK(hub')
    BY <1>1, <1>5, <2>1, <2>2, ChannelKeeps, HubAssumption DEF Forget
  <2>4. hub'.sub[s] = FreeSub /\ \A q \in Subs \ {s} : hub'.sub[q] = hub.sub[q]
    BY <1>1, <2>2 DEF Maps
  <2>5. ResetOK(hub', told')
    BY <1>1, <1>5, <2>1, <2>4 DEF ResetOK, Forget
  <2>6. known' \in [Subs -> 0 .. MaxChanges] /\ told' \subseteq Subs
    BY <1>5, HubAssumption DEF Forget, IInv
  <2> QED
    BY <1>5, <2>3, <2>5, <2>6 DEF IInv, Forget
<1> QED
  BY <1>2, <1>3, <1>4, <1>5

\* The steps of the informer goroutines and of a drop.
LEMMA WorkerType ==
  ASSUME IInv, NEW w \in Workers, NEW r \in InformerState,
         r.pc # "idle" => r.on \in Managers, worker' = [worker EXCEPT ![w] = r]
  PROVE  /\ worker' \in [Workers -> InformerState]
         /\ \A v \in Workers : worker'[v].pc # "idle" => worker'[v].on \in Managers
BY DEF IInv

LEMMA HubStepKeeps ==
  ASSUME IInv, HubGoroutines
  PROVE  IInv'
<1>1. /\ MapsOK(hub) /\ ResetOK(hub, told) /\ hub \in Maps
      /\ worker \in [Workers -> InformerState]
      /\ IdleWorker \in InformerState /\ IdleWorker.pc = "idle"
  BY DEF IInv, MapsOK, IdleWorker, InformerState
<1>2. UNCHANGED << known, told >>
  BY DEF HubGoroutines
<1>3. ASSUME NEW w \in Workers, NEW m \in Managers, Change(w, m) PROVE IInv'
  <2> DEFINE r == [worker[w] EXCEPT !.pc = "announce", !.on = m]
  <2>1. worker[w] \in InformerState
    BY <1>1
  <2>2. r \in InformerState /\ r.on = m
    BY <2>1 DEF InformerState
  <2>3. worker' = [worker EXCEPT ![w] = r]
    BY <1>3 DEF Change
  <2>4. world' \in 0 .. MaxChanges
    BY <1>3, HubAssumption DEF Change, IInv
  <2> HIDE DEF r
  <2> QED
    BY <1>2, <1>3, <2>2, <2>3, <2>4, WorkerType DEF Change, IInv
<1>4. ASSUME NEW w \in Workers, prepareBroadcast(w) PROVE IInv'
  <2> DEFINE m == worker[w].on
             r == [worker[w] EXCEPT !.pc = "send", !.n = hub.seq[m] + 1, !.to = Live(hub, m)]
  <2>1. worker[w] \in InformerState /\ m \in Managers
    BY <1>1, <1>4 DEF IInv, prepareBroadcast
  <2>2. hub.seq[m] + 1 \in Nat /\ Live(hub, m) \subseteq Subs
    BY <1>1, <2>1 DEF Maps, Live
  <2>3. r \in InformerState /\ r.on = m
    BY <2>1, <2>2 DEF InformerState
  <2>4. \/ worker' = [worker EXCEPT ![w] = r]
        \/ worker' = [worker EXCEPT ![w] = IdleWorker]
    BY <1>4 DEF prepareBroadcast
  <2>5. hub' = prepared(hub, m) /\ UNCHANGED world
    BY <1>4 DEF prepareBroadcast
  <2> HIDE DEF m, r
  <2>6. MapsOK(hub') /\ hub'.sub = hub.sub
    BY <1>1, <2>1, <2>5, PreparedKeeps
  <2>7. ResetOK(hub', told')
    BY <1>1, <1>2, <2>6 DEF ResetOK
  <2>8. /\ worker' \in [Workers -> InformerState]
        /\ \A v \in Workers : worker'[v].pc # "idle" => worker'[v].on \in Managers
    BY <1>1, <2>1, <2>3, <2>4, WorkerType
  <2> QED
    BY <1>2, <2>5, <2>6, <2>7, <2>8 DEF IInv
<1>5. ASSUME NEW w \in Workers, Send(w) PROVE IInv'
  <2> DEFINE s == worker[w].at
             r == Finished([worker[w] EXCEPT !.at = None])
  <2>1. worker[w] \in InformerState /\ s \in Subs /\ worker[w].n \in Nat
        /\ worker[w].on \in Managers
    BY <1>1, <1>5 DEF Send, InformerState, IInv
  <2>2. r \in InformerState /\ (r.pc # "idle" => r.on \in Managers)
    BY <1>1, <2>1 DEF Finished, InformerState
  <2>3. /\ hub' = trySend(hub, s, worker[w].n) /\ UNCHANGED world
        /\ worker' = [worker EXCEPT ![w] = r]
    BY <1>5 DEF Send
  <2> HIDE DEF s, r
  <2>4. MapsOK(hub') /\ ResetOK(hub', told')
    BY <1>1, <1>2, <2>1, <2>3, TrySendKeeps
  <2> QED
    BY <1>2, <2>2, <2>3, <2>4, WorkerType DEF IInv
<1>6. ASSUME NEW w \in Workers, NEW s \in Subs, CheckResyncing(w, s) PROVE IInv'
  <2> DEFINE r == [worker[w] EXCEPT !.to = @ \ {s},
                                    !.at = IF hub.sub[s].resyncing THEN None ELSE s]
  <2>1. worker[w] \in InformerState /\ worker[w].on \in Managers
    BY <1>1, <1>6 DEF CheckResyncing, IInv
  <2>2. r \in InformerState /\ r.on \in Managers
    BY <2>1 DEF InformerState
  <2>3. worker' = [worker EXCEPT ![w] = Finished(r)] /\ UNCHANGED << world, hub >>
    BY <1>6 DEF CheckResyncing
  <2> HIDE DEF r
  <2>4. Finished(r) \in InformerState /\ (Finished(r).pc # "idle" => Finished(r).on \in Managers)
    BY <1>1, <2>2 DEF Finished
  <2> QED
    BY <1>2, <2>3, <2>4, WorkerType DEF IInv
<1>7. ASSUME NEW s \in Subs, DropGoroutine(s) PROVE IInv'
  <2> DEFINE c == dropSubscriber(hub, s)
  <2>0. /\ MapsOK(c)
        /\ \A q \in Subs : /\ c.sub[q].resyncing = hub.sub[q].resyncing
                            /\ c.sub[q].chan = hub.sub[q].chan
    BY <1>1, DropKeeps
  <2>1. c \in Maps
    BY <2>0 DEF MapsOK
  <2>2. hub' = [c EXCEPT !.dropping = c.dropping \ {s}] /\ UNCHANGED << world, worker >>
    BY <1>7 DEF DropGoroutine
  <2>3. c.dropping \ {s} \in SUBSET Subs
    BY <2>1 DEF Maps
  <2> HIDE DEF c
  <2>4. MapsOK(hub') /\ hub'.sub = c.sub
    BY <2>0, <2>2, <2>3, DroppingKeeps
  <2>5. ResetOK(hub', told')
    BY <1>1, <1>2, <2>0, <2>4 DEF ResetOK
  <2> QED
    BY <1>2, <2>2, <2>4, <2>5 DEF IInv
<1> QED
  BY <1>3, <1>4, <1>5, <1>6, <1>7 DEF HubGoroutines

LEMMA NextIInv == IInv /\ [ReadersNext]_readersVars => IInv'
<1> SUFFICES ASSUME IInv, [ReadersNext]_readersVars PROVE IInv'
  OBVIOUS
<1>1. ASSUME NEW m \in Managers, Stop(m) PROVE IInv'
  <2>1. MapsOK(hub) /\ hub' = stopManager(hub, m)
    BY <1>1 DEF IInv, Stop
  <2>2. /\ MapsOK(hub')
        /\ \A s \in Subs : /\ hub'.sub[s].chan = hub.sub[s].chan
                            /\ hub'.sub[s].resyncing = hub.sub[s].resyncing
    BY <2>1, StopKeeps
  <2>3. ResetOK(hub', told')
    BY <1>1, <2>2 DEF IInv, ResetOK, Stop
  <2> QED
    BY <1>1, <2>2, <2>3 DEF IInv, Stop
<1>2. CASE UNCHANGED readersVars
  BY <1>2 DEF IInv, readersVars
<1> QED
  BY <1>1, <1>2, HubStepKeeps, ReaderStep DEF ReadersNext

LEMMA Invariance == ReadersSpec => []IInv
BY InitIInv, NextIInv, PTL DEF ReadersSpec

-----------------------------------------------------------------------------
\* Every variable keeps its type: the numbering and the buffers of every
\* manager, the channels of every reader within their bound.
THEOREM TypeCorrect == ReadersSpec => []ReadersTypeOK
BY Invariance, IInvImplies, PTL

\* The resume buffer is always the hole-free tail of the scope's numbering and
\* goes with its last subscriber (prepareBroadcast, clearScopeStateLocked).
THEOREM ResumeBuffer == ReadersSpec => []BufferIsTail
BY Invariance, IInvImplies, PTL

\* A stopped manager has no subscriber and takes none (Stop, addSubscriber).
THEOREM StopFinality == ReadersSpec => []StopIsTerminal
BY Invariance, IInvImplies, PTL

\* The RESET of an overflow stays in the channel until its reader takes it
\* (triggerResync), whatever overflows, drops and stops happen meanwhile.
THEOREM ResetDelivered == ReadersSpec => []ResetReachesReader
BY Invariance, IInvImplies, PTL

-----------------------------------------------------------------------------
(* NoSilentLoss speaks of the stores one manager announces; with a second  *)
(* manager a change would have to say whose stores it is about.            *)
OneManager == \A m, k \in Managers : m = k

Informed(s) ==
  hub.sub[s].state = "live" /\ known[s] < world =>
    hub.sub[s].chan # << >> \/ OnItsWay(s) \/ s \in told

\* A step of an informer goroutine leaves the other goroutines' messages on
\* their way.
LEMMA OthersOnTheirWay ==
  ASSUME IInv, NEW w \in Workers, NEW r, worker' = [worker EXCEPT ![w] = r],
         NEW s \in Subs, hub'.sub[s].on = hub.sub[s].on,
         OnItsWay(s),
         \/ worker[w].pc # "announce" /\ s \notin worker[w].to /\ worker[w].at # s
         \/ s \in r.to \/ r.at = s
  PROVE  OnItsWay(s)'
<1>1. worker \in [Workers -> InformerState]
  BY DEF IInv
<1>2. worker'[w] = r /\ \A v \in Workers \ {w} : worker'[v] = worker[v]
  BY <1>1
<1>3. CASE s \in r.to \/ r.at = s
  BY <1>2, <1>3 DEF OnItsWay
<1>4. CASE worker[w].pc # "announce" /\ s \notin worker[w].to /\ worker[w].at # s
  <2>1. PICK v \in Workers : \/ worker[v].pc = "announce" /\ worker[v].on = hub.sub[s].on
                             \/ s \in worker[v].to \/ worker[v].at = s
    BY DEF OnItsWay
  <2>2. v # w
    BY <1>4, <2>1
  <2> QED
    BY <1>2, <2>1, <2>2 DEF OnItsWay
<1> QED
  BY <1>3, <1>4

LEMMA InformedByWorkers ==
  ASSUME OneManager, IInv, NoSilentLoss, HubGoroutines, NEW s \in Subs
  PROVE  Informed(s)'
<1> SUFFICES ASSUME hub'.sub[s].state = "live", known[s] < world'
             PROVE  hub'.sub[s].chan # << >> \/ OnItsWay(s)' \/ s \in told
  BY DEF Informed, HubGoroutines
<1>1. /\ MapsOK(hub) /\ ResetOK(hub, told) /\ hub \in Maps
      /\ worker \in [Workers -> InformerState] /\ None \notin Subs /\ UNCHANGED told
  BY HubAssumption DEF IInv, MapsOK, HubGoroutines
<1>2. ASSUME NEW w \in Workers, NEW m \in Managers, Change(w, m)
      PROVE  OnItsWay(s)'
  <2>1. hub' = hub /\ worker'[w].pc = "announce" /\ worker'[w].on = m
    BY <1>1, <1>2 DEF Change, InformerState
  <2>2. hub.sub[s].on = m
    BY <1>1, <2>1 DEF MapsOK, OneManager
  <2> QED
    BY <2>1, <2>2 DEF OnItsWay
<1>3. ASSUME NEW w \in Workers, prepareBroadcast(w)
      PROVE  hub'.sub[s].chan # << >> \/ OnItsWay(s)' \/ s \in told
  <2> DEFINE m == worker[w].on
  <2>1. m \in Managers /\ hub' = prepared(hub, m) /\ worker[w] \in InformerState
    BY <1>1, <1>3 DEF IInv, prepareBroadcast
  <2>2. hub'.sub = hub.sub
    BY <1>1, <2>1, PreparedKeeps
  <2>3. s \in Live(hub, m)
    BY <1>1, <2>1, <2>2 DEF MapsOK, OneManager, Live
  <2>4. worker'[w].to = Live(hub, m)
    BY <1>1, <1>3, <2>1, <2>3 DEF prepareBroadcast, InformerState
  <2> QED
    BY <2>3, <2>4 DEF OnItsWay
<1>4. ASSUME NEW w \in Workers, Send(w)
      PROVE  hub'.sub[s].chan # << >> \/ OnItsWay(s)' \/ s \in told
  <2> DEFINE q == worker[w].at
             r == Finished([worker[w] EXCEPT !.at = None])
  <2>1. /\ worker[w] \in InformerState /\ q \in Subs /\ worker[w].n \in Nat
        /\ worker[w].pc = "send" /\ world' = world
        /\ hub' = trySend(hub, q, worker[w].n) /\ worker' = [worker EXCEPT ![w] = r]
    BY <1>1, <1>4 DEF Send, InformerState
  <2>2. CASE s = q
    BY <1>1, <2>1, <2>2, TrySendKeeps
  <2>3. CASE s # q
    <3>1. hub'.sub[s] = hub.sub[s]
      BY <1>1, <2>1, <2>3, TrySendKeeps
    <3>2. hub.sub[s].chan # << >> \/ OnItsWay(s) \/ s \in told
      BY <2>1, <3>1 DEF NoSilentLoss
    <3>3. s \in worker[w].to => s \in r.to
      BY <2>1 DEF Finished, InformerState
    <3> QED
      BY <2>1, <2>3, <3>1, <3>2, <3>3, OthersOnTheirWay
  <2> QED
    BY <2>2, <2>3
<1>5. ASSUME NEW w \in Workers, NEW q \in Subs, CheckResyncing(w, q)
      PROVE  hub'.sub[s].chan # << >> \/ OnItsWay(s)' \/ s \in told
  <2> DEFINE p == [worker[w] EXCEPT !.to = @ \ {q},
                                    !.at = IF hub.sub[q].resyncing THEN None ELSE q]
             r == Finished(p)
  <2>1. /\ worker[w] \in InformerState /\ worker[w].pc = "send" /\ worker[w].at = None
        /\ hub' = hub /\ world' = world /\ worker' = [worker EXCEPT ![w] = r]
    BY <1>1, <1>5 DEF CheckResyncing
  <2>2. /\ p.to = worker[w].to \ {q}
        /\ p.at = IF hub.sub[q].resyncing THEN None ELSE q
        /\ p.to # {} \/ p.at # None => r = p
    BY <2>1 DEF Finished, InformerState
  <2>3. hub.sub[s].chan # << >> \/ OnItsWay(s) \/ s \in told
    BY <2>1 DEF NoSilentLoss
  <2> HIDE DEF p, r
  <2>4. CASE s = q /\ hub.sub[q].resyncing
    <3>1. s \notin told => hub.sub[s].chan # << >>
      BY <1>1, <2>4 DEF ResetOK
    <3> QED
      BY <2>1, <3>1
  <2>5. CASE s = q /\ ~hub.sub[q].resyncing
    <3>1. r.at = s /\ worker'[w] = r
      BY <1>1, <2>1, <2>2, <2>5
    <3> QED
      BY <3>1 DEF OnItsWay
  <2>6. CASE s # q
    <3>1. s \in worker[w].to => s \in r.to
      BY <2>2, <2>6
    <3>2. worker[w].pc # "announce" /\ worker[w].at # s
      BY <1>1, <2>1
    <3> QED
      BY <2>1, <2>3, <3>1, <3>2, OthersOnTheirWay
  <2> QED
    BY <2>4, <2>5, <2>6
<1>6. ASSUME NEW q \in Subs, DropGoroutine(q)
      PROVE  hub'.sub[s].chan # << >> \/ OnItsWay(s)' \/ s \in told
  <2> DEFINE c == dropSubscriber(hub, q)
  <2>1. /\ c \in Maps /\ c.sub[q].state = "closed"
        /\ \A p \in Subs \ {q} : c.sub[p] = hub.sub[p]
    BY <1>1, DropKeeps DEF MapsOK
  <2>2. hub' = [c EXCEPT !.dropping = c.dropping \ {q}] /\ UNCHANGED << world, worker >>
    BY <1>6 DEF DropGoroutine
  <2> HIDE DEF c
  <2>3. hub'.sub = c.sub
    BY <2>1, <2>2 DEF Maps
  <2>4. s # q /\ hub'.sub[s] = hub.sub[s]
    BY <2>1, <2>3
  <2> QED
    BY <1>1, <2>2, <2>4 DEF NoSilentLoss, OnItsWay
<1> QED
  BY <1>2, <1>3, <1>4, <1>5, <1>6 DEF HubGoroutines

LEMMA InformedByReaders ==
  ASSUME IInv, NoSilentLoss, NEW s \in Subs, NEW q \in Subs,
         \/ \E m \in Managers : SubscribeSelector(q, m)
         \/ Receive(q) \/ Cancel(q) \/ Forget(q)
  PROVE  Informed(s)'
<1>1. /\ MapsOK(hub) /\ hub \in Maps /\ UNCHANGED << world, worker >>
      /\ known \in [Subs -> 0 .. MaxChanges] /\ world \in Nat
  BY HubAssumption DEF IInv, MapsOK, SubscribeSelector, Receive, Cancel, Forget
<1>2. \A p \in Subs \ {q} : /\ hub'.sub[p] = hub.sub[p] /\ known'[p] = known[p]
                            /\ p \in told' <=> p \in told
  <2>1. CASE \E m \in Managers : SubscribeSelector(q, m)
    BY <1>1, <2>1 DEF SubscribeSelector, addSubscriber, Maps
  <2>2. CASE Receive(q)
    BY <1>1, <2>2 DEF Receive, Maps
  <2>3. CASE Cancel(q)
    BY <1>1, <2>3, DropKeeps DEF Cancel
  <2>4. CASE Forget(q)
    BY <1>1, <2>4 DEF Forget, Released, Maps
  <2> QED
    BY <2>1, <2>2, <2>3, <2>4
<1>3. CASE s # q
  <2>1. (OnItsWay(s) => OnItsWay(s)')
    BY <1>1, <1>2, <1>3 DEF OnItsWay
  <2> QED
    BY <1>1, <1>2, <1>3, <2>1 DEF NoSilentLoss, Informed
<1>4. CASE s = q
  <2>1. hub'.sub[q].state = "live" => known'[q] = world'
    <3>1. CASE \E m \in Managers : SubscribeSelector(q, m)
      BY <1>1, <3>1 DEF SubscribeSelector
    <3>2. CASE Receive(q)
      BY <1>1, <3>2 DEF Receive
    <3>3. CASE Cancel(q)
      BY <1>1, <3>3, DropKeeps DEF Cancel
    <3>4. CASE Forget(q)
      BY <1>1, <3>4 DEF Forget, Released, FreeSub, Maps
    <3> QED
      BY <3>1, <3>2, <3>3, <3>4
  <2> QED
    BY <1>1, <1>4, <2>1 DEF Informed
<1> QED
  BY <1>3, <1>4

LEMMA NextNoSilentLoss ==
  ASSUME OneManager
  PROVE  IInv /\ NoSilentLoss /\ [ReadersNext]_readersVars => NoSilentLoss'
<1> SUFFICES ASSUME IInv, NoSilentLoss, [ReadersNext]_readersVars, NEW s \in Subs
             PROVE  Informed(s)'
  BY DEF NoSilentLoss, Informed
<1>1. ASSUME NEW m \in Managers, Stop(m) PROVE Informed(s)'
  <2>1. /\ hub' = stopManager(hub, m) /\ MapsOK(hub)
        /\ UNCHANGED << world, worker, known, told >>
    BY <1>1 DEF Stop, IInv
  <2>2. hub'.sub[s].state = "live" => hub'.sub[s] = hub.sub[s]
    BY <2>1, StopKeeps
  <2> QED
    BY <2>1, <2>2 DEF Informed, NoSilentLoss, OnItsWay
<1>2. CASE UNCHANGED readersVars
  BY <1>2 DEF readersVars, Informed, NoSilentLoss, OnItsWay
<1> QED
  BY <1>1, <1>2, InformedByWorkers, InformedByReaders DEF ReadersNext

\* However many broadcasts interleave and however slow a reader is, a change is
\* waiting for it, on its way to it, or it was told to start over
\* (broadcastScope, trySend, triggerResync).
THEOREM NothingLostSilently ==
  ASSUME OneManager
  PROVE  ReadersSpec => []NoSilentLoss
<1>1. ReadersInit => NoSilentLoss
  BY HubAssumption DEF ReadersInit, HubInit, NoSilentLoss
<1>2. IInv /\ NoSilentLoss /\ [ReadersNext]_readersVars => NoSilentLoss'
  BY NextNoSilentLoss
<1> QED
  BY <1>1, <1>2, Invariance, PTL DEF ReadersSpec

-----------------------------------------------------------------------------
(* The stream end to end: nothing a manager serves is without a session.   *)

\* A session's record.  What its queues and its token hold plays no role.  One that
\* has ended has let go of its subscription, and may still be adding another.
SessionOK(ss) ==
  /\ ss \in [state : {"unused", "open", "done"}, up : {ss.up}, cur : Subs \cup {None},
            adding : Subs \cup {None}, token : {ss.token}, inbox : {ss.inbox}, out : {ss.out}]
  /\ ss.state # "open" => ss.cur = None
  /\ ss.state = "unused" => ss.adding = None

SessionsOK == sess = [x \in Sessions |-> sess[x]] /\ \A x \in Sessions : SessionOK(sess[x])

WorkersOK ==
  /\ worker \in [Workers -> InformerState]
  /\ \A w \in Workers : worker[w].pc # "idle" => worker[w].on \in Managers

ForwardersOK ==
  fwd = [s \in Subs |-> fwd[s]] /\ \A s \in Subs : fwd[s].on \in Sessions \cup {None}

StreamInv ==
  /\ MapsOK(hub) /\ WorkersOK /\ SessionsOK /\ ForwardersOK
  /\ current \in Managers /\ retiring \in [on : Managers \cup {None}, todo : SUBSET Sessions]
  /\ sock \in Sessions \cup {None}
  /\ NoOrphanSubscriber

\* Pairs of the managers' maps and one session: nothing is live but what the set O,
\* or the session, holds.
Holds(ss, s) == ss.cur = s \/ ss.adding = s

PairOK(g, O) ==
  /\ g \in [h : {g.h}, ss : {g.ss}] /\ MapsOK(g.h) /\ SessionOK(g.ss)
  /\ \A s \in Subs : g.h.sub[s].state = "live" => s \in O \/ Holds(g.ss, s)

\* shutdown drops the session's subscription before it forgets it.
LEMMA ShutdownKeeps ==
  ASSUME NEW g, NEW O, PairOK(g, O)
  PROVE  PairOK(shutdown(g), O) /\ shutdown(g).ss.state = "done"
<1> DEFINE k == IF g.ss.cur = None THEN g.h ELSE dropSubscriber(g.h, g.ss.cur)
           r == [g.ss EXCEPT !.state = "done", !.up = FALSE, !.cur = None,
                             !.inbox = << >>, !.out = << >>]
<1>1. CASE g.ss.state = "done"
  BY <1>1 DEF shutdown
<1>2. CASE g.ss.state # "done"
  <2>1. /\ MapsOK(k)
        /\ \A s \in Subs : k.sub[s].state = "live" => g.h.sub[s].state = "live" /\ s # g.ss.cur
    BY HubAssumption, DropKeeps DEF PairOK, SessionOK
  <2>2. SessionOK(r) /\ r.cur = None /\ r.adding = g.ss.adding /\ r.state = "done"
    BY <1>2 DEF PairOK, SessionOK
  <2>3. shutdown(g) = [h |-> k, ss |-> r]
    BY <1>2 DEF shutdown
  <2> HIDE DEF k, r
  <2> QED
    BY <2>1, <2>2, <2>3 DEF PairOK, Holds
<1> QED
  BY <1>1, <1>2

\* enqueue leaves everything but the queue alone, or shuts the session down.
LEMMA EnqueueKeeps ==
  ASSUME NEW g, NEW O, PairOK(g, O), NEW msg
  PROVE  PairOK(enqueue(g, msg), O)
<1> DEFINE r == [g.ss EXCEPT !.out = Append(@, msg)]
<1>1. CASE Len(g.ss.out) < OutgoingBufferSize
  <2>1. SessionOK(r) /\ r.cur = g.ss.cur /\ r.adding = g.ss.adding
    BY DEF PairOK, SessionOK
  <2>2. enqueue(g, msg) = [h |-> g.h, ss |-> r]
    BY <1>1 DEF enqueue, PairOK
  <2> HIDE DEF r
  <2> QED
    BY <2>1, <2>2 DEF PairOK, Holds
<1>2. CASE ~(Len(g.ss.out) < OutgoingBufferSize)
  BY <1>2, ShutdownKeeps DEF enqueue
<1> QED
  BY <1>1, <1>2

\* The subscription that was stored before is dropped before it is forgotten.
LEMMA StoredKeeps ==
  ASSUME NEW g, NEW O, PairOK(g, O), g.ss.state = "open", g.ss.adding # None
  PROVE  PairOK(stored(g, g.ss.adding), O)
<1> DEFINE k == IF g.ss.cur = None THEN g.h ELSE dropSubscriber(g.h, g.ss.cur)
           r == [g.ss EXCEPT !.cur = g.ss.adding, !.adding = None, !.token = NoToken]
<1>1. /\ MapsOK(k)
      /\ \A s \in Subs : k.sub[s].state = "live" => g.h.sub[s].state = "live" /\ s # g.ss.cur
  BY HubAssumption, DropKeeps DEF PairOK, SessionOK
<1>2. SessionOK(r) /\ r.cur = g.ss.adding
  BY DEF PairOK, SessionOK
<1>3. stored(g, g.ss.adding) = [h |-> k, ss |-> r]
  BY DEF stored
<1> HIDE DEF k, r
<1> QED
  BY <1>1, <1>2, <1>3 DEF PairOK, Holds

LEMMA CaughtUpKeeps ==
  ASSUME NEW g, NEW O, PairOK(g, O), NEW token
  PROVE  PairOK(caughtUp(g, token), O)
<1>1. CASE g.ss.state = "done"
  BY <1>1 DEF caughtUp
<1>2. CASE g.ss.state # "done" /\ ~Resumes(g, token)
  BY <1>2, EnqueueKeeps DEF caughtUp
<1>3. CASE g.ss.state # "done" /\ Resumes(g, token)
  <2> DEFINE missed == resumeUpdates(g.h, current, token)
             q == g.ss.out \o [i \in DOMAIN missed |-> Changed(missed[i], Life(g.h, current))]
             r == [g.ss EXCEPT !.out = q]
  <2>1. caughtUp(g, token) = [h |-> g.h, ss |-> r]
    BY <1>3 DEF caughtUp, PairOK
  <2> HIDE DEF missed, q
  <2>2. SessionOK(r) /\ r.cur = g.ss.cur /\ r.adding = g.ss.adding
    BY DEF PairOK, SessionOK
  <2> HIDE DEF r
  <2> QED
    BY <2>1, <2>2 DEF PairOK, Holds
<1> QED
  BY <1>1, <1>2, <1>3

\* What a reader takes from a channel, and lets go of, leaves the rest as it is.
Taken(h, s) == [h EXCEPT !.sub[s].chan = Tail(@)]

LEMMA TakenKeeps ==
  ASSUME NEW h, MapsOK(h), NEW s \in Subs, h.sub[s].chan # << >>
  PROVE  MapsOK(Taken(h, s)) /\ \A q \in Subs : Taken(h, s).sub[q].state = h.sub[q].state
<1> DEFINE k == Taken(h, s)
           r == [h.sub[s] EXCEPT !.chan = Tail(@)]
<1>1. h \in Maps /\ h.sub[s] \in Subscription /\ h.sub[s].chan \in Seq(Nat)
  BY DEF MapsOK, Maps, Subscription
<1>2. Tail(h.sub[s].chan) \in Seq(Nat) /\ Len(Tail(h.sub[s].chan)) <= SubscriberBufferSize
  <2>1. Len(h.sub[s].chan) <= SubscriberBufferSize /\ SubscriberBufferSize \in Nat
    BY HubAssumption DEF MapsOK
  <2>2. /\ Tail(h.sub[s].chan) \in Seq(Nat) /\ Len(h.sub[s].chan) \in Nat
        /\ Len(Tail(h.sub[s].chan)) = Len(h.sub[s].chan) - 1
    BY <1>1
  <2> QED BY <2>1, <2>2
<1>3. r \in Subscription /\ r.state = h.sub[s].state /\ r.on = h.sub[s].on
      /\ r.chan = Tail(h.sub[s].chan)
  BY <1>1, <1>2 DEF Subscription
<1>4. k = [h EXCEPT !.sub[s] = r]
  BY <1>1 DEF Maps, Taken
<1> HIDE DEF r, k
<1>5. MapsOK(k)
  <2>1. Len(r.chan) <= SubscriberBufferSize BY <1>2, <1>3
  <2> QED BY <1>3, <1>4, <2>1, ChannelKeeps
<1> QED
  BY <1>1, <1>3, <1>4, <1>5 DEF Maps, k

LEMMA ReleasedKeeps ==
  ASSUME NEW h, MapsOK(h), NEW s \in Subs
  PROVE  /\ MapsOK(Released(h, s))
         /\ \A q \in Subs : Released(h, s).sub[q].state = h.sub[q].state
<1> DEFINE r == IF h.sub[s].state = "live" THEN [h.sub[s] EXCEPT !.chan = << >>] ELSE FreeSub
<1>1. h \in Maps /\ h.sub[s] \in Subscription /\ << >> \in Seq(Nat) /\ Len(<< >>) = 0
  BY DEF MapsOK, Maps
<1>2. /\ r \in Subscription /\ r.state = h.sub[s].state
      /\ r.state = "live" => r.on = h.sub[s].on
      /\ r.chan = << >>
  BY <1>1 DEF Subscription, FreeSub, Lives
<1>3. Released(h, s) = [h EXCEPT !.sub[s] = r]
  BY DEF Released
<1> HIDE DEF r
<1>4. Len(r.chan) <= SubscriberBufferSize
  BY <1>1, <1>2, HubAssumption
<1>5. MapsOK(Released(h, s))
  BY <1>2, <1>3, <1>4, ChannelKeeps
<1> QED
  BY <1>1, <1>2, <1>3, <1>5 DEF Maps

OthersHold(x) == {s \in Subs : \E y \in Sessions \ {x} : Holds(sess[y], s)}

LEMMA PairOf ==
  ASSUME StreamInv, NEW x \in Sessions
  PROVE  /\ PairOK(SessionOf(x), OthersHold(x))
         /\ SessionOf(x).h = hub /\ SessionOf(x).ss = sess[x]
<1>1. SessionOf(x).h = hub /\ SessionOf(x).ss = sess[x]
      /\ SessionOf(x) \in [h : {hub}, ss : {sess[x]}]
  BY DEF SessionOf
<1> QED
  BY <1>1 DEF StreamInv, SessionsOK, PairOK, NoOrphanSubscriber, OthersHold, Holds

LEMMA CommitKeeps ==
  ASSUME StreamInv, NEW x \in Sessions, NEW g, PairOK(g, OthersHold(x)), Commit(x, g)
  PROVE  MapsOK(hub') /\ SessionsOK' /\ NoOrphanSubscriber'
<1>1. hub' = g.h /\ sess' = [sess EXCEPT ![x] = g.ss]
  BY DEF Commit
<1>2. /\ sess' = [y \in Sessions |-> sess'[y]]
      /\ \A y \in Sessions : sess'[y] = IF y = x THEN g.ss ELSE sess[y]
  BY <1>1 DEF StreamInv, SessionsOK
<1>3. SessionsOK'
  BY <1>2 DEF StreamInv, SessionsOK, PairOK
<1> QED
  BY <1>1, <1>2, <1>3 DEF PairOK, NoOrphanSubscriber, OthersHold, Holds

\* Goroutines of the manager make nothing live.
LEMMA MapsStep ==
  ASSUME StreamInv, MapsOK(hub'), UNCHANGED sess,
         \A s \in Subs : hub'.sub[s].state = "live" => hub.sub[s].state = "live"
  PROVE  NoOrphanSubscriber' /\ SessionsOK'
BY DEF StreamInv, NoOrphanSubscriber, SessionsOK

-----------------------------------------------------------------------------
\* What a step of a session has to leave as it is.
LEMMA SessionStep ==
  ASSUME StreamInv, NEW x \in Sessions, NEW g, PairOK(g, OthersHold(x)), Commit(x, g),
         UNCHANGED << worker, current, retiring, sock >>, ForwardersOK'
  PROVE  StreamInv'
<1>1. MapsOK(hub') /\ SessionsOK' /\ NoOrphanSubscriber'
  BY CommitKeeps
<1> QED BY <1>1 DEF StreamInv, WorkersOK

\* The read loop takes a request; only the session's inbox changes.
Read(g, q) == [g EXCEPT !.ss.inbox = q]

LEMMA ReadKeeps ==
  ASSUME NEW g, NEW O, PairOK(g, O), NEW q
  PROVE  /\ PairOK(Read(g, q), O) /\ Read(g, q).h = g.h
         /\ Read(g, q).ss.adding = g.ss.adding /\ Read(g, q).ss.state = g.ss.state
<1> DEFINE r == [g.ss EXCEPT !.inbox = q]
<1>1. SessionOK(r) /\ r.cur = g.ss.cur /\ r.adding = g.ss.adding /\ r.state = g.ss.state
  BY DEF PairOK, SessionOK
<1>2. Read(g, q) = [g EXCEPT !.ss = r]
  BY DEF PairOK, Read
<1> HIDE DEF r
<1> QED BY <1>1, <1>2 DEF PairOK, Holds

LEMMA SubscribeStep ==
  ASSUME StreamInv, UNCHANGED clientVars, NEW x \in Sessions, HandleSubscribe(x)
  PROVE  StreamInv'
<1> DEFINE O == OthersHold(x)
           q == Tail(sess[x].inbox)
           g == [SessionOf(x) EXCEPT !.ss.inbox = q]
<1>1. /\ PairOK(SessionOf(x), O) /\ SessionOf(x).h = hub /\ SessionOf(x).ss = sess[x]
  BY PairOf
<1>2. PairOK(g, O) /\ g.h = hub /\ g.ss.adding = None /\ g.ss.state = "open"
  <2>1. g = Read(SessionOf(x), q) /\ sess[x].adding = None /\ sess[x].state = "open"
    BY DEF Read, HandleSubscribe
  <2> HIDE DEF q, g, O
  <2> QED BY <1>1, <2>1, ReadKeeps
<1>3. UNCHANGED << worker, current, retiring, sock >> /\ ForwardersOK'
  BY DEF HandleSubscribe, clientVars, StreamInv, ForwardersOK
<1>4. CASE SubscribeRefused(hub, current)
  <2>1. Commit(x, enqueue(g, Frame("error")))
    BY <1>1, <1>4 DEF HandleSubscribe
  <2> HIDE DEF g, O
  <2>2. PairOK(enqueue(g, Frame("error")), O)
    BY <1>2, EnqueueKeeps
  <2> QED BY <1>3, <2>1, <2>2, SessionStep DEF O
<1>5. CASE ~SubscribeRefused(hub, current)
  <2>1. PICK s \in Subs :
          /\ Unused(s)
          /\ Commit(x, [h  |-> addSubscriber(hub, current, s),
                        ss |-> [g.ss EXCEPT !.adding = s, !.token = Head(sess[x].inbox).token]])
    BY <1>1, <1>5 DEF HandleSubscribe
  <2> DEFINE k == addSubscriber(hub, current, s)
             r == [g.ss EXCEPT !.adding = s, !.token = Head(sess[x].inbox).token]
  <2>2. hub.sub[s].state = "closed" /\ MapsOK(hub) /\ current \in Managers
    BY <2>1 DEF Unused, StreamInv, MapsOK, Maps, Subscription
  <2>3. MapsOK(k) /\ \A u \in Subs \ {s} : k.sub[u] = hub.sub[u]
    BY <1>5, <2>2, SubscribeKeeps
  <2> HIDE DEF g, O, k
  <2>4. SessionOK(r) /\ r.cur = g.ss.cur /\ r.adding = s
    BY <1>2 DEF PairOK, SessionOK
  <2> HIDE DEF r
  <2>5. PairOK([h |-> k, ss |-> r], O)
    BY <1>2, <2>3, <2>4, HubAssumption DEF PairOK, Holds
  <2>6. Commit(x, [h |-> k, ss |-> r])
    BY <2>1 DEF k, r
  <2> QED BY <1>3, <2>5, <2>6, SessionStep DEF O
<1> QED BY <1>4, <1>5

LEMMA RefusedStep ==
  ASSUME StreamInv, UNCHANGED clientVars, NEW x \in Sessions, StoreRefused(x)
  PROVE  StreamInv'
<1> DEFINE O == OthersHold(x)
           a == sess[x].adding
           c == dropSubscriber(hub, a)
           r == [sess[x] EXCEPT !.adding = None, !.token = NoToken]
<1>1. PairOK(SessionOf(x), O) /\ SessionOf(x).h = hub /\ SessionOf(x).ss = sess[x]
  BY PairOf
<1>2. a \in Subs /\ sess[x].cur = None /\ SessionOK(sess[x]) /\ MapsOK(hub)
      /\ sess[x].state = "done"
  BY DEF StoreRefused, StreamInv, SessionsOK, SessionOK
<1>3. SessionOK(r) /\ r.cur = None /\ r.adding = None
  BY <1>2 DEF SessionOK
<1>4. /\ MapsOK(c) /\ c.sub[a].state = "closed"
      /\ \A u \in Subs \ {a} : c.sub[u] = hub.sub[u]
  BY <1>2, DropKeeps
<1>5. Commit(x, [h |-> Released(c, a), ss |-> r])
  BY DEF StoreRefused
<1> HIDE DEF O, c, r, a
<1>6. /\ MapsOK(Released(c, a))
      /\ \A u \in Subs : Released(c, a).sub[u].state = c.sub[u].state
  BY <1>2, <1>4, ReleasedKeeps
<1>7. PairOK([h |-> Released(c, a), ss |-> r], O)
  BY <1>1, <1>2, <1>3, <1>4, <1>6 DEF PairOK, Holds, a
<1>8. UNCHANGED << worker, current, retiring, sock >> /\ ForwardersOK'
  BY DEF StoreRefused, clientVars, StreamInv, ForwardersOK
<1> QED BY <1>5, <1>7, <1>8, SessionStep DEF O

LEMMA AcknowledgeStep ==
  ASSUME StreamInv, UNCHANGED clientVars, NEW x \in Sessions, AcknowledgeSubscribe(x)
  PROVE  StreamInv'
<1> DEFINE O == OthersHold(x)
           s == sess[x].adding
           token == sess[x].token.n
           acked == enqueue(stored(SessionOf(x), s), Frame("ack"))
<1>1. PairOK(SessionOf(x), O) /\ SessionOf(x).h = hub /\ SessionOf(x).ss = sess[x]
  BY PairOf
<1>2. s \in Subs /\ SessionOf(x).ss.adding = s /\ s # None /\ sess[x].state = "open"
  BY <1>1 DEF AcknowledgeSubscribe, StreamInv, SessionsOK, SessionOK
<1>3. /\ Commit(x, caughtUp(acked, token))
      /\ fwd' = [fwd EXCEPT ![s] = [on |-> x, hw |-> highWater(acked.h, token)]]
  BY DEF AcknowledgeSubscribe
<1> HIDE DEF O, s, token
<1>4. PairOK(acked, O)
  BY <1>1, <1>2, StoredKeeps, EnqueueKeeps
<1> HIDE DEF acked
<1>5. PairOK(caughtUp(acked, token), O)
  BY <1>4, CaughtUpKeeps
<1>6. UNCHANGED << worker, current, retiring, sock >> /\ ForwardersOK'
  BY <1>2, <1>3 DEF AcknowledgeSubscribe, clientVars, StreamInv, ForwardersOK
<1> QED BY <1>3, <1>5, <1>6, SessionStep DEF O

LEMMA ReadLoopStep ==
  ASSUME StreamInv, UNCHANGED clientVars, NEW x \in Sessions, ReadLoopEnds(x)
  PROVE  StreamInv'
<1>1. PairOK(SessionOf(x), OthersHold(x))
  BY PairOf
<1>2. PairOK(shutdown(SessionOf(x)), OthersHold(x))
  BY <1>1, ShutdownKeeps
<1>3. UNCHANGED << worker, current, retiring, sock >> /\ ForwardersOK'
      /\ Commit(x, shutdown(SessionOf(x)))
  BY DEF ReadLoopEnds, clientVars, StreamInv, ForwardersOK
<1> QED BY <1>2, <1>3, SessionStep

LEMMA ForwardStep ==
  ASSUME StreamInv, UNCHANGED clientVars, NEW s \in Subs, ForwardUpdate(s)
  PROVE  StreamInv'
<1> DEFINE x == fwd[s].on
           O == OthersHold(x)
           g == [SessionOf(x) EXCEPT !.h.sub[s].chan = Tail(@)]
<1>1. x \in Sessions /\ hub.sub[s].chan # << >>
  BY DEF ForwardUpdate, StreamInv, ForwardersOK
<1>2. PairOK(SessionOf(x), O) /\ SessionOf(x).h = hub /\ SessionOf(x).ss = sess[x]
  BY <1>1, PairOf
<1>3. /\ UNCHANGED << worker, current, retiring, sock >>
      /\ ForwardersOK'
  BY DEF ForwardUpdate, clientVars, StreamInv, ForwardersOK, NoForwarder
<1>4. g = [h |-> Taken(hub, s), ss |-> sess[x]]
  <2>1. g = [SessionOf(x) EXCEPT !.h = Taken(SessionOf(x).h, s)] BY DEF Taken
  <2> HIDE DEF g
  <2>2. SessionOf(x) \in [h : {hub}, ss : {sess[x]}] BY DEF SessionOf
  <2> QED BY <2>1, <2>2
<1>5. \/ Commit(x, g) \/ Commit(x, enqueue(g, LiveMessage(s)))
      \/ Commit(x, [g EXCEPT !.h = Released(@, s)])
  BY DEF ForwardUpdate
<1> HIDE DEF O, x, g
<1>6. MapsOK(Taken(hub, s)) /\ \A q \in Subs : Taken(hub, s).sub[q].state = hub.sub[q].state
  BY <1>1, TakenKeeps DEF StreamInv
<1>7. PairOK(g, O) /\ g.h = Taken(hub, s) /\ g.ss = sess[x]
  BY <1>2, <1>4, <1>6 DEF PairOK, Holds
<1>8. CASE Commit(x, g)
  BY <1>1, <1>3, <1>7, <1>8, SessionStep DEF O
<1>9. CASE Commit(x, enqueue(g, LiveMessage(s)))
  <2>1. PairOK(enqueue(g, LiveMessage(s)), O) BY <1>7, EnqueueKeeps
  <2> QED BY <1>1, <1>3, <1>9, <2>1, SessionStep DEF O
<1>10. CASE Commit(x, [g EXCEPT !.h = Released(@, s)])
  <2> DEFINE k == [h |-> Released(Taken(hub, s), s), ss |-> sess[x]]
  <2>1. Commit(x, k) BY <1>4, <1>10
  <2>2. /\ MapsOK(Released(Taken(hub, s), s))
        /\ \A q \in Subs : Released(Taken(hub, s), s).sub[q].state = hub.sub[q].state
    BY <1>6, ReleasedKeeps
  <2>3. PairOK(k, O) BY <1>2, <2>2 DEF PairOK, Holds
  <2> HIDE DEF k
  <2> QED BY <1>1, <1>3, <2>1, <2>3, SessionStep DEF O
<1> QED BY <1>5, <1>8, <1>9, <1>10

\* The forwarder of a subscription that its session still holds ends because the
\* subscription is closed: a session that has ended holds none.
LEMMA ForwardEndStep ==
  ASSUME StreamInv, UNCHANGED clientVars, NEW s \in Subs, ForwardEnds(s)
  PROVE  StreamInv'
<1> DEFINE x == fwd[s].on
           O == OthersHold(x)
           g == [SessionOf(x) EXCEPT !.h = Released(@, s)]
<1>1. x \in Sessions /\ (hub.sub[s].state = "closed" \/ sess[x].state = "done")
  BY DEF ForwardEnds, StreamInv, ForwardersOK
<1>2. PairOK(SessionOf(x), O) /\ SessionOf(x).h = hub /\ SessionOf(x).ss = sess[x]
  BY <1>1, PairOf
<1>3. /\ UNCHANGED << worker, current, retiring, sock >>
      /\ ForwardersOK'
  BY DEF ForwardEnds, clientVars, StreamInv, ForwardersOK, NoForwarder
<1>4. g = [h |-> Released(hub, s), ss |-> sess[x]]
  BY DEF SessionOf
<1>5. /\ Current(x, s) => Commit(x, enqueue([g EXCEPT !.ss.cur = None], Frame("complete")))
      /\ ~Current(x, s) => Commit(x, g)
  BY DEF ForwardEnds
<1> HIDE DEF O, x, g
<1>6. MapsOK(Released(hub, s)) /\ \A q \in Subs : Released(hub, s).sub[q].state = hub.sub[q].state
  BY ReleasedKeeps DEF StreamInv
<1>7. CASE ~Current(x, s)
  <2>1. PairOK(g, O) BY <1>2, <1>4, <1>6 DEF PairOK, Holds
  <2> QED BY <1>1, <1>3, <1>5, <1>7, <2>1, SessionStep DEF O
<1>8. CASE Current(x, s)
  <2> DEFINE r == [sess[x] EXCEPT !.cur = None]
             k == [h |-> Released(hub, s), ss |-> r]
  <2>1. SessionOK(sess[x]) /\ sess[x].cur = s BY <1>1, <1>8 DEF StreamInv, SessionsOK, Current
  <2>2. hub.sub[s].state = "closed" BY <1>1, <2>1, HubAssumption DEF SessionOK
  <2>3. SessionOK(r) /\ r.cur = None /\ r.adding = sess[x].adding BY <2>1 DEF SessionOK
  <2>4. [g EXCEPT !.ss.cur = None] = k BY <1>4
  <2> HIDE DEF r
  <2>5. PairOK(k, O) BY <1>2, <1>6, <2>1, <2>2, <2>3 DEF PairOK, Holds
  <2>6. Commit(x, enqueue(k, Frame("complete"))) BY <1>5, <1>8, <2>4
  <2> HIDE DEF k
  <2>7. PairOK(enqueue(k, Frame("complete")), O) BY <2>5, EnqueueKeeps
  <2> QED BY <1>1, <1>3, <2>6, <2>7, SessionStep DEF O
<1> QED BY <1>7, <1>8

\* Replacing a manager drops subscriptions and adds none.
LEMMA ReplaceStep ==
  ASSUME StreamInv, UNCHANGED clientVars,
         \/ \E x \in Sessions : invalidateClusterSubscriptions(x) \/ Disconnect(x)
         \/ \E m \in Managers : setTopology(m)
         \/ StopReplaced
  PROVE  StreamInv'
<1> USE DEF clientVars
<1>1. ASSUME NEW x \in Sessions, invalidateClusterSubscriptions(x) PROVE StreamInv'
  <2>1. /\ hub' = IF sess[x].cur = None THEN hub ELSE dropSubscriber(hub, sess[x].cur)
        /\ retiring' \in [on : Managers \cup {None}, todo : SUBSET Sessions]
        /\ UNCHANGED << worker, current, sess, fwd, sock >>
    BY <1>1 DEF invalidateClusterSubscriptions, StreamInv
  <2>2. MapsOK(hub) /\ (sess[x].cur = None \/ sess[x].cur \in Subs)
    BY DEF StreamInv, SessionsOK, SessionOK
  <2>3. /\ MapsOK(hub')
        /\ \A s \in Subs : hub'.sub[s].state = "live" => hub.sub[s].state = "live"
    BY <2>1, <2>2, DropKeeps
  <2>4. SessionsOK' /\ NoOrphanSubscriber' BY <2>1, <2>3, MapsStep
  <2> QED BY <2>1, <2>3, <2>4 DEF StreamInv, WorkersOK, ForwardersOK
<1>2. ASSUME NEW x \in Sessions, Disconnect(x) PROVE StreamInv'
  <2> DEFINE r == [sess[x] EXCEPT !.up = FALSE]
  <2>1. /\ sess' = [sess EXCEPT ![x] = r] /\ sess[x].state = "open"
        /\ UNCHANGED << hub, worker, current, retiring, fwd, sock >>
    BY <1>2 DEF Disconnect
  <2>2. SessionOK(sess[x]) BY DEF StreamInv, SessionsOK
  <2>3. SessionOK(r) /\ r.cur = sess[x].cur /\ r.adding = sess[x].adding
    BY <2>2 DEF SessionOK
  <2> HIDE DEF r
  <2>4. PairOK([h |-> hub, ss |-> r], OthersHold(x))
    BY <2>3, PairOf DEF PairOK, Holds
  <2>5. Commit(x, [h |-> hub, ss |-> r]) /\ ForwardersOK'
    BY <2>1 DEF Commit, StreamInv, ForwardersOK
  <2> QED BY <2>1, <2>4, <2>5, SessionStep
<1>3. ASSUME NEW m \in Managers, setTopology(m) PROVE StreamInv'
  <2>1. /\ current' \in Managers
        /\ retiring' \in [on : Managers \cup {None}, todo : SUBSET Sessions]
        /\ UNCHANGED << hub, worker, sess, fwd, sock >>
    BY <1>3 DEF setTopology, StreamInv, OpenSessions
  <2>2. SessionsOK' /\ NoOrphanSubscriber' /\ MapsOK(hub') BY <2>1, MapsStep DEF StreamInv
  <2> QED BY <2>1, <2>2 DEF StreamInv, WorkersOK, ForwardersOK
<1>4. ASSUME StopReplaced PROVE StreamInv'
  <2>1. /\ hub' = stopManager(hub, retiring.on) /\ retiring.on \in Managers
        /\ retiring' \in [on : Managers \cup {None}, todo : SUBSET Sessions]
        /\ UNCHANGED << worker, current, sess, fwd, sock >>
    BY <1>4 DEF StopReplaced, StreamInv, NotRetiring
  <2>2. /\ MapsOK(hub')
        /\ \A s \in Subs : hub'.sub[s].state = "live" => hub.sub[s].state = "live"
    BY <2>1, StopKeeps DEF StreamInv
  <2>3. SessionsOK' /\ NoOrphanSubscriber' BY <2>1, <2>2, MapsStep
  <2> QED BY <2>1, <2>2, <2>3 DEF StreamInv, WorkersOK, ForwardersOK
<1> QED BY <1>1, <1>2, <1>3, <1>4

LEMMA MuxStepKeeps ==
  ASSUME StreamInv, MuxStep
  PROVE  StreamInv'
BY SubscribeStep, RefusedStep, AcknowledgeStep, ReadLoopStep, ForwardStep, ForwardEndStep,
   ReplaceStep DEF MuxStep

\* The goroutines of the manager make nothing live.
LEMMA GoroutineStep ==
  ASSUME StreamInv, UNCHANGED muxVars, UNCHANGED clientVars, WorkersOK', MapsOK(hub'),
         \A s \in Subs : hub'.sub[s].state = "live" => hub.sub[s].state = "live"
  PROVE  StreamInv'
<1>1. SessionsOK' /\ NoOrphanSubscriber' BY MapsStep DEF muxVars
<1> QED BY <1>1 DEF StreamInv, ForwardersOK, muxVars, clientVars

LEMMA WorkerStep ==
  ASSUME StreamInv, NEW w \in Workers, NEW r \in InformerState,
         r.pc # "idle" => r.on \in Managers, worker' = [worker EXCEPT ![w] = r]
  PROVE  WorkersOK'
BY DEF StreamInv, WorkersOK

LEMMA HubStepStream ==
  ASSUME StreamInv, HubStep
  PROVE  StreamInv'
<1>1. /\ MapsOK(hub) /\ hub \in Maps /\ current \in Managers
      /\ worker \in [Workers -> InformerState]
      /\ IdleWorker \in InformerState /\ IdleWorker.pc = "idle"
      /\ UNCHANGED muxVars /\ UNCHANGED clientVars
  BY DEF StreamInv, WorkersOK, MapsOK, IdleWorker, InformerState, HubStep
<1>2. ASSUME NEW w \in Workers, Change(w, current) PROVE StreamInv'
  <2> DEFINE r == [worker[w] EXCEPT !.pc = "announce", !.on = current]
  <2>1. r \in InformerState /\ r.on = current
    BY <1>1 DEF InformerState
  <2>2. worker' = [worker EXCEPT ![w] = r] /\ hub' = hub
    BY <1>2 DEF Change
  <2> HIDE DEF r
  <2>3. WorkersOK' BY <1>1, <2>1, <2>2, WorkerStep
  <2> QED BY <1>1, <2>2, <2>3, GoroutineStep
<1>3. ASSUME NEW w \in Workers, prepareBroadcast(w) PROVE StreamInv'
  <2> DEFINE m == worker[w].on
             r == [worker[w] EXCEPT !.pc = "send", !.n = hub.seq[m] + 1, !.to = Live(hub, m)]
  <2>1. worker[w] \in InformerState /\ m \in Managers
    BY <1>1, <1>3 DEF StreamInv, WorkersOK, prepareBroadcast
  <2>2. hub.seq[m] + 1 \in Nat /\ Live(hub, m) \subseteq Subs
    BY <1>1, <2>1 DEF Maps, Live
  <2>3. r \in InformerState /\ r.on = m
    BY <2>1, <2>2 DEF InformerState
  <2>4. /\ \/ worker' = [worker EXCEPT ![w] = r]
           \/ worker' = [worker EXCEPT ![w] = IdleWorker]
        /\ hub' = prepared(hub, m)
    BY <1>3 DEF prepareBroadcast
  <2> HIDE DEF m, r
  <2>5. MapsOK(hub') /\ hub'.sub = hub.sub
    BY <1>1, <2>1, <2>4, PreparedKeeps
  <2>6. WorkersOK' BY <1>1, <2>1, <2>3, <2>4, WorkerStep
  <2> QED BY <1>1, <2>5, <2>6, GoroutineStep
<1>4. ASSUME NEW w \in Workers, NEW s \in Subs, CheckedSend(w, s) PROVE StreamInv'
  <2> DEFINE r == [worker[w] EXCEPT !.to = @ \ {s}]
  <2>1. worker[w] \in InformerState /\ worker[w].n \in Nat /\ worker[w].on \in Managers
    BY <1>1, <1>4 DEF CheckedSend, StreamInv, WorkersOK, InformerState
  <2>2. r \in InformerState /\ r.on \in Managers
    BY <2>1 DEF InformerState
  <2>3. /\ worker' = [worker EXCEPT ![w] = Finished(r)]
        /\ hub' = hub \/ hub' = trySend(hub, s, worker[w].n)
    BY <1>4 DEF CheckedSend
  <2> HIDE DEF r
  <2>4. Finished(r) \in InformerState /\ (Finished(r).pc # "idle" => Finished(r).on \in Managers)
    BY <1>1, <2>2 DEF Finished
  <2>5. WorkersOK' BY <2>3, <2>4, WorkerStep
  <2>6. /\ MapsOK(hub')
        /\ \A q \in Subs : hub'.sub[q].state = hub.sub[q].state
    <3>1. ResetOK(hub, Subs) BY DEF ResetOK
    <3> QED BY <1>1, <2>1, <2>3, <3>1, TrySendKeeps
  <2> QED BY <1>1, <2>5, <2>6, GoroutineStep
<1>5. ASSUME NEW s \in Subs, DropGoroutine(s) PROVE StreamInv'
  <2> DEFINE c == dropSubscriber(hub, s)
  <2>1. /\ MapsOK(c) /\ c \in Maps
        /\ \A q \in Subs : c.sub[q].state = "live" => hub.sub[q].state = "live"
    BY <1>1, DropKeeps DEF MapsOK
  <2>2. hub' = [c EXCEPT !.dropping = c.dropping \ {s}] /\ UNCHANGED worker
    BY <1>5 DEF DropGoroutine
  <2>3. c.dropping \ {s} \in SUBSET Subs
    BY <2>1 DEF Maps
  <2> HIDE DEF c
  <2>4. MapsOK(hub') /\ hub'.sub = c.sub
    BY <2>1, <2>2, <2>3, DroppingKeeps
  <2>5. WorkersOK' BY <2>2 DEF StreamInv, WorkersOK
  <2> QED BY <1>1, <2>1, <2>4, <2>5, GoroutineStep
<1> QED BY <1>2, <1>3, <1>4, <1>5 DEF HubStep

-----------------------------------------------------------------------------
\* The client changes a session's queues, or opens a session nobody has used.
LEMMA QueueStep ==
  ASSUME StreamInv, Quiet, sock' \in Sessions \cup {None}, NEW x \in Sessions, NEW r,
         sess' = [sess EXCEPT ![x] = r], SessionOK(r),
         \A s \in Subs : Holds(sess[x], s) => Holds(r, s)
  PROVE  StreamInv'
<1>1. PairOK([h |-> hub, ss |-> r], OthersHold(x))
  BY PairOf DEF PairOK
<1>2. Commit(x, [h |-> hub, ss |-> r]) BY DEF Quiet, Commit
<1>3. MapsOK(hub') /\ SessionsOK' /\ NoOrphanSubscriber' BY <1>1, <1>2, CommitKeeps
<1> QED BY <1>3 DEF StreamInv, Quiet, WorkersOK, ForwardersOK

LEMMA ClientOnlyStep ==
  ASSUME StreamInv, Quiet, sock' \in Sessions \cup {None}, UNCHANGED sess
  PROVE  StreamInv'
<1>1. SessionsOK' /\ NoOrphanSubscriber' BY MapsStep DEF Quiet, StreamInv
<1> QED BY <1>1 DEF StreamInv, Quiet, WorkersOK, ForwardersOK

LEMMA PerformStep ==
  ASSUME StreamInv, Quiet, UNCHANGED sock, NEW c, Perform(c)
  PROVE  StreamInv'
<1>0. sock' \in Sessions \cup {None} BY DEF StreamInv
<1>1. CASE SocketOpen
  <2> DEFINE q == sess[sock].inbox \o Requests(c.sends)
             r == [sess[sock] EXCEPT !.inbox = q]
  <2>1. sock \in Sessions /\ SessionOK(sess[sock])
    BY <1>1 DEF SocketOpen, StreamInv, SessionsOK
  <2>2. sess' = [sess EXCEPT ![sock] = r]
    BY <1>1 DEF Perform
  <2> HIDE DEF q
  <2>3. SessionOK(r) /\ r.cur = sess[sock].cur /\ r.adding = sess[sock].adding
    BY <2>1 DEF SessionOK
  <2> HIDE DEF r
  <2> QED BY <1>0, <2>1, <2>2, <2>3, QueueStep DEF Holds
<1>2. CASE ~SocketOpen
  BY <1>0, <1>2, ClientOnlyStep DEF Perform
<1> QED BY <1>1, <1>2

LEMMA ClientStepKeeps ==
  ASSUME StreamInv, ClientStep
  PROVE  StreamInv'
<1>0. sock \in Sessions \cup {None} BY DEF StreamInv
<1>1. CASE handleMessage
  <2>1. PICK q, o : sess' = [sess EXCEPT ![sock] = [sess[sock] EXCEPT !.out = o, !.inbox = q]]
    <3> DEFINE c == receiveMessage(client, Head(sess[sock].out))
    <3>1. sess' = [sess EXCEPT ![sock].out = Tail(@), ![sock].inbox = @ \o Requests(c.sends)]
      BY <1>1 DEF handleMessage
    <3> HIDE DEF c
    <3> DEFINE q == sess[sock].inbox \o Requests(c.sends)
    <3>2. sock \in Sessions /\ SessionOK(sess[sock]) /\ sess = [x \in Sessions |-> sess[x]]
      BY <1>0, <1>1 DEF handleMessage, SocketOpen, StreamInv, SessionsOK
    <3>3. sess' = [sess EXCEPT ![sock] = [sess[sock] EXCEPT !.out = Tail(sess[sock].out),
                                                            !.inbox = q]]
      BY <3>1, <3>2 DEF SessionOK
    <3> QED BY <3>3
  <2> DEFINE r == [sess[sock] EXCEPT !.out = o, !.inbox = q]
  <2>2. sock \in Sessions /\ SessionOK(sess[sock]) /\ Quiet /\ UNCHANGED sock
    BY <1>0, <1>1 DEF handleMessage, SocketOpen, StreamInv, SessionsOK
  <2>3. SessionOK(r) /\ r.cur = sess[sock].cur /\ r.adding = sess[sock].adding
    BY <2>2 DEF SessionOK
  <2> HIDE DEF r
  <2>4. sess' = [sess EXCEPT ![sock] = r] BY <2>1 DEF r
  <2> QED BY <1>0, <2>2, <2>3, <2>4, QueueStep DEF Holds
<1>2. ASSUME NEW x \in Sessions, handleOpen(x) PROVE StreamInv'
  <2> DEFINE requests == Requests(connectionOpened(client).sends \o outbox)
             r == OpenSession(requests)
  <2>1. /\ sess' = [sess EXCEPT ![x] = r] /\ sock' = x /\ Quiet
        /\ sess[x].state = "unused" /\ SessionOK(sess[x])
    BY <1>2 DEF handleOpen, StreamInv, SessionsOK
  <2> HIDE DEF requests
  <2>2. SessionOK(r) BY DEF OpenSession, NoSession, SessionOK
  <2>3. \A s \in Subs : ~Holds(sess[x], s) BY <2>1, HubAssumption DEF SessionOK, Holds
  <2> HIDE DEF r
  <2> QED BY <2>1, <2>2, <2>3, QueueStep
<1>3. CASE handleConnectionError
  BY <1>3, ClientOnlyStep DEF handleConnectionError
<1>4. CASE refreshOnce
  <2> DEFINE c == resyncSubscription(client, TRUE, TRUE)
  <2>1. Perform(c) /\ Quiet /\ UNCHANGED sock BY <1>4 DEF refreshOnce
  <2> HIDE DEF c
  <2> QED BY <2>1, PerformStep
<1>5. CASE FlushFired
  <2> DEFINE c == flushPendingChanges(client)
  <2>1. Perform(c) /\ Quiet /\ UNCHANGED sock BY <1>5 DEF FlushFired
  <2> HIDE DEF c
  <2> QED BY <2>1, PerformStep
<1>6. CASE CooldownEnds \/ FallbackPoll \/ SnapshotRead \/ SnapshotApplied
  <2>1. Quiet /\ UNCHANGED << sess, sock >>
    BY <1>6 DEF CooldownEnds, FallbackPoll, SnapshotRead, SnapshotApplied
  <2> QED BY <1>0, <2>1, ClientOnlyStep
<1> QED BY <1>1, <1>2, <1>3, <1>4, <1>5, <1>6 DEF ClientStep

LEMMA InitStreamInv == Init => StreamInv
<1> SUFFICES ASSUME Init PROVE StreamInv
  OBVIOUS
<1>1. MapsOK(hub) /\ WorkersOK /\ \A s \in Subs : hub.sub[s].state = "closed"
  <2>1. << >> \in Seq(Nat) /\ Len(<< >>) = 0 OBVIOUS
  <2>2. FreeSub \in Subscription /\ FreeSub.chan = << >> /\ FreeSub.state = "closed"
    BY <2>1 DEF FreeSub, Subscription, Lives
  <2>3. /\ hub \in Maps
        /\ \A s \in Subs : hub.sub[s] = FreeSub
        /\ \A m \in Managers : hub.seq[m] = 0 /\ hub.buf[m] = << >> /\ hub.stopped[m] = FALSE
    BY <2>1, <2>2 DEF Init, HubInit, Maps
  <2>4. \A m \in Managers : Tail_(hub, m) BY <2>3, HubAssumption DEF Tail_
  <2>5. MapsOK(hub) BY <2>1, <2>2, <2>3, <2>4, HubAssumption DEF MapsOK
  <2>6. WorkersOK BY DEF Init, HubInit, WorkersOK, IdleWorker, InformerState
  <2> QED BY <2>2, <2>3, <2>5, <2>6
<1>2. PICK q : sess = [x \in Sessions |-> IF x = FirstSession THEN OpenSession(q) ELSE NoSession]
  BY DEF Init
<1>3. SessionOK(NoSession) /\ SessionOK(OpenSession(q))
  BY DEF NoSession, OpenSession, SessionOK
<1>4. SessionsOK BY <1>2, <1>3 DEF SessionsOK
<1>5. ForwardersOK BY DEF Init, ForwardersOK, NoForwarder
<1>6. /\ current \in Managers /\ retiring \in [on : Managers \cup {None}, todo : SUBSET Sessions]
      /\ sock \in Sessions \cup {None}
  BY MuxAssumption, ClientAssumption DEF Init, NotRetiring
<1> QED BY <1>1, <1>4, <1>5, <1>6 DEF StreamInv, NoOrphanSubscriber

LEMMA StreamInvariance == Spec => []StreamInv
<1>1. StreamInv /\ [Next]_vars => StreamInv'
  <2> SUFFICES ASSUME StreamInv, [Next]_vars PROVE StreamInv'
    OBVIOUS
  <2>1. CASE HubStep BY <2>1, HubStepStream
  <2>2. CASE MuxStep BY <2>2, MuxStepKeeps
  <2>3. CASE ClientStep BY <2>3, ClientStepKeeps
  <2>4. CASE UNCHANGED vars
    <3>1. UNCHANGED << hub, worker, current, retiring, sess, fwd, sock >> BY <2>4 DEF vars
    <3>2. SessionsOK' /\ NoOrphanSubscriber' BY <3>1, MapsStep DEF StreamInv
    <3> QED BY <3>1, <3>2 DEF StreamInv, WorkersOK, ForwardersOK
  <2> QED BY <2>1, <2>2, <2>3, <2>4 DEF Next
<1> QED BY <1>1, InitStreamInv, PTL DEF Spec

\* A manager serves no subscription that no session reads or is about to store
\* (storeSubscription, shutdown, dropSubscriber), whatever connections, replacements and
\* overflows it meets.
THEOREM NoOrphans == Spec => []NoOrphanSubscriber
<1>1. StreamInv => NoOrphanSubscriber BY DEF StreamInv
<1> QED BY <1>1, StreamInvariance, PTL

\* What a resume token relies on (prepareBroadcast, clearScopeStateLocked, Stop) holds of
\* every manager of the composed system too.
THEOREM StreamBuffers == Spec => [](BufferIsTail /\ StopIsTerminal)
<1>1. StreamInv => BufferIsTail /\ StopIsTerminal
  BY DEF StreamInv, MapsOK, Maps, Tail_, BufferIsTail, StopIsTerminal
<1> QED BY <1>1, StreamInvariance, PTL

-----------------------------------------------------------------------------
(* The loop of Since, over any list of numbers. *)

\* Every set of naturals that is not empty has a least one.
LEMMA LeastNat ==
  ASSUME NEW T \in SUBSET Nat, T # {}
  PROVE  \E x \in T : \A y \in T : x <= y
<1> DEFINE R == OpToRel(<, Nat)
<1>1. IsWellFoundedOn(R, Nat)
  BY NatLessThanWellFounded
<1>2. \A x, y \in Nat : x < y => <<x, y>> \in R
  BY DEF OpToRel
<1> HIDE DEF R
<1>3. PICK x \in T : \A y \in T : ~ (<<y, x>> \in R)
  BY <1>1, WFMin
<1>4. \A y \in T : x <= y
  <2> SUFFICES ASSUME NEW y \in T PROVE x <= y
    OBVIOUS
  <2>1. x \in Nat /\ y \in Nat
    OBVIOUS
  <2>2. ~ (y < x)
    BY <2>1, <1>2, <1>3
  <2> QED
    BY <2>1, <2>2
<1> QED
  BY <1>4

\* The loop keeps the items after the first k, when those are the newer ones.
LEMMA NewerLemma ==
  ASSUME NEW q \in Seq(Nat), NEW token \in Nat, NEW k \in 0 .. Len(q),
         \A i \in 1 .. Len(q) : q[i] > token <=> i > k
  PROVE  Newer(q, token) = SubSeq(q, k + 1, Len(q))
<1> DEFINE Loop(f) == [i \in 0 .. Len(q) |->
             IF i = 0 THEN << >>
             ELSE IF q[i] > token THEN Append(f[i - 1], q[i]) ELSE f[i - 1]]
           part == [i \in 0 .. Len(q) |-> SubSeq(q, k + 1, i)]
           kept == CHOOSE f : f = Loop(f)
<1>1. Newer(q, token) = kept[Len(q)]
  BY DEF Newer
<1>2. Len(q) \in Nat /\ \A i \in 1 .. Len(q) : q[i] \in Nat
  OBVIOUS
<1>3. ASSUME NEW i \in 0 .. Len(q), i <= k PROVE SubSeq(q, k + 1, i) = << >>
  BY <1>3, <1>2
<1>4. ASSUME NEW i \in 1 .. Len(q), i > k
      PROVE  SubSeq(q, k + 1, i) = Append(SubSeq(q, k + 1, i - 1), q[i])
  BY <1>4, <1>2
<1>5. part = Loop(part)
  <2>1. \A i \in 0 .. Len(q) : part[i] = SubSeq(q, k + 1, i)
    OBVIOUS
  <2> DEFINE Body(f, i) == IF i = 0 THEN << >>
             ELSE IF q[i] > token THEN Append(f[i - 1], q[i]) ELSE f[i - 1]
  <2> HIDE DEF part
  <2>2. ASSUME NEW i \in 0 .. Len(q) PROVE SubSeq(q, k + 1, i) = Body(part, i)
    <3>1. CASE i = 0
      BY <3>1, <1>3, <1>2
    <3>2. CASE i # 0 /\ i <= k
      <4>1. i - 1 \in 0 .. Len(q) /\ i \in 1 .. Len(q) /\ i - 1 <= k
        BY <3>2, <1>2
      <4>2. part[i - 1] = << >> /\ SubSeq(q, k + 1, i) = << >>
        BY <4>1, <1>3, <2>1, <3>2
      <4>3. i # 0 /\ ~(q[i] > token)
        BY <4>1, <3>2
      <4> QED
        BY <4>2, <4>3
    <3>3. CASE i > k
      <4>1. i - 1 \in 0 .. Len(q) /\ i \in 1 .. Len(q) /\ i # 0
        BY <3>3, <1>2
      <4>2. part[i - 1] = SubSeq(q, k + 1, i - 1)
        BY <4>1, <2>1
      <4>3. SubSeq(q, k + 1, i) = Append(part[i - 1], q[i])
        BY <4>1, <4>2, <1>4, <3>3
      <4>4. q[i] > token
        BY <4>1, <3>3
      <4> QED
        BY <4>1, <4>3, <4>4
    <3>4. i = 0 \/ (i # 0 /\ i <= k) \/ i > k
      BY <1>2
    <3> QED
      BY <3>1, <3>2, <3>3, <3>4
  <2> HIDE DEF Body
  <2>3. part = [i \in 0 .. Len(q) |-> Body(part, i)]
    <3>1. part = [i \in 0 .. Len(q) |-> SubSeq(q, k + 1, i)]
      BY DEF part
    <3> QED
      BY <3>1, <2>2
  <2> QED
    BY <2>3 DEF Body
<1> HIDE DEF Loop
<1>6. kept = Loop(kept)
  BY <1>5
<1> HIDE DEF kept
<1>7. ASSUME NEW i \in 0 .. Len(q), kept[i] # part[i] PROVE FALSE
  <2> DEFINE T == { n \in 0 .. Len(q) : kept[n] # part[n] }
  <2>1. i \in T
    BY <1>7
  <2>2. T \in SUBSET Nat
    BY <1>2
  <2>3. T \in SUBSET Nat /\ T # {}
    <3> HIDE DEF T
    <3> QED
      BY <2>1, <2>2
  <2>4. PICK n \in T : \A y \in T : n <= y
    BY <2>3, LeastNat
  <2>5. n \in 0 .. Len(q) /\ kept[n] # part[n]
    BY <2>4
  <2>6. kept[n] = Loop(kept)[n] /\ part[n] = Loop(part)[n]
    BY <1>5, <1>6
  <2>7. \A f, j : j \in 0 .. Len(q) => Loop(f)[j] = IF j = 0 THEN << >>
             ELSE IF q[j] > token THEN Append(f[j - 1], q[j]) ELSE f[j - 1]
    BY DEF Loop
  <2> HIDE DEF part
  <2>8. n # 0
    BY <2>5, <2>6, <2>7
  <2>9. n - 1 \in 0 .. Len(q) /\ ~(n <= n - 1)
    BY <2>5, <2>8, <1>2
  <2>10. n - 1 \in 0 .. Len(q) /\ ~(n - 1 \in T)
    BY <2>9, <2>4, <2>5, <2>8, <1>2
  <2>11. kept[n - 1] = part[n - 1]
    BY <2>10
  <2> QED
    BY <2>5, <2>6, <2>8, <2>11, <2>7
<1> QED
  BY <1>1, <1>2, <1>7

-----------------------------------------------------------------------------
(* What a settled, healthy stream means for its reader.  FlowInv follows    *)
(* the updates and the requests of the client through every queue between  *)
(* the stores and the reader: what is numbered where (Numbering), which of *)
(* the session's requests resume (Resuming), and what is on its way to a   *)
(* reader that is behind (Coming).  Each layer has its lemmas: first the   *)
(* client's functions, then the manager's, the session's, and the actions. *)

\* Resume tokens, the values of a doorbell clock, and the records of the client.
Tokens == [n : Nat, life : Lives \cup {NoValue}]

Clocks == ({"update", "signal"} \X Nat) \cup {NoValue}

ClientRecord ==
  [phase : {"connecting", "awaiting-ack", "synchronized"}, expects : BOOLEAN, preserved : BOOLEAN,
   last : Tokens, pending : Nat, cooling : BOOLEAN, connected : BOOLEAN, sends : Seq(Tokens),
   fetch : [state : {"idle", "asked", "read"}, v : Nat], trailing : BOOLEAN,
   data : Nat \cup {NoValue}, clock : Clocks, key : Clocks, signals : Nat,
   refused : BOOLEAN, raced : BOOLEAN, muted : BOOLEAN]

\* Until there is data a fetch is running, and a trailing one only follows another.
ClientOK(c) ==
  /\ c \in ClientRecord
  /\ c.data = NoValue => c.fetch.state # "idle"
  /\ c.fetch.state = "idle" => c.trailing = FALSE

\* The reader shows, or is about to fetch, version w of the stores.
Fetching(c, w) ==
  \/ c.fetch.state = "asked" \/ c.trailing = TRUE
  \/ c.fetch.state = "read" /\ c.fetch.v = w
  \/ c.fetch.state = "idle" /\ c.data = w

Known(c, w) == c.pending > 0 \/ c.raced = TRUE \/ c.muted = TRUE \/ Fetching(c, w)

\* The fields that decide how the client treats its frames.
SameStream(c, d) ==
  /\ d.phase = c.phase /\ d.expects = c.expects /\ d.last = c.last
  /\ d.connected = c.connected /\ d.refused = c.refused

\* d is c after sending a request without a token.
Subscribed(c, d) ==
  /\ d.phase = "awaiting-ack" /\ d.expects = TRUE /\ d.last.n = 0 /\ d.refused = FALSE
  /\ d.connected = c.connected
  /\ \E t \in Tokens : t.n = 0 /\ d.sends = Append(c.sends, t)

LEMMA PerformFetchFacts ==
  ASSUME NEW c, ClientOK(c)
  PROVE  /\ ClientOK(performFetch(c)) /\ SameStream(c, performFetch(c))
         /\ performFetch(c).sends = c.sends /\ performFetch(c).data = c.data
         /\ performFetch(c).pending = c.pending /\ performFetch(c).raced = c.raced
         /\ performFetch(c).preserved = c.preserved /\ performFetch(c).cooling = c.cooling
         /\ \A w \in Nat : Fetching(performFetch(c), w)
BY DEF ClientOK, ClientRecord, performFetch, SameStream, Fetching

LEMMA VersionFacts ==
  ASSUME NEW n \in Nat
  PROVE  UpdateVersion(n) \in Clocks /\ SignalVersion(n) \in Clocks
BY DEF UpdateVersion, SignalVersion, Clocks

LEMMA AdvanceFacts ==
  ASSUME NEW c, ClientOK(c), NEW v \in Clocks
  PROVE  /\ ClientOK(AdvanceSource(c, v)) /\ SameStream(c, AdvanceSource(c, v))
         /\ AdvanceSource(c, v).sends = c.sends
         /\ AdvanceSource(c, v).preserved = c.preserved /\ AdvanceSource(c, v).cooling = c.cooling
         /\ AdvanceSource(c, v).muted = TRUE
         /\ \A w \in Nat : Known(AdvanceSource(c, v), w)
BY DEF ClientOK, ClientRecord, AdvanceSource, SameStream, Known

\* The reader has seen the clock: a doorbell is answered by a fetch, or was muted before.
LEMMA RefetchFacts ==
  ASSUME NEW c, ClientOK(c)
  PROVE  /\ ClientOK(SignalRefetch(c)) /\ SameStream(c, SignalRefetch(c))
         /\ \A w \in Nat : Known(c, w) => Known(SignalRefetch(c), w)
<1>1. CASE c.clock = c.key
  BY <1>1 DEF SignalRefetch, SameStream
<1>2. CASE c.clock # c.key
  <2> DEFINE d == performFetch(c)
             e == SignalRefetch(c)
  <2>1. ClientOK(d) /\ SameStream(c, d) /\ \A w \in Nat : Fetching(d, w)
    BY PerformFetchFacts
  <2> HIDE DEF d
  <2>2. e = [d EXCEPT !.key = c.clock, !.raced = FALSE, !.muted = FALSE] /\ c.clock \in Clocks
    BY <1>2 DEF SignalRefetch, d, ClientOK, ClientRecord
  <2>3. /\ e \in ClientRecord /\ e.data = d.data /\ e.fetch = d.fetch /\ e.trailing = d.trailing
        /\ e.phase = d.phase /\ e.expects = d.expects /\ e.last = d.last
        /\ e.connected = d.connected /\ e.refused = d.refused
    BY <2>1, <2>2 DEF ClientOK, ClientRecord
  <2> HIDE DEF e
  <2>4. ClientOK(e) /\ SameStream(c, e) /\ \A w \in Nat : Known(e, w)
    BY <2>1, <2>3 DEF ClientOK, SameStream, Fetching, Known
  <2> QED
    BY <2>4 DEF e
<1> QED
  BY <1>1, <1>2

LEMMA FlushedFacts ==
  ASSUME NEW c, ClientOK(c)
  PROVE  /\ ClientOK(flushed(c)) /\ SameStream(c, flushed(c)) /\ flushed(c).sends = c.sends
         /\ \A w \in Nat : Known(c, w) => Known(flushed(c), w)
<1>1. CASE c.pending > 0
  <2> DEFINE v == UpdateVersion(c.last.n)
             d == AdvanceSource(c, v)
  <2>1. v \in Clocks
    BY VersionFacts DEF ClientOK, ClientRecord, Tokens
  <2>2. flushed(c) = [d EXCEPT !.pending = 0]
    BY <1>1 DEF flushed
  <2> HIDE DEF v
  <2>3. ClientOK(d) /\ SameStream(c, d) /\ d.sends = c.sends /\ d.muted = TRUE
    BY <2>1, AdvanceFacts
  <2> HIDE DEF d
  <2> QED
    BY <2>2, <2>3 DEF ClientOK, ClientRecord, SameStream, Fetching, Known
<1>2. CASE ~(c.pending > 0)
  BY <1>2 DEF flushed, SameStream
<1> QED
  BY <1>1, <1>2

LEMMA ResyncFacts ==
  ASSUME NEW c, ClientOK(c), NEW keeps \in BOOLEAN, NEW force \in BOOLEAN
  PROVE  LET d == resyncSubscription(c, keeps, force) IN
         /\ ClientOK(d) /\ \A w \in Nat : Known(c, w) => Known(d, w)
         /\ \/ /\ ~force /\ d.refused = TRUE /\ d.sends = c.sends
               /\ d.phase = c.phase /\ d.expects = c.expects /\ d.last = c.last
               /\ d.connected = c.connected
            \/ Subscribed(c, d)
<1> DEFINE d == resyncSubscription(c, keeps, force)
<1>1. CASE InCooldown(c, force)
  <2>1. d = [c EXCEPT !.refused = TRUE] /\ ~force
    BY <1>1 DEF resyncSubscription, InCooldown
  <2> QED
    BY <2>1 DEF ClientOK, ClientRecord, Known, Fetching
<1>2. CASE ~InCooldown(c, force)
  <2> DEFINE f == flushed(c)
             e == [f EXCEPT !.last = Unset, !.cooling = TRUE, !.phase = "awaiting-ack",
                            !.preserved = keeps /\ confirmedHealth(c)]
  <2>1. /\ ClientOK(f) /\ SameStream(c, f) /\ f.sends = c.sends
        /\ \A w \in Nat : Known(c, w) => Known(f, w)
    BY FlushedFacts
  <2>2. d = Subscribe(e)
    BY <1>2 DEF resyncSubscription
  <2> HIDE DEF f
  <2>3. Unset \in Tokens /\ Unset.n = 0
    BY DEF Unset, Tokens
  <2>4. /\ e \in ClientRecord /\ e.last = Unset /\ e.phase = "awaiting-ack"
        /\ e.sends = c.sends /\ e.connected = c.connected
        /\ e.data = f.data /\ e.fetch = f.fetch /\ e.trailing = f.trailing
        /\ e.pending = f.pending /\ e.raced = f.raced /\ e.muted = f.muted
    BY <2>1, <2>3 DEF ClientOK, ClientRecord, SameStream, confirmedHealth
  <2> HIDE DEF e
  <2>5. Append(e.sends, Unset) \in Seq(Tokens)
    BY <2>3, <2>4 DEF ClientRecord
  <2> DEFINE q == Append(e.sends, Unset)
             healthy == confirmedHealth(e)
  <2>6. d = [e EXCEPT !.sends = q, !.refused = FALSE, !.phase = "awaiting-ack",
                      !.expects = TRUE, !.preserved = healthy]
    BY <2>2, <2>3, <2>4 DEF Subscribe
  <2>10. q \in Seq(Tokens) /\ healthy \in BOOLEAN
    BY <2>4, <2>5 DEF ClientRecord, confirmedHealth
  <2> HIDE DEF q, healthy, d
  <2>7. /\ d \in ClientRecord /\ d.last = Unset /\ d.phase = "awaiting-ack" /\ d.refused = FALSE
        /\ d.expects = TRUE /\ d.sends = q /\ d.connected = e.connected
        /\ d.data = e.data /\ d.fetch = e.fetch /\ d.trailing = e.trailing
        /\ d.pending = e.pending /\ d.raced = e.raced /\ d.muted = e.muted
    BY <2>4, <2>10, <2>6 DEF ClientRecord
  <2>8. Subscribed(c, d)
    BY <2>3, <2>4, <2>7 DEF Subscribed, q
  <2>9. ClientOK(d) /\ \A w \in Nat : Known(c, w) => Known(d, w)
    BY <2>1, <2>4, <2>7 DEF ClientOK, Known, Fetching
  <2> QED
    BY <2>8, <2>9 DEF d
<1> QED
  BY <1>1, <1>2

Frames == [type : {"ack", "reset", "complete", "error", "changed"}, n : Nat, life : Lives]

\* What a message makes of a client whose connection is open and that has nothing to send.
LEMMA ReceiveFacts ==
  ASSUME NEW c, ClientOK(c), c.phase # "connecting", c.sends = << >>, NEW msg \in Frames
  PROVE  LET d == receiveMessage(c, msg) IN
         /\ ClientOK(d) /\ d.connected = c.connected /\ d.phase # "connecting"
         /\ \/ Subscribed(c, d) /\ msg.type # "ack"
            \/ /\ d.sends = << >>
               /\ \/ /\ msg.type = "ack" \/ (msg.type = "changed" /\ Stale(c, msg))
                     /\ expectsReset(d) = expectsReset(c) /\ d.last = c.last /\ d.refused = c.refused
                     /\ \A w \in Nat : Known(c, w) => Known(d, w)
                  \/ /\ msg.type = "changed"
                     /\ expectsReset(d) = expectsReset(c) /\ d.last = [n |-> msg.n, life |-> msg.life]
                     /\ d.refused = c.refused /\ \A w \in Nat : Known(d, w)
                  \/ /\ msg.type = "reset" /\ expectsReset(c) /\ ~expectsReset(d)
                     /\ d.last = c.last /\ d.refused = c.refused /\ \A w \in Nat : Known(d, w)
                  \/ /\ msg.type \in {"reset", "complete"} /\ d.refused = TRUE
                     /\ ~(msg.type = "reset" /\ expectsReset(c))
                     /\ expectsReset(d) = expectsReset(c) /\ d.last = c.last
                     /\ \A w \in Nat : Known(d, w)
<1> DEFINE d == receiveMessage(c, msg)
<1>1. c \in ClientRecord /\ msg.n \in Nat /\ msg.life \in Lives
  BY DEF ClientOK, Frames
<1> DEFINE z == Synchronized(c)
<1>2. /\ ClientOK(z) /\ z.phase = "synchronized" /\ expectsReset(z) = expectsReset(c)
      /\ z.last = c.last /\ z.refused = c.refused /\ z.sends = << >> /\ z.connected = c.connected
      /\ z.pending = c.pending /\ z.fetch = c.fetch /\ z.data = c.data
      /\ \A w \in Nat : Known(c, w) => Known(z, w)
  BY <1>1 DEF ClientOK, ClientRecord, Synchronized, expectsReset, Known, Fetching
<1> HIDE DEF z
<1>3. CASE msg.type = "ack"
  <2>1. d = z
    BY <1>3 DEF receiveMessage, z
  <2> HIDE DEF d
  <2>2. /\ ClientOK(d) /\ d.phase # "connecting" /\ d.connected = c.connected /\ d.sends = << >>
        /\ expectsReset(d) = expectsReset(c) /\ d.last = c.last /\ d.refused = c.refused
        /\ \A w \in Nat : Known(c, w) => Known(d, w)
    BY <1>2, <2>1
  <2> QED
    BY <1>3, <2>2 DEF d
<1>4. CASE msg.type = "changed"
  <2>1. d = receiveChanged(c, msg)
    BY <1>4 DEF receiveMessage
  <2>2. CASE Stale(c, msg)
    <3>1. d = c
      BY <2>1, <2>2 DEF receiveChanged
    <3> QED
      BY <1>4, <2>2, <3>1
  <2>3. CASE ~Stale(c, msg)
    <3> DEFINE l == [n |-> msg.n, life |-> msg.life]
               e == [z EXCEPT !.last = l]
    <3>1. l \in Tokens
      BY <1>1 DEF Tokens
    <3>2. /\ ClientOK(e) /\ e.phase = "synchronized" /\ expectsReset(e) = expectsReset(c)
          /\ e.last = l /\ e.refused = c.refused /\ e.sends = << >> /\ e.connected = c.connected
          /\ e.pending = c.pending
      BY <1>2, <3>1 DEF ClientOK, ClientRecord, expectsReset
    <3>3. CASE c.pending + 1 > MaxPendingChanges
      <4> DEFINE p == [e EXCEPT !.pending = 0]
      <4>1. d = resyncSubscription(p, FALSE, TRUE)
        BY <2>1, <2>3, <3>3 DEF receiveChanged, z
      <4>2. ClientOK(p) /\ p.sends = << >> /\ p.connected = c.connected
        BY <3>2 DEF ClientOK, ClientRecord
      <4> HIDE DEF p, d
      <4>3. ClientOK(d) /\ Subscribed(p, d)
        BY <4>1, <4>2, ResyncFacts
      <4>4. Subscribed(c, d) /\ d.phase # "connecting"
        BY <4>2, <4>3 DEF Subscribed
      <4> QED
        BY <1>4, <4>2, <4>3, <4>4 DEF d, Subscribed
    <3>4. CASE ~(c.pending + 1 > MaxPendingChanges)
      <4>1. d = [e EXCEPT !.pending = e.pending + 1]
        BY <2>1, <2>3, <3>4 DEF receiveChanged, z
      <4> HIDE DEF d, e
      <4>0. c.pending \in Nat /\ e \in ClientRecord /\ e.pending + 1 \in Nat
        BY <1>1, <3>2 DEF ClientOK, ClientRecord
      <4>2. /\ ClientOK(d) /\ d.phase = "synchronized" /\ expectsReset(d) = expectsReset(c)
            /\ d.last = l /\ d.refused = c.refused /\ d.sends = << >> /\ d.connected = c.connected
            /\ d.pending = c.pending + 1
        BY <3>2, <4>0, <4>1 DEF ClientOK, ClientRecord, expectsReset
      <4>3. c.pending \in Nat /\ \A w \in Nat : Known(d, w)
        BY <1>1, <4>2 DEF ClientRecord, Known
      <4> QED
        BY <1>4, <4>2, <4>3 DEF d
    <3> QED
      BY <3>3, <3>4
  <2> QED
    BY <2>2, <2>3
<1>5. CASE msg.type = "error"
  <2>1. d = resyncSubscription(c, FALSE, TRUE)
    BY <1>5 DEF receiveMessage
  <2> HIDE DEF d
  <2>2. ClientOK(d) /\ Subscribed(c, d)
    BY <2>1, ResyncFacts
  <2> QED
    BY <1>5, <2>2 DEF d, Subscribed
<1> DEFINE b == nextSignalVersion(c)
           v == SignalVersion(b.signals)
<1>6. /\ ClientOK(b) /\ SameStream(c, b) /\ b.sends = << >> /\ b.fetch = c.fetch
      /\ b.data = c.data /\ v \in Clocks /\ expectsReset(b) = expectsReset(c)
      /\ InitialReset(b, msg) = InitialReset(c, msg)
  <2>1. /\ b \in ClientRecord /\ SameStream(c, b) /\ b.sends = << >> /\ b.fetch = c.fetch
        /\ b.data = c.data /\ b.trailing = c.trailing
    BY <1>1 DEF nextSignalVersion, ClientRecord, SameStream
  <2>2. b.signals \in Nat
    BY <2>1 DEF ClientRecord
  <2> HIDE DEF b
  <2> QED
    BY <2>1, <2>2, VersionFacts DEF ClientOK, SameStream, expectsReset, InitialReset
<1>7. CASE msg.type \in {"reset", "complete"} /\ ~InitialReset(c, msg)
  <2> DEFINE a == AdvanceSource(b, v)
  <2>1. d = resyncSubscription(a, FALSE, FALSE)
    BY <1>6, <1>7 DEF receiveMessage, receiveReset
  <2> HIDE DEF b, v
  <2>2. /\ ClientOK(a) /\ SameStream(c, a) /\ a.sends = << >> /\ \A w \in Nat : Known(a, w)
    BY <1>6, AdvanceFacts DEF SameStream
  <2> HIDE DEF a, d
  <2>3. /\ ClientOK(d) /\ \A w \in Nat : Known(a, w) => Known(d, w)
        /\ \/ /\ d.refused = TRUE /\ d.sends = a.sends
              /\ d.phase = a.phase /\ d.expects = a.expects /\ d.last = a.last
              /\ d.connected = a.connected
           \/ Subscribed(a, d)
    BY <2>1, <2>2, ResyncFacts
  <2>4. \A w \in Nat : Known(d, w)
    BY <2>2, <2>3
  <2>5. CASE Subscribed(a, d)
    <3>1. Subscribed(c, d) /\ d.phase # "connecting" /\ d.connected = c.connected
      BY <2>2, <2>5 DEF Subscribed, SameStream
    <3> QED
      BY <1>7, <2>3, <3>1 DEF d
  <2>6. CASE ~Subscribed(a, d)
    <3>1. /\ d.refused = TRUE /\ d.sends = << >> /\ d.phase = c.phase /\ d.expects = c.expects
          /\ d.last = c.last /\ d.connected = c.connected
      BY <2>2, <2>3, <2>6 DEF SameStream
    <3>2. expectsReset(d) = expectsReset(c)
      BY <3>1 DEF expectsReset
    <3> QED
      BY <1>7, <2>3, <2>4, <3>1, <3>2 DEF d, InitialReset
  <2> QED
    BY <2>5, <2>6
<1>8. CASE InitialReset(c, msg)
  <2> DEFINE e == [Synchronized(b) EXCEPT !.expects = FALSE]
  <2>0. msg.type = "reset" /\ expectsReset(c) /\ InitialReset(b, msg)
    BY <1>6, <1>8 DEF InitialReset
  <2>1. d = receiveReset(b, msg)
    BY <2>0 DEF receiveMessage
  <2>2. d = IF hasRetainedData(b) THEN AdvanceSource(e, v)
            ELSE [e EXCEPT !.raced = b.fetch.state = "read"]
    BY <2>0, <2>1 DEF receiveReset
  <2> HIDE DEF b, v, d
  <2>3. /\ ClientOK(e) /\ e.phase = "synchronized" /\ ~expectsReset(e)
        /\ e.last = c.last /\ e.refused = c.refused /\ e.sends = << >> /\ e.connected = c.connected
        /\ e.fetch = c.fetch /\ e.data = c.data
    <3> DEFINE y == Synchronized(b)
               k == expectsReset(b)
    <3>1. y = [b EXCEPT !.phase = "synchronized", !.preserved = FALSE, !.expects = k]
      BY DEF Synchronized
    <3>2. e = [y EXCEPT !.expects = FALSE] /\ k \in BOOLEAN
      BY <1>6 DEF ClientOK, ClientRecord, expectsReset
    <3> HIDE DEF y, k, e
    <3>3. /\ ClientOK(y) /\ y.phase = "synchronized" /\ y.last = c.last /\ y.refused = c.refused
          /\ y.sends = << >> /\ y.connected = c.connected /\ y.fetch = c.fetch /\ y.data = c.data
      BY <1>6, <3>1, <3>2 DEF ClientOK, ClientRecord, SameStream
    <3> QED
      BY <3>2, <3>3 DEF ClientOK, ClientRecord, expectsReset
  <2> HIDE DEF e
  <2>4. CASE hasRetainedData(b)
    <3>1. d = AdvanceSource(e, v)
      BY <2>2, <2>4
    <3>2. ClientOK(d) /\ SameStream(e, d) /\ d.sends = << >> /\ \A w \in Nat : Known(d, w)
      BY <1>6, <2>3, <3>1, AdvanceFacts
    <3>3. /\ d.phase = "synchronized" /\ ~expectsReset(d) /\ d.last = c.last
          /\ d.refused = c.refused /\ d.connected = c.connected
      BY <2>3, <3>2 DEF SameStream, expectsReset
    <3> QED
      BY <2>0, <3>2, <3>3 DEF d
  <2>5. CASE ~hasRetainedData(b)
    <3>1. d = [e EXCEPT !.raced = (c.fetch.state = "read")]
      BY <1>6, <2>2, <2>5
    <3>2. /\ ClientOK(d) /\ d.phase = "synchronized" /\ ~expectsReset(d) /\ d.last = c.last
          /\ d.refused = c.refused /\ d.sends = << >> /\ d.connected = c.connected
          /\ d.fetch = c.fetch /\ d.raced = (c.fetch.state = "read")
      BY <2>3, <3>1 DEF ClientOK, ClientRecord, expectsReset
    <3>3. c.fetch.state \in {"asked", "read"}
      BY <1>1, <1>6, <2>5 DEF ClientOK, ClientRecord, hasRetainedData
    <3>4. \A w \in Nat : Known(d, w)
      BY <3>2, <3>3 DEF Known, Fetching
    <3> QED
      BY <2>0, <3>2, <3>4 DEF d
  <2> QED
    BY <2>4, <2>5
<1>9. msg.type \in {"ack", "reset", "complete", "error", "changed"}
  BY DEF Frames
<1> QED
  BY <1>3, <1>4, <1>5, <1>7, <1>8, <1>9 DEF InitialReset

\* A fresh connection: the resume request, or a request without a token.
LEMMA OpenedFacts ==
  ASSUME NEW c, ClientOK(c), c.sends = << >>
  PROVE  LET d == connectionOpened(c) IN
         /\ ClientOK(d) /\ d.connected = TRUE /\ \A w \in Nat : Known(c, w) => Known(d, w)
         /\ d.phase = "awaiting-ack" /\ d.refused = FALSE
         /\ \/ c.last.n # 0 /\ d.expects = FALSE /\ d.last = c.last /\ d.sends = << c.last >>
            \/ /\ d.expects = TRUE /\ d.last.n = 0
               /\ \E t \in Tokens : t.n = 0 /\ d.sends = << t >>
<1> DEFINE d == connectionOpened(c)
           o == [c EXCEPT !.connected = TRUE, !.signals = 0]
<1>1. c \in ClientRecord /\ c.last \in Tokens
  BY DEF ClientOK, ClientRecord
<1>2. ClientOK(o) /\ o.connected = TRUE /\ o.last = c.last /\ o.sends = << >>
      /\ \A w \in Nat : Known(c, w) => Known(o, w)
  BY <1>1 DEF ClientOK, ClientRecord, Known, Fetching
<1>3. CASE c.last.n # 0
  <2> DEFINE e == [o EXCEPT !.phase = "awaiting-ack", !.preserved = FALSE]
  <2>1. d = Subscribe(e)
    BY <1>3 DEF connectionOpened
  <2> HIDE DEF o
  <2>2. /\ e \in ClientRecord /\ e.last = c.last /\ e.phase = "awaiting-ack" /\ e.preserved = FALSE
        /\ e.sends = << >> /\ e.connected = TRUE
        /\ e.data = o.data /\ e.fetch = o.fetch /\ e.trailing = o.trailing
        /\ e.pending = o.pending /\ e.raced = o.raced /\ e.muted = o.muted
    BY <1>2 DEF ClientOK, ClientRecord
  <2> HIDE DEF e
  <2>3. Append(e.sends, e.last) = << c.last >> /\ << c.last >> \in Seq(Tokens)
    BY <1>1, <2>2
  <2> DEFINE q == << c.last >>
             healthy == confirmedHealth(e)
  <2>4. d = [e EXCEPT !.sends = q, !.refused = FALSE, !.phase = "awaiting-ack",
                      !.expects = FALSE, !.preserved = healthy]
    BY <1>3, <2>1, <2>2, <2>3 DEF Subscribe
  <2>7. q \in Seq(Tokens) /\ healthy \in BOOLEAN
    BY <2>2, <2>3 DEF ClientRecord, confirmedHealth
  <2> HIDE DEF q, healthy, d
  <2>5. /\ d \in ClientRecord /\ d.last = c.last /\ d.phase = "awaiting-ack" /\ d.refused = FALSE
        /\ d.expects = FALSE /\ d.sends = q /\ d.connected = TRUE
        /\ d.data = e.data /\ d.fetch = e.fetch /\ d.trailing = e.trailing
        /\ d.pending = e.pending /\ d.raced = e.raced /\ d.muted = e.muted
    BY <2>2, <2>7, <2>4 DEF ClientRecord
  <2>6. ClientOK(d) /\ \A w \in Nat : Known(c, w) => Known(d, w)
    BY <1>2, <2>2, <2>5 DEF ClientOK, Known, Fetching
  <2> QED
    BY <1>3, <2>5, <2>6 DEF d, q
<1>4. CASE c.last.n = 0
  <2>1. d = resyncSubscription(o, FALSE, TRUE)
    BY <1>4 DEF connectionOpened
  <2> HIDE DEF o, d
  <2>2. ClientOK(d) /\ Subscribed(o, d) /\ \A w \in Nat : Known(o, w) => Known(d, w)
    BY <1>2, <2>1, ResyncFacts
  <2>3. \E t \in Tokens : t.n = 0 /\ d.sends = << t >>
    <3>1. PICK t \in Tokens : t.n = 0 /\ d.sends = Append(o.sends, t)
      BY <2>2 DEF Subscribed
    <3>2. Append(<< >>, t) = << t >>
      OBVIOUS
    <3> QED
      BY <1>2, <3>1, <3>2
  <2> QED
    BY <1>2, <2>2, <2>3 DEF d, Subscribed
<1> QED
  BY <1>3, <1>4

\* A lost connection: what is requested now waits, and is without a token.
LEMMA LostFacts ==
  ASSUME NEW c, ClientOK(c), c.sends = << >>
  PROVE  LET d == connectionLost(c) IN
         /\ ClientOK(d) /\ \A w \in Nat : Known(c, w) => Known(d, w)
         /\ \/ d.sends = << >> /\ d.last = c.last
            \/ d.last.n = 0 /\ \E t \in Tokens : t.n = 0 /\ d.sends = << t >>
         /\ c.last.n # 0 => d.sends = << >>
<1> DEFINE d == connectionLost(c)
           o == [c EXCEPT !.connected = FALSE, !.phase = "connecting", !.preserved = FALSE]
<1>1. c \in ClientRecord
  BY DEF ClientOK
<1>2. ClientOK(o) /\ o.last = c.last /\ o.sends = << >>
      /\ \A w \in Nat : Known(c, w) => Known(o, w)
  BY <1>1 DEF ClientOK, ClientRecord, Known, Fetching
<1>3. CASE c.last.n # 0
  BY <1>2, <1>3 DEF connectionLost
<1>4. CASE c.last.n = 0
  <2>1. d = resyncSubscription(o, FALSE, FALSE)
    BY <1>4 DEF connectionLost
  <2> HIDE DEF o, d
  <2>2. /\ ClientOK(d) /\ \A w \in Nat : Known(o, w) => Known(d, w)
        /\ \/ d.sends = o.sends /\ d.last = o.last
           \/ Subscribed(o, d)
    BY <1>2, <2>1, ResyncFacts
  <2>3. Subscribed(o, d) => d.last.n = 0 /\ \E t \in Tokens : t.n = 0 /\ d.sends = << t >>
    <3> SUFFICES ASSUME Subscribed(o, d)
                 PROVE  d.last.n = 0 /\ \E t \in Tokens : t.n = 0 /\ d.sends = << t >>
      OBVIOUS
    <3>1. PICK t \in Tokens : t.n = 0 /\ d.sends = Append(o.sends, t)
      BY DEF Subscribed
    <3>2. Append(<< >>, t) = << t >>
      OBVIOUS
    <3> QED
      BY <1>2, <3>1, <3>2 DEF Subscribed
  <2> QED
    BY <1>2, <1>4, <2>2, <2>3 DEF d
<1> QED
  BY <1>3, <1>4

\* A number and a life that manager life[1] has given, now or before it started again.
Bound(h, n, life) ==
  \E m \in Managers : /\ life[1] = m /\ life[2] \in Nat
                      /\ life[2] < h.life[m] \/ (life[2] = h.life[m] /\ n <= h.seq[m])

\* The numbering of manager m is as before, or it has ended with its last subscriber.
Stays(h, g, m) == g.seq[m] = h.seq[m] /\ g.life[m] = h.life[m] /\ g.buf[m] = h.buf[m]

Cleared(h, g, m) ==
  /\ Live(g, m) = {} /\ g.seq[m] = 0
  /\ \/ h.seq[m] = 0 /\ g.life[m] = h.life[m]
     \/ h.seq[m] > 0 /\ g.life[m] > h.life[m]

\* g is h after readers, those of X only, have taken from their channels, and
\* subscriptions were dropped.
Moves(h, g, X) ==
  /\ g.dropping = h.dropping
  /\ \A s \in Subs :
       /\ g.sub[s].state = "live" => /\ h.sub[s].state = "live" /\ g.sub[s].on = h.sub[s].on
                                     /\ g.sub[s].life = h.sub[s].life
       /\ \A i \in DOMAIN g.sub[s].chan :
            /\ g.sub[s].life = h.sub[s].life
            /\ \E j \in DOMAIN h.sub[s].chan : h.sub[s].chan[j] = g.sub[s].chan[i]
       /\ s \notin X => /\ g.sub[s].chan = h.sub[s].chan
                        /\ g.sub[s].resyncing = h.sub[s].resyncing
  /\ \A m \in Managers : Stays(h, g, m) \/ Cleared(h, g, m)

\* How Moves composes, and which of the manager's functions are such a step.
LEMMA MovesSame == ASSUME NEW h, NEW X PROVE Moves(h, h, X)
BY DEF Moves, Stays

LEMMA MovesOn ==
  ASSUME NEW h, NEW g, NEW k, NEW X, MapsOK(h), MapsOK(g), MapsOK(k),
         Moves(h, g, X), Moves(g, k, X)
  PROVE  Moves(h, k, X)
<1>1. h \in Maps /\ g \in Maps /\ k \in Maps
  BY DEF MapsOK
<1>2. k.dropping = h.dropping
  BY DEF Moves
<1>3. ASSUME NEW s \in Subs
      PROVE  /\ k.sub[s].state = "live" => /\ h.sub[s].state = "live" /\ k.sub[s].on = h.sub[s].on
                                           /\ k.sub[s].life = h.sub[s].life
             /\ \A i \in DOMAIN k.sub[s].chan :
                  /\ k.sub[s].life = h.sub[s].life
                  /\ \E j \in DOMAIN h.sub[s].chan : h.sub[s].chan[j] = k.sub[s].chan[i]
             /\ s \notin X => /\ k.sub[s].chan = h.sub[s].chan
                              /\ k.sub[s].resyncing = h.sub[s].resyncing
  BY DEF Moves
<1>4. ASSUME NEW m \in Managers PROVE Stays(h, k, m) \/ Cleared(h, k, m)
  <2>1. /\ Stays(h, g, m) \/ Cleared(h, g, m)
        /\ Stays(g, k, m) \/ Cleared(g, k, m)
        /\ h.seq[m] \in Nat /\ g.seq[m] \in Nat /\ k.seq[m] \in Nat
        /\ h.life[m] \in Nat /\ g.life[m] \in Nat /\ k.life[m] \in Nat
    BY <1>1 DEF Moves, Maps
  <2>2. Live(k, m) \subseteq Live(g, m)
    BY DEF Live, Moves
  <2>3. CASE Stays(g, k, m)
    BY <2>1, <2>2, <2>3 DEF Stays, Cleared
  <2>4. CASE Cleared(g, k, m)
    BY <2>1, <2>4 DEF Stays, Cleared
  <2> QED BY <2>1, <2>3, <2>4
<1> QED BY <1>2, <1>3, <1>4 DEF Moves

LEMMA MovesWider ==
  ASSUME NEW h, NEW g, NEW X, NEW Y, Moves(h, g, X), X \subseteq Y
  PROVE  Moves(h, g, Y)
BY DEF Moves

\* What the numberings of the managers become when scope m is cleared.
LEMMA ClearMoves ==
  ASSUME NEW h \in Maps, NEW m \in Managers, Live(h, m) = {}
  PROVE  LET g == clearScopeStateLocked(h, m) IN
         /\ g \in Maps /\ g.sub = h.sub /\ g.dropping = h.dropping /\ g.stopped = h.stopped
         /\ \A k \in Managers : Stays(h, g, k) \/ Cleared(h, g, k)
<1> DEFINE g == clearScopeStateLocked(h, m)
<1>1. /\ g \in Maps /\ g.sub = h.sub /\ g.dropping = h.dropping /\ g.stopped = h.stopped
      /\ g.seq[m] = 0
      /\ \A k \in Managers \ {m} : g.seq[k] = h.seq[k] /\ g.buf[k] = h.buf[k]
  BY ClearFacts
<1>2. g.life = [h.life EXCEPT ![m] = IF h.seq[m] > 0 THEN h.life[m] + 1 ELSE h.life[m]]
  BY DEF clearScopeStateLocked, Maps
<1>3. h.life \in [Managers -> Nat] /\ h.seq[m] \in Nat /\ h.life[m] \in Nat
  BY DEF Maps
<1>4. Live(g, m) = {}
  BY <1>1 DEF Live
<1> HIDE DEF g
<1>5. Cleared(h, g, m)
  BY <1>1, <1>2, <1>3, <1>4 DEF Cleared
<1>6. \A k \in Managers \ {m} : Stays(h, g, k)
  BY <1>1, <1>2, <1>3 DEF Stays
<1> QED BY <1>1, <1>5, <1>6 DEF g

\* dropSubscriber
LEMMA DropMoves ==
  ASSUME NEW h, MapsOK(h), NEW s \in Subs
  PROVE  Moves(h, dropSubscriber(h, s), {}) /\ MapsOK(dropSubscriber(h, s))
<1> DEFINE m == h.sub[s].on
           c == [h EXCEPT !.sub[s].state = "closed"]
           g == dropSubscriber(h, s)
<1>1. h \in Maps /\ MapsOK(g)
  BY DropKeeps DEF MapsOK
<1>2. CASE h.sub[s].state # "live"
  BY <1>1, <1>2, MovesSame DEF dropSubscriber
<1>3. CASE h.sub[s].state = "live"
  <2>1. m \in Managers
    BY <1>3 DEF MapsOK
  <2>2. /\ c \in Maps /\ c.dropping = h.dropping /\ c.seq = h.seq /\ c.life = h.life /\ c.buf = h.buf
        /\ \A q \in Subs : /\ c.sub[q].chan = h.sub[q].chan /\ c.sub[q].life = h.sub[q].life
                           /\ c.sub[q].resyncing = h.sub[q].resyncing
                           /\ c.sub[q].on = h.sub[q].on
                           /\ c.sub[q].state = "live" => h.sub[q].state = "live"
    BY <1>1 DEF Maps, Subscription
  <2>3. g = IF Live(c, m) = {} THEN clearScopeStateLocked(c, m) ELSE c
    BY <1>3 DEF dropSubscriber
  <2> HIDE DEF c, g, m
  <2>4. /\ g.sub = c.sub /\ g.dropping = c.dropping
        /\ \A k \in Managers : Stays(c, g, k) \/ Cleared(c, g, k)
    BY <2>1, <2>2, <2>3, ClearMoves DEF Stays
  <2>5. \A k \in Managers : Stays(h, g, k) \/ Cleared(h, g, k)
    BY <2>2, <2>4 DEF Stays, Cleared
  <2>6. Moves(h, g, {})
    BY <2>2, <2>4, <2>5 DEF Moves
  <2> QED BY <1>1, <2>6 DEF g
<1> QED BY <1>2, <1>3

\* forwardSubscription takes the oldest message of a channel.
LEMMA TakenMoves ==
  ASSUME NEW h, MapsOK(h), NEW s \in Subs, h.sub[s].chan # << >>
  PROVE  /\ Moves(h, Taken(h, s), {s}) /\ MapsOK(Taken(h, s))
         /\ Taken(h, s).sub[s] = [h.sub[s] EXCEPT !.chan = Tail(h.sub[s].chan)]
         /\ \A q \in Subs \ {s} : Taken(h, s).sub[q] = h.sub[q]
<1> DEFINE g == Taken(h, s)
           c == h.sub[s].chan
<1>1. h \in Maps /\ MapsOK(g) /\ h.sub[s] \in Subscription /\ c \in Seq(Nat)
  BY TakenKeeps DEF MapsOK, Maps, Subscription
<1>2. g = [h EXCEPT !.sub[s] = [h.sub[s] EXCEPT !.chan = Tail(c)]]
  BY <1>1 DEF Maps, Taken
<1> HIDE DEF g
<1>3. /\ g.dropping = h.dropping /\ g.seq = h.seq /\ g.life = h.life /\ g.buf = h.buf
      /\ g.sub[s] = [h.sub[s] EXCEPT !.chan = Tail(c)]
      /\ \A q \in Subs \ {s} : g.sub[q] = h.sub[q]
  BY <1>1, <1>2 DEF Maps
<1>4. /\ g.sub[s].state = h.sub[s].state /\ g.sub[s].on = h.sub[s].on
      /\ g.sub[s].life = h.sub[s].life /\ g.sub[s].chan = Tail(c)
  BY <1>1, <1>3 DEF Subscription
<1> HIDE DEF c
<1>5. \A i \in DOMAIN Tail(c) : i + 1 \in DOMAIN c /\ c[i + 1] = Tail(c)[i]
  BY <1>1
<1>6. ASSUME NEW q \in Subs
      PROVE  /\ g.sub[q].state = "live" => /\ h.sub[q].state = "live" /\ g.sub[q].on = h.sub[q].on
                                           /\ g.sub[q].life = h.sub[q].life
             /\ \A i \in DOMAIN g.sub[q].chan :
                  /\ g.sub[q].life = h.sub[q].life
                  /\ \E j \in DOMAIN h.sub[q].chan : h.sub[q].chan[j] = g.sub[q].chan[i]
             /\ q \notin {s} => /\ g.sub[q].chan = h.sub[q].chan
                                /\ g.sub[q].resyncing = h.sub[q].resyncing
  <2>1. CASE q = s BY <1>4, <1>5, <2>1 DEF c
  <2>2. CASE q # s BY <1>3, <2>2
  <2> QED BY <2>1, <2>2
<1>7. Moves(h, g, {s})
  BY <1>3, <1>6 DEF Moves, Stays
<1> QED BY <1>1, <1>3, <1>7 DEF g, c

\* A reader lets go of a closed subscription.
LEMMA ReleasedMoves ==
  ASSUME NEW h, MapsOK(h), NEW s \in Subs
  PROVE  /\ Moves(h, Released(h, s), {s}) /\ MapsOK(Released(h, s))
         /\ \A q \in Subs \ {s} : Released(h, s).sub[q] = h.sub[q]
<1> DEFINE g == Released(h, s)
<1>1. h \in Maps /\ MapsOK(g) /\ h.sub[s] \in Subscription
  BY ReleasedKeeps DEF MapsOK, Maps
<1>2. /\ g.dropping = h.dropping /\ g.seq = h.seq /\ g.life = h.life /\ g.buf = h.buf
      /\ \A q \in Subs \ {s} : g.sub[q] = h.sub[q]
      /\ g.sub[s] = IF h.sub[s].state = "live" THEN [h.sub[s] EXCEPT !.chan = << >>] ELSE FreeSub
  BY <1>1 DEF Maps, Released
<1>3. /\ g.sub[s].chan = << >>
      /\ g.sub[s].state = "live" => /\ h.sub[s].state = "live" /\ g.sub[s].on = h.sub[s].on
                                    /\ g.sub[s].life = h.sub[s].life
  BY <1>1, <1>2 DEF Subscription, FreeSub
<1> HIDE DEF g
<1>4. ASSUME NEW q \in Subs
      PROVE  /\ g.sub[q].state = "live" => /\ h.sub[q].state = "live" /\ g.sub[q].on = h.sub[q].on
                                           /\ g.sub[q].life = h.sub[q].life
             /\ \A i \in DOMAIN g.sub[q].chan :
                  /\ g.sub[q].life = h.sub[q].life
                  /\ \E j \in DOMAIN h.sub[q].chan : h.sub[q].chan[j] = g.sub[q].chan[i]
             /\ q \notin {s} => /\ g.sub[q].chan = h.sub[q].chan
                                /\ g.sub[q].resyncing = h.sub[q].resyncing
  <2>1. CASE q = s BY <1>3, <2>1
  <2>2. CASE q # s BY <1>2, <2>2
  <2> QED BY <2>1, <2>2
<1>5. Moves(h, g, {s})
  BY <1>2, <1>4 DEF Moves, Stays
<1> QED BY <1>1, <1>2, <1>5 DEF g

\* Stop
LEMMA StopMoves ==
  ASSUME NEW h, MapsOK(h), NEW m \in Managers
  PROVE  /\ Moves(h, stopManager(h, m), {}) /\ MapsOK(stopManager(h, m))
         /\ Live(stopManager(h, m), m) = {}
<1> DEFINE closed(s) == IF s \in Live(h, m) THEN [h.sub[s] EXCEPT !.state = "closed"]
                                            ELSE h.sub[s]
           sub == [s \in Subs |-> closed(s)]
           c == [[h EXCEPT !.stopped[m] = TRUE] EXCEPT !.sub = sub]
           g == stopManager(h, m)
<1>1. h \in Maps /\ MapsOK(g)
  BY StopKeeps DEF MapsOK
<1>2. /\ c \in Maps /\ c.sub = sub /\ c.dropping = h.dropping /\ c.seq = h.seq
      /\ c.life = h.life /\ c.buf = h.buf
  <2>1. ASSUME NEW s \in Subs PROVE closed(s) \in Subscription
    <3>1. h.sub[s] \in Subscription
      BY <1>1 DEF Maps
    <3>2. [h.sub[s] EXCEPT !.state = "closed"] \in Subscription
      BY <3>1 DEF Subscription
    <3> QED BY <3>1, <3>2
  <2>2. sub \in [Subs -> Subscription]
    BY <2>1
  <2> HIDE DEF sub
  <2> QED BY <1>1, <2>2 DEF Maps
<1>3. \A s \in Subs : c.sub[s] = closed(s)
  BY <1>2
<1>4. \A s \in Subs : /\ c.sub[s].chan = h.sub[s].chan /\ c.sub[s].life = h.sub[s].life
                      /\ c.sub[s].resyncing = h.sub[s].resyncing
                      /\ c.sub[s].on = h.sub[s].on
                      /\ c.sub[s].state = "live" => h.sub[s].state = "live" /\ h.sub[s].on # m
  BY <1>1, <1>3 DEF Maps, Subscription, Live
<1>5. g = clearScopeStateLocked(c, m)
  BY <1>1 DEF stopManager, Maps
<1> HIDE DEF c, g
<1>6. Live(c, m) = {}
  BY <1>4 DEF Live
<1>7. /\ g.sub = c.sub /\ g.dropping = c.dropping
      /\ \A k \in Managers : Stays(c, g, k) \/ Cleared(c, g, k)
  BY <1>2, <1>5, <1>6, ClearMoves
<1>8. \A k \in Managers : Stays(h, g, k) \/ Cleared(h, g, k)
  BY <1>2, <1>7 DEF Stays, Cleared
<1>9. Moves(h, g, {}) /\ Live(g, m) = {}
  BY <1>2, <1>4, <1>6, <1>7, <1>8 DEF Moves, Live
<1> QED BY <1>1, <1>9 DEF g

\* Whatever was given stays given.
LEMMA MovesBound ==
  ASSUME NEW h, NEW g, NEW X, MapsOK(h), MapsOK(g), Moves(h, g, X),
         NEW n \in Nat, NEW life, Bound(h, n, life)
  PROVE  Bound(g, n, life)
<1>1. PICK m \in Managers : /\ life[1] = m /\ life[2] \in Nat
                            /\ life[2] < h.life[m] \/ (life[2] = h.life[m] /\ n <= h.seq[m])
  BY DEF Bound
<1>2. /\ Stays(h, g, m) \/ Cleared(h, g, m)
      /\ h.seq[m] \in Nat /\ g.seq[m] \in Nat /\ h.life[m] \in Nat /\ g.life[m] \in Nat
  BY DEF Moves, MapsOK, Maps
<1>3. life[2] < g.life[m] \/ (life[2] = g.life[m] /\ n <= g.seq[m])
  BY <1>1, <1>2 DEF Stays, Cleared
<1> QED BY <1>1, <1>3 DEF Bound

\* A manager that serves somebody did not start again.
LEMMA MovesLive ==
  ASSUME NEW h, NEW g, NEW X, Moves(h, g, X), NEW s \in Subs, NEW m \in Managers, s \in Live(g, m)
  PROVE  Stays(h, g, m) /\ s \in Live(h, m) /\ g.sub[s].life = h.sub[s].life
BY DEF Moves, Live, Cleared

\* What Since answers: numbers given already, and up to the newest if any is missing.
LEMMA MissedFacts ==
  ASSUME NEW h, MapsOK(h), NEW m \in Managers, NEW token \in Nat
  PROVE  LET missed == resumeUpdates(h, m, token) IN
         /\ missed \in Seq(Nat) /\ \A i \in DOMAIN missed : missed[i] <= h.seq[m]
         /\ missed # << >> => missed[Len(missed)] \in Nat /\ missed[Len(missed)] <= h.seq[m]
         /\ h.buf[m] # << >> /\ token < h.seq[m] =>
              missed # << >> /\ missed[Len(missed)] = h.seq[m]
<1> DEFINE b == h.buf[m]
           n == Len(b)
           seq == h.seq[m]
           Splits(k) == \A i \in 1 .. n : b[i] > token <=> i > k
           seen == CHOOSE k \in 0 .. n : Splits(k)
<1>1. /\ b \in Seq(Nat) /\ n \in Nat /\ seq \in Nat /\ (n > 0 <=> seq > 0)
      /\ \A i \in 1 .. n : b[i] = seq - n + i
  BY DEF MapsOK, Maps, Tail_
<1> HIDE DEF b, seq
<1>2. \E k \in 0 .. n : Splits(k)
  <2>1. CASE token - seq + n < 0
    <3>1. Splits(0) BY <1>1, <2>1
    <3> QED BY <1>1, <3>1
  <2>2. CASE token >= seq
    <3>1. ASSUME NEW i \in 1 .. n PROVE b[i] > token <=> i > n
      <4>1. b[i] = seq - n + i /\ i \in Nat /\ i <= n BY <1>1
      <4>2. b[i] <= seq BY <1>1, <4>1
      <4> QED BY <1>1, <2>2, <4>1, <4>2
    <3>2. Splits(n) BY <3>1
    <3>3. n \in 0 .. n BY <1>1
    <3> HIDE DEF Splits, n
    <3> QED BY <3>2, <3>3
  <2>3. CASE token - seq + n >= 0 /\ token < seq
    <3>1. token - seq + n \in 0 .. n BY <1>1, <2>3
    <3>2. Splits(token - seq + n) BY <1>1, <3>1
    <3> QED BY <3>1, <3>2
  <2> QED BY <1>1, <2>1, <2>2, <2>3
<1>3. seen \in 0 .. n /\ Splits(seen)
  BY <1>2
<1> HIDE DEF seen
<1>4. resumeUpdates(h, m, token) = SubSeq(b, seen + 1, n)
  <2>1. Newer(b, token) = SubSeq(b, seen + 1, Len(b))
    BY <1>1, <1>3, NewerLemma
  <2> QED BY <2>1 DEF resumeUpdates, b
<1> HIDE DEF n
<1> DEFINE missed == SubSeq(b, seen + 1, n)
<1>5. /\ missed \in Seq(Nat) /\ Len(missed) = n - seen
      /\ \A i \in 1 .. n - seen : missed[i] = b[seen + i]
  BY <1>1, <1>3 DEF n
<1> HIDE DEF missed, Splits
<1>6. \A i \in 1 .. n - seen : missed[i] \in Nat /\ missed[i] <= seq
  <2> TAKE i \in 1 .. n - seen
  <2>1. seen + i \in 1 .. n /\ missed[i] = b[seen + i] /\ seen \in Nat
    BY <1>1, <1>3, <1>5
  <2>2. b[seen + i] = seq - n + (seen + i) /\ b[seen + i] \in Nat
    BY <1>1, <2>1 DEF n
  <2> QED BY <1>1, <2>1, <2>2
<1>7. DOMAIN missed = 1 .. n - seen
  BY <1>5
<1>8. missed # << >> => Len(missed) \in 1 .. n - seen
  BY <1>1, <1>3, <1>5
<1>9. ASSUME b # << >>, token < seq PROVE missed # << >> /\ missed[Len(missed)] = seq
  <2>1. n > 0 /\ n \in 1 .. n
    BY <1>1, <1>9 DEF n
  <2>2. b[n] = seq
    BY <1>1, <2>1
  <2>3. n > seen
    BY <1>3, <1>9, <2>1, <2>2 DEF Splits
  <2>4. n - seen \in 1 .. n - seen /\ seen + (n - seen) = n
    BY <1>1, <1>3, <2>3
  <2>5. missed[n - seen] = b[n]
    BY <1>5, <2>4
  <2>6. missed # << >>
    BY <1>5, <2>3, <1>1, <1>3
  <2> QED BY <1>5, <2>2, <2>5, <2>6
<1> QED BY <1>4, <1>5, <1>6, <1>7, <1>8, <1>9 DEF missed, b, seq

\* The requests a client sends, and what a session may be.
Asked == [type : {"request"}, token : Tokens]

SessionRecords ==
  [state : {"unused", "open", "done"}, up : BOOLEAN, cur : Subs \cup {None},
   adding : Subs \cup {None}, token : Tokens, inbox : Seq(Asked), out : Seq(Frames)]

\* Out of g, a hub and an open session, r: the session has shut itself down.
Over(g, r) ==
  /\ r.ss \in SessionRecords /\ Moves(g.h, r.h, {}) /\ MapsOK(r.h)
  /\ r.ss.adding = g.ss.adding /\ r.ss.token = g.ss.token
  /\ r.ss.state = "done" /\ r.ss.up = FALSE /\ r.ss.cur = None
  /\ r.ss.inbox = << >> /\ r.ss.out = << >>

\* The session has put frames in its queue, which is now q.
Queued(g, r, q) ==
  r.h = g.h /\ r.ss = [g.ss EXCEPT !.out = q] /\ r.ss \in SessionRecords /\ q \in Seq(Frames)

\* shutdown and enqueue end the session or leave the hub alone.
LEMMA ShutdownFacts ==
  ASSUME NEW g, g.ss \in SessionRecords, MapsOK(g.h), g.ss.state # "done"
  PROVE  Over(g, shutdown(g))
<1> DEFINE k == IF g.ss.cur = None THEN g.h ELSE dropSubscriber(g.h, g.ss.cur)
           r == [g.ss EXCEPT !.state = "done", !.up = FALSE, !.cur = None,
                             !.inbox = << >>, !.out = << >>]
<1>1. Moves(g.h, k, {}) /\ MapsOK(k)
  BY MovesSame, DropMoves DEF SessionRecords
<1>2. << >> \in Seq(Asked) /\ << >> \in Seq(Frames)
  OBVIOUS
<1>3. /\ r \in SessionRecords /\ r.adding = g.ss.adding /\ r.token = g.ss.token
      /\ r.state = "done" /\ r.up = FALSE /\ r.cur = None
      /\ r.inbox = << >> /\ r.out = << >>
  BY <1>2 DEF SessionRecords
<1>4. shutdown(g) = [h |-> k, ss |-> r]
  BY DEF shutdown
<1> HIDE DEF k, r
<1> QED BY <1>1, <1>3, <1>4 DEF Over

LEMMA EnqueueFacts ==
  ASSUME NEW g, g.ss \in SessionRecords, MapsOK(g.h), g.ss.state # "done",
         g = [h |-> g.h, ss |-> g.ss], NEW msg \in Frames
  PROVE  \/ Queued(g, enqueue(g, msg), Append(g.ss.out, msg))
         \/ Over(g, enqueue(g, msg))
<1>1. CASE Len(g.ss.out) < OutgoingBufferSize
  <2> DEFINE q == Append(g.ss.out, msg)
             r == [g.ss EXCEPT !.out = q]
  <2>1. q \in Seq(Frames)
    BY DEF SessionRecords
  <2> HIDE DEF q
  <2>2. r \in SessionRecords
    BY <2>1 DEF SessionRecords
  <2>3. enqueue(g, msg) = [h |-> g.h, ss |-> r]
    BY <1>1 DEF enqueue, q
  <2> HIDE DEF r
  <2>4. Queued(g, enqueue(g, msg), q)
    BY <2>1, <2>2, <2>3 DEF Queued, r
  <2> QED BY <2>4 DEF q
<1>2. CASE ~(Len(g.ss.out) < OutgoingBufferSize)
  BY <1>2, ShutdownFacts DEF enqueue
<1> QED BY <1>1, <1>2

\* What the variables hold.  Between steps the client has nothing to send, and what
\* waits for a connection asks for a new subscription.
FlowTypes ==
  /\ sess \in [Sessions -> SessionRecords]
  /\ fwd \in [Subs -> [on : Sessions \cup {None}, hw : Nat]]
  /\ ClientOK(client) /\ client.sends = << >> /\ world \in Nat
  /\ outbox \in Seq(Tokens) /\ \A i \in DOMAIN outbox : outbox[i].n = 0
  /\ sock # None => client.connected = TRUE /\ client.phase # "connecting"

\* A session's subscription is forwarded by the session, one that is being added by
\* nobody yet.
Attached ==
  /\ \A x \in Sessions : sess[x].cur # None => fwd[sess[x].cur].on = x
  /\ \A x \in Sessions : sess[x].adding # None =>
       /\ fwd[sess[x].adding].on = None
       /\ \A y \in Sessions : sess[y].adding = sess[x].adding => x = y
  /\ \A x \in Sessions : sess[x].up = TRUE => sess[x].state = "open"
  /\ \A s \in Subs : fwd[s].on = None => fwd[s].hw = 0

\* Only the current manager and the one being replaced serve, and what they broadcast
\* and what was replayed is numbered up to their counters.
Serving ==
  /\ hub.dropping = {}
  /\ \A s \in Subs : hub.sub[s].state = "live" =>
       hub.sub[s].life = Life(hub, hub.sub[s].on) /\ hub.sub[s].on \in {current, retiring.on}
  /\ \A s \in Live(hub, current) : fwd[s].hw <= hub.seq[current]
  /\ \A w \in Workers : worker[w].pc # "send" => worker[w].to = {}
  /\ \A w \in Workers : \A s \in worker[w].to : hub.sub[s].state = "live" =>
       hub.sub[s].on = worker[w].on /\ worker[w].n <= hub.seq[worker[w].on]

\* Whatever is queued for a session or the client, or was received by it, is numbered
\* up to the counter of its numbering, or belongs to an ended one.
QueuedBounds ==
  \A s \in Subs : \A i \in DOMAIN hub.sub[s].chan : Bound(hub, hub.sub[s].chan[i], hub.sub[s].life)

FrameBounds ==
  \A x \in Sessions : \A i \in DOMAIN sess[x].out :
    sess[x].out[i].type = "changed" => Bound(hub, sess[x].out[i].n, sess[x].out[i].life)

LastBound == client.last.n # 0 => Bound(hub, client.last.n, client.last.life)

\* A change is in the stores whose broadcast has not been prepared.
Announced == \E w \in Workers : worker[w].pc = "announce" /\ worker[w].on = current

\* A client that resumes misses nothing that the buffer does not hold.
LastOK ==
  client.last.n # 0 /\ client.last.life = Life(hub, current) =>
    Known(client, world) \/ Announced \/ client.last.n < hub.seq[current]

\* A subscriber that is passed over by broadcasts has a RESET in its channel.
HasReset(q) == \E i \in DOMAIN q : q[i] = Reset

ResetDue(h, s) ==
  h.sub[s].state = "live" /\ h.sub[s].resyncing = TRUE => HasReset(h.sub[s].chan)

AddingOK == \A x \in Sessions : sess[x].adding # None => ResetDue(hub, sess[x].adding)

\* The client's session.
Here == sess[sock]
\* What a queue holds, and what the requests of a session will do.
Has(q, types) == \E i \in DOMAIN q : q[i].type \in types
Asks(ss) == \E i \in DOMAIN ss.inbox : ss.inbox[i].token.n = 0
AddsAnew(ss) == ss.adding # None /\ ss.token.n = 0
Untouched(ss) == ss.cur = None /\ ss.out = << >>

\* A request that resumes is the first of its session, and unless a later request
\* makes it void its token is what the client has.
Resuming ==
  /\ \A i \in DOMAIN Here.inbox : Here.inbox[i].token.n # 0 =>
       /\ i = 1 /\ Here.adding = None /\ Untouched(Here)
       /\ Here.inbox[i].token = client.last \/ Asks(Here)
  /\ Here.adding # None /\ Here.token.n # 0 =>
       Untouched(Here) /\ (Here.token = client.last \/ Asks(Here))

\* A client that expects a RESET gets one, or an error.
InitialComing ==
  expectsReset(client) => Asks(Here) \/ AddsAnew(Here) \/ Has(Here.out, {"reset", "error"})

\* The second of two RESETs is not an initial one, whatever the client expects.
TwoResets(q) == \E i, j \in DOMAIN q : i < j /\ q[i].type = "reset" /\ q[j].type = "reset"

\* A frame is coming that makes the client subscribe again.
Wakes == \/ Has(Here.out, {"complete", "error"})
         \/ ~expectsReset(client) /\ Has(Here.out, {"reset"})
         \/ TwoResets(Here.out)

\* A client without a subscription that delivers is about to be told so.
ServedOK == \/ client.refused = TRUE \/ Here.inbox # << >> \/ Here.adding # None
            \/ Wakes \/ (Here.cur # None /\ ResetDue(hub, Here.cur))

\* The latest update is on its way to the client, who will not take it for an old one.
Arriving ==
  /\ client.last.n = 0 \/ client.last.n < hub.seq[current]
  /\ \/ \E i \in DOMAIN Here.out : Here.out[i].type = "changed" /\ Here.out[i].n = hub.seq[current]
     \/ /\ fwd[Here.cur].hw < hub.seq[current]
        /\ \/ \E i \in DOMAIN hub.sub[Here.cur].chan : hub.sub[Here.cur].chan[i] = hub.seq[current]
           \/ \E w \in Workers : Here.cur \in worker[w].to /\ worker[w].n = hub.seq[current]

\* The current manager does not serve the client, or not under the client's numbering.
Unserved == \/ Here.cur = None \/ Here.cur \notin Live(hub, current)
            \/ hub.sub[Here.cur].resyncing = TRUE
            \/ client.last.n # 0 /\ client.last.life # hub.sub[Here.cur].life

\* If the reader is behind the stores, something is coming that makes it read them.
Coming == \/ Known(client, world) \/ expectsReset(client) \/ Asks(Here) \/ AddsAnew(Here)
          \/ Has(Here.out, {"reset", "error", "complete"})
          \/ Unserved \/ Announced \/ Arriving

\* What holds of an open connection.
Pipeline == SocketOpen => Resuming /\ InitialComing /\ ServedOK /\ Coming

\* The parts about numbers, and the invariant.
Numbering == Serving /\ QueuedBounds /\ FrameBounds /\ LastBound /\ LastOK

FlowInv == StreamInv /\ FlowTypes /\ Attached /\ Numbering /\ AddingOK /\ Pipeline

\* What a settled stream then means.
LEMMA FlowServed == FlowInv => HealthyIsServed
<1> SUFFICES ASSUME FlowInv, Healthy, Settled, ~client.refused PROVE Served
  BY DEF HealthyIsServed
<1>1. /\ SocketOpen /\ sock \in Sessions /\ Here.inbox = << >> /\ Here.adding = None
      /\ Here.out = << >> /\ Here \in SessionRecords
      /\ retiring.on = None
      /\ \A s \in Subs : fwd[s].on = sock => hub.sub[s].chan = << >> /\ hub.sub[s].state = "live"
  BY DEF FlowInv, StreamInv, FlowTypes, Settled, SocketOpen, Here, NotRetiring
<1>2. ~Wakes
  BY <1>1 DEF Wakes, Has, TwoResets
<1>3. Here.cur # None /\ ResetDue(hub, Here.cur) /\ Here.cur \in Subs
  BY <1>1, <1>2 DEF FlowInv, Pipeline, ServedOK, SessionRecords, FlowTypes, ClientOK, ClientRecord
<1>4. fwd[Here.cur].on = sock
  BY <1>1, <1>3 DEF FlowInv, Attached, Here
<1>5. hub.sub[Here.cur].chan = << >> /\ hub.sub[Here.cur].state = "live"
  BY <1>1, <1>3, <1>4
<1>6. hub.sub[Here.cur].on = current
  BY <1>1, <1>3, <1>5, HubAssumption DEF FlowInv, Numbering, Serving, StreamInv, MapsOK
<1>7. hub.sub[Here.cur].resyncing = FALSE
  <2>1. hub.sub[Here.cur].resyncing \in BOOLEAN
    BY <1>3 DEF FlowInv, StreamInv, MapsOK, Maps, Subscription
  <2> QED BY <1>3, <1>5, <2>1 DEF ResetDue, HasReset
<1> QED BY <1>3, <1>5, <1>6, <1>7 DEF Served, Live, Here

\* The stores' version is shown: nothing that could still bring it is left.
LEMMA FlowFresh == FlowInv => HealthyIsFresh
<1> SUFFICES ASSUME FlowInv, Healthy, Settled, Served, ~Misnumbered, ~client.raced, ~client.muted
             PROVE  client.data = world
  BY DEF HealthyIsFresh
<1>1. /\ SocketOpen /\ sock \in Sessions /\ Here.inbox = << >> /\ Here.adding = None
      /\ Here.out = << >> /\ Here \in SessionRecords
      /\ \A s \in Subs : fwd[s].on = sock => hub.sub[s].chan = << >>
      /\ client.fetch.state = "idle" /\ client.pending = 0
      /\ \A w \in Workers : worker[w].pc = "idle"
  BY DEF FlowInv, StreamInv, FlowTypes, Settled, SocketOpen, Here
<1>2. ~Asks(Here) /\ ~AddsAnew(Here) /\ ~Has(Here.out, {"reset", "error", "complete"})
      /\ ~Has(Here.out, {"reset", "error"})
  BY <1>1 DEF Asks, AddsAnew, Has
<1>3. ~expectsReset(client) /\ Coming
  BY <1>1, <1>2 DEF FlowInv, Pipeline, InitialComing
<1>4. ~Unserved
  <2>1. /\ Here.cur \in Live(hub, current) /\ ~hub.sub[Here.cur].resyncing
        /\ Here.cur \in Subs
    BY DEF Served, Here, Live
  <2>2. Here.cur # None
    BY <2>1, HubAssumption
  <2> QED BY <1>1, <2>1, <2>2 DEF Unserved, Misnumbered, Here, SocketOpen
<1>5. ~Announced
  BY <1>1 DEF Announced
<1>6. ~Arriving
  <2>1. Here.cur \in Subs /\ Here.cur # None
    BY <1>4, HubAssumption DEF Unserved, Live
  <2>2. hub.sub[Here.cur].chan = << >>
    BY <1>1, <2>1 DEF FlowInv, Attached, Here
  <2>3. \A w \in Workers : worker[w].to = {}
    BY <1>1 DEF FlowInv, Numbering, Serving
  <2> QED BY <1>1, <2>2, <2>3 DEF Arriving
<1>7. Known(client, world)
  BY <1>2, <1>3, <1>4, <1>5, <1>6 DEF Coming
<1> QED BY <1>1, <1>7 DEF Known, Fetching, FlowInv, FlowTypes, ClientOK, ClientRecord

\* What sessions and the manager's drops do to the numbers under way.
LEMMA NumbersKept ==
  ASSUME StreamInv, FlowTypes, Numbering, MapsOK(hub'), NEW X, Moves(hub, hub', X),
         UNCHANGED << client, world, worker, current >>,
         \A s \in Subs : hub'.sub[s].state = "live" => hub'.sub[s].on \in {current, retiring'.on},
         \A s \in Live(hub', current) : fwd'[s].hw <= hub'.seq[current]
  PROVE  Serving' /\ QueuedBounds' /\ LastBound' /\ LastOK'
<1>1. /\ MapsOK(hub) /\ hub \in Maps /\ hub' \in Maps /\ current \in Managers
      /\ Serving /\ QueuedBounds /\ LastBound /\ LastOK
      /\ client.last \in Tokens /\ worker \in [Workers -> InformerState]
  BY DEF StreamInv, MapsOK, Numbering, FlowTypes, ClientOK, ClientRecord, WorkersOK
<1>2. Serving'
  <2>1. ASSUME NEW s \in Subs, hub'.sub[s].state = "live"
        PROVE  /\ hub'.sub[s].on \in Managers /\ hub'.sub[s].life = Life(hub', hub'.sub[s].on)
               /\ hub.sub[s].state = "live" /\ hub.sub[s].on = hub'.sub[s].on
               /\ hub'.seq[hub'.sub[s].on] = hub.seq[hub'.sub[s].on]
    <3>1. hub'.sub[s].on \in Managers /\ s \in Live(hub', hub'.sub[s].on)
      BY <2>1 DEF MapsOK, Live
    <3>2. /\ Stays(hub, hub', hub'.sub[s].on) /\ s \in Live(hub, hub'.sub[s].on)
          /\ hub'.sub[s].life = hub.sub[s].life
      BY <3>1, MovesLive
    <3> QED BY <1>1, <3>1, <3>2 DEF Serving, Stays, Live, Life
  <2>2. ASSUME NEW w \in Workers, NEW s \in worker[w].to, hub'.sub[s].state = "live"
        PROVE  hub'.sub[s].on = worker[w].on /\ worker[w].n <= hub'.seq[worker[w].on]
    <3>1. s \in Subs BY <1>1 DEF InformerState
    <3> QED BY <1>1, <2>1, <2>2, <3>1 DEF Serving
  <2>3. hub'.dropping = {} BY <1>1 DEF Serving, Moves
  <2> QED BY <1>1, <2>1, <2>2, <2>3 DEF Serving
<1>3. QueuedBounds'
  <2> SUFFICES ASSUME NEW s \in Subs, NEW i \in DOMAIN hub'.sub[s].chan
               PROVE  Bound(hub', hub'.sub[s].chan[i], hub'.sub[s].life)
    BY DEF QueuedBounds
  <2>1. /\ hub'.sub[s].life = hub.sub[s].life
        /\ \E j \in DOMAIN hub.sub[s].chan : hub.sub[s].chan[j] = hub'.sub[s].chan[i]
    BY DEF Moves
  <2>2. Bound(hub, hub'.sub[s].chan[i], hub'.sub[s].life)
    BY <1>1, <2>1 DEF QueuedBounds
  <2>3. hub'.sub[s].chan \in Seq(Nat)
    BY <1>1 DEF Maps, Subscription
  <2>4. hub'.sub[s].chan[i] \in Nat
    BY <2>3
  <2> QED BY <1>1, <2>2, <2>4, MovesBound
<1>4. LastBound'
  <2> SUFFICES ASSUME client.last.n # 0 PROVE Bound(hub', client.last.n, client.last.life)
    BY DEF LastBound
  <2>1. Bound(hub, client.last.n, client.last.life) /\ client.last.n \in Nat
    BY <1>1 DEF LastBound, Tokens
  <2> QED BY <1>1, <2>1, MovesBound
<1>5. LastOK'
  <2> SUFFICES ASSUME client.last.n # 0, client.last.life = Life(hub', current)
               PROVE  Known(client, world) \/ Announced \/ client.last.n < hub'.seq[current]
    BY DEF LastOK, Announced
  <2>1. /\ client.last.n \in Nat
        /\ \E m \in Managers :
             /\ client.last.life[1] = m
             /\ client.last.life[2] < hub.life[m]
                \/ (client.last.life[2] = hub.life[m] /\ client.last.n <= hub.seq[m])
    BY <1>1 DEF LastBound, Bound, Tokens
  <2>2. client.last.life[1] = current /\ client.last.life[2] = hub'.life[current]
    BY DEF Life
  <2>3. /\ hub'.life[current] \in Nat /\ hub.life[current] \in Nat /\ hub.seq[current] \in Nat
        /\ hub'.life[current] < hub.life[current]
           \/ (hub'.life[current] = hub.life[current] /\ client.last.n <= hub.seq[current])
    BY <1>1, <2>1, <2>2 DEF Maps
  <2>4. Stays(hub, hub', current)
    BY <1>1, <2>1, <2>3 DEF Moves, Cleared, Stays
  <2> QED BY <1>1, <2>4 DEF LastOK, Stays, Life
<1> QED BY <1>2, <1>3, <1>4, <1>5

\* FrameBounds after a step that adds frames with given numbers only.
LEMMA FramesKept ==
  ASSUME StreamInv, FlowTypes, FrameBounds, MapsOK(hub'), NEW X, Moves(hub, hub', X), FlowTypes',
         \A x \in Sessions : \A i \in DOMAIN sess'[x].out : sess'[x].out[i].type = "changed" =>
           \/ \E j \in DOMAIN sess[x].out : sess[x].out[j] = sess'[x].out[i]
           \/ Bound(hub', sess'[x].out[i].n, sess'[x].out[i].life)
  PROVE  FrameBounds'
<1> SUFFICES ASSUME NEW x \in Sessions, NEW i \in DOMAIN sess'[x].out, sess'[x].out[i].type = "changed"
             PROVE  Bound(hub', sess'[x].out[i].n, sess'[x].out[i].life)
  BY DEF FrameBounds
<1>1. CASE \E j \in DOMAIN sess[x].out : sess[x].out[j] = sess'[x].out[i]
  <2>1. Bound(hub, sess'[x].out[i].n, sess'[x].out[i].life)
    BY <1>1 DEF FrameBounds
  <2>2. sess'[x].out \in Seq(Frames)
    BY DEF FlowTypes, SessionRecords
  <2>3. sess'[x].out[i] \in Frames
    BY <2>2
  <2>4. sess'[x].out[i].n \in Nat
    BY <2>3 DEF Frames
  <2> QED BY <2>1, <2>4, MovesBound DEF StreamInv
<1> QED BY <1>1

\* AddingOK after a step that leaves the channels of opened subscriptions alone.
LEMMA AddingKept ==
  ASSUME StreamInv, FlowTypes, AddingOK, MapsOK(hub'), NEW X, Moves(hub, hub', X),
         \A x \in Sessions : sess'[x].adding # None =>
           \/ sess'[x].adding = sess[x].adding /\ sess[x].adding \notin X
           \/ ResetDue(hub', sess'[x].adding),
         FlowTypes'
  PROVE  AddingOK'
<1> SUFFICES ASSUME NEW x \in Sessions, sess'[x].adding # None,
                    sess'[x].adding = sess[x].adding, sess[x].adding \notin X
             PROVE  ResetDue(hub', sess'[x].adding)
  BY DEF AddingOK
<1>1. sess[x].adding \in Subs /\ ResetDue(hub, sess[x].adding)
  BY DEF AddingOK, FlowTypes, SessionRecords
<1> QED BY <1>1 DEF ResetDue, Moves

\* A step that is about other sessions and other subscriptions than the client's.
LEMMA Elsewhere ==
  ASSUME StreamInv, FlowTypes, Pipeline, MapsOK(hub'), NEW X, Moves(hub, hub', X),
         UNCHANGED << client, world, worker, current, sock >>,
         SocketOpen' => /\ sess'[sock] = sess[sock]
                        /\ Here.cur # None => Here.cur \notin X /\ fwd'[Here.cur] = fwd[Here.cur]
  PROVE  Pipeline'
<1> SUFFICES ASSUME SocketOpen' PROVE (Resuming /\ InitialComing /\ ServedOK /\ Coming)'
  BY DEF Pipeline
<1>1. /\ SocketOpen /\ Here' = Here /\ sock \in Sessions /\ Here \in SessionRecords
      /\ Resuming /\ InitialComing /\ ServedOK /\ Coming
      /\ Here.cur # None => /\ Here.cur \in Subs /\ Here.cur \notin X
                            /\ fwd'[Here.cur] = fwd[Here.cur]
  BY DEF SocketOpen, Pipeline, Here, StreamInv, FlowTypes, SessionRecords
<1>2. Resuming' /\ InitialComing'
  BY <1>1 DEF Resuming, InitialComing
<1>3. ServedOK'
  <2>1. Wakes => Wakes'
    BY <1>1 DEF Wakes
  <2>2. Here.cur # None /\ ResetDue(hub, Here.cur) => ResetDue(hub', Here'.cur)
    BY <1>1 DEF ResetDue, Moves
  <2> QED BY <1>1, <2>1, <2>2 DEF ServedOK
<1>4. Coming'
  <2>1. CASE Unserved'
    BY <2>1 DEF Coming
  <2>2. CASE ~Unserved'
    <3>1. /\ Here.cur \in Subs /\ Here.cur \in Live(hub', current) /\ Here.cur \notin X
          /\ fwd'[Here.cur] = fwd[Here.cur] /\ Here.cur # None
          /\ ~(hub'.sub[Here.cur].resyncing = TRUE)
          /\ ~(client.last.n # 0 /\ client.last.life # hub'.sub[Here.cur].life)
      BY <1>1, <2>2 DEF Unserved, Live
    <3>2. current \in Managers BY DEF StreamInv
    <3>3. /\ hub'.seq[current] = hub.seq[current] /\ Here.cur \in Live(hub, current)
          /\ hub'.sub[Here.cur].life = hub.sub[Here.cur].life
      BY <3>1, <3>2, MovesLive DEF Stays
    <3>4. /\ hub'.sub[Here.cur].chan = hub.sub[Here.cur].chan
          /\ hub'.sub[Here.cur].resyncing = hub.sub[Here.cur].resyncing
      BY <3>1 DEF Moves
    <3>5. ~Unserved BY <3>1, <3>3, <3>4 DEF Unserved
    <3>6. Arriving => Arriving'
      BY <1>1, <3>1, <3>3, <3>4 DEF Arriving
    <3>7. Announced => Announced' BY DEF Announced
    <3> QED BY <1>1, <3>5, <3>6, <3>7 DEF Coming
  <2> QED BY <2>1, <2>2
<1> QED BY <1>2, <1>3, <1>4

\* A session x becomes r.  Its readers are those of X; it may let go of what it holds.
LetsGo(x, r, X) ==
  /\ r \in SessionRecords /\ sess' = [sess EXCEPT ![x] = r]
  /\ r.up = TRUE => sess[x].up = TRUE /\ r.state = "open"
  /\ r.cur \in {None, sess[x].cur} /\ r.adding \in {None, sess[x].adding}
  /\ \A s \in X : \/ fwd[s].on = x
                  \/ s = sess[x].adding /\ r.adding = None
  /\ fwd' \in [Subs -> [on : Sessions \cup {None}, hw : Nat]]
  /\ \A s \in Subs : \/ fwd'[s] = fwd[s]
                     \/ fwd'[s] = NoForwarder /\ fwd[s].on = x /\ r.cur # s

\* Such a step keeps FlowInv, if it keeps what holds of the client's connection.
LEMMA LetsGoFacts ==
  ASSUME FlowInv, StreamInv', NEW x \in Sessions, NEW r, NEW X \in SUBSET Subs, LetsGo(x, r, X),
         Moves(hub, hub', X), UNCHANGED << world, worker, current >>, UNCHANGED clientVars,
         retiring'.on = retiring.on,
         \A i \in DOMAIN r.out : r.out[i].type = "changed" =>
           \/ \E j \in DOMAIN sess[x].out : sess[x].out[j] = r.out[i]
           \/ Bound(hub', r.out[i].n, r.out[i].life),
         x = sock /\ r.up = TRUE => Pipeline' \/ (r = sess[x] /\ r.cur \notin X)
  PROVE  FlowInv'
<1>1. /\ StreamInv /\ FlowTypes /\ Attached /\ Numbering /\ AddingOK /\ Pipeline
      /\ MapsOK(hub) /\ MapsOK(hub') /\ current \in Managers
      /\ sess \in [Sessions -> SessionRecords]
  BY DEF FlowInv, StreamInv, FlowTypes
<1>2. /\ sess' \in [Sessions -> SessionRecords] /\ sess'[x] = r
      /\ \A y \in Sessions \ {x} : sess'[y] = sess[y]
  BY <1>1 DEF LetsGo
<1>3. FlowTypes'
  BY <1>1, <1>2 DEF FlowTypes, clientVars, LetsGo
<1>4. Attached'
  <2>1. \A y \in Sessions : sess'[y].up = TRUE => sess'[y].state = "open"
    BY <1>1, <1>2 DEF Attached, LetsGo
  <2>2. \A s \in Subs : fwd'[s].on = None => fwd'[s].hw = 0
    BY <1>1 DEF Attached, LetsGo, NoForwarder
  <2>3. ASSUME NEW y \in Sessions, sess'[y].cur # None PROVE fwd'[sess'[y].cur].on = y
    <3>1. sess'[y].cur = sess[y].cur /\ sess'[y].cur \in Subs /\ fwd[sess[y].cur].on = y
      BY <1>1, <1>2, <2>3 DEF Attached, LetsGo, SessionRecords
    <3>2. y = x => r.cur = sess'[y].cur
      BY <1>2
    <3> QED BY <3>1, <3>2 DEF LetsGo
  <2>4. ASSUME NEW y \in Sessions, sess'[y].adding # None
        PROVE  /\ fwd'[sess'[y].adding].on = None
               /\ \A z \in Sessions : sess'[z].adding = sess'[y].adding => y = z
    <3>1. /\ sess'[y].adding = sess[y].adding /\ sess'[y].adding \in Subs
          /\ fwd[sess[y].adding].on = None
          /\ \A z \in Sessions : sess[z].adding = sess[y].adding => y = z
      BY <1>1, <1>2, <2>4 DEF Attached, LetsGo, SessionRecords
    <3>2. \A z \in Sessions : sess'[z].adding \in {None, sess[z].adding}
      BY <1>2 DEF LetsGo
    <3> QED BY <2>4, <3>1, <3>2 DEF LetsGo, NoForwarder
  <2> QED BY <2>1, <2>2, <2>3, <2>4 DEF Attached
<1>5. Serving' /\ QueuedBounds' /\ LastBound' /\ LastOK'
  <2>1. \A s \in Subs : hub'.sub[s].state = "live" => hub'.sub[s].on \in {current, retiring'.on}
    BY <1>1 DEF Numbering, Serving, Moves
  <2>2. ASSUME NEW s \in Live(hub', current) PROVE fwd'[s].hw <= hub'.seq[current]
    <3>0. s \in Subs BY DEF Live
    <3>1. s \in Live(hub, current) /\ hub'.seq[current] = hub.seq[current]
      BY <1>1, <3>0, MovesLive DEF Stays
    <3>2. hub'.seq[current] \in Nat BY <1>1 DEF MapsOK, Maps
    <3> QED BY <1>1, <3>0, <3>1, <3>2 DEF Numbering, Serving, LetsGo, NoForwarder
  <2>3. UNCHANGED << client, world, worker, current >> BY DEF clientVars
  <2> QED BY <1>1, <2>1, <2>2, <2>3, NumbersKept
<1>6. FrameBounds'
  <2>1. ASSUME NEW y \in Sessions, NEW i \in DOMAIN sess'[y].out, sess'[y].out[i].type = "changed"
        PROVE  \/ \E j \in DOMAIN sess[y].out : sess[y].out[j] = sess'[y].out[i]
               \/ Bound(hub', sess'[y].out[i].n, sess'[y].out[i].life)
    BY <1>2, <2>1
  <2> QED BY <1>1, <1>3, <2>1, FramesKept DEF Numbering
<1>7. AddingOK'
  <2>1. ASSUME NEW y \in Sessions, sess'[y].adding # None
        PROVE  sess'[y].adding = sess[y].adding /\ sess[y].adding \notin X
    <3>1. /\ sess'[y].adding = sess[y].adding /\ fwd[sess[y].adding].on = None
          /\ sess[y].adding = sess[x].adding => x = y
          /\ y = x => r.adding # None
      BY <1>1, <1>2, <2>1 DEF Attached, LetsGo
    <3> QED BY <3>1, MuxAssumption DEF LetsGo
  <2> QED BY <1>1, <1>3, <2>1, AddingKept
<1>8. Pipeline'
  <2>1. CASE Pipeline' BY <2>1
  <2>2. CASE ~Pipeline'
    <3>1. UNCHANGED << client, world, worker, current, sock >> BY DEF clientVars
    <3>2. ASSUME SocketOpen'
          PROVE  /\ sess'[sock] = sess[sock]
                 /\ Here.cur # None => Here.cur \notin X /\ fwd'[Here.cur] = fwd[Here.cur]
      <4>1. sock \in Sessions /\ sess'[sock].up = TRUE
        BY <1>2, <3>1, <3>2, <1>1 DEF SocketOpen, StreamInv, SessionRecords
      <4>2. CASE x = sock
        <5>1. r = Here /\ r.cur \notin X BY <1>2, <2>2, <4>1, <4>2 DEF Here
        <5>2. Here.cur # None => Here.cur \in Subs BY <1>1, <4>1 DEF Here, SessionRecords
        <5> QED BY <1>2, <4>2, <5>1, <5>2 DEF LetsGo, Here
      <4>3. CASE x # sock
        <5>1. sess'[sock] = sess[sock] BY <1>2, <4>1, <4>3
        <5>2. Here.cur # None => Here.cur \in Subs /\ fwd[Here.cur].on = sock
          BY <1>1, <4>1 DEF Here, Attached, SessionRecords
        <5>3. Here.cur # None => Here.cur # sess[x].adding
          BY <1>1, <5>2, <4>1, MuxAssumption DEF Attached
        <5> QED BY <4>1, <4>3, <5>1, <5>2, <5>3 DEF LetsGo
      <4> QED BY <4>2, <4>3
    <3> QED BY <1>1, <3>1, <3>2, Elsewhere
  <2> QED BY <2>1, <2>2
<1> QED BY <1>3, <1>4, <1>5, <1>6, <1>7, <1>8 DEF FlowInv, Numbering

\* What the channel and the rest are once its oldest message is taken.
LEMMA TakenFacts ==
  ASSUME NEW h, MapsOK(h), NEW s \in Subs, h.sub[s].chan # << >>
  PROVE  LET g == Taken(h, s) IN
         /\ g.seq = h.seq /\ g.sub[s].chan = Tail(h.sub[s].chan)
         /\ g.sub[s].state = h.sub[s].state /\ g.sub[s].life = h.sub[s].life
         /\ g.sub[s].resyncing = h.sub[s].resyncing
         /\ \A m \in Managers : Live(g, m) = Live(h, m)
<1> DEFINE g == Taken(h, s)
           c == Tail(h.sub[s].chan)
<1>1. h \in Maps /\ h.sub[s] \in Subscription
  BY DEF MapsOK, Maps
<1>2. g = [h EXCEPT !.sub[s] = [h.sub[s] EXCEPT !.chan = c]]
  BY <1>1 DEF Maps, Taken
<1> HIDE DEF g, c
<1>3. /\ g.seq = h.seq /\ g.sub[s] = [h.sub[s] EXCEPT !.chan = c]
      /\ \A q \in Subs \ {s} : g.sub[q] = h.sub[q]
  BY <1>1, <1>2 DEF Maps
<1>4. /\ g.sub[s].chan = c /\ g.sub[s].state = h.sub[s].state /\ g.sub[s].life = h.sub[s].life
      /\ g.sub[s].resyncing = h.sub[s].resyncing /\ g.sub[s].on = h.sub[s].on
  BY <1>1, <1>3 DEF Subscription
<1>5. \A m \in Managers : Live(g, m) = Live(h, m)
  <2>1. \A q \in Subs : g.sub[q].on = h.sub[q].on /\ g.sub[q].state = h.sub[q].state
    <3>1. ASSUME NEW q \in Subs
          PROVE  g.sub[q].on = h.sub[q].on /\ g.sub[q].state = h.sub[q].state
      <4>1. CASE q = s
        BY <1>4, <4>1
      <4>2. CASE q # s
        BY <1>3, <4>2
      <4> QED BY <4>1, <4>2
    <3> QED BY <3>1
  <2> QED BY <2>1 DEF Live
<1> QED BY <1>3, <1>4, <1>5 DEF g, c

\* What a queue holds once a frame is put at its end.
LEMMA AppendedFrame ==
  ASSUME NEW q \in Seq(Frames), NEW m \in Frames
  PROVE  LET p == Append(q, m) IN
         /\ p \in Seq(Frames) /\ p # << >>
         /\ \A T : Has(q, T) \/ m.type \in T => Has(p, T)
         /\ TwoResets(q) => TwoResets(p)
         /\ Has(q, {"reset"}) /\ m.type = "reset" => TwoResets(p)
         /\ \A i \in DOMAIN q : i \in DOMAIN p /\ p[i] = q[i]
         /\ \E i \in DOMAIN p : p[i] = m
         /\ \A i \in DOMAIN p : i \in DOMAIN q \/ p[i] = m
<1> DEFINE p == Append(q, m)
<1>1. /\ p \in Seq(Frames) /\ p # << >> /\ Len(q) \in Nat
      /\ DOMAIN q = 1 .. Len(q) /\ DOMAIN p = 1 .. Len(q) + 1
  OBVIOUS
<1>2. p[Len(q) + 1] = m
  OBVIOUS
<1>3. \A i \in 1 .. Len(q) : p[i] = q[i]
  OBVIOUS
<1> HIDE DEF p
<1>4. /\ \A i \in DOMAIN q : i \in DOMAIN p /\ p[i] = q[i] /\ i < Len(q) + 1
      /\ Len(q) + 1 \in DOMAIN p
      /\ \A i \in DOMAIN p : i \in DOMAIN q \/ p[i] = m
  BY <1>1, <1>2, <1>3
<1>5. \A T : Has(q, T) \/ m.type \in T => Has(p, T)
  BY <1>2, <1>4 DEF Has
<1>6. TwoResets(q) => TwoResets(p)
  BY <1>4 DEF TwoResets
<1>7. Has(q, {"reset"}) /\ m.type = "reset" => TwoResets(p)
  BY <1>2, <1>4 DEF TwoResets, Has
<1> QED BY <1>1, <1>2, <1>4, <1>5, <1>6, <1>7 DEF p

\* The head of a channel leaves it; everything behind it moves up.
LEMMA TailItems ==
  ASSUME NEW T, NEW q \in Seq(T), q # << >>
  PROVE  /\ Tail(q) \in Seq(T) /\ Head(q) \in T /\ Head(q) = q[1] /\ 1 \in DOMAIN q
         /\ \A i \in DOMAIN q : i # 1 => i - 1 \in DOMAIN Tail(q) /\ Tail(q)[i - 1] = q[i]
         /\ \A i \in DOMAIN Tail(q) : i + 1 \in DOMAIN q /\ q[i + 1] = Tail(q)[i] /\ i + 1 # 1
         /\ DOMAIN q \subseteq Nat /\ DOMAIN Tail(q) \subseteq Nat
<1>1. /\ Len(q) \in Nat /\ Len(q) > 0 /\ Tail(q) \in Seq(T) /\ Head(q) = q[1]
      /\ Len(Tail(q)) = Len(q) - 1 /\ DOMAIN q = 1 .. Len(q)
      /\ DOMAIN Tail(q) = 1 .. Len(q) - 1
  OBVIOUS
<1>2. \A i \in 1 .. Len(q) - 1 : Tail(q)[i] = q[i + 1]
  OBVIOUS
<1>3. Head(q) \in T
  OBVIOUS
<1>4. ASSUME NEW i \in DOMAIN q, i # 1
      PROVE  i - 1 \in DOMAIN Tail(q) /\ Tail(q)[i - 1] = q[i]
  <2>1. i - 1 \in 1 .. Len(q) - 1 /\ (i - 1) + 1 = i BY <1>1, <1>4
  <2> QED BY <1>1, <1>2, <2>1
<1>5. ASSUME NEW i \in DOMAIN Tail(q)
      PROVE  i + 1 \in DOMAIN q /\ q[i + 1] = Tail(q)[i] /\ i + 1 # 1
  BY <1>1, <1>2
<1> QED BY <1>1, <1>3, <1>4, <1>5

\* An item of a queue is its head or stays behind it.
LEMMA TailHolds ==
  ASSUME NEW T, NEW q \in Seq(T), q # << >>, NEW n, \E i \in DOMAIN q : q[i] = n
  PROVE  q[1] = n \/ \E i \in DOMAIN Tail(q) : Tail(q)[i] = n
<1>1. PICK i \in DOMAIN q : q[i] = n
  OBVIOUS
<1>2. CASE i = 1 BY <1>1, <1>2
<1>3. CASE i # 1 BY <1>1, <1>3, TailItems
<1> QED BY <1>2, <1>3

\* A queue that got a frame with a given number.
LEMMA AppendedFrameBounds ==
  ASSUME NEW q \in Seq(Frames), NEW m \in Frames, NEW h,
         m.type = "changed" => Bound(h, m.n, m.life)
  PROVE  \A i \in DOMAIN Append(q, m) : Append(q, m)[i].type = "changed" =>
           \/ \E j \in DOMAIN q : q[j] = Append(q, m)[i]
           \/ Bound(h, Append(q, m)[i].n, Append(q, m)[i].life)
BY AppendedFrame

-----------------------------------------------------------------------------
\* The client's forwarder skips a copy of what was replayed.
LEMMA ReplayedHere ==
  ASSUME FlowInv, SocketOpen, UNCHANGED << client, world, worker, current, sock, sess, fwd >>,
         Here.cur # None, hub.sub[Here.cur].chan # << >>, Replayed(Here.cur),
         hub' = Taken(hub, Here.cur)
  PROVE  Pipeline'
<1> DEFINE s == Here.cur
           c == hub.sub[s].chan
<1>1. /\ MapsOK(hub) /\ Here \in SessionRecords /\ s \in Subs /\ current \in Managers
      /\ Resuming /\ InitialComing /\ ServedOK /\ Coming /\ Here' = Here
      /\ fwd[s].hw \in Nat
  BY DEF FlowInv, StreamInv, FlowTypes, SocketOpen, Pipeline, Here, SessionRecords
<1>2. /\ hub'.seq = hub.seq /\ hub'.sub[s].chan = Tail(c)
      /\ hub'.sub[s].state = hub.sub[s].state /\ hub'.sub[s].life = hub.sub[s].life
      /\ hub'.sub[s].resyncing = hub.sub[s].resyncing
      /\ \A m \in Managers : Live(hub', m) = Live(hub, m)
  BY <1>1, TakenFacts
<1>3. c \in Seq(Nat) /\ c # << >> /\ hub.seq[current] \in Nat
  BY <1>1 DEF MapsOK, Maps, Subscription
<1>4. c[1] # Reset /\ c[1] <= fwd[s].hw /\ c[1] \in Nat
  BY <1>3, TailItems DEF Replayed
<1>5. \A n \in Nat : n = Reset \/ fwd[s].hw < n =>
        ((\E i \in DOMAIN c : c[i] = n) => \E i \in DOMAIN Tail(c) : Tail(c)[i] = n)
  <2> SUFFICES ASSUME NEW n \in Nat, n = Reset \/ fwd[s].hw < n, \E i \in DOMAIN c : c[i] = n
               PROVE  \E i \in DOMAIN Tail(c) : Tail(c)[i] = n
    OBVIOUS
  <2>1. c[1] = n \/ \E i \in DOMAIN Tail(c) : Tail(c)[i] = n
    BY <1>3, TailHolds
  <2>2. c[1] # n BY <1>1, <1>4
  <2> QED BY <2>1, <2>2
<1>6. Reset \in Nat BY DEF Reset
<1> HIDE DEF c
<1>7. Resuming' /\ InitialComing' /\ (Wakes => Wakes')
  BY <1>1 DEF Resuming, InitialComing, Wakes
<1>8. ResetDue(hub, s) => ResetDue(hub', s)
  BY <1>2, <1>5, <1>6 DEF ResetDue, HasReset, c
<1>9. ServedOK'
  BY <1>1, <1>7, <1>8 DEF ServedOK
<1>10. Unserved => Unserved'
  BY <1>1, <1>2 DEF Unserved
<1>11. ASSUME Arriving PROVE Arriving'
  <2> DEFINE n == hub.seq[current]
  <2>1. client.last.n = 0 \/ client.last.n < n
    BY <1>11 DEF Arriving
  <2>2. CASE \E i \in DOMAIN Here.out : Here.out[i].type = "changed" /\ Here.out[i].n = n
    BY <1>1, <1>2, <2>1, <2>2 DEF Arriving
  <2>3. CASE fwd[s].hw < n /\ \E i \in DOMAIN c : c[i] = n
    <3>1. \E i \in DOMAIN hub'.sub[s].chan : hub'.sub[s].chan[i] = n
      BY <1>2, <1>3, <1>5, <2>3
    <3> QED BY <1>1, <1>2, <2>1, <2>3, <3>1 DEF Arriving
  <2>4. CASE fwd[s].hw < n /\ \E w \in Workers : s \in worker[w].to /\ worker[w].n = n
    BY <1>1, <1>2, <2>1, <2>4 DEF Arriving
  <2> QED BY <1>11, <2>2, <2>3, <2>4 DEF Arriving, c
<1>12. Announced => Announced' BY DEF Announced
<1>13. Coming'
  BY <1>1, <1>10, <1>11, <1>12 DEF Coming
<1> QED BY <1>7, <1>9, <1>13 DEF Pipeline

\* It passes the next one on.
LEMMA ForwardedHere ==
  ASSUME FlowInv, SocketOpen, UNCHANGED << client, world, worker, current, sock, fwd >>,
         Here.cur # None, hub.sub[Here.cur].chan # << >>,
         hub' = Taken(hub, Here.cur), NEW q \in Seq(Frames), q = Append(Here.out, LiveMessage(Here.cur)),
         Here' = [Here EXCEPT !.out = q], LiveMessage(Here.cur) \in Frames
  PROVE  Pipeline'
<1> DEFINE s == Here.cur
           c == hub.sub[s].chan
           m == LiveMessage(s)
<1>1. /\ MapsOK(hub) /\ Here \in SessionRecords /\ s \in Subs /\ current \in Managers
      /\ Resuming /\ InitialComing /\ ServedOK /\ Coming
      /\ fwd[s].hw \in Nat
  BY DEF FlowInv, StreamInv, FlowTypes, SocketOpen, Pipeline, Here, SessionRecords
<1>2. /\ hub'.seq = hub.seq /\ hub'.sub[s].chan = Tail(c)
      /\ hub'.sub[s].state = hub.sub[s].state /\ hub'.sub[s].life = hub.sub[s].life
      /\ hub'.sub[s].resyncing = hub.sub[s].resyncing
      /\ \A k \in Managers : Live(hub', k) = Live(hub, k)
  BY <1>1, TakenFacts
<1>3. c \in Seq(Nat) /\ c # << >> /\ hub.seq[current] \in Nat /\ Here.out \in Seq(Frames)
  BY <1>1 DEF MapsOK, Maps, Subscription, SessionRecords
<1>4. /\ c[1] = Reset => m.type = "reset"
      /\ c[1] # Reset => m.type = "changed" /\ m.n = c[1]
  BY <1>3, TailItems DEF LiveMessage, Frame, Changed
<1>5. \A n \in Nat : (\E i \in DOMAIN c : c[i] = n) => c[1] = n \/ \E i \in DOMAIN Tail(c) : Tail(c)[i] = n
  BY <1>3, TailHolds
<1>6. /\ Here'.out = q /\ Here'.cur = s /\ Here'.inbox = Here.inbox
      /\ Here'.adding = Here.adding /\ Here'.token = Here.token
  BY <1>1 DEF SessionRecords
<1>7. /\ \A T : Has(Here.out, T) \/ m.type \in T => Has(q, T)
      /\ TwoResets(Here.out) => TwoResets(q)
      /\ Has(Here.out, {"reset"}) /\ m.type = "reset" => TwoResets(q)
      /\ \A i \in DOMAIN Here.out : i \in DOMAIN q /\ q[i] = Here.out[i]
      /\ \E i \in DOMAIN q : q[i] = m
  BY <1>3, AppendedFrame
<1>8. Reset \in Nat /\ Reset = 0 BY DEF Reset
<1> HIDE DEF c, m
<1>9. Asks(Here)' = Asks(Here) /\ AddsAnew(Here)' = AddsAnew(Here)
  BY <1>6 DEF Asks, AddsAnew
<1>10. Resuming'
  BY <1>1, <1>6, <1>9 DEF Resuming, Untouched
<1>11. InitialComing'
  BY <1>1, <1>6, <1>7, <1>9 DEF InitialComing
<1>12. Wakes => Wakes'
  BY <1>6, <1>7 DEF Wakes
<1>13. ASSUME Here.inbox = << >>, Here.adding = None, m.type = "reset" PROVE Wakes'
  <2>1. ~Asks(Here) /\ ~AddsAnew(Here) BY <1>13 DEF Asks, AddsAnew
  <2>2. expectsReset(client) => Has(Here.out, {"reset", "error"}) BY <1>1, <2>1 DEF InitialComing
  <2>3. Has(Here.out, {"reset", "error"}) => Has(Here.out, {"reset"}) \/ Has(Here.out, {"complete", "error"})
    BY DEF Has
  <2> QED BY <1>6, <1>7, <1>13, <2>2, <2>3 DEF Wakes
<1>14. ASSUME ResetDue(hub, s), m.type # "reset" PROVE ResetDue(hub', s)
  <2> SUFFICES ASSUME hub'.sub[s].state = "live", hub'.sub[s].resyncing = TRUE
               PROVE  HasReset(hub'.sub[s].chan)
    BY DEF ResetDue
  <2>1. \E i \in DOMAIN c : c[i] = Reset
    BY <1>2, <1>14 DEF ResetDue, HasReset, c
  <2>2. \E i \in DOMAIN Tail(c) : Tail(c)[i] = Reset
    BY <1>4, <1>5, <1>8, <1>14, <2>1
  <2> QED BY <1>2, <2>2 DEF HasReset
<1>15. ServedOK'
  BY <1>1, <1>6, <1>12, <1>13, <1>14 DEF ServedOK
<1>16. Unserved => Unserved'
  BY <1>1, <1>2, <1>6 DEF Unserved
<1>17. ASSUME Arriving, m.type # "reset" PROVE Arriving'
  <2> DEFINE n == hub.seq[current]
  <2>1. /\ client.last.n = 0 \/ client.last.n < n
        /\ hub'.seq[current] = n
    BY <1>2, <1>17 DEF Arriving
  <2>2. CASE \E i \in DOMAIN Here.out : Here.out[i].type = "changed" /\ Here.out[i].n = n
    <3>1. \E i \in DOMAIN q : q[i].type = "changed" /\ q[i].n = n
      BY <1>7, <2>2
    <3> QED BY <1>6, <2>1, <3>1 DEF Arriving
  <2>3. CASE fwd[s].hw < n /\ \E i \in DOMAIN c : c[i] = n
    <3>1. c[1] = n \/ \E i \in DOMAIN Tail(c) : Tail(c)[i] = n
      BY <1>3, <1>5, <2>3
    <3>2. CASE c[1] = n
      <4>1. m.type = "changed" /\ m.n = n BY <1>4, <1>17, <3>2
      <4>2. \E i \in DOMAIN q : q[i].type = "changed" /\ q[i].n = n BY <1>7, <4>1
      <4> QED BY <1>6, <2>1, <4>2 DEF Arriving
    <3>3. CASE \E i \in DOMAIN Tail(c) : Tail(c)[i] = n
      BY <1>2, <1>6, <2>1, <2>3, <3>3 DEF Arriving
    <3> QED BY <3>1, <3>2, <3>3
  <2>4. CASE fwd[s].hw < n /\ \E w \in Workers : s \in worker[w].to /\ worker[w].n = n
    BY <1>6, <2>1, <2>4 DEF Arriving
  <2> QED BY <1>17, <2>2, <2>3, <2>4 DEF Arriving, c
<1>18. Announced => Announced' BY DEF Announced
<1>19. Has(Here.out, {"reset", "error", "complete"}) \/ m.type = "reset"
         => Has(q, {"reset", "error", "complete"})
  BY <1>7
<1>20. Coming'
  BY <1>1, <1>6, <1>9, <1>16, <1>17, <1>18, <1>19 DEF Coming
<1> QED BY <1>10, <1>11, <1>15, <1>20 DEF Pipeline

\* Frames without a number.
LEMMA FrameIs ==
  ASSUME NEW t \in {"ack", "reset", "complete", "error"}
  PROVE  Frame(t) \in Frames /\ Frame(t).type = t
BY DEF Frame, Frames, Lives

\* Its subscription has been closed: COMPLETE.
LEMMA EndedHere ==
  ASSUME FlowInv, SocketOpen, UNCHANGED << client, sock >>, Here.cur # None,
         NEW q, q = Append(Here.out, Frame("complete")),
         Here' = [Here EXCEPT !.cur = None, !.out = q]
  PROVE  Pipeline'
<1>1. /\ Here \in SessionRecords /\ Here.out \in Seq(Frames)
      /\ Resuming /\ InitialComing
  BY DEF FlowInv, StreamInv, FlowTypes, SocketOpen, Pipeline, Here, SessionRecords
<1>2. /\ Here'.out = q /\ Here'.cur = None /\ Here'.inbox = Here.inbox
      /\ Here'.adding = Here.adding /\ Here'.token = Here.token
  BY <1>1 DEF SessionRecords
<1>3. Frame("complete") \in Frames /\ Frame("complete").type = "complete"
  BY FrameIs
<1>4. \A T : Has(Here.out, T) \/ Frame("complete").type \in T => Has(q, T)
  BY <1>1, <1>3, AppendedFrame
<1>5. /\ Has(q, {"complete", "error"})
      /\ Has(Here.out, {"reset", "error"}) => Has(q, {"reset", "error"})
  BY <1>3, <1>4
<1>6. Asks(Here)' = Asks(Here) /\ AddsAnew(Here)' = AddsAnew(Here)
  BY <1>2 DEF Asks, AddsAnew
<1>7. Resuming'
  BY <1>1, <1>2, <1>6 DEF Resuming, Untouched
<1>8. InitialComing'
  BY <1>1, <1>2, <1>5, <1>6 DEF InitialComing
<1>9. ServedOK' /\ Coming'
  BY <1>2, <1>5 DEF ServedOK, Wakes, Coming, Unserved
<1> QED BY <1>7, <1>8, <1>9 DEF Pipeline

\* Its request is refused: an error.
LEMMA RefusedHere ==
  ASSUME FlowInv, SocketOpen, UNCHANGED << client, sock >>,
         Here.adding = None, Here.inbox # << >>,
         NEW q, q = Append(Here.out, Frame("error")), NEW b, b = Tail(Here.inbox),
         Here' = [Here EXCEPT !.inbox = b, !.out = q]
  PROVE  Pipeline'
<1>1. /\ Here \in SessionRecords /\ Here.out \in Seq(Frames) /\ Here.inbox \in Seq(Asked)
      /\ Resuming
  BY DEF FlowInv, StreamInv, FlowTypes, SocketOpen, Pipeline, Here, SessionRecords
<1>2. /\ Here'.out = q /\ Here'.inbox = b /\ Here'.adding = Here.adding
  BY <1>1 DEF SessionRecords
<1>3. Frame("error") \in Frames /\ Frame("error").type = "error"
  BY FrameIs
<1>4. \A T : Has(Here.out, T) \/ Frame("error").type \in T => Has(q, T)
  BY <1>1, <1>3, AppendedFrame
<1>5. /\ Has(q, {"complete", "error"}) /\ Has(q, {"reset", "error"})
      /\ Has(q, {"reset", "error", "complete"})
  BY <1>3, <1>4
<1>6. \A i \in DOMAIN b : b[i].token.n = 0
  BY <1>1, TailItems DEF Resuming
<1>7. Resuming'
  BY <1>2, <1>6 DEF Resuming
<1>8. InitialComing' /\ ServedOK' /\ Coming'
  BY <1>2, <1>5 DEF InitialComing, ServedOK, Wakes, Coming
<1> QED BY <1>7, <1>8 DEF Pipeline

-----------------------------------------------------------------------------
\* What the lemmas on the actions of the sessions need first.
LEMMA FlowParts ==
  ASSUME FlowInv
  PROVE  /\ StreamInv /\ FlowTypes /\ Attached /\ MapsOK(hub) /\ current \in Managers
         /\ sess \in [Sessions -> SessionRecords] /\ hub \in Maps
         /\ fwd \in [Subs -> [on : Sessions \cup {None}, hw : Nat]]
         /\ \A x \in Sessions : sess[x].cur # None => sess[x].state = "open" /\ fwd[sess[x].cur].on = x
BY DEF FlowInv, StreamInv, FlowTypes, MapsOK, SessionsOK, SessionOK, Attached

\* StoreRefused: the connection went away while its subscription was opened.
LEMMA FlowRefused ==
  ASSUME FlowInv, StreamInv', UNCHANGED clientVars, NEW x \in Sessions, StoreRefused(x)
  PROVE  FlowInv'
<1> DEFINE a == sess[x].adding
           c == dropSubscriber(hub, a)
           r == [sess[x] EXCEPT !.adding = None, !.token = NoToken]
<1>1. /\ MapsOK(hub) /\ sess[x] \in SessionRecords /\ a \in Subs /\ sess[x].state = "done"
      /\ Attached /\ FlowTypes
  BY FlowParts DEF StoreRefused, SessionRecords
<1>2. hub' = Released(c, a) /\ sess' = [sess EXCEPT ![x] = r]
  BY DEF StoreRefused, Commit
<1>3. Moves(hub, c, {}) /\ MapsOK(c)
  BY <1>1, DropMoves
<1>4. NoToken \in Tokens
  BY DEF NoToken, Tokens, Lives
<1>5. /\ r \in SessionRecords /\ r.up = sess[x].up /\ r.cur = sess[x].cur /\ r.adding = None
      /\ r.out = sess[x].out /\ r.state = sess[x].state
  BY <1>1, <1>4 DEF SessionRecords
<1>6. r.up # TRUE
  BY <1>1, <1>5 DEF Attached
<1> HIDE DEF r, c
<1>7. Moves(hub, hub', {a})
  <2>1. Moves(c, hub', {a}) /\ MapsOK(hub')
    BY <1>1, <1>2, <1>3, ReleasedMoves
  <2>2. Moves(hub, c, {a})
    BY <1>3, MovesWider
  <2> QED BY <1>1, <1>3, <2>1, <2>2, MovesOn
<1>8. LetsGo(x, r, {a})
  BY <1>1, <1>2, <1>5, <1>6, FlowParts DEF LetsGo, StoreRefused
<1>9. UNCHANGED << world, worker, current >> /\ retiring'.on = retiring.on
  BY DEF StoreRefused
<1>10. \A i \in DOMAIN r.out : \E j \in DOMAIN sess[x].out : sess[x].out[j] = r.out[i]
  BY <1>5
<1> QED BY <1>1, <1>6, <1>7, <1>8, <1>9, <1>10, LetsGoFacts

\* The read loop has ended, and shuts the session down.
LEMMA FlowReadLoopEnds ==
  ASSUME FlowInv, StreamInv', UNCHANGED clientVars, NEW x \in Sessions, ReadLoopEnds(x)
  PROVE  FlowInv'
<1> DEFINE g == SessionOf(x)
           k == shutdown(g)
<1>1. /\ MapsOK(hub) /\ sess[x] \in SessionRecords /\ g.h = hub /\ g.ss = sess[x]
  BY FlowParts DEF SessionOf
<1>2. sess[x].state = "open"  /\ hub' = k.h /\ sess' = [sess EXCEPT ![x] = k.ss]
  BY DEF ReadLoopEnds, Commit
<1> HIDE DEF g
<1>3. Over(g, k)
  BY <1>1, <1>2, ShutdownFacts
<1> HIDE DEF k
<1>4. Moves(hub, hub', {}) /\ LetsGo(x, k.ss, {}) /\ k.ss.up = FALSE /\ k.ss.out = << >>
  BY <1>1, <1>2, <1>3, FlowParts DEF LetsGo, Over, ReadLoopEnds
<1>5. UNCHANGED << world, worker, current >> /\ retiring'.on = retiring.on
  BY DEF ReadLoopEnds
<1>6. \A i \in DOMAIN k.ss.out : k.ss.out[i].type # "changed"
  BY <1>4
<1> QED BY <1>4, <1>5, <1>6, LetsGoFacts

\* The connection is lost; what is queued will not be received.
LEMMA FlowDisconnect ==
  ASSUME FlowInv, StreamInv', UNCHANGED clientVars, NEW x \in Sessions, Disconnect(x)
  PROVE  FlowInv'
<1> DEFINE r == [sess[x] EXCEPT !.up = FALSE]
<1>1. sess[x] \in SessionRecords
  BY FlowParts
<1>2. hub' = hub /\ sess' = [sess EXCEPT ![x] = r]
  BY DEF Disconnect
<1>3. /\ r \in SessionRecords /\ r.up = FALSE /\ r.cur = sess[x].cur /\ r.adding = sess[x].adding
      /\ r.out = sess[x].out
  BY <1>1 DEF SessionRecords
<1> HIDE DEF r
<1>4. Moves(hub, hub', {}) /\ LetsGo(x, r, {})
  BY <1>2, <1>3, MovesSame, FlowParts DEF LetsGo, Disconnect
<1>5. UNCHANGED << world, worker, current >> /\ retiring'.on = retiring.on
  BY DEF Disconnect
<1>6. \A i \in DOMAIN r.out : \E j \in DOMAIN sess[x].out : sess[x].out[j] = r.out[i]
  BY <1>3
<1> QED BY <1>3, <1>4, <1>5, <1>6, LetsGoFacts

\* The replacement reaches a session: its subscription is dropped.
LEMMA FlowInvalidate ==
  ASSUME FlowInv, StreamInv', UNCHANGED clientVars, NEW x \in Sessions,
         invalidateClusterSubscriptions(x)
  PROVE  FlowInv'
<1>1. /\ MapsOK(hub) /\ sess[x] \in SessionRecords /\ sess \in [Sessions -> SessionRecords]
  BY FlowParts
<1>2. /\ sess' = [sess EXCEPT ![x] = sess[x]] /\ fwd' = fwd
      /\ hub' = IF sess[x].cur = None THEN hub ELSE dropSubscriber(hub, sess[x].cur)
      /\ UNCHANGED << world, worker, current >> /\ retiring'.on = retiring.on
  BY <1>1 DEF invalidateClusterSubscriptions, FlowInv, StreamInv
<1>3. Moves(hub, hub', {})
  BY <1>1, <1>2, MovesSame, DropMoves DEF SessionRecords
<1>4. LetsGo(x, sess[x], {})
  BY <1>1, <1>2, FlowParts DEF LetsGo, Attached
<1>5. \A i \in DOMAIN sess[x].out : \E j \in DOMAIN sess[x].out : sess[x].out[j] = sess[x].out[i]
  OBVIOUS
<1> QED BY <1>2, <1>3, <1>4, <1>5, LetsGoFacts

\* A message taken from a channel, as a frame.
LEMMA LiveMessageFacts ==
  ASSUME MapsOK(hub), QueuedBounds, NEW s \in Subs, hub.sub[s].chan # << >>
  PROVE  /\ LiveMessage(s) \in Frames
         /\ LiveMessage(s).type = "changed" => Bound(hub, LiveMessage(s).n, LiveMessage(s).life)
<1>1. hub.sub[s].chan \in Seq(Nat) /\ hub.sub[s].life \in Lives
  BY DEF MapsOK, Maps, Subscription
<1>2. /\ Head(hub.sub[s].chan) \in Nat /\ 1 \in DOMAIN hub.sub[s].chan
      /\ Head(hub.sub[s].chan) = hub.sub[s].chan[1]
  BY <1>1, TailItems
<1>3. Bound(hub, Head(hub.sub[s].chan), hub.sub[s].life)
  BY <1>2 DEF QueuedBounds
<1> QED BY <1>1, <1>2, <1>3, FrameIs DEF LiveMessage, Changed, Frames, Frame

\* ForwardUpdate: skipped as replayed, delivered, too much for the queue, or not stored.
LEMMA FlowForward ==
  ASSUME FlowInv, StreamInv', UNCHANGED clientVars, NEW s \in Subs, ForwardUpdate(s)
  PROVE  FlowInv'
<1> DEFINE x == fwd[s].on
           t == Taken(hub, s)
           g == [h |-> t, ss |-> sess[x]]
           m == LiveMessage(s)
<1>1. /\ MapsOK(hub) /\ MapsOK(hub') /\ x \in Sessions /\ sess[x] \in SessionRecords
      /\ hub.sub[s].chan # << >>
      /\ UNCHANGED << world, worker, current >> /\ retiring'.on = retiring.on
      /\ UNCHANGED << client, sock >> /\ Attached /\ FrameBounds /\ QueuedBounds
      /\ sess[x].up = TRUE => sess[x].state = "open"
  <2>1. x # None /\ hub.sub[s].chan # << >> /\ UNCHANGED << world, worker, current, retiring >>
    BY DEF ForwardUpdate
  <2>2. x \in Sessions
    BY <2>1, FlowParts
  <2>3. /\ sess[x] \in SessionRecords /\ MapsOK(hub) /\ Attached
        /\ sess[x].up = TRUE => sess[x].state = "open"
    BY <2>2, FlowParts DEF Attached
  <2> QED BY <2>1, <2>2, <2>3 DEF StreamInv, clientVars, FlowInv, Numbering
<1>2. /\ Moves(hub, t, {s}) /\ MapsOK(t) /\ m \in Frames
      /\ m.type = "changed" => Bound(t, m.n, m.life)
  <2>1. Moves(hub, t, {s}) /\ MapsOK(t) /\ m \in Frames
        /\ (m.type = "changed" => Bound(hub, m.n, m.life))
    BY <1>1, TakenMoves, LiveMessageFacts
  <2>2. m.n \in Nat BY <2>1 DEF Frames
  <2> QED BY <1>1, <2>1, <2>2, MovesBound
<1>3. [SessionOf(x) EXCEPT !.h.sub[s].chan = Tail(@)] = g
  <2>1. [SessionOf(x) EXCEPT !.h.sub[s].chan = Tail(@)] = [SessionOf(x) EXCEPT !.h = Taken(SessionOf(x).h, s)]
    BY DEF Taken
  <2>2. SessionOf(x) = [h |-> hub, ss |-> sess[x]] BY DEF SessionOf
  <2> QED BY <2>1, <2>2
<1>4. \/ Replayed(s) /\ Commit(x, g) /\ UNCHANGED fwd
      \/ ~Replayed(s) /\ Current(x, s) /\ Commit(x, enqueue(g, m)) /\ UNCHANGED fwd
      \/ ~Replayed(s) /\ ~Current(x, s) /\ Commit(x, [g EXCEPT !.h = Released(@, s)])
         /\ fwd' = [fwd EXCEPT ![s] = NoForwarder]
  BY <1>3 DEF ForwardUpdate
<1>5. x # None /\ fwd \in [Subs -> [on : Sessions \cup {None}, hw : Nat]]
      /\ sess \in [Sessions -> SessionRecords]
  BY <1>1, MuxAssumption, FlowParts
<1>6. CASE Replayed(s) /\ Commit(x, g) /\ UNCHANGED fwd
  <2>1. sess' = [sess EXCEPT ![x] = sess[x]] /\ hub' = t /\ sess' = sess
    BY <1>5, <1>6 DEF Commit
  <2>2. LetsGo(x, sess[x], {s})
    BY <1>1, <1>5, <1>6, <2>1 DEF LetsGo
  <2>3. x = sock /\ sess[x].up = TRUE => Pipeline' \/ sess[x].cur \notin {s}
    <3> SUFFICES ASSUME x = sock, sess[x].up = TRUE, sess[x].cur = s PROVE Pipeline'
      OBVIOUS
    <3>1. SocketOpen /\ Here.cur = s /\ Here.cur # None
      BY <1>5, HubAssumption DEF SocketOpen, Here
    <3> QED BY <1>1, <1>6, <2>1, <3>1, ReplayedHere
  <2>4. \A i \in DOMAIN sess[x].out : \E j \in DOMAIN sess[x].out : sess[x].out[j] = sess[x].out[i]
    OBVIOUS
  <2> QED BY <1>1, <1>2, <2>1, <2>2, <2>3, <2>4, LetsGoFacts
<1>7. CASE ~Replayed(s) /\ Current(x, s) /\ Commit(x, enqueue(g, m)) /\ UNCHANGED fwd
  <2> DEFINE k == enqueue(g, m)
             q == Append(sess[x].out, m)
  <2>1. sess[x].cur = s /\ sess[x].state = "open" /\ s # None
    BY <1>1, <1>7, FlowParts, HubAssumption DEF Current
  <2>2. g.h = t /\ g.ss = sess[x] /\ g = [h |-> g.h, ss |-> g.ss]
    OBVIOUS
  <2>3. hub' = k.h /\ sess' = [sess EXCEPT ![x] = k.ss]
    BY <1>7 DEF Commit
  <2> HIDE DEF g, m, t
  <2>4. Queued(g, k, q) \/ Over(g, k)
    BY <1>1, <1>2, <2>1, <2>2, EnqueueFacts
  <2> HIDE DEF k
  <2>5. CASE Over(g, k)
    <3>1. Moves(t, hub', {}) /\ k.ss.up = FALSE /\ k.ss.out = << >>
      BY <2>2, <2>3, <2>5 DEF Over
    <3>2. Moves(hub, hub', {s})
      <4>1. Moves(t, hub', {s}) BY <3>1, MovesWider
      <4> QED BY <1>1, <1>2, <4>1, MovesOn
    <3>3. LetsGo(x, k.ss, {s})
      BY <1>1, <1>5, <1>7, <2>2, <2>3, <2>5 DEF LetsGo, Over
    <3>4. \A i \in DOMAIN k.ss.out : k.ss.out[i].type # "changed"
      BY <3>1
    <3> QED BY <1>1, <3>1, <3>2, <3>3, <3>4, LetsGoFacts
  <2>6. CASE Queued(g, k, q)
    <3>1. /\ hub' = t /\ k.ss = [sess[x] EXCEPT !.out = q] /\ k.ss \in SessionRecords
          /\ q \in Seq(Frames) /\ sess[x].out \in Seq(Frames)
      BY <1>1, <2>2, <2>3, <2>6 DEF Queued, SessionRecords
    <3>2. /\ k.ss.out = q /\ k.ss.up = sess[x].up /\ k.ss.state = sess[x].state
          /\ k.ss.cur = sess[x].cur /\ k.ss.adding = sess[x].adding
      BY <1>1, <3>1 DEF SessionRecords
    <3> HIDE DEF q
    <3>3. LetsGo(x, k.ss, {s})
      BY <1>1, <1>5, <1>7, <2>3, <3>1, <3>2 DEF LetsGo
    <3>4. \A i \in DOMAIN k.ss.out : k.ss.out[i].type = "changed" =>
            \/ \E j \in DOMAIN sess[x].out : sess[x].out[j] = k.ss.out[i]
            \/ Bound(hub', k.ss.out[i].n, k.ss.out[i].life)
      BY <1>2, <3>1, <3>2, AppendedFrameBounds DEF q
    <3>5. x = sock /\ k.ss.up = TRUE => Pipeline'
      <4> SUFFICES ASSUME x = sock, k.ss.up = TRUE PROVE Pipeline'
        OBVIOUS
      <4>1. /\ SocketOpen /\ Here = sess[x] /\ Here.cur = s /\ Here.cur # None
            /\ Here' = [Here EXCEPT !.out = q]
        BY <1>1, <1>5, <2>1, <2>3, <3>1, <3>2 DEF SocketOpen, Here
      <4>2. q = Append(Here.out, LiveMessage(Here.cur)) /\ LiveMessage(Here.cur) \in Frames
            /\ hub' = Taken(hub, Here.cur)
        BY <1>2, <3>1, <4>1 DEF q, m, t
      <4> QED BY <1>1, <1>7, <3>1, <4>1, <4>2, ForwardedHere
    <3> QED BY <1>1, <1>2, <3>1, <3>3, <3>4, <3>5, LetsGoFacts
  <2> QED BY <2>4, <2>5, <2>6
<1>8. CASE /\ ~Replayed(s) /\ ~Current(x, s) /\ Commit(x, [g EXCEPT !.h = Released(@, s)])
           /\ fwd' = [fwd EXCEPT ![s] = NoForwarder]
  <2>1. sess' = [sess EXCEPT ![x] = sess[x]] /\ hub' = Released(t, s)
    BY <1>8 DEF Commit
  <2> HIDE DEF t
  <2>2. Moves(hub, hub', {s})
    <3>1. Moves(t, hub', {s}) BY <1>2, <2>1, ReleasedMoves
    <3> QED BY <1>1, <1>2, <3>1, MovesOn
  <2>3. sess[x].cur # s
    BY <1>8 DEF Current
  <2>4. NoForwarder \in [on : Sessions \cup {None}, hw : Nat]
    BY DEF NoForwarder
  <2>5. LetsGo(x, sess[x], {s})
    BY <1>1, <1>5, <1>8, <2>1, <2>3, <2>4 DEF LetsGo
  <2>6. \A i \in DOMAIN sess[x].out : \E j \in DOMAIN sess[x].out : sess[x].out[j] = sess[x].out[i]
    OBVIOUS
  <2> QED BY <1>1, <2>2, <2>3, <2>5, <2>6, LetsGoFacts
<1> QED BY <1>4, <1>6, <1>7, <1>8

\* The channel of a dropped subscription ends, and COMPLETE is sent.
LEMMA FlowForwardEnds ==
  ASSUME FlowInv, StreamInv', UNCHANGED clientVars, NEW s \in Subs, ForwardEnds(s)
  PROVE  FlowInv'
<1> DEFINE x == fwd[s].on
           t == Released(hub, s)
           m == Frame("complete")
<1>1. /\ MapsOK(hub) /\ MapsOK(hub') /\ x \in Sessions /\ sess[x] \in SessionRecords
      /\ UNCHANGED << world, worker, current >> /\ retiring'.on = retiring.on
      /\ UNCHANGED << client, sock >> /\ Attached
      /\ sess[x].up = TRUE => sess[x].state = "open"
  <2>1. x # None /\ UNCHANGED << world, worker, current, retiring >>
    BY DEF ForwardEnds
  <2>2. x \in Sessions
    BY <2>1, FlowParts
  <2>3. /\ sess[x] \in SessionRecords /\ MapsOK(hub) /\ Attached
        /\ sess[x].up = TRUE => sess[x].state = "open"
    BY <2>2, FlowParts DEF Attached
  <2> QED BY <2>1, <2>2, <2>3 DEF StreamInv, clientVars
<1>2. Moves(hub, t, {s}) /\ MapsOK(t)
  BY <1>1, ReleasedMoves
<1>3. /\ x # None /\ fwd \in [Subs -> [on : Sessions \cup {None}, hw : Nat]]
      /\ sess \in [Sessions -> SessionRecords]
      /\ NoForwarder \in [on : Sessions \cup {None}, hw : Nat]
  BY <1>1, MuxAssumption, FlowParts DEF NoForwarder
<1> DEFINE c == [sess[x] EXCEPT !.cur = None]
           g == [h |-> t, ss |-> c]
<1>4. /\ fwd' = [fwd EXCEPT ![s] = NoForwarder]
      /\ Current(x, s) => Commit(x, enqueue(g, m))
      /\ ~Current(x, s) => Commit(x, [h |-> t, ss |-> sess[x]])
  <2>1. SessionOf(x) = [h |-> hub, ss |-> sess[x]] BY DEF SessionOf
  <2>2. [SessionOf(x) EXCEPT !.h = Released(@, s)] = [h |-> t, ss |-> sess[x]]
    BY <2>1
  <2>3. [[h |-> t, ss |-> sess[x]] EXCEPT !.ss.cur = None] = g
    OBVIOUS
  <2> QED BY <2>2, <2>3 DEF ForwardEnds
<1> HIDE DEF t
<1>5. CASE ~Current(x, s)
  <2>1. sess' = [sess EXCEPT ![x] = sess[x]] /\ hub' = t
    BY <1>4, <1>5 DEF Commit
  <2>2. sess[x].cur # s
    BY <1>5 DEF Current
  <2>3. LetsGo(x, sess[x], {s})
    BY <1>1, <1>3, <1>4, <2>1, <2>2 DEF LetsGo
  <2>4. \A i \in DOMAIN sess[x].out : \E j \in DOMAIN sess[x].out : sess[x].out[j] = sess[x].out[i]
    OBVIOUS
  <2> QED BY <1>1, <1>2, <2>1, <2>2, <2>3, <2>4, LetsGoFacts
<1>6. CASE Current(x, s)
  <2> DEFINE k == enqueue(g, m)
             q == Append(sess[x].out, m)
  <2>1. sess[x].cur = s /\ sess[x].state = "open" /\ s # None
    BY <1>1, <1>6, FlowParts, HubAssumption DEF Current
  <2>2. /\ c \in SessionRecords /\ c.state = "open" /\ c.cur = None /\ c.up = sess[x].up
        /\ c.adding = sess[x].adding /\ c.out = sess[x].out /\ sess[x].out \in Seq(Frames)
    BY <1>1, <2>1 DEF SessionRecords
  <2> HIDE DEF c
  <2>3. g.h = t /\ g.ss = c /\ g = [h |-> g.h, ss |-> g.ss]
    OBVIOUS
  <2>4. hub' = k.h /\ sess' = [sess EXCEPT ![x] = k.ss]
    BY <1>4, <1>6 DEF Commit
  <2>5. m \in Frames /\ m.type = "complete"
    BY FrameIs
  <2> HIDE DEF g, m
  <2>6. Queued(g, k, q) \/ Over(g, k)
    BY <1>2, <2>2, <2>3, <2>5, EnqueueFacts
  <2> HIDE DEF k
  <2>7. CASE Over(g, k)
    <3>1. Moves(t, hub', {}) /\ k.ss.up = FALSE /\ k.ss.out = << >>
      BY <2>3, <2>4, <2>7 DEF Over
    <3>2. Moves(hub, hub', {s})
      <4>1. Moves(t, hub', {s}) BY <3>1, MovesWider
      <4> QED BY <1>1, <1>2, <4>1, MovesOn
    <3>3. LetsGo(x, k.ss, {s})
      BY <1>1, <1>3, <1>4, <2>1, <2>2, <2>3, <2>4, <2>7 DEF LetsGo, Over
    <3>4. \A i \in DOMAIN k.ss.out : k.ss.out[i].type # "changed"
      BY <3>1
    <3> QED BY <1>1, <3>1, <3>2, <3>3, <3>4, LetsGoFacts
  <2>8. CASE Queued(g, k, q)
    <3>1. /\ hub' = t /\ k.ss = [c EXCEPT !.out = q] /\ k.ss \in SessionRecords
          /\ q \in Seq(Frames)
      BY <2>2, <2>3, <2>4, <2>8 DEF Queued
    <3>2. /\ k.ss.out = q /\ k.ss.up = sess[x].up /\ k.ss.state = "open"
          /\ k.ss.cur = None /\ k.ss.adding = sess[x].adding
      BY <2>2, <3>1 DEF SessionRecords
    <3> HIDE DEF q
    <3>3. LetsGo(x, k.ss, {s})
      BY <1>1, <1>3, <1>4, <2>1, <2>4, <3>1, <3>2 DEF LetsGo
    <3>4. \A i \in DOMAIN k.ss.out : k.ss.out[i].type = "changed" =>
            \/ \E j \in DOMAIN sess[x].out : sess[x].out[j] = k.ss.out[i]
            \/ Bound(hub', k.ss.out[i].n, k.ss.out[i].life)
      BY <2>2, <2>5, <3>2, AppendedFrameBounds DEF q
    <3>5. x = sock /\ k.ss.up = TRUE => Pipeline'
      <4> SUFFICES ASSUME x = sock, k.ss.up = TRUE PROVE Pipeline'
        OBVIOUS
      <4>1. /\ SocketOpen /\ Here = sess[x] /\ Here.cur # None
            /\ Here' = [c EXCEPT !.out = q]
        BY <1>1, <1>3, <2>1, <2>4, <3>1, <3>2 DEF SocketOpen, Here
      <4>2. Here' = [Here EXCEPT !.cur = None, !.out = q]
        BY <4>1 DEF c
      <4>3. q = Append(Here.out, Frame("complete"))
        BY <4>1 DEF q, m
      <4> QED BY <1>1, <4>1, <4>2, <4>3, EndedHere
    <3> QED BY <1>1, <1>2, <3>1, <3>3, <3>4, <3>5, LetsGoFacts
  <2> QED BY <2>6, <2>7, <2>8
<1> QED BY <1>5, <1>6

\* SubscribeSelector refuses, and the session answers with an error.
LEMMA FlowSubscribeRefused ==
  ASSUME FlowInv, StreamInv', UNCHANGED clientVars, NEW x \in Sessions, HandleSubscribe(x),
         SubscribeRefused(hub, current)
  PROVE  FlowInv'
<1> DEFINE b == Tail(sess[x].inbox)
           c == [sess[x] EXCEPT !.inbox = b]
           g == [h |-> hub, ss |-> c]
           m == Frame("error")
           k == enqueue(g, m)
           q == Append(sess[x].out, m)
<1>1. /\ MapsOK(hub) /\ MapsOK(hub') /\ sess[x] \in SessionRecords /\ Attached
      /\ UNCHANGED << world, worker, current, fwd >> /\ retiring'.on = retiring.on
      /\ UNCHANGED << client, sock >>
      /\ sess[x].state = "open" /\ sess[x].adding = None /\ sess[x].inbox # << >>
      /\ sess \in [Sessions -> SessionRecords]
      /\ fwd \in [Subs -> [on : Sessions \cup {None}, hw : Nat]]
  BY FlowParts DEF HandleSubscribe, StreamInv, clientVars
<1>2. [SessionOf(x) EXCEPT !.ss.inbox = Tail(@)] = g
  <2>1. SessionOf(x) = [h |-> hub, ss |-> sess[x]] BY DEF SessionOf
  <2>2. [SessionOf(x) EXCEPT !.ss.inbox = Tail(SessionOf(x).ss.inbox)] = [SessionOf(x) EXCEPT !.ss.inbox = b]
    BY <2>1
  <2> HIDE DEF b
  <2>3. [[h |-> hub, ss |-> sess[x]] EXCEPT !.ss.inbox = b] = g
    OBVIOUS
  <2> QED BY <2>1, <2>2, <2>3
<1>3. hub' = k.h /\ sess' = [sess EXCEPT ![x] = k.ss]
  BY <1>2 DEF HandleSubscribe, Commit
<1>4. sess[x].inbox \in Seq(Asked) /\ b \in Seq(Asked)
  BY <1>1 DEF SessionRecords
<1> HIDE DEF b
<1>5. /\ c \in SessionRecords /\ c.state = "open" /\ c.cur = sess[x].cur /\ c.up = sess[x].up
      /\ c.adding = sess[x].adding /\ c.out = sess[x].out /\ sess[x].out \in Seq(Frames)
  BY <1>1, <1>4 DEF SessionRecords
<1> HIDE DEF c
<1>6. g.h = hub /\ g.ss = c /\ g = [h |-> g.h, ss |-> g.ss]
  OBVIOUS
<1>7. m \in Frames /\ m.type = "error"
  BY FrameIs
<1> HIDE DEF g, m
<1>8. Queued(g, k, q) \/ Over(g, k)
  BY <1>1, <1>5, <1>6, <1>7, EnqueueFacts
<1> HIDE DEF k
<1>9. CASE Over(g, k)
  <2>1. Moves(hub, hub', {}) /\ k.ss.up = FALSE /\ k.ss.out = << >>
    BY <1>3, <1>6, <1>9 DEF Over
  <2>2. LetsGo(x, k.ss, {})
    BY <1>1, <1>3, <1>5, <1>6, <1>9 DEF LetsGo, Over
  <2>3. \A i \in DOMAIN k.ss.out : k.ss.out[i].type # "changed"
    BY <2>1
  <2> QED BY <1>1, <2>1, <2>2, <2>3, LetsGoFacts
<1>10. CASE Queued(g, k, q)
  <2>1. /\ hub' = hub /\ k.ss = [c EXCEPT !.out = q] /\ k.ss \in SessionRecords
    BY <1>3, <1>6, <1>10 DEF Queued
  <2>2. /\ k.ss.out = q /\ k.ss.up = sess[x].up /\ k.ss.state = "open"
        /\ k.ss.cur = sess[x].cur /\ k.ss.adding = sess[x].adding
    BY <1>5, <2>1 DEF SessionRecords
  <2> HIDE DEF q
  <2>3. LetsGo(x, k.ss, {}) /\ Moves(hub, hub', {})
    BY <1>1, <1>3, <2>1, <2>2, MovesSame DEF LetsGo
  <2>4. \A i \in DOMAIN k.ss.out : k.ss.out[i].type = "changed" =>
          \/ \E j \in DOMAIN sess[x].out : sess[x].out[j] = k.ss.out[i]
          \/ Bound(hub', k.ss.out[i].n, k.ss.out[i].life)
    BY <1>5, <1>7, <2>2, AppendedFrameBounds DEF q
  <2>5. x = sock /\ k.ss.up = TRUE => Pipeline'
    <3> SUFFICES ASSUME x = sock, k.ss.up = TRUE PROVE Pipeline'
      OBVIOUS
    <3>1. /\ SocketOpen /\ Here = sess[x] /\ Here' = [c EXCEPT !.out = q] /\ sock # None
      BY <1>1, <1>3, <2>1, <2>2, MuxAssumption DEF SocketOpen, Here
    <3>2. Here' = [Here EXCEPT !.inbox = b, !.out = q]
      BY <3>1 DEF c
    <3>3. q = Append(Here.out, Frame("error")) /\ b = Tail(Here.inbox)
      BY <3>1 DEF q, m, b
    <3> QED BY <1>1, <3>1, <3>2, <3>3, RefusedHere
  <2> QED BY <1>1, <2>3, <2>4, <2>5, LetsGoFacts
<1> QED BY <1>8, <1>9, <1>10

\* g is h with a new subscription s of manager m.
AddedTo(h, g, m, s) ==
  /\ g.seq = h.seq /\ g.life = h.life /\ g.dropping = h.dropping
  /\ g.sub[s].state = "live" /\ g.sub[s].on = m /\ g.sub[s].life = Life(h, m)
  /\ g.sub[s].chan = << >> /\ g.sub[s].resyncing = FALSE
  /\ \A q \in Subs \ {s} : g.sub[q] = h.sub[q]
  /\ \A k \in Managers : Live(g, k) \ {s} = Live(h, k) \ {s}

\* addSubscriber makes a live subscription, with an empty channel, of the current numbering.
LEMMA AddedFacts ==
  ASSUME NEW h, MapsOK(h), NEW m \in Managers, NEW s \in Subs
  PROVE  AddedTo(h, addSubscriber(h, m, s), m, s)
<1>1. h \in Maps BY DEF MapsOK
<1> DEFINE g == addSubscriber(h, m, s)
<1>2. /\ g.seq = h.seq /\ g.life = h.life /\ g.dropping = h.dropping
      /\ g.sub[s] = [state |-> "live", on |-> m, life |-> Life(h, m), chan |-> << >>, resyncing |-> FALSE]
      /\ \A q \in Subs \ {s} : g.sub[q] = h.sub[q]
  BY <1>1 DEF addSubscriber, Maps
<1> HIDE DEF g
<1>3. \A k \in Managers : Live(g, k) \ {s} = Live(h, k) \ {s}
  BY <1>2 DEF Live
<1>4. g.sub[s].state = "live" /\ g.sub[s].on = m /\ g.sub[s].life = Life(h, m)
      /\ g.sub[s].chan = << >> /\ g.sub[s].resyncing = FALSE
  BY <1>2
<1> QED BY <1>2, <1>3, <1>4 DEF g, AddedTo

\* SubscribeSelector opens a subscription, which is not stored yet.
LEMMA FlowSubscribeAdded ==
  ASSUME FlowInv, StreamInv', UNCHANGED clientVars, NEW x \in Sessions, HandleSubscribe(x),
         ~SubscribeRefused(hub, current)
  PROVE  FlowInv'
<1> DEFINE b == Tail(sess[x].inbox)
           a == Head(sess[x].inbox)
<1>1. /\ MapsOK(hub) /\ MapsOK(hub') /\ sess[x] \in SessionRecords /\ Attached /\ FlowTypes
      /\ current \in Managers /\ hub \in Maps
      /\ UNCHANGED << world, worker, current, retiring, fwd >>
      /\ UNCHANGED << client, sock, outbox >>
      /\ sess[x].state = "open" /\ sess[x].adding = None /\ sess[x].inbox # << >>
      /\ sess \in [Sessions -> SessionRecords]
      /\ Serving /\ QueuedBounds /\ FrameBounds /\ LastBound /\ LastOK /\ AddingOK
  BY FlowParts DEF HandleSubscribe, StreamInv, clientVars, FlowInv, Numbering
<1>2. SessionOf(x) = [h |-> hub, ss |-> sess[x]] BY DEF SessionOf
<1>3. PICK s \in Subs :
        /\ Unused(s)
        /\ Commit(x, [h |-> addSubscriber(hub, current, s),
                      ss |-> [[SessionOf(x) EXCEPT !.ss.inbox = Tail(@)].ss EXCEPT
                                !.adding = s, !.token = a.token]])
  BY <1>1 DEF HandleSubscribe
<1>4. sess[x].inbox \in Seq(Asked) /\ b \in Seq(Asked) /\ a \in Asked
  BY <1>1, TailItems DEF SessionRecords
<1>5. [SessionOf(x) EXCEPT !.ss.inbox = Tail(SessionOf(x).ss.inbox)].ss = [sess[x] EXCEPT !.inbox = b]
  <2>1. [SessionOf(x) EXCEPT !.ss.inbox = Tail(SessionOf(x).ss.inbox)] = [SessionOf(x) EXCEPT !.ss.inbox = b]
    BY <1>2
  <2> HIDE DEF b
  <2>2. [[h |-> hub, ss |-> sess[x]] EXCEPT !.ss.inbox = b].ss = [sess[x] EXCEPT !.inbox = b]
    OBVIOUS
  <2> QED BY <1>2, <2>1, <2>2
<1> DEFINE r == [sess[x] EXCEPT !.inbox = b, !.adding = s, !.token = a.token]
<1>6. sess' = [sess EXCEPT ![x] = r] /\ hub' = addSubscriber(hub, current, s)
  BY <1>3, <1>5 DEF Commit
<1>7. /\ hub'.seq = hub.seq /\ hub'.life = hub.life /\ hub'.dropping = hub.dropping
      /\ hub'.sub[s].state = "live" /\ hub'.sub[s].on = current /\ hub'.sub[s].life = Life(hub, current)
      /\ hub'.sub[s].chan = << >> /\ hub'.sub[s].resyncing = FALSE
      /\ \A q \in Subs \ {s} : hub'.sub[q] = hub.sub[q]
      /\ \A k \in Managers : Live(hub', k) \ {s} = Live(hub, k) \ {s}
  <2>1. AddedTo(hub, hub', current, s)
    BY <1>1, <1>6, AddedFacts
  <2> QED BY <2>1 DEF AddedTo
<1>8. /\ fwd[s].on = None /\ fwd[s].hw = 0
      /\ \A y \in Sessions : sess[y].cur # s /\ sess[y].adding # s
      /\ \A w \in Workers : s \notin worker[w].to
      /\ s # None
  BY <1>1, <1>3, HubAssumption DEF Unused, Unreferenced, Attached
<1> HIDE DEF b
<1>9. /\ r \in SessionRecords /\ r.up = sess[x].up /\ r.state = "open" /\ r.cur = sess[x].cur
      /\ r.adding = s /\ r.token = a.token /\ r.inbox = b /\ r.out = sess[x].out
  BY <1>1, <1>4 DEF SessionRecords, Asked
<1> HIDE DEF r, a
<1>10. /\ sess' \in [Sessions -> SessionRecords] /\ sess'[x] = r
       /\ \A y \in Sessions \ {x} : sess'[y] = sess[y]
  BY <1>1, <1>6, <1>9
<1>11. FlowTypes'
  BY <1>1, <1>10 DEF FlowTypes
<1>12. Attached'
  <2>1. \A y \in Sessions : sess'[y].cur = sess[y].cur /\ sess'[y].up = sess[y].up
    BY <1>9, <1>10
  <2>2. \A y \in Sessions : sess'[y].up = TRUE => sess'[y].state = "open"
    BY <1>1, <1>9, <1>10 DEF Attached
  <2>3. ASSUME NEW y \in Sessions, sess'[y].adding # None
        PROVE  /\ fwd[sess'[y].adding].on = None
               /\ \A z \in Sessions : sess'[z].adding = sess'[y].adding => y = z
    BY <1>1, <1>8, <1>9, <1>10, <2>3 DEF Attached
  <2> QED BY <1>1, <2>1, <2>2, <2>3 DEF Attached
<1>13. \A n, l : Bound(hub, n, l) => Bound(hub', n, l)
  BY <1>7 DEF Bound
<1>14. Serving'
  <2>1. \A m : Life(hub', m) = Life(hub, m) BY <1>7 DEF Life
  <2>2. \A q \in Subs : hub'.sub[q].state = "live" =>
          hub'.sub[q].life = Life(hub', hub'.sub[q].on) /\ hub'.sub[q].on \in {current, retiring.on}
    BY <1>1, <1>7, <2>1 DEF Serving
  <2>3. ASSUME NEW q \in Live(hub', current) PROVE fwd[q].hw <= hub'.seq[current]
    <3>1. hub.seq[current] \in Nat BY <1>1 DEF Maps
    <3>2. CASE q = s BY <1>7, <1>8, <3>1, <3>2
    <3>3. CASE q # s
      <4>1. q \in Live(hub, current) BY <1>1, <1>7, <3>3
      <4> QED BY <1>1, <1>7, <4>1 DEF Serving
    <3> QED BY <3>2, <3>3
  <2>4. ASSUME NEW w \in Workers, NEW q \in worker[w].to, hub'.sub[q].state = "live"
        PROVE  hub'.sub[q].on = worker[w].on /\ worker[w].n <= hub'.seq[worker[w].on]
    <3>1. q # s BY <1>8
    <3>2. q \in Subs BY <1>1 DEF FlowInv, StreamInv, WorkersOK, InformerState
    <3> QED BY <1>1, <1>7, <2>4, <3>1, <3>2 DEF Serving
  <2> QED BY <1>1, <1>7, <2>2, <2>3, <2>4 DEF Serving
<1>15. QueuedBounds'
  BY <1>1, <1>7, <1>13 DEF QueuedBounds
<1>16. FrameBounds'
  BY <1>1, <1>9, <1>10, <1>13 DEF FrameBounds
<1>17. LastBound' /\ LastOK'
  BY <1>1, <1>7, <1>13 DEF LastBound, LastOK, Life, Announced
<1>18. AddingOK'
  <2> SUFFICES ASSUME NEW y \in Sessions, sess'[y].adding # None
               PROVE  ResetDue(hub', sess'[y].adding)
    BY DEF AddingOK
  <2>1. CASE y = x BY <1>7, <1>9, <1>10, <2>1 DEF ResetDue
  <2>2. CASE y # x
    <3>1. sess'[y].adding = sess[y].adding /\ sess[y].adding \in Subs \ {s} /\ sess[y].adding # None
      BY <1>1, <1>8, <1>10, <2>2 DEF SessionRecords
    <3> QED BY <1>1, <1>7, <3>1 DEF AddingOK, ResetDue
  <2> QED BY <2>1, <2>2
<1>19. Pipeline'
  <2> SUFFICES ASSUME SocketOpen' PROVE (Resuming /\ InitialComing /\ ServedOK /\ Coming)'
    BY DEF Pipeline
  <2>1. /\ sock \in Sessions /\ SocketOpen /\ Here'.cur = Here.cur /\ Here'.out = Here.out
        /\ Here \in SessionRecords
    BY <1>1, <1>9, <1>10 DEF SocketOpen, Here, FlowInv, StreamInv
  <2>2. Resuming /\ InitialComing /\ ServedOK /\ Coming
    BY <2>1 DEF FlowInv, Pipeline
  <2>3. Here.cur # None => Here.cur \in Subs \ {s}
    BY <1>8, <2>1 DEF Here, SessionRecords
  <2>4. ResetDue(hub, Here.cur) /\ Here.cur # None => ResetDue(hub', Here.cur)
    BY <1>7, <2>3 DEF ResetDue
  <2>5. Unserved => Unserved'
    BY <1>1, <1>7, <2>1, <2>3 DEF Unserved
  <2>6. ~Unserved /\ Arriving => Arriving'
    BY <1>1, <1>7, <2>1, <2>3 DEF Unserved, Arriving
  <2>7. Announced => Announced'
    BY <1>1 DEF Announced
  <2>8. Wakes => Wakes'
    BY <1>1, <2>1 DEF Wakes
  <2>9. CASE x # sock
    <3>1. Here' = Here BY <1>1, <1>10, <2>1, <2>9 DEF Here
    <3>2. Resuming' /\ InitialComing' /\ (Asks(Here) => Asks(Here)') /\ (AddsAnew(Here) => AddsAnew(Here)')
      BY <1>1, <2>2, <3>1 DEF Resuming, InitialComing
    <3>3. ServedOK' BY <1>1, <2>2, <2>4, <2>8, <3>1 DEF ServedOK
    <3>4. Coming' BY <1>1, <2>2, <2>5, <2>6, <2>7, <3>1, <3>2 DEF Coming
    <3> QED BY <3>2, <3>3, <3>4
  <2>10. CASE x = sock
    <3>1. /\ Here = sess[x] /\ Here'.adding = s /\ Here'.inbox = b /\ Here'.token = a.token
          /\ Here.adding = None /\ Here.inbox \in Seq(Asked) /\ Here.inbox # << >>
          /\ b = Tail(Here.inbox) /\ a = Here.inbox[1] /\ 1 \in DOMAIN Here.inbox
      BY <1>1, <1>4, <1>9, <1>10, <2>10, TailItems DEF Here, a, b
    <3>2. /\ \A i \in DOMAIN b : b[i].token.n = 0
          /\ a.token.n # 0 => Untouched(Here) /\ (a.token = client.last \/ Asks(Here))
      BY <2>2, <3>1, TailItems DEF Resuming
    <3>3. Asks(Here) => AddsAnew(Here)' \/ Asks(Here)'
      <4>1. SUFFICES ASSUME NEW i \in DOMAIN Here.inbox, Here.inbox[i].token.n = 0
                     PROVE  AddsAnew(Here)' \/ Asks(Here)'
        BY DEF Asks
      <4>2. CASE i = 1 BY <1>8, <3>1, <4>1, <4>2 DEF AddsAnew
      <4>3. CASE i # 1
        <5>1. i - 1 \in DOMAIN b /\ b[i - 1] = Here.inbox[i] BY <3>1, <4>3, TailItems
        <5> QED BY <3>1, <4>1, <5>1 DEF Asks
      <4> QED BY <4>2, <4>3
    <3>4. a.token.n # 0 => (a.token = client.last \/ Asks(Here)')
      BY <3>1, <3>2, <3>3 DEF AddsAnew
    <3>5. Resuming'
      BY <1>1, <2>1, <3>1, <3>2, <3>4 DEF Resuming, Untouched
    <3>6. ~AddsAnew(Here) BY <3>1 DEF AddsAnew
    <3>7. InitialComing'
      BY <1>1, <2>1, <2>2, <3>3, <3>6 DEF InitialComing
    <3>8. ServedOK' BY <1>8, <3>1 DEF ServedOK
    <3>9. Coming'
      BY <1>1, <2>1, <2>2, <2>5, <2>6, <2>7, <3>3, <3>6 DEF Coming
    <3> QED BY <3>5, <3>7, <3>8, <3>9
  <2> QED BY <2>9, <2>10
<1> QED BY <1>11, <1>12, <1>14, <1>15, <1>16, <1>17, <1>18, <1>19 DEF FlowInv, Numbering

\* What a queue holds once several frames are put at its end.
LEMMA AppendedFrames ==
  ASSUME NEW q \in Seq(Frames), NEW p \in Seq(Frames)
  PROVE  LET r == q \o p IN
         /\ r \in Seq(Frames)
         /\ \A i \in DOMAIN q : i \in DOMAIN r /\ r[i] = q[i]
         /\ \A i \in DOMAIN p : \E j \in DOMAIN r : r[j] = p[i]
         /\ \A j \in DOMAIN r : \/ \E i \in DOMAIN q : q[i] = r[j]
                                \/ \E i \in DOMAIN p : p[i] = r[j]
         /\ \A T : Has(q, T) => Has(r, T)
<1> DEFINE r == q \o p
<1>1. /\ r \in Seq(Frames) /\ Len(q) \in Nat /\ Len(p) \in Nat /\ Len(r) = Len(q) + Len(p)
      /\ DOMAIN q = 1 .. Len(q) /\ DOMAIN p = 1 .. Len(p) /\ DOMAIN r = 1 .. Len(r)
  OBVIOUS
<1>2. \A i \in 1 .. Len(q) : r[i] = q[i]
  OBVIOUS
<1>3. \A i \in 1 .. Len(p) : r[Len(q) + i] = p[i]
  OBVIOUS
<1> HIDE DEF r
<1>4. \A i \in DOMAIN q : i \in DOMAIN r /\ r[i] = q[i]
  BY <1>1, <1>2
<1>5. ASSUME NEW i \in DOMAIN p PROVE \E j \in DOMAIN r : r[j] = p[i]
  <2>1. Len(q) + i \in DOMAIN r BY <1>1
  <2> QED BY <1>1, <1>3, <2>1
<1>6. ASSUME NEW j \in DOMAIN r
      PROVE  \/ \E i \in DOMAIN q : q[i] = r[j]
             \/ \E i \in DOMAIN p : p[i] = r[j]
  <2>1. CASE j <= Len(q)
    <3>1. j \in 1 .. Len(q) BY <1>1, <2>1
    <3> QED BY <1>1, <1>2, <3>1
  <2>2. CASE ~(j <= Len(q))
    <3>1. j - Len(q) \in 1 .. Len(p) /\ Len(q) + (j - Len(q)) = j BY <1>1, <2>2
    <3> QED BY <1>1, <1>3, <3>1
  <2> QED BY <2>1, <2>2
<1>7. \A T : Has(q, T) => Has(r, T)
  BY <1>4 DEF Has
<1> QED BY <1>1, <1>4, <1>5, <1>6, <1>7 DEF r

\* The frames of a replay.
Replay(missed, life) == [i \in DOMAIN missed |-> Changed(missed[i], life)]

\* They carry the numbers of the buffer, and its numbering.
LEMMA ReplayFacts ==
  ASSUME NEW missed \in Seq(Nat), NEW life \in Lives
  PROVE  LET p == Replay(missed, life) IN
         /\ p \in Seq(Frames) /\ DOMAIN p = DOMAIN missed
         /\ \A i \in DOMAIN p : p[i].type = "changed" /\ p[i].n = missed[i] /\ p[i].life = life
<1> DEFINE p == Replay(missed, life)
<1>1. /\ DOMAIN p = 1 .. Len(missed) /\ Len(missed) \in Nat
      /\ DOMAIN missed = 1 .. Len(missed)
      /\ p = [i \in 1 .. Len(missed) |-> Changed(missed[i], life)]
  BY DEF Replay
<1>2. \A i \in 1 .. Len(missed) : missed[i] \in Nat
  OBVIOUS
<1>3. \A i \in 1 .. Len(missed) : /\ p[i] = Changed(missed[i], life) /\ p[i] \in Frames
                                  /\ p[i].type = "changed" /\ p[i].n = missed[i] /\ p[i].life = life
  BY <1>1, <1>2 DEF Changed, Frames
<1>4. p \in [1 .. Len(missed) -> Frames]
  BY <1>1, <1>3
<1>5. p \in Seq(Frames)
  <2> HIDE DEF p
  <2> QED BY <1>1, <1>4
<1> QED BY <1>1, <1>3, <1>5

\* What the highest replayed number is.
LEMMA HighWaterFacts ==
  ASSUME NEW h, MapsOK(h), current \in Managers, NEW token \in Nat
  PROVE  highWater(h, token) \in Nat /\ highWater(h, token) <= h.seq[current]
<1> DEFINE missed == resumeUpdates(h, current, token)
<1>1. missed # << >> => missed[Len(missed)] \in Nat /\ missed[Len(missed)] <= h.seq[current]
  BY MissedFacts
<1>2. h.seq[current] \in Nat
  BY DEF MapsOK, Maps
<1> QED BY <1>1, <1>2 DEF highWater

\* The session after the acknowledgement of s: over, told to start anew, or resumed
\* from its token by the updates behind it.
Acknowledged(x, r) ==
  /\ r \in SessionRecords /\ r.adding = None
  /\ \/ r.up = FALSE /\ r.cur = None /\ r.out = << >>
     \/ /\ r.cur = sess[x].adding /\ r.up = sess[x].up /\ r.state = "open" /\ r.inbox = sess[x].inbox
        /\ \A i \in DOMAIN sess[x].out : i \in DOMAIN r.out /\ r.out[i] = sess[x].out[i]
        /\ \A T : Has(sess[x].out, T) => Has(r.out, T)
        /\ \/ /\ Has(r.out, {"reset"})
              /\ \A i \in DOMAIN r.out : r.out[i].type = "changed" =>
                   \E j \in DOMAIN sess[x].out : sess[x].out[j] = r.out[i]
           \/ LET missed == resumeUpdates(hub', current, sess[x].token.n)
                  p == Replay(missed, Life(hub', current))
              IN /\ sess[x].token.n # 0 /\ hub'.buf[current] # << >>
                 /\ sess[x].cur = None => hub' = hub
                 /\ \A i \in DOMAIN r.out : r.out[i].type = "changed" =>
                      \/ \E j \in DOMAIN sess[x].out : sess[x].out[j] = r.out[i]
                      \/ \E j \in DOMAIN p : p[j] = r.out[i]
                 /\ \A j \in DOMAIN p : \E i \in DOMAIN r.out : r.out[i] = p[j]

\* AcknowledgeSubscribe comes to this, through dropSubscriber, enqueue and the catch-up.
LEMMA AcknowledgeFacts ==
  ASSUME FlowInv, NEW x \in Sessions, AcknowledgeSubscribe(x)
  PROVE  /\ sess' = [sess EXCEPT ![x] = sess'[x]] /\ Acknowledged(x, sess'[x])
         /\ Moves(hub, hub', {}) /\ MapsOK(hub')
         /\ \E hw \in Nat : /\ fwd' = [fwd EXCEPT ![sess[x].adding] = [on |-> x, hw |-> hw]]
                            /\ sess[x].adding \in Live(hub', current) => hw <= hub'.seq[current]
<1> DEFINE s == sess[x].adding
           token == sess[x].token.n
           k == IF sess[x].cur = None THEN hub ELSE dropSubscriber(hub, sess[x].cur)
           r0 == [sess[x] EXCEPT !.cur = s, !.adding = None, !.token = NoToken]
           g0 == [h |-> k, ss |-> r0]
           acked == enqueue(g0, Frame("ack"))
           final == caughtUp(acked, token)
<1>1. /\ MapsOK(hub) /\ sess[x] \in SessionRecords /\ s \in Subs /\ sess[x].state = "open"
      /\ current \in Managers /\ sess \in [Sessions -> SessionRecords] /\ token \in Nat
  BY FlowParts DEF AcknowledgeSubscribe, SessionRecords, Tokens
<1>2. stored(SessionOf(x), s) = g0
  BY <1>1 DEF stored, SessionOf, SessionRecords
<1>3. /\ hub' = final.h /\ sess' = [sess EXCEPT ![x] = final.ss]
      /\ fwd' = [fwd EXCEPT ![s] = [on |-> x, hw |-> highWater(acked.h, token)]]
  BY <1>2 DEF AcknowledgeSubscribe, Commit
<1>4. MapsOK(k) /\ Moves(hub, k, {}) /\ (sess[x].cur = None => k = hub)
  BY <1>1, MovesSame, DropMoves DEF SessionRecords
<1>5. NoToken \in Tokens
  BY DEF NoToken, Tokens, Lives
<1>6. /\ r0 \in SessionRecords /\ r0.cur = s /\ r0.adding = None /\ r0.state = "open"
      /\ r0.up = sess[x].up /\ r0.inbox = sess[x].inbox /\ r0.out = sess[x].out
  BY <1>1, <1>5 DEF SessionRecords
<1> HIDE DEF k, r0
<1>7. g0 = [h |-> g0.h, ss |-> g0.ss] /\ g0.h = k /\ g0.ss = r0
  OBVIOUS
<1> HIDE DEF g0
<1> DEFINE q1 == Append(sess[x].out, Frame("ack"))
<1>8. Queued(g0, acked, q1) \/ Over(g0, acked)
  BY <1>4, <1>6, <1>7, FrameIs, EnqueueFacts
<1>9. sess[x].out \in Seq(Frames) /\ Frame("ack") \in Frames /\ Frame("ack").type = "ack"
  BY <1>1, FrameIs DEF SessionRecords
<1>10. /\ q1 \in Seq(Frames)
       /\ \A T : Has(sess[x].out, T) => Has(q1, T)
       /\ \A i \in DOMAIN sess[x].out : i \in DOMAIN q1 /\ q1[i] = sess[x].out[i]
       /\ \A i \in DOMAIN q1 : i \in DOMAIN sess[x].out \/ q1[i] = Frame("ack")
  BY <1>9, AppendedFrame
<1>11. \A i \in DOMAIN q1 : q1[i].type = "changed" =>
         \E j \in DOMAIN sess[x].out : sess[x].out[j] = q1[i]
  BY <1>9, <1>10
<1> HIDE DEF q1
<1> SUFFICES /\ Acknowledged(x, final.ss) /\ Moves(hub, hub', {}) /\ MapsOK(hub')
             /\ highWater(acked.h, token) \in Nat
             /\ s \in Live(hub', current) => highWater(acked.h, token) <= hub'.seq[current]
  BY <1>1, <1>3
<1>12. CASE Over(g0, acked)
  <2> HIDE DEF acked
  <2>1. final = acked BY <1>12 DEF Over, caughtUp
  <2> HIDE DEF final
  <2>2. Moves(hub, hub', {}) /\ MapsOK(hub')
    BY <1>1, <1>3, <1>4, <1>7, <1>12, <2>1, MovesOn DEF Over
  <2>3. Acknowledged(x, final.ss)
    BY <1>6, <1>7, <1>12, <2>1 DEF Over, Acknowledged
  <2>4. highWater(acked.h, token) \in Nat /\ highWater(acked.h, token) <= acked.h.seq[current]
    BY <1>1, <1>12, HighWaterFacts DEF Over
  <2> QED BY <1>3, <2>1, <2>2, <2>3, <2>4
<1>13. CASE Queued(g0, acked, q1)
  <2> DEFINE r1 == [r0 EXCEPT !.out = q1]
  <2>1. acked.h = k /\ acked.ss = r1 /\ r1 \in SessionRecords
    BY <1>7, <1>13 DEF Queued
  <2>2. acked = [h |-> acked.h, ss |-> acked.ss]
    BY <1>7, <1>8 DEF enqueue, shutdown
  <2> HIDE DEF acked
  <2>3. /\ r1.cur = s /\ r1.adding = None /\ r1.state = "open" /\ r1.up = sess[x].up
        /\ r1.inbox = sess[x].inbox /\ r1.out = q1
    BY <1>6, <1>10 DEF SessionRecords
  <2> HIDE DEF r1
  <2>4. /\ highWater(k, token) \in Nat /\ highWater(k, token) <= k.seq[current]
    BY <1>1, <1>4, HighWaterFacts
  <2>5. CASE ~Resumes(acked, token)
    <3>1. final = enqueue(acked, Frame("reset"))
      BY <2>1, <2>3, <2>5 DEF caughtUp
    <3>2. Queued(acked, final, Append(q1, Frame("reset"))) \/ Over(acked, final)
      BY <1>4, <2>1, <2>2, <2>3, <3>1, FrameIs, EnqueueFacts
    <3> HIDE DEF final
    <3>3. CASE Over(acked, final)
      <4>1. Moves(k, hub', {}) /\ MapsOK(hub')
        BY <1>3, <2>1, <3>3 DEF Over
      <4>2. Moves(hub, hub', {})
        BY <1>1, <1>4, <4>1, MovesOn
      <4>3. Acknowledged(x, final.ss)
        BY <2>1, <2>3, <3>3 DEF Over, Acknowledged
      <4>4. s \in Live(hub', current) => hub'.seq[current] = k.seq[current]
        BY <1>1, <4>1, MovesLive DEF Stays
      <4> QED BY <2>1, <2>4, <4>1, <4>2, <4>3, <4>4
    <3>4. CASE Queued(acked, final, Append(q1, Frame("reset")))
      <4> DEFINE q == Append(q1, Frame("reset"))
      <4>1. Frame("reset") \in Frames /\ Frame("reset").type = "reset"
        BY FrameIs
      <4>2. /\ q \in Seq(Frames)
            /\ \A T : Has(q1, T) \/ Frame("reset").type \in T => Has(q, T)
            /\ \A i \in DOMAIN q1 : i \in DOMAIN q /\ q[i] = q1[i]
            /\ \A i \in DOMAIN q : i \in DOMAIN q1 \/ q[i] = Frame("reset")
        BY <1>10, <4>1, AppendedFrame
      <4> HIDE DEF q
      <4>3. /\ final.h = k /\ final.ss = [r1 EXCEPT !.out = q] /\ final.ss \in SessionRecords
        BY <2>1, <3>4 DEF Queued, q
      <4>4. /\ final.ss.cur = s /\ final.ss.adding = None /\ final.ss.state = "open"
            /\ final.ss.up = sess[x].up /\ final.ss.inbox = sess[x].inbox /\ final.ss.out = q
        BY <2>1, <2>3, <4>3 DEF SessionRecords
      <4>5. \A i \in DOMAIN sess[x].out : i \in DOMAIN q /\ q[i] = sess[x].out[i]
        BY <1>10, <4>2
      <4>6. \A T : Has(sess[x].out, T) => Has(q, T)
        BY <1>10, <4>2
      <4>7. Has(q, {"reset"})
        BY <4>1, <4>2
      <4>8. \A i \in DOMAIN q : q[i].type = "changed" =>
              \E j \in DOMAIN sess[x].out : sess[x].out[j] = q[i]
        BY <1>11, <4>1, <4>2
      <4>9. Acknowledged(x, final.ss)
        BY <4>3, <4>4, <4>5, <4>6, <4>7, <4>8 DEF Acknowledged
      <4> QED BY <1>3, <1>4, <2>1, <2>4, <4>3, <4>9
    <3> QED BY <3>2, <3>3, <3>4
  <2>6. CASE Resumes(acked, token)
    <3> DEFINE missed == resumeUpdates(k, current, token)
               p == Replay(missed, Life(k, current))
               q == q1 \o p
    <3>1. final = [acked EXCEPT !.ss.out = q]
      BY <2>1, <2>3, <2>6 DEF caughtUp, Replay
    <3>2. missed \in Seq(Nat)
      BY <1>1, <1>4, MissedFacts
    <3>3. Life(k, current) \in Lives
      BY <1>1, <1>4 DEF Life, Lives, MapsOK, Maps
    <3> HIDE DEF missed
    <3>4. /\ p \in Seq(Frames)
      BY <3>2, <3>3, ReplayFacts
    <3> HIDE DEF p
    <3>5. /\ q \in Seq(Frames)
          /\ \A i \in DOMAIN q1 : i \in DOMAIN q /\ q[i] = q1[i]
          /\ \A i \in DOMAIN p : \E j \in DOMAIN q : q[j] = p[i]
          /\ \A j \in DOMAIN q : \/ \E i \in DOMAIN q1 : q1[i] = q[j]
                                 \/ \E i \in DOMAIN p : p[i] = q[j]
          /\ \A T : Has(q1, T) => Has(q, T)
      BY <1>10, <3>4, AppendedFrames
    <3> HIDE DEF q, final
    <3>6. final.h = k /\ final.ss = [r1 EXCEPT !.out = q]
      BY <2>1, <2>2, <3>1
    <3>7. /\ final.ss \in SessionRecords
          /\ final.ss.cur = s /\ final.ss.adding = None /\ final.ss.state = "open"
          /\ final.ss.up = sess[x].up /\ final.ss.inbox = sess[x].inbox /\ final.ss.out = q
      BY <2>1, <2>3, <3>5, <3>6 DEF SessionRecords
    <3>8. token # 0 /\ k.buf[current] # << >>
      BY <2>1, <2>6 DEF Resumes, resumeOK
    <3>9. /\ \A i \in DOMAIN sess[x].out : i \in DOMAIN q /\ q[i] = sess[x].out[i]
          /\ \A T : Has(sess[x].out, T) => Has(q, T)
      BY <1>10, <3>5
    <3>10. \A i \in DOMAIN q : q[i].type = "changed" =>
             \/ \E j \in DOMAIN sess[x].out : sess[x].out[j] = q[i]
             \/ \E j \in DOMAIN p : p[j] = q[i]
      BY <1>11, <3>5
    <3>11. hub' = k /\ p = Replay(resumeUpdates(hub', current, sess[x].token.n), Life(hub', current))
      BY <1>3, <3>6 DEF p, missed
    <3>12. Acknowledged(x, final.ss)
      BY <1>4, <3>5, <3>7, <3>8, <3>9, <3>10, <3>11 DEF Acknowledged
    <3> QED BY <1>4, <2>1, <2>4, <3>11, <3>12
  <2> QED BY <2>5, <2>6
<1> QED BY <1>8, <1>12, <1>13

\* The client's own subscription is acknowledged.
LEMMA AcknowledgedHere ==
  ASSUME FlowInv, SocketOpen, UNCHANGED << client, world, worker, current, sock >>,
         Here.adding # None, Acknowledged(sock, Here'), Here'.up = TRUE,
         MapsOK(hub'), Moves(hub, hub', {})
  PROVE  Pipeline'
<1> DEFINE s == Here.adding
           token == Here.token.n
           missed == resumeUpdates(hub', current, token)
           p == Replay(missed, Life(hub', current))
<1>1. /\ Here = sess[sock] /\ Here \in SessionRecords /\ s \in Subs /\ current \in Managers
      /\ Resuming /\ InitialComing /\ Coming /\ sock \in Sessions
      /\ ResetDue(hub, s) /\ client.last \in Tokens /\ token \in Nat /\ Serving /\ LastOK
  BY DEF FlowInv, StreamInv, FlowTypes, SocketOpen, Pipeline, Here, SessionRecords, AddingOK,
         ClientOK, ClientRecord, Tokens, Numbering
<1>2. /\ Here'.adding = None /\ Here'.cur = s /\ Here'.inbox = Here.inbox
      /\ \A i \in DOMAIN Here.out : i \in DOMAIN Here'.out /\ Here'.out[i] = Here.out[i]
      /\ \A T : Has(Here.out, T) => Has(Here'.out, T)
      /\ \/ Has(Here'.out, {"reset"})
         \/ /\ token # 0 /\ hub'.buf[current] # << >> /\ (Here.cur = None => hub' = hub)
            /\ \A j \in DOMAIN p : \E i \in DOMAIN Here'.out : Here'.out[i] = p[j]
  BY <1>1 DEF Acknowledged
<1> HIDE DEF p, missed
<1>3. \A i \in DOMAIN Here.inbox : Here.inbox[i].token.n = 0
  BY <1>1 DEF Resuming
<1>4. Asks(Here) => Asks(Here)'
  BY <1>2 DEF Asks
<1>5. Resuming'
  BY <1>2, <1>3 DEF Resuming
<1>6. Has(Here'.out, {"reset"}) => Has(Here'.out, {"reset", "error"}) /\ Has(Here'.out, {"reset", "error", "complete"})
  BY DEF Has
<1>7. AddsAnew(Here) => Has(Here'.out, {"reset"})
  BY <1>2 DEF AddsAnew
<1>8. InitialComing'
  BY <1>1, <1>2, <1>4, <1>6, <1>7 DEF InitialComing
<1>9. ResetDue(hub', s)
  BY <1>1 DEF ResetDue, Moves
<1>10. ServedOK'
  BY <1>2, <1>9 DEF ServedOK
<1>11. CASE Has(Here'.out, {"reset"})
  <2>1. Coming' BY <1>6, <1>11 DEF Coming
  <2> QED BY <1>5, <1>8, <1>10, <2>1 DEF Pipeline
<1>12. CASE ~Has(Here'.out, {"reset"})
  <2>1. /\ token # 0 /\ hub'.buf[current] # << >>
        /\ \A j \in DOMAIN p : \E i \in DOMAIN Here'.out : Here'.out[i] = p[j]
        /\ Untouched(Here) /\ hub' = hub
        /\ Here.token = client.last \/ Asks(Here)
    BY <1>1, <1>2, <1>12 DEF Resuming, Untouched
  <2>2. CASE Asks(Here)
    BY <1>4, <1>5, <1>8, <1>10, <2>2 DEF Pipeline, Coming
  <2>3. CASE Unserved'
    BY <1>5, <1>8, <1>10, <2>3 DEF Pipeline, Coming
  <2>4. CASE Here.token = client.last /\ ~Unserved'
    <3>1. /\ s \in Live(hub', current) /\ client.last.n # 0
          /\ client.last.life = hub'.sub[s].life
      BY <1>2, <2>1, <2>4 DEF Unserved
    <3>2. client.last.life = Life(hub, current)
      BY <1>1, <2>1, <3>1 DEF Serving, Live
    <3>3. Known(client, world) \/ Announced \/ client.last.n < hub.seq[current]
      BY <1>1, <3>1, <3>2 DEF LastOK
    <3>4. CASE Known(client, world) \/ Announced
      BY <1>5, <1>8, <1>10, <3>4 DEF Pipeline, Coming, Announced
    <3>5. CASE client.last.n < hub.seq[current]
      <4>1. /\ missed \in Seq(Nat) /\ missed # << >> /\ missed[Len(missed)] = hub'.seq[current]
        BY <1>1, <2>1, <2>4, <3>5, MissedFacts DEF missed
      <4>2. Len(missed) \in DOMAIN missed
        BY <4>1
      <4>3. Life(hub', current) \in Lives
        BY <1>1 DEF Life, Lives, MapsOK, Maps
      <4>4. /\ Len(missed) \in DOMAIN p /\ p[Len(missed)].type = "changed"
            /\ p[Len(missed)].n = hub'.seq[current]
        BY <4>1, <4>2, <4>3, ReplayFacts DEF p
      <4>5. \E i \in DOMAIN Here'.out : Here'.out[i].type = "changed" /\ Here'.out[i].n = hub'.seq[current]
        BY <2>1, <4>4
      <4>6. Arriving'
        BY <2>1, <3>5, <4>5 DEF Arriving
      <4> QED BY <1>5, <1>8, <1>10, <4>6 DEF Pipeline, Coming
    <3> QED BY <3>3, <3>4, <3>5
  <2> QED BY <2>1, <2>2, <2>3, <2>4
<1> QED BY <1>11, <1>12

\* The subscription is stored, acknowledged and caught up.
LEMMA FlowAcknowledge ==
  ASSUME FlowInv, StreamInv', UNCHANGED clientVars, NEW x \in Sessions, AcknowledgeSubscribe(x)
  PROVE  FlowInv'
<1> DEFINE s == sess[x].adding
           r == sess'[x]
<1>1. /\ StreamInv /\ MapsOK(hub) /\ sess[x] \in SessionRecords /\ Attached /\ FlowTypes
      /\ current \in Managers /\ sess \in [Sessions -> SessionRecords] /\ Numbering /\ AddingOK
      /\ Pipeline /\ fwd \in [Subs -> [on : Sessions \cup {None}, hw : Nat]]
      /\ s \in Subs /\ s # None /\ sess[x].state = "open"
      /\ UNCHANGED << world, worker, current, retiring >> /\ UNCHANGED << client, sock, outbox >>
  BY FlowParts DEF AcknowledgeSubscribe, FlowInv, clientVars, SessionRecords
<1>2. /\ sess' = [sess EXCEPT ![x] = r] /\ Acknowledged(x, r)
      /\ Moves(hub, hub', {}) /\ MapsOK(hub')
  BY AcknowledgeFacts
<1>3. PICK hw \in Nat : /\ fwd' = [fwd EXCEPT ![s] = [on |-> x, hw |-> hw]]
                        /\ s \in Live(hub', current) => hw <= hub'.seq[current]
  BY AcknowledgeFacts
<1>4. /\ r \in SessionRecords /\ r.adding = None /\ r.cur \in {None, s}
      /\ r.up = TRUE => r.state = "open" /\ sess[x].up = TRUE
  BY <1>2 DEF Acknowledged
<1>5. /\ sess' \in [Sessions -> SessionRecords]
      /\ \A y \in Sessions \ {x} : sess'[y] = sess[y]
  BY <1>1, <1>2, <1>4
<1>6. /\ fwd' \in [Subs -> [on : Sessions \cup {None}, hw : Nat]]
      /\ fwd'[s].on = x /\ fwd'[s].hw = hw /\ \A q \in Subs \ {s} : fwd'[q] = fwd[q]
  BY <1>1, <1>3
<1>7. fwd[s].on = None /\ \A y \in Sessions : sess[y].adding = s => x = y
  BY <1>1 DEF Attached
<1> HIDE DEF r, s
<1>8. FlowTypes'
  BY <1>1, <1>5, <1>6 DEF FlowTypes
<1>9. Attached'
  <2>1. ASSUME NEW y \in Sessions, sess'[y].cur # None PROVE fwd'[sess'[y].cur].on = y
    <3>1. CASE y = x BY <1>4, <1>6, <2>1, <3>1 DEF r
    <3>2. CASE y # x
      <4>1. /\ sess'[y].cur = sess[y].cur /\ sess[y].cur \in Subs /\ fwd[sess[y].cur].on = y
        BY <1>1, <1>5, <2>1, <3>2 DEF Attached, SessionRecords
      <4>2. sess[y].cur # s BY <1>7, <4>1, MuxAssumption
      <4> QED BY <1>6, <4>1, <4>2
    <3> QED BY <3>1, <3>2
  <2>2. ASSUME NEW y \in Sessions, sess'[y].adding # None
        PROVE  /\ fwd'[sess'[y].adding].on = None
               /\ \A z \in Sessions : sess'[z].adding = sess'[y].adding => y = z
    <3>1. y # x BY <1>4, <2>2 DEF r
    <3>2. /\ sess'[y].adding = sess[y].adding /\ sess[y].adding \in Subs
          /\ sess[y].adding # s
          /\ fwd[sess[y].adding].on = None
          /\ \A z \in Sessions : sess[z].adding = sess[y].adding => y = z
      BY <1>1, <1>5, <1>7, <2>2, <3>1 DEF Attached, SessionRecords
    <3>3. ASSUME NEW z \in Sessions, sess'[z].adding = sess'[y].adding PROVE y = z
      <4>1. z # x BY <1>4, <2>2, <3>3 DEF r
      <4> QED BY <1>5, <3>2, <3>3, <4>1
    <3> QED BY <1>6, <3>2, <3>3
  <2>3. ASSUME NEW y \in Sessions, sess'[y].up = TRUE PROVE sess'[y].state = "open"
    BY <1>1, <1>4, <1>5, <2>3 DEF Attached, r
  <2>4. ASSUME NEW q \in Subs, fwd'[q].on = None PROVE fwd'[q].hw = 0
    BY <1>1, <1>6, <2>4, MuxAssumption DEF Attached
  <2> QED BY <2>1, <2>2, <2>3, <2>4 DEF Attached
<1>10. Serving' /\ QueuedBounds' /\ LastBound' /\ LastOK'
  <2>1. \A q \in Subs : hub'.sub[q].state = "live" => hub'.sub[q].on \in {current, retiring'.on}
    BY <1>1, <1>2 DEF Numbering, Serving, Moves
  <2>2. ASSUME NEW q \in Live(hub', current) PROVE fwd'[q].hw <= hub'.seq[current]
    <3>0. q \in Subs BY DEF Live
    <3>1. q \in Live(hub, current) /\ hub'.seq[current] = hub.seq[current]
      BY <1>1, <1>2, <3>0, MovesLive DEF Stays
    <3> QED BY <1>1, <1>3, <1>6, <3>0, <3>1 DEF Numbering, Serving
  <2> QED BY <1>1, <1>2, <2>1, <2>2, NumbersKept
<1>11. FrameBounds'
  <2>1. ASSUME NEW y \in Sessions, NEW i \in DOMAIN sess'[y].out, sess'[y].out[i].type = "changed"
        PROVE  \/ \E j \in DOMAIN sess[y].out : sess[y].out[j] = sess'[y].out[i]
               \/ Bound(hub', sess'[y].out[i].n, sess'[y].out[i].life)
    <3>1. CASE y # x BY <1>5, <2>1, <3>1
    <3>2. CASE y = x
      <4> DEFINE missed == resumeUpdates(hub', current, sess[x].token.n)
                 p == Replay(missed, Life(hub', current))
      <4>1. \/ \E j \in DOMAIN sess[x].out : sess[x].out[j] = sess'[x].out[i]
            \/ \E j \in DOMAIN p : p[j] = sess'[x].out[i]
        BY <1>2, <2>1, <3>2 DEF Acknowledged, r
      <4>2. CASE \E j \in DOMAIN p : p[j] = sess'[x].out[i]
        <5>1. sess[x].token.n \in Nat BY <1>1 DEF SessionRecords, Tokens
        <5>2. missed \in Seq(Nat) /\ \A j \in DOMAIN missed : missed[j] <= hub'.seq[current]
          BY <1>1, <1>2, <5>1, MissedFacts
        <5> HIDE DEF missed
        <5>3. hub'.life[current] \in Nat BY <1>1, <1>2 DEF MapsOK, Maps
        <5>4. Life(hub', current) \in Lives BY <1>1, <5>3 DEF Life, Lives
        <5>5. PICK j \in DOMAIN p : p[j] = sess'[x].out[i] BY <4>2
        <5>6. /\ j \in DOMAIN missed /\ p[j].n = missed[j] /\ p[j].life = Life(hub', current)
          BY <5>2, <5>4, <5>5, ReplayFacts
        <5> HIDE DEF p
        <5>7. /\ sess'[x].out[i].life = Life(hub', current)
              /\ sess'[x].out[i].n <= hub'.seq[current]
          BY <5>2, <5>5, <5>6
        <5> QED BY <1>1, <3>2, <5>3, <5>7 DEF Bound, Life
      <4> QED BY <3>2, <4>1, <4>2
    <3> QED BY <3>1, <3>2
  <2> QED BY <1>1, <1>2, <1>8, <2>1, FramesKept DEF Numbering
<1>12. AddingOK'
  <2>1. ASSUME NEW y \in Sessions, sess'[y].adding # None
        PROVE  sess'[y].adding = sess[y].adding /\ sess[y].adding \notin {}
    BY <1>4, <1>5, <2>1 DEF r
  <2> QED BY <1>1, <1>2, <1>8, <2>1, AddingKept
<1>13. Pipeline'
  <2>1. CASE ~(SocketOpen' /\ x = sock)
    <3>1. ASSUME SocketOpen'
          PROVE  /\ sess'[sock] = sess[sock]
                 /\ Here.cur # None => Here.cur \notin {} /\ fwd'[Here.cur] = fwd[Here.cur]
      <4>1. sock \in Sessions /\ x # sock
        BY <1>1, <2>1, <3>1 DEF SocketOpen, StreamInv
      <4>2. Here.cur # None => Here.cur \in Subs /\ fwd[Here.cur].on = sock
        BY <1>1, <4>1 DEF Here, Attached, SessionRecords
      <4>3. Here.cur # None => Here.cur # s
        BY <1>7, <4>1, <4>2, MuxAssumption
      <4> QED BY <1>5, <1>6, <4>1, <4>2, <4>3
    <3> QED BY <1>1, <1>2, <3>1, Elsewhere
  <2>2. CASE SocketOpen' /\ x = sock
    <3>1. Here' = r /\ sess[x] = Here
      BY <1>1, <2>2 DEF Here, r
    <3>2. r.up = TRUE
      <4>1. r.up BY <1>1, <2>2 DEF SocketOpen, r
      <4>2. r.up \in BOOLEAN BY <1>4 DEF SessionRecords
      <4> QED BY <4>1, <4>2
    <3>3. SocketOpen
      BY <1>1, <1>4, <2>2, <3>2 DEF SocketOpen
    <3> QED BY <1>1, <1>2, <2>2, <3>1, <3>2, <3>3, AcknowledgedHere DEF s
  <2> QED BY <2>1, <2>2
<1> QED BY <1>8, <1>9, <1>10, <1>11, <1>12, <1>13 DEF FlowInv, Numbering

\* The replaced manager is stopped, when no session is left to be told.
LEMMA FlowStopReplaced ==
  ASSUME FlowInv, StreamInv', UNCHANGED clientVars, StopReplaced
  PROVE  FlowInv'
<1> DEFINE m == retiring.on
<1>1. /\ StreamInv /\ MapsOK(hub) /\ MapsOK(hub') /\ Attached /\ FlowTypes /\ m \in Managers
      /\ current \in Managers /\ Numbering /\ AddingOK /\ Pipeline
      /\ UNCHANGED << world, worker, current, sess, fwd >> /\ UNCHANGED << client, sock, outbox >>
      /\ hub' = stopManager(hub, m)
  BY FlowParts DEF StopReplaced, FlowInv, clientVars, StreamInv
<1> HIDE DEF m
<1>2. Moves(hub, hub', {}) /\ Live(hub', m) = {}
  BY <1>1, StopMoves
<1>3. FlowTypes' /\ Attached'
  BY <1>1 DEF FlowTypes, Attached
<1>4. Serving' /\ QueuedBounds' /\ LastBound' /\ LastOK'
  <2>1. ASSUME NEW s \in Subs, hub'.sub[s].state = "live" PROVE hub'.sub[s].on = current
    <3>1. hub'.sub[s].on # m BY <1>2, <2>1 DEF Live
    <3>2. hub'.sub[s].on \in {current, m}
      BY <1>1, <1>2, <2>1 DEF Numbering, Serving, Moves, m
    <3> QED BY <3>1, <3>2
  <2>2. ASSUME NEW s \in Live(hub', current) PROVE fwd[s].hw <= hub'.seq[current]
    <3>0. s \in Subs BY DEF Live
    <3>1. s \in Live(hub, current) /\ hub'.seq[current] = hub.seq[current]
      BY <1>1, <1>2, <3>0, MovesLive DEF Stays
    <3> QED BY <1>1, <3>1 DEF Numbering, Serving
  <2> QED BY <1>1, <1>2, <2>1, <2>2, NumbersKept
<1>5. FrameBounds'
  <2>1. \A x \in Sessions : \A i \in DOMAIN sess'[x].out : \E j \in DOMAIN sess[x].out : sess[x].out[j] = sess'[x].out[i]
    BY <1>1
  <2> QED BY <1>1, <1>2, <1>3, <2>1, FramesKept DEF Numbering
<1>6. AddingOK'
  BY <1>1, <1>2, <1>3, AddingKept
<1>7. Pipeline'
  BY <1>1, <1>2, Elsewhere
<1> QED BY <1>3, <1>4, <1>5, <1>6, <1>7 DEF FlowInv, Numbering

\* A number of a manager that serves nobody is of an earlier numbering.
LEMMA NotNumbered ==
  ASSUME FlowInv, NEW m \in Managers, Live(hub, m) = {}
  PROVE  ~(client.last.n # 0 /\ client.last.life = Life(hub, m))
<1>1. /\ MapsOK(hub) /\ hub.seq[m] = 0 /\ hub.life[m] \in Nat /\ client.last.n \in Nat /\ LastBound
  BY DEF FlowInv, StreamInv, MapsOK, Maps, FlowTypes, ClientOK, ClientRecord, Tokens, Numbering
<1> SUFFICES ASSUME client.last.n # 0, client.last.life = << m, hub.life[m] >> PROVE FALSE
  BY DEF Life
<1>2. PICK k \in Managers :
        /\ client.last.life[1] = k
        /\ client.last.life[2] < hub.life[k]
           \/ (client.last.life[2] = hub.life[k] /\ client.last.n <= hub.seq[k])
  BY <1>1 DEF LastBound, Bound
<1>3. client.last.life[1] = m /\ client.last.life[2] = hub.life[m]
  OBVIOUS
<1>4. client.last.n <= hub.seq[m]
  BY <1>1, <1>2, <1>3
<1> QED BY <1>1, <1>4

\* Nobody is served by the new manager yet.
LEMMA FlowSetTopology ==
  ASSUME FlowInv, StreamInv', UNCHANGED clientVars, NEW m \in Managers, setTopology(m)
  PROVE  FlowInv'
<1>1. /\ StreamInv /\ MapsOK(hub) /\ Attached /\ FlowTypes
      /\ current \in Managers /\ Numbering /\ AddingOK /\ Pipeline
      /\ UNCHANGED << world, hub, worker, sess, fwd >> /\ UNCHANGED << client, sock, outbox >>
      /\ current' = m /\ retiring'.on = current /\ retiring.on = None /\ m # current
  BY FlowParts DEF setTopology, FlowInv, clientVars, NotRetiring
<1>2. ASSUME NEW s \in Subs, hub.sub[s].state = "live" PROVE hub.sub[s].on = current
  BY <1>1, <1>2, HubAssumption DEF Numbering, Serving, MapsOK
<1>3. Live(hub, m) = {}
  BY <1>1, <1>2 DEF Live
<1>4. FlowTypes' /\ Attached' /\ AddingOK'
  BY <1>1 DEF FlowTypes, Attached, AddingOK
<1>5. Serving'
  BY <1>1, <1>2, <1>3 DEF Numbering, Serving
<1>6. QueuedBounds' /\ FrameBounds' /\ LastBound'
  BY <1>1 DEF Numbering, QueuedBounds, FrameBounds, LastBound
<1>7. LastOK'
  <2>1. ~(client.last.n # 0 /\ client.last.life = Life(hub, m))
    BY <1>3, NotNumbered
  <2> QED BY <1>1, <2>1 DEF LastOK
<1>8. Pipeline'
  <2> SUFFICES ASSUME SocketOpen PROVE (Resuming /\ InitialComing /\ ServedOK /\ Coming)'
    BY <1>1 DEF Pipeline, SocketOpen
  <2>1. (Resuming /\ InitialComing /\ ServedOK)'
    BY <1>1 DEF Pipeline, Resuming, InitialComing, ServedOK, Here, Asks, AddsAnew, Wakes
  <2>2. Unserved'
    BY <1>1, <1>3 DEF Unserved, Here
  <2> QED BY <2>1, <2>2 DEF Coming
<1> QED BY <1>4, <1>5, <1>6, <1>7, <1>8 DEF FlowInv, Numbering

-----------------------------------------------------------------------------
\* A change is announced, for whoever waits for it.
LEMMA FlowChange ==
  ASSUME FlowInv, StreamInv', UNCHANGED muxVars, UNCHANGED clientVars, NEW w \in Workers, Change(w, current)
  PROVE  FlowInv'
<1>1. /\ StreamInv /\ MapsOK(hub) /\ Attached /\ FlowTypes
      /\ current \in Managers /\ Numbering /\ AddingOK /\ Pipeline
      /\ UNCHANGED << hub, current, retiring, sess, fwd >> /\ UNCHANGED << client, sock, outbox >>
      /\ world' = world + 1 /\ worker[w].pc = "idle" /\ worker \in [Workers -> InformerState]
      /\ worker' = [worker EXCEPT ![w] = [worker[w] EXCEPT !.pc = "announce", !.on = current]]
  BY FlowParts DEF Change, FlowInv, muxVars, clientVars, StreamInv, WorkersOK
<1>2. /\ worker'[w].pc = "announce" /\ worker'[w].on = current /\ worker'[w].to = worker[w].to
      /\ \A v \in Workers \ {w} : worker'[v] = worker[v]
  BY <1>1 DEF InformerState
<1>3. Announced'
  BY <1>1, <1>2 DEF Announced
<1>4. world' \in Nat
  BY <1>1 DEF FlowTypes
<1>5. FlowTypes' /\ Attached' /\ AddingOK'
  BY <1>1, <1>4 DEF FlowTypes, Attached, AddingOK
<1>6. worker[w].to = {}
  BY <1>1 DEF Numbering, Serving
<1>7. Serving'
  <2>1. \A v \in Workers : worker'[v].pc # "send" => worker'[v].to = {}
    BY <1>1, <1>2, <1>6 DEF Numbering, Serving
  <2>2. \A v \in Workers : \A s \in worker'[v].to : hub.sub[s].state = "live" =>
          hub.sub[s].on = worker'[v].on /\ worker'[v].n <= hub.seq[worker'[v].on]
    BY <1>1, <1>2, <1>6 DEF Numbering, Serving
  <2> QED BY <1>1, <2>1, <2>2 DEF Numbering, Serving
<1>8. QueuedBounds' /\ FrameBounds' /\ LastBound' /\ LastOK'
  BY <1>1, <1>3 DEF Numbering, QueuedBounds, FrameBounds, LastBound, LastOK
<1>9. Pipeline'
  <2> SUFFICES ASSUME SocketOpen PROVE (Resuming /\ InitialComing /\ ServedOK /\ Coming)'
    BY <1>1 DEF Pipeline, SocketOpen
  <2>1. (Resuming /\ InitialComing /\ ServedOK)'
    BY <1>1 DEF Pipeline, Resuming, InitialComing, ServedOK, Here, Asks, AddsAnew, Wakes
  <2> QED BY <1>3, <2>1 DEF Coming
<1> QED BY <1>5, <1>7, <1>8, <1>9 DEF FlowInv, Numbering

\* Here no subscriber is sent to once it is resyncing, so none has to be dropped for that.
LEMMA FlowDropGoroutine ==
  ASSUME FlowInv, NEW s \in Subs, DropGoroutine(s)
  PROVE  FALSE
BY DEF FlowInv, Numbering, Serving, DropGoroutine

\* Manager m, which serves somebody, gives its next number.
NextNumber(h, g, m) ==
  /\ g.sub = h.sub /\ g.dropping = h.dropping /\ g.life = h.life
  /\ g.seq[m] = h.seq[m] + 1 /\ \A k \in Managers \ {m} : g.seq[k] = h.seq[k]

\* prepareBroadcast gives the next number, unless nobody listens.
LEMMA NextNumberFacts ==
  ASSUME NEW h, MapsOK(h), NEW m \in Managers
  PROVE  \/ Live(h, m) = {} /\ prepared(h, m) = h
         \/ Live(h, m) # {} /\ NextNumber(h, prepared(h, m), m)
<1>1. h \in Maps /\ (Live(h, m) = {} => h.seq[m] = 0)
  BY DEF MapsOK
<1>2. CASE Live(h, m) = {}
  BY <1>1, <1>2 DEF prepared, Numbered
<1>3. CASE Live(h, m) # {}
  <2> DEFINE n == h.seq[m] + 1
             b == Buffered(h.buf[m], n)
  <2>1. prepared(h, m) = [h EXCEPT !.seq[m] = n, !.buf[m] = b]
    BY <1>1, <1>3 DEF prepared, Numbered
  <2> HIDE DEF b
  <2> QED BY <1>1, <1>3, <2>1 DEF NextNumber, Maps
<1> QED BY <1>2, <1>3

\* A broadcast that finds nobody to send to.
LEMMA FlowNobody ==
  ASSUME FlowInv, StreamInv', UNCHANGED muxVars, UNCHANGED clientVars, NEW w \in Workers, prepareBroadcast(w),
         Live(hub, worker[w].on) = {}
  PROVE  FlowInv'
<1> DEFINE m == worker[w].on
<1>1. /\ StreamInv /\ MapsOK(hub) /\ Attached /\ FlowTypes /\ worker[w].pc = "announce"
      /\ current \in Managers /\ Numbering /\ AddingOK /\ Pipeline
      /\ UNCHANGED << world, current, retiring, sess, fwd >> /\ UNCHANGED << client, sock, outbox >>
      /\ worker \in [Workers -> InformerState] /\ m \in Managers
      /\ hub' = prepared(hub, m) /\ worker' = [worker EXCEPT ![w] = IdleWorker]
  BY FlowParts DEF prepareBroadcast, FlowInv, muxVars, clientVars, StreamInv, WorkersOK
<1> HIDE DEF m
<1>2. hub' = hub /\ Live(hub, m) = {}
  BY <1>1, NextNumberFacts DEF m
<1>3. /\ worker'[w].pc = "idle" /\ worker'[w].to = {}
      /\ \A v \in Workers \ {w} : worker'[v] = worker[v]
  BY <1>1 DEF IdleWorker
<1>4. Announced /\ ~Announced' => Live(hub, current) = {}
  BY <1>1, <1>2, <1>3 DEF Announced, m
<1>5. worker[w].to = {}
  BY <1>1 DEF Numbering, Serving
<1>6. FlowTypes' /\ Attached' /\ AddingOK'
  BY <1>1, <1>2 DEF FlowTypes, Attached, AddingOK
<1>7. Serving'
  <2>1. \A v \in Workers : worker'[v].pc # "send" => worker'[v].to = {}
    BY <1>1, <1>3 DEF Numbering, Serving
  <2>2. \A v \in Workers : \A s \in worker'[v].to : hub.sub[s].state = "live" =>
          hub.sub[s].on = worker'[v].on /\ worker'[v].n <= hub.seq[worker'[v].on]
    BY <1>1, <1>3 DEF Numbering, Serving
  <2> QED BY <1>1, <1>2, <2>1, <2>2 DEF Numbering, Serving
<1>8. QueuedBounds' /\ FrameBounds' /\ LastBound'
  BY <1>1, <1>2 DEF Numbering, QueuedBounds, FrameBounds, LastBound
<1>9. LastOK'
  <2>1. Live(hub, current) = {} => ~(client.last.n # 0 /\ client.last.life = Life(hub, current))
    BY <1>1, NotNumbered
  <2> QED BY <1>1, <1>2, <1>4, <2>1 DEF Numbering, LastOK
<1>10. Pipeline'
  <2> SUFFICES ASSUME SocketOpen PROVE (Resuming /\ InitialComing /\ ServedOK /\ Coming)'
    BY <1>1 DEF Pipeline, SocketOpen
  <2>1. (Resuming /\ InitialComing /\ ServedOK)'
    BY <1>1, <1>2 DEF Pipeline, Resuming, InitialComing, ServedOK, Here, Asks, AddsAnew, Wakes
  <2>2. Unserved => Unserved'
    BY <1>1, <1>2 DEF Unserved, Here
  <2>3. Live(hub, current) = {} => Unserved
    BY DEF Unserved
  <2>4. Arriving => Arriving'
    BY <1>1, <1>2, <1>3, <1>5 DEF Arriving, Here
  <2>5. Coming
    BY <1>1 DEF Pipeline
  <2>6. Here' = Here /\ client' = client /\ world' = world
    BY <1>1 DEF Here
  <2> QED BY <1>4, <2>1, <2>2, <2>3, <2>4, <2>5, <2>6 DEF Coming
<1> QED BY <1>6, <1>7, <1>8, <1>9, <1>10 DEF FlowInv, Numbering

\* A broadcast begins: what it carries comes to every reader of its manager.
LEMMA FlowBroadcast ==
  ASSUME FlowInv, StreamInv', UNCHANGED muxVars, UNCHANGED clientVars, NEW w \in Workers, prepareBroadcast(w),
         Live(hub, worker[w].on) # {}
  PROVE  FlowInv'
<1> DEFINE m == worker[w].on
           n == hub.seq[m] + 1
           t == Live(hub, m)
<1>1. /\ StreamInv /\ MapsOK(hub) /\ Attached /\ FlowTypes /\ worker[w].pc = "announce"
      /\ current \in Managers /\ AddingOK /\ Pipeline /\ hub \in Maps
      /\ Serving /\ QueuedBounds /\ FrameBounds /\ LastBound /\ LastOK
      /\ UNCHANGED << world, current, retiring, sess, fwd >> /\ UNCHANGED << client, sock, outbox >>
      /\ worker \in [Workers -> InformerState] /\ m \in Managers
      /\ hub' = prepared(hub, m)
      /\ worker' = [worker EXCEPT ![w] = [worker[w] EXCEPT !.pc = "send", !.n = n, !.to = t]]
  BY FlowParts DEF prepareBroadcast, FlowInv, Numbering, muxVars, clientVars, StreamInv, WorkersOK
<1> HIDE DEF n, t
<1>2. /\ worker'[w].pc = "send" /\ worker'[w].n = n /\ worker'[w].to = t /\ worker'[w].on = m
      /\ \A v \in Workers \ {w} : worker'[v] = worker[v]
  BY <1>1 DEF InformerState
<1> HIDE DEF m
<1>3. NextNumber(hub, hub', m)
  BY <1>1, NextNumberFacts DEF m
<1>4. /\ hub'.sub = hub.sub /\ hub'.dropping = hub.dropping /\ hub'.life = hub.life
      /\ hub'.seq[m] = n /\ n = hub.seq[m] + 1 /\ \A k \in Managers \ {m} : hub'.seq[k] = hub.seq[k]
  BY <1>3 DEF NextNumber, n
<1>5. \A k \in Managers : hub.seq[k] \in Nat /\ hub'.seq[k] \in Nat /\ hub.seq[k] <= hub'.seq[k]
  <2> TAKE k \in Managers
  <2>1. hub.seq[k] \in Nat BY <1>1 DEF Maps
  <2>2. CASE k = m BY <1>4, <2>1, <2>2
  <2>3. CASE k # m
    <3>1. hub'.seq[k] = hub.seq[k] BY <1>4, <2>3
    <3> QED BY <2>1, <3>1
  <2> QED BY <2>2, <2>3
<1>6. worker[w].to = {}
  BY <1>1 DEF Serving
<1>7. /\ \A k : Life(hub', k) = Life(hub, k) /\ Live(hub', k) = Live(hub, k)
      /\ \A s : ResetDue(hub', s) <=> ResetDue(hub, s)
  BY <1>4 DEF Life, Live, ResetDue
<1>8. FlowTypes' /\ Attached'
  BY <1>1 DEF FlowTypes, Attached
<1>9. AddingOK'
  BY <1>1, <1>7 DEF AddingOK
<1>10. Serving'
  <2>1. \A v \in Workers : worker'[v].pc # "send" => worker'[v].to = {}
    BY <1>1, <1>2 DEF Serving
  <2>2. ASSUME NEW v \in Workers, NEW s \in worker'[v].to, hub'.sub[s].state = "live"
        PROVE  hub'.sub[s].on = worker'[v].on /\ worker'[v].n <= hub'.seq[worker'[v].on]
    <3>1. CASE v = w
      <4>1. s \in Live(hub, m) BY <1>2, <2>2, <3>1 DEF t
      <4>2. hub.sub[s].on = m BY <4>1 DEF Live
      <4> QED BY <1>1, <1>2, <1>4, <1>5, <3>1, <4>2
    <3>2. CASE v # w
      <4>1. s \in Subs /\ worker'[v] = worker[v] /\ worker[v].n \in Nat
        BY <1>1, <1>2, <2>2, <3>2 DEF InformerState
      <4>2. hub.sub[s].on = worker[v].on /\ worker[v].n <= hub.seq[worker[v].on]
        BY <1>1, <1>4, <2>2, <4>1 DEF Serving
      <4>3. worker[v].on \in Managers
        BY <1>1, <1>4, <2>2, <4>1, <4>2 DEF MapsOK
      <4> QED BY <1>4, <1>5, <4>1, <4>2, <4>3
    <3> QED BY <3>1, <3>2
  <2>3. ASSUME NEW s \in Live(hub', current) PROVE fwd'[s].hw <= hub'.seq[current]
    <3>1. s \in Live(hub, current) /\ s \in Subs BY <1>7, <2>3 DEF Live
    <3>2. fwd[s].hw \in Nat /\ fwd[s].hw <= hub.seq[current] BY <1>1, <3>1 DEF Serving, FlowTypes
    <3> QED BY <1>1, <1>5, <3>2
  <2>4. \A s \in Subs : hub'.sub[s].state = "live" =>
       hub'.sub[s].life = Life(hub', hub'.sub[s].on) /\ hub'.sub[s].on \in {current', retiring'.on}
    BY <1>1, <1>4, <1>7 DEF Serving
  <2> QED BY <1>1, <1>4, <2>1, <2>2, <2>3, <2>4 DEF Serving
<1>11. \A i \in Nat : \A l : Bound(hub, i, l) => Bound(hub', i, l)
  <2> SUFFICES ASSUME NEW i \in Nat, NEW l, NEW k \in Managers, l[1] = k, l[2] \in Nat,
                      l[2] < hub.life[k] \/ (l[2] = hub.life[k] /\ i <= hub.seq[k])
               PROVE  Bound(hub', i, l)
    BY DEF Bound
  <2>1. i <= hub.seq[k] => i <= hub'.seq[k] BY <1>5
  <2> QED BY <1>4, <2>1 DEF Bound
<1>12. QueuedBounds'
  <2> SUFFICES ASSUME NEW s \in Subs, NEW i \in DOMAIN hub.sub[s].chan
               PROVE  Bound(hub', hub.sub[s].chan[i], hub.sub[s].life)
    BY <1>4 DEF QueuedBounds
  <2>1. hub.sub[s].chan \in Seq(Nat) BY <1>1 DEF Maps, Subscription
  <2>2. hub.sub[s].chan[i] \in Nat BY <2>1
  <2> QED BY <1>1, <1>11, <2>2 DEF QueuedBounds
<1>13. FrameBounds'
  <2> SUFFICES ASSUME NEW x \in Sessions, NEW i \in DOMAIN sess[x].out, sess[x].out[i].type = "changed"
               PROVE  Bound(hub', sess[x].out[i].n, sess[x].out[i].life)
    BY <1>1 DEF FrameBounds
  <2>1. sess[x].out \in Seq(Frames) BY <1>1 DEF FlowTypes, SessionRecords
  <2>2. sess[x].out[i] \in Frames BY <2>1
  <2>3. sess[x].out[i].n \in Nat BY <2>2 DEF Frames
  <2> QED BY <1>1, <1>11, <2>3 DEF FrameBounds
<1>14. client.last.n \in Nat
  BY <1>1 DEF FlowTypes, ClientOK, ClientRecord, Tokens
<1>15. LastBound'
  BY <1>1, <1>11, <1>14 DEF LastBound
<1>16. client.last.n # 0 /\ client.last.life = Life(hub, m) => client.last.n < hub'.seq[m]
  <2> SUFFICES ASSUME client.last.n # 0, client.last.life = << m, hub.life[m] >>
               PROVE  client.last.n < hub'.seq[m]
    BY DEF Life
  <2>1. PICK k \in Managers :
          /\ client.last.life[1] = k
          /\ client.last.life[2] < hub.life[k]
             \/ (client.last.life[2] = hub.life[k] /\ client.last.n <= hub.seq[k])
    BY <1>1 DEF LastBound, Bound
  <2>2. client.last.life[1] = m /\ client.last.life[2] = hub.life[m] /\ hub.life[m] \in Nat
    BY <1>1 DEF Maps
  <2>3. client.last.n <= hub.seq[m]
    BY <2>1, <2>2
  <2> QED BY <1>1, <1>4, <1>5, <1>14, <2>3
<1>17. current # m /\ Announced => Announced'
  <2> SUFFICES ASSUME current # m, NEW v \in Workers, worker[v].pc = "announce", worker[v].on = current
               PROVE  Announced'
    BY DEF Announced
  <2>1. v # w BY DEF m
  <2> QED BY <1>1, <1>2, <2>1 DEF Announced
<1>18. LastOK'
  <2>1. CASE current = m
    BY <1>1, <1>7, <1>16, <2>1 DEF LastOK
  <2>2. CASE current # m
    BY <1>1, <1>4, <1>7, <1>17, <2>2 DEF LastOK
  <2> QED BY <2>1, <2>2
<1>19. Pipeline'
  <2> SUFFICES ASSUME SocketOpen PROVE (Resuming /\ InitialComing /\ ServedOK /\ Coming)'
    BY <1>1 DEF Pipeline, SocketOpen
  <2>0. Here' = Here /\ client' = client /\ world' = world
    BY <1>1 DEF Here
  <2>1. Resuming' /\ InitialComing' /\ (Wakes => Wakes')
    BY <1>1, <2>0 DEF Pipeline, Resuming, InitialComing, Wakes
  <2>2. ServedOK'
    BY <1>1, <1>7, <2>0, <2>1 DEF Pipeline, ServedOK
  <2>3. Unserved => Unserved'
    BY <1>1, <1>4, <1>7, <2>0 DEF Unserved
  <2>4. Coming
    BY <1>1 DEF Pipeline
  <2>5. CASE current # m
    <3>1. Arriving => Arriving'
      BY <1>1, <1>2, <1>4, <1>6, <2>0, <2>5 DEF Arriving
    <3> QED BY <1>17, <2>0, <2>1, <2>2, <2>3, <2>4, <2>5, <3>1 DEF Coming
  <2>6. CASE current = m /\ ~Unserved'
    <3>1. /\ Here.cur \in Live(hub, m)
          /\ client.last.n = 0 \/ client.last.life = hub.sub[Here.cur].life
      BY <1>1, <1>4, <1>7, <2>0, <2>6 DEF Unserved
    <3>2. Here.cur \in Subs /\ hub.sub[Here.cur].life = Life(hub, m)
      BY <1>1, <3>1 DEF Live, Serving
    <3>3. client.last.n = 0 \/ client.last.n < hub'.seq[m]
      BY <1>16, <3>1, <3>2
    <3>4. fwd[Here.cur].hw < hub'.seq[m]
      <4>1. fwd[Here.cur].hw \in Nat /\ fwd[Here.cur].hw <= hub.seq[m]
        BY <1>1, <2>6, <3>1, <3>2 DEF Serving, FlowTypes
      <4> QED BY <1>1, <1>4, <1>5, <4>1
    <3>5. Here.cur \in worker'[w].to /\ worker'[w].n = hub'.seq[m]
      BY <1>2, <1>4, <3>1 DEF t
    <3>6. Arriving'
      BY <1>1, <2>0, <2>6, <3>3, <3>4, <3>5 DEF Arriving
    <3> QED BY <2>1, <2>2, <3>6 DEF Coming
  <2>7. CASE Unserved'
    BY <2>1, <2>2, <2>7 DEF Coming
  <2> QED BY <2>5, <2>6, <2>7
<1> QED BY <1>8, <1>9, <1>10, <1>12, <1>13, <1>15, <1>18, <1>19 DEF FlowInv, Numbering

\* g is h after number n has been offered to s: it is of no use to s, or it is queued,
\* or makes room for a RESET.
Offered(h, g, s, n) ==
  /\ g.seq = h.seq /\ g.life = h.life /\ g.dropping = h.dropping
  /\ \A q \in Subs \ {s} : g.sub[q] = h.sub[q]
  /\ \/ g.sub[s] = h.sub[s] /\ (h.sub[s].resyncing = TRUE \/ h.sub[s].state # "live")
     \/ /\ h.sub[s].state = "live"
        /\ g.sub[s].state = "live" /\ g.sub[s].on = h.sub[s].on /\ g.sub[s].life = h.sub[s].life
        /\ \A i \in DOMAIN g.sub[s].chan : \/ g.sub[s].chan[i] \in {n, Reset}
                                           \/ \E j \in DOMAIN h.sub[s].chan : h.sub[s].chan[j] = g.sub[s].chan[i]
        /\ \/ /\ g.sub[s].resyncing = h.sub[s].resyncing
              /\ \A j \in DOMAIN h.sub[s].chan : \E i \in DOMAIN g.sub[s].chan : g.sub[s].chan[i] = h.sub[s].chan[j]
              /\ \E i \in DOMAIN g.sub[s].chan : g.sub[s].chan[i] = n
           \/ g.sub[s].resyncing = TRUE /\ HasReset(g.sub[s].chan)

\* What a channel holds once a number is put at its end.
LEMMA AppendedItem ==
  ASSUME NEW q \in Seq(Nat), NEW n \in Nat
  PROVE  /\ \A j \in DOMAIN q : \E i \in DOMAIN Append(q, n) : Append(q, n)[i] = q[j]
         /\ \E i \in DOMAIN Append(q, n) : Append(q, n)[i] = n
         /\ \A i \in DOMAIN Append(q, n) : Append(q, n)[i] = n \/ \E j \in DOMAIN q : q[j] = Append(q, n)[i]
<1> DEFINE p == Append(q, n)
<1>1. /\ Len(q) \in Nat /\ DOMAIN q = 1 .. Len(q) /\ DOMAIN p = 1 .. Len(q) + 1
      /\ p[Len(q) + 1] = n
  OBVIOUS
<1>2. \A i \in 1 .. Len(q) : p[i] = q[i]
  OBVIOUS
<1> HIDE DEF p
<1>3. Len(q) + 1 \in DOMAIN p /\ \A i \in DOMAIN p : i \in DOMAIN q \/ i = Len(q) + 1
  BY <1>1
<1>4. \A i \in DOMAIN q : i \in DOMAIN p /\ p[i] = q[i]
  BY <1>1, <1>2
<1>5. \A i \in DOMAIN p : p[i] = n \/ \E j \in DOMAIN q : q[j] = p[i]
  BY <1>1, <1>3, <1>4
<1> QED BY <1>1, <1>3, <1>4, <1>5 DEF p

\* A checked send: passed over, queued, or turned into a RESET.
LEMMA OfferedFacts ==
  ASSUME NEW h, MapsOK(h), NEW s \in Subs, NEW n \in Nat
  PROVE  Offered(h, IF h.sub[s].resyncing THEN h ELSE trySend(h, s, n), s, n)
<1> DEFINE r == h.sub[s]
           c == r.chan
<1>1. h \in Maps /\ r \in Subscription /\ c \in Seq(Nat) /\ r.resyncing \in BOOLEAN
  BY DEF MapsOK, Maps, Subscription
<1>2. CASE r.resyncing
  <2>1. r.resyncing = TRUE BY <1>1, <1>2
  <2> QED BY <1>2, <2>1 DEF Offered
<1>3. CASE ~r.resyncing /\ r.state # "live"
  BY <1>3 DEF Offered, trySend
<1>4. CASE ~r.resyncing /\ r.state = "live" /\ Len(c) < SubscriberBufferSize
  <2> DEFINE a == Append(c, n)
             g == [h EXCEPT !.sub[s] = [r EXCEPT !.chan = a]]
  <2>1. trySend(h, s, n) = g
    BY <1>1, <1>4 DEF trySend, Maps
  <2>2. /\ \A j \in DOMAIN c : \E i \in DOMAIN a : a[i] = c[j]
        /\ \E i \in DOMAIN a : a[i] = n
        /\ \A i \in DOMAIN a : a[i] = n \/ \E j \in DOMAIN c : c[j] = a[i]
    <3>1. c \in Seq(Nat)
      BY <1>1
    <3> HIDE DEF c
    <3> QED BY <3>1, AppendedItem
  <2> HIDE DEF a
  <2>3. /\ g.seq = h.seq /\ g.life = h.life /\ g.dropping = h.dropping
        /\ \A q \in Subs \ {s} : g.sub[q] = h.sub[q]
        /\ g.sub[s] = [r EXCEPT !.chan = a]
    BY <1>1 DEF Maps
  <2> HIDE DEF g
  <2>4. /\ g.sub[s].state = "live" /\ g.sub[s].on = r.on /\ g.sub[s].life = r.life
        /\ g.sub[s].chan = a /\ g.sub[s].resyncing = r.resyncing
    BY <1>1, <1>4, <2>3 DEF Subscription
  <2>5. Offered(h, g, s, n)
    BY <1>4, <2>2, <2>3, <2>4 DEF Offered
  <2> QED BY <1>4, <2>1, <2>5
<1>5. CASE ~r.resyncing /\ r.state = "live" /\ ~(Len(c) < SubscriberBufferSize)
  <2> DEFINE b == Tail(c)
             a == Append(b, Reset)
             g == [h EXCEPT !.sub[s] = [r EXCEPT !.chan = a, !.resyncing = TRUE], !.dropping = h.dropping]
  <2>1. trySend(h, s, n) = g
    BY <1>1, <1>5 DEF trySend, Overflowed, Maps
  <2>2. c # << >>
    BY <1>1, <1>5, HubAssumption
  <2>3. b \in Seq(Nat) /\ Reset \in Nat /\ \A i \in DOMAIN b : \E j \in DOMAIN c : c[j] = b[i]
    BY <1>1, <2>2, TailItems DEF Reset
  <2> HIDE DEF b
  <2>4. /\ \E i \in DOMAIN a : a[i] = Reset
        /\ \A i \in DOMAIN a : a[i] = Reset \/ \E j \in DOMAIN b : b[j] = a[i]
    BY <2>3, AppendedItem
  <2> HIDE DEF a
  <2>5. /\ g.seq = h.seq /\ g.life = h.life /\ g.dropping = h.dropping
        /\ \A q \in Subs \ {s} : g.sub[q] = h.sub[q]
        /\ g.sub[s] = [r EXCEPT !.chan = a, !.resyncing = TRUE]
    BY <1>1 DEF Maps
  <2> HIDE DEF g
  <2>6. /\ g.sub[s].state = "live" /\ g.sub[s].on = r.on /\ g.sub[s].life = r.life
        /\ g.sub[s].chan = a /\ g.sub[s].resyncing = TRUE
    BY <1>1, <1>5, <2>5 DEF Subscription
  <2>7. HasReset(a) BY <2>4 DEF HasReset
  <2>8. \A i \in DOMAIN a : a[i] \in {n, Reset} \/ \E j \in DOMAIN c : c[j] = a[i]
    BY <2>3, <2>4
  <2>9. Offered(h, g, s, n)
    BY <1>5, <2>5, <2>6, <2>7, <2>8 DEF Offered
  <2> QED BY <1>5, <2>1, <2>9
<1> QED BY <1>2, <1>3, <1>4, <1>5

\* A broadcast reaches one of its subscribers.
LEMMA FlowSend ==
  ASSUME FlowInv, StreamInv', UNCHANGED muxVars, UNCHANGED clientVars,
         NEW w \in Workers, NEW s \in Subs, CheckedSend(w, s)
  PROVE  FlowInv'
<1> DEFINE n == worker[w].n
           v0 == worker'[w]
<1>1. /\ StreamInv /\ MapsOK(hub) /\ MapsOK(hub') /\ Attached /\ FlowTypes /\ worker[w].pc = "send"
      /\ current \in Managers /\ AddingOK /\ Pipeline /\ hub \in Maps /\ hub' \in Maps
      /\ Serving /\ QueuedBounds /\ FrameBounds /\ LastBound /\ LastOK
      /\ UNCHANGED << world, current, retiring, sess, fwd >> /\ UNCHANGED << client, sock, outbox >>
      /\ worker \in [Workers -> InformerState] /\ s \in worker[w].to
      /\ hub' = IF hub.sub[s].resyncing THEN hub ELSE trySend(hub, s, n)
      /\ worker' = [worker EXCEPT ![w] = Finished([worker[w] EXCEPT !.to = worker[w].to \ {s}])]
  BY FlowParts DEF CheckedSend, FlowInv, Numbering, muxVars, clientVars, StreamInv, WorkersOK, MapsOK
<1>2. n \in Nat
  BY <1>1 DEF InformerState
<1>3. Offered(hub, hub', s, n)
  BY <1>1, <1>2, OfferedFacts
<1>4. \A v \in Workers \ {w} : worker'[v] = worker[v]
  BY <1>1
<1>5. \/ v0.pc = "idle" /\ v0.to = {} /\ worker[w].to \ {s} = {}
      \/ v0.pc = "send" /\ v0.to = worker[w].to \ {s} /\ v0.n = n /\ v0.on = worker[w].on
  BY <1>1 DEF Finished, IdleWorker, InformerState
<1> HIDE DEF n, v0
<1>6. /\ hub'.seq = hub.seq /\ hub'.life = hub.life /\ hub'.dropping = hub.dropping
      /\ \A q \in Subs : hub'.sub[q].state = hub.sub[q].state /\ hub'.sub[q].on = hub.sub[q].on
                         /\ hub'.sub[q].life = hub.sub[q].life
      /\ \A q \in Subs \ {s} : hub'.sub[q] = hub.sub[q]
  BY <1>3 DEF Offered
<1>7. /\ \A k : Life(hub', k) = Life(hub, k) /\ Live(hub', k) = Live(hub, k)
      /\ \A i, l : Bound(hub', i, l) <=> Bound(hub, i, l)
  BY <1>6 DEF Life, Live, Bound
<1>8. \A q \in Subs : ResetDue(hub, q) => ResetDue(hub', q)
  <2> SUFFICES ASSUME ResetDue(hub, s) PROVE ResetDue(hub', s)
    BY <1>6 DEF ResetDue
  <2>1. CASE hub'.sub[s] = hub.sub[s] BY <2>1 DEF ResetDue
  <2>2. CASE hub'.sub[s].resyncing = TRUE /\ HasReset(hub'.sub[s].chan) BY <2>2 DEF ResetDue
  <2>3. CASE /\ hub'.sub[s].resyncing = hub.sub[s].resyncing /\ hub.sub[s].state = "live"
             /\ \A j \in DOMAIN hub.sub[s].chan :
                  \E i \in DOMAIN hub'.sub[s].chan : hub'.sub[s].chan[i] = hub.sub[s].chan[j]
    BY <2>3 DEF ResetDue, HasReset
  <2> QED BY <1>3, <2>1, <2>2, <2>3 DEF Offered
<1>9. FlowTypes' /\ Attached'
  BY <1>1 DEF FlowTypes, Attached
<1>10. AddingOK'
  BY <1>1, <1>8 DEF AddingOK, FlowTypes, SessionRecords
<1>11. Serving'
  <2>1. \A v \in Workers : worker'[v].pc # "send" => worker'[v].to = {}
    BY <1>1, <1>4, <1>5 DEF Serving, v0
  <2>2. ASSUME NEW v \in Workers, NEW q \in worker'[v].to, hub'.sub[q].state = "live"
        PROVE  hub'.sub[q].on = worker'[v].on /\ worker'[v].n <= hub'.seq[worker'[v].on]
    <3>1. q \in worker[v].to /\ worker'[v].n = worker[v].n /\ worker'[v].on = worker[v].on
      BY <1>4, <1>5, <2>2 DEF v0, n
    <3>2. q \in Subs BY <1>1, <3>1 DEF InformerState
    <3> QED BY <1>1, <1>6, <2>2, <3>1, <3>2 DEF Serving
  <2>3. \A q \in Live(hub', current') : fwd'[q].hw <= hub'.seq[current']
    BY <1>1, <1>6, <1>7 DEF Serving
  <2>4. \A q \in Subs : hub'.sub[q].state = "live" =>
       hub'.sub[q].life = Life(hub', hub'.sub[q].on) /\ hub'.sub[q].on \in {current', retiring'.on}
    BY <1>1, <1>6, <1>7 DEF Serving
  <2> QED BY <1>1, <1>6, <2>1, <2>2, <2>3, <2>4 DEF Serving
<1>12. hub.sub[s].state = "live" => Bound(hub, n, hub.sub[s].life) /\ Bound(hub, Reset, hub.sub[s].life)
  <2> SUFFICES ASSUME hub.sub[s].state = "live"
               PROVE  Bound(hub, n, hub.sub[s].life) /\ Bound(hub, Reset, hub.sub[s].life)
    OBVIOUS
  <2> DEFINE m == hub.sub[s].on
  <2>1. /\ m \in Managers /\ hub.sub[s].life = << m, hub.life[m] >> /\ n <= hub.seq[m]
    BY <1>1 DEF Serving, MapsOK, Life, n
  <2>2. hub.life[m] \in Nat /\ hub.seq[m] \in Nat /\ Reset <= hub.seq[m]
    BY <1>1, <2>1 DEF Maps, Reset
  <2>3. hub.sub[s].life[1] = m /\ hub.sub[s].life[2] = hub.life[m]
    BY <2>1
  <2> QED BY <2>1, <2>2, <2>3 DEF Bound
<1>13. QueuedBounds'
  <2> SUFFICES ASSUME NEW q \in Subs, NEW i \in DOMAIN hub'.sub[q].chan
               PROVE  Bound(hub, hub'.sub[q].chan[i], hub'.sub[q].life)
    BY <1>7 DEF QueuedBounds
  <2>1. CASE hub'.sub[q] = hub.sub[q] BY <1>1, <2>1 DEF QueuedBounds
  <2>2. CASE hub'.sub[q] # hub.sub[q]
    <3>1. /\ q = s /\ hub.sub[s].state = "live"
          /\ \/ hub'.sub[s].chan[i] \in {n, Reset}
             \/ \E j \in DOMAIN hub.sub[s].chan : hub.sub[s].chan[j] = hub'.sub[s].chan[i]
      BY <1>3, <2>2 DEF Offered
    <3> QED BY <1>1, <1>6, <1>12, <3>1 DEF QueuedBounds
  <2> QED BY <2>1, <2>2
<1>14. FrameBounds' /\ LastBound'
  BY <1>1, <1>7 DEF FrameBounds, LastBound
<1>15. Announced => Announced'
  BY <1>1, <1>4 DEF Announced
<1>16. LastOK'
  BY <1>1, <1>6, <1>7, <1>15 DEF LastOK
<1>17. Pipeline'
  <2> SUFFICES ASSUME SocketOpen PROVE (Resuming /\ InitialComing /\ ServedOK /\ Coming)'
    BY <1>1 DEF Pipeline, SocketOpen
  <2>0. /\ Here' = Here /\ client' = client /\ world' = world /\ sock \in Sessions
        /\ Here.cur # None => Here.cur \in Subs
    BY <1>1 DEF Here, SocketOpen, StreamInv, FlowTypes, SessionRecords
  <2>1. Resuming' /\ InitialComing' /\ (Wakes => Wakes')
    BY <1>1, <2>0 DEF Pipeline, Resuming, InitialComing, Wakes
  <2>2. ServedOK'
    BY <1>1, <1>8, <2>0, <2>1 DEF Pipeline, ServedOK
  <2>3. CASE Unserved'
    BY <2>1, <2>2, <2>3 DEF Coming
  <2>4. CASE ~Unserved'
    <3>1. /\ Here.cur # None /\ Here.cur \in Live(hub, current) /\ hub'.sub[Here.cur].resyncing # TRUE
          /\ ~(client.last.n # 0 /\ client.last.life # hub.sub[Here.cur].life)
          /\ Here.cur \in Subs
      BY <1>1, <1>6, <1>7, <2>0, <2>4 DEF Unserved
    <3>2. /\ \A j \in DOMAIN hub.sub[Here.cur].chan :
               \E i \in DOMAIN hub'.sub[Here.cur].chan : hub'.sub[Here.cur].chan[i] = hub.sub[Here.cur].chan[j]
          /\ hub'.sub[Here.cur].resyncing = hub.sub[Here.cur].resyncing
          /\ Here.cur = s => \E i \in DOMAIN hub'.sub[s].chan : hub'.sub[s].chan[i] = n
      <4>1. CASE Here.cur # s BY <1>6, <3>1, <4>1
      <4>2. CASE Here.cur = s
        <5>1. hub.sub[s].state = "live" BY <3>1, <4>2 DEF Live
        <5> QED BY <1>3, <3>1, <4>2, <5>1 DEF Offered
      <4> QED BY <4>1, <4>2
    <3>3. ~Unserved
      BY <3>1, <3>2 DEF Unserved
    <3>4. ASSUME Arriving PROVE Arriving'
      <4> DEFINE q == hub.seq[current]
      <4>1. /\ client.last.n = 0 \/ client.last.n < q
            /\ hub'.seq[current] = q /\ current' = current
        BY <1>1, <1>6, <3>4 DEF Arriving
      <4>2. CASE \E i \in DOMAIN Here.out : Here.out[i].type = "changed" /\ Here.out[i].n = q
        BY <2>0, <4>1, <4>2 DEF Arriving
      <4>3. CASE fwd[Here.cur].hw < q /\ \E i \in DOMAIN hub.sub[Here.cur].chan : hub.sub[Here.cur].chan[i] = q
        <5>1. \E i \in DOMAIN hub'.sub[Here.cur].chan : hub'.sub[Here.cur].chan[i] = q
          BY <3>2, <4>3
        <5> QED BY <1>1, <2>0, <4>1, <4>3, <5>1 DEF Arriving
      <4>4. ASSUME fwd[Here.cur].hw < q, NEW v \in Workers, Here.cur \in worker[v].to, worker[v].n = q
            PROVE  Arriving'
        <5>1. CASE v = w /\ Here.cur = s
          <6>1. \E i \in DOMAIN hub'.sub[Here.cur].chan : hub'.sub[Here.cur].chan[i] = q
            BY <3>2, <4>4, <5>1 DEF n
          <6> QED BY <1>1, <2>0, <4>1, <4>4, <6>1 DEF Arriving
        <5>2. CASE ~(v = w /\ Here.cur = s)
          <6>1. Here.cur \in worker'[v].to /\ worker'[v].n = q
            BY <1>4, <1>5, <4>4, <5>2 DEF v0, n
          <6> QED BY <1>1, <2>0, <4>1, <4>4, <6>1 DEF Arriving
        <5> QED BY <5>1, <5>2
      <4> QED BY <3>4, <4>2, <4>3, <4>4 DEF Arriving
    <3>5. Coming BY <1>1 DEF Pipeline
    <3> QED BY <1>15, <2>0, <2>1, <2>2, <3>3, <3>4, <3>5 DEF Coming
  <2> QED BY <2>3, <2>4
<1> QED BY <1>9, <1>10, <1>11, <1>13, <1>14, <1>16, <1>17 DEF FlowInv, Numbering

\* Requests carry the tokens they were made of.
LEMMA RequestsFacts ==
  ASSUME NEW tokens \in Seq(Tokens)
  PROVE  /\ Requests(tokens) \in Seq(Asked) /\ DOMAIN Requests(tokens) = DOMAIN tokens
         /\ \A i \in DOMAIN tokens : Requests(tokens)[i].token = tokens[i]
         /\ tokens = << >> => Requests(tokens) = << >>
<1> DEFINE p == Requests(tokens)
<1>1. /\ DOMAIN tokens = 1 .. Len(tokens) /\ Len(tokens) \in Nat
      /\ p = [i \in 1 .. Len(tokens) |-> [type |-> "request", token |-> tokens[i]]]
  BY DEF Requests
<1>2. \A i \in 1 .. Len(tokens) : tokens[i] \in Tokens
  OBVIOUS
<1> HIDE DEF p
<1>3. DOMAIN p = 1 .. Len(tokens)
  BY <1>1
<1>4. \A i \in 1 .. Len(tokens) : p[i] \in Asked /\ p[i].token = tokens[i]
  BY <1>1, <1>2 DEF Asked
<1>5. p \in [1 .. Len(tokens) -> Asked]
  BY <1>1, <1>4
<1>6. p \in Seq(Asked)
  BY <1>1, <1>5
<1>7. tokens = << >> => Len(tokens) = 0
  OBVIOUS
<1>8. tokens = << >> => p = << >>
  BY <1>3, <1>6, <1>7
<1> QED BY <1>1, <1>3, <1>4, <1>6, <1>8 DEF p

\* Items of two queues put together.
LEMMA JoinedFacts ==
  ASSUME NEW S, NEW q \in Seq(S), NEW p \in Seq(S)
  PROVE  LET r == q \o p IN
         /\ r \in Seq(S)
         /\ \A i \in DOMAIN q : i \in DOMAIN r /\ r[i] = q[i]
         /\ \A i \in DOMAIN p : Len(q) + i \in DOMAIN r /\ r[Len(q) + i] = p[i]
         /\ \A j \in DOMAIN r : \/ j \in DOMAIN q /\ r[j] = q[j]
                                \/ \E i \in DOMAIN p : j = Len(q) + i /\ p[i] = r[j]
         /\ p = << >> => r = q
         /\ p # << >> => r # << >>
<1> DEFINE r == q \o p
<1>1. /\ r \in Seq(S) /\ Len(q) \in Nat /\ Len(p) \in Nat /\ Len(r) = Len(q) + Len(p)
      /\ DOMAIN q = 1 .. Len(q) /\ DOMAIN p = 1 .. Len(p) /\ DOMAIN r = 1 .. Len(r)
  OBVIOUS
<1>2. \A i \in 1 .. Len(q) : r[i] = q[i]
  OBVIOUS
<1>3. \A i \in 1 .. Len(p) : r[Len(q) + i] = p[i]
  OBVIOUS
<1>4. p = << >> => r = q
  OBVIOUS
<1>5. p # << >> => Len(p) > 0
  OBVIOUS
<1> HIDE DEF r
<1>6. p # << >> => r # << >>
  BY <1>1, <1>5
<1>7. \A i \in DOMAIN q : i \in DOMAIN r /\ r[i] = q[i]
  BY <1>1, <1>2
<1>8. ASSUME NEW i \in DOMAIN p PROVE Len(q) + i \in DOMAIN r /\ r[Len(q) + i] = p[i]
  <2>1. Len(q) + i \in DOMAIN r BY <1>1
  <2> QED BY <1>1, <1>3, <2>1
<1>9. ASSUME NEW j \in DOMAIN r
      PROVE  \/ j \in DOMAIN q /\ r[j] = q[j]
             \/ \E i \in DOMAIN p : j = Len(q) + i /\ p[i] = r[j]
  <2>1. CASE j <= Len(q)
    <3>1. j \in 1 .. Len(q) BY <1>1, <2>1
    <3> QED BY <1>1, <1>2, <3>1
  <2>2. CASE ~(j <= Len(q))
    <3>1. j - Len(q) \in 1 .. Len(p) /\ Len(q) + (j - Len(q)) = j BY <1>1, <2>2
    <3> QED BY <1>1, <1>3, <3>1
  <2> QED BY <2>1, <2>2
<1> QED BY <1>1, <1>4, <1>6, <1>7, <1>8, <1>9 DEF r

\* The effects have been run, and the reader has seen the clock.
LEMMA Performed ==
  ASSUME NEW c, ClientOK(c)
  PROVE  LET d == Rendered(c) IN
         /\ ClientOK(d) /\ SameStream(c, d) /\ d.sends = << >>
         /\ expectsReset(d) = expectsReset(c)
         /\ \A w \in Nat : Known(c, w) => Known(d, w)
<1> DEFINE d == Rendered(c)
           e == SignalRefetch(c)
<1>1. ClientOK(e) /\ SameStream(c, e) /\ \A w \in Nat : Known(c, w) => Known(e, w)
  BY RefetchFacts
<1>2. d = [e EXCEPT !.sends = << >>] /\ << >> \in Seq(Tokens)
  BY DEF Rendered
<1> HIDE DEF d, e
<1>3. d \in ClientRecord
  BY <1>1, <1>2 DEF ClientOK, ClientRecord
<1>4. /\ d.phase = e.phase /\ d.expects = e.expects /\ d.last = e.last /\ d.connected = e.connected
      /\ d.refused = e.refused /\ d.sends = << >> /\ d.pending = e.pending /\ d.raced = e.raced
      /\ d.muted = e.muted /\ d.fetch = e.fetch /\ d.trailing = e.trailing /\ d.data = e.data
  BY <1>1, <1>2 DEF ClientOK, ClientRecord
<1>5. ClientOK(d)
  BY <1>1, <1>3, <1>4 DEF ClientOK
<1> QED BY <1>1, <1>4, <1>5 DEF d, SameStream, expectsReset, Known, Fetching

\* A step of the client alone that leaves its stream as it is.
LEMMA ClientQuiet ==
  ASSUME FlowInv, StreamInv', Quiet, UNCHANGED << sess, sock, outbox >>,
         ClientOK(client'), SameStream(client, client'), client'.sends = << >>,
         Known(client, world) => Known(client', world)
  PROVE  FlowInv'
<1>1. /\ StreamInv /\ Attached /\ FlowTypes /\ AddingOK /\ Pipeline
      /\ Serving /\ QueuedBounds /\ FrameBounds /\ LastBound /\ LastOK
      /\ UNCHANGED << world, hub, worker, current, retiring, fwd >> /\ UNCHANGED << sess, sock, outbox >>
  BY DEF FlowInv, Numbering, Quiet
<1>2. /\ client'.phase = client.phase /\ client'.expects = client.expects /\ client'.last = client.last
      /\ client'.connected = client.connected /\ client'.refused = client.refused
  BY DEF SameStream
<1>3. FlowTypes'
  BY <1>1, <1>2 DEF FlowTypes
<1>4. Attached' /\ AddingOK' /\ Serving' /\ QueuedBounds' /\ FrameBounds'
  BY <1>1 DEF Attached, AddingOK, Serving, QueuedBounds, FrameBounds
<1>5. LastBound' /\ LastOK'
  BY <1>1, <1>2 DEF LastBound, LastOK, Announced
<1>6. Pipeline'
  <2> SUFFICES ASSUME SocketOpen PROVE (Resuming /\ InitialComing /\ ServedOK /\ Coming)'
    BY <1>1 DEF Pipeline, SocketOpen
  <2>1. Here' = Here /\ (expectsReset(client)' <=> expectsReset(client)) 
    BY <1>1, <1>2 DEF Here, expectsReset
  <2>2. Resuming' /\ InitialComing'
    BY <1>1, <1>2, <2>1 DEF Pipeline, Resuming, InitialComing
  <2>3. Wakes <=> Wakes'
    BY <2>1 DEF Wakes
  <2>4. ServedOK'
    BY <1>1, <1>2, <2>1, <2>3 DEF Pipeline, ServedOK
  <2>5. (Unserved <=> Unserved') /\ (Arriving <=> Arriving') /\ (Announced <=> Announced')
    BY <1>1, <1>2, <2>1 DEF Unserved, Arriving, Announced
  <2>6. Coming'
    BY <1>1, <2>1, <2>5 DEF Pipeline, Coming
  <2> QED BY <2>2, <2>4, <2>6
<1> QED BY <1>3, <1>4, <1>5, <1>6 DEF FlowInv, Numbering

\* The client asks for a new subscription over its open socket.
LEMMA AskedHere ==
  ASSUME FlowInv, SocketOpen, UNCHANGED sock, NEW p \in Seq(Asked), p # << >>,
         \A i \in DOMAIN p : p[i].token.n = 0,
         Here'.inbox = Here.inbox \o p, Here'.cur = Here.cur, Here'.adding = Here.adding,
         Here'.token = Here.token, Here'.out = Here.out \/ Here.out # << >>
  PROVE  Pipeline'
<1>1. /\ Here \in SessionRecords /\ Here.inbox \in Seq(Asked) /\ Resuming
  BY DEF FlowInv, StreamInv, FlowTypes, SocketOpen, Pipeline, Here, SessionRecords
<1>2. /\ Here'.inbox # << >>
      /\ \A i \in DOMAIN p : Len(Here.inbox) + i \in DOMAIN Here'.inbox
                             /\ Here'.inbox[Len(Here.inbox) + i] = p[i]
      /\ \A j \in DOMAIN Here'.inbox : \/ j \in DOMAIN Here.inbox /\ Here'.inbox[j] = Here.inbox[j]
                                       \/ \E i \in DOMAIN p : p[i] = Here'.inbox[j]
  BY <1>1, JoinedFacts
<1>3. 1 \in DOMAIN p
  <2>1. DOMAIN p = 1 .. Len(p) /\ Len(p) \in Nat /\ Len(p) > 0 OBVIOUS
  <2> QED BY <2>1
<1>4. Asks(Here)'
  BY <1>2, <1>3 DEF Asks
<1>5. Untouched(Here) => Untouched(Here)'
  BY DEF Untouched
<1>6. Resuming'
  BY <1>1, <1>2, <1>4, <1>5 DEF Resuming
<1>7. (InitialComing /\ ServedOK /\ Coming)'
  BY <1>2, <1>4 DEF InitialComing, ServedOK, Coming
<1> QED BY <1>6, <1>7 DEF Pipeline

\* A step of the client with something of its socket.
LEMMA SocketStep ==
  ASSUME FlowInv, StreamInv', Quiet, sock \in Sessions, UNCHANGED << sock, outbox >>,
         NEW r \in SessionRecords, sess' = [sess EXCEPT ![sock] = r],
         r.cur = sess[sock].cur, r.adding = sess[sock].adding, r.up = sess[sock].up,
         r.state = sess[sock].state,
         \A i \in DOMAIN r.out : \E j \in DOMAIN sess[sock].out : sess[sock].out[j] = r.out[i],
         ClientOK(client'), client'.sends = << >>, client'.connected = TRUE,
         client'.phase # "connecting", LastBound', LastOK', Pipeline'
  PROVE  FlowInv'
<1>1. /\ StreamInv /\ Attached /\ FlowTypes /\ AddingOK
      /\ Serving /\ QueuedBounds /\ FrameBounds
      /\ UNCHANGED << world, hub, worker, current, retiring, fwd >>
  BY DEF FlowInv, Numbering, Quiet
<1>2. sess' \in [Sessions -> SessionRecords] /\ sess'[sock] = r
      /\ \A x \in Sessions \ {sock} : sess'[x] = sess[x]
  BY <1>1 DEF FlowTypes
<1>3. \A x \in Sessions : /\ sess'[x].cur = sess[x].cur /\ sess'[x].adding = sess[x].adding
                          /\ sess'[x].up = sess[x].up /\ sess'[x].state = sess[x].state
  BY <1>2
<1>4. FlowTypes'
  BY <1>1, <1>2 DEF FlowTypes
<1>5. Attached'
  BY <1>1, <1>3 DEF Attached
<1>6. AddingOK'
  BY <1>1, <1>3 DEF AddingOK
<1>7. Serving' /\ QueuedBounds'
  BY <1>1 DEF Serving, QueuedBounds
<1>8. FrameBounds'
  BY <1>1, <1>2 DEF FrameBounds
<1> QED BY <1>4, <1>5, <1>6, <1>7, <1>8 DEF FlowInv, Numbering

\* A request without a token goes to the socket, or waits for the next one.
LEMMA FlowPerformAsk ==
  ASSUME FlowInv, StreamInv', Quiet, UNCHANGED sock, NEW c, ClientOK(c), Subscribed(client, c), Perform(c)
  PROVE  FlowInv'
<1>1. /\ StreamInv /\ FlowTypes /\ client \in ClientRecord /\ client.sends = << >>
      /\ sess \in [Sessions -> SessionRecords] /\ sock \in Sessions \cup {None}
  BY DEF FlowInv, FlowTypes, ClientOK, StreamInv
<1>2. PICK t \in Tokens : t.n = 0 /\ c.sends = Append(client.sends, t)
  BY DEF Subscribed
<1>3. c.sends = << t >> /\ << t >> \in Seq(Tokens) /\ << t >> # << >>
  BY <1>1, <1>2
<1>4. /\ ClientOK(client') /\ client'.sends = << >> /\ client'.last.n = 0
      /\ client'.phase = "awaiting-ack" /\ client'.connected = client.connected
  BY Performed DEF Perform, SameStream, Subscribed
<1>5. LastBound' /\ LastOK'
  BY <1>4 DEF LastBound, LastOK
<1>6. CASE SocketOpen
  <2> DEFINE p == Requests(c.sends)
             b == sess[sock].inbox \o p
             r == [sess[sock] EXCEPT !.inbox = b]
  <2>1. /\ sock \in Sessions /\ sess[sock] \in SessionRecords /\ sess[sock].inbox \in Seq(Asked)
        /\ client.connected = TRUE
    BY <1>1, <1>6 DEF SocketOpen, SessionRecords, FlowTypes
  <2>2. /\ p \in Seq(Asked) /\ DOMAIN p = DOMAIN << t >> /\ \A i \in DOMAIN << t >> : p[i].token = << t >>[i]
    BY <1>3, RequestsFacts
  <2>3. DOMAIN << t >> = {1} /\ << t >>[1] = t
    OBVIOUS
  <2>4. p # << >> /\ \A i \in DOMAIN p : p[i].token.n = 0
    BY <1>2, <2>2, <2>3
  <2>5. sess' = [sess EXCEPT ![sock] = r] /\ outbox' = outbox
    BY <1>1, <1>6, <2>1 DEF Perform
  <2> HIDE DEF p
  <2>6. b \in Seq(Asked)
    BY <2>1, <2>2, JoinedFacts
  <2> HIDE DEF b
  <2>7. /\ r \in SessionRecords /\ r.cur = sess[sock].cur /\ r.adding = sess[sock].adding
        /\ r.up = sess[sock].up /\ r.state = sess[sock].state /\ r.out = sess[sock].out
        /\ r.inbox = b /\ r.token = sess[sock].token
    BY <2>1, <2>6 DEF SessionRecords
  <2> HIDE DEF r
  <2>8. Here = sess[sock] /\ Here' = r
    BY <1>1, <2>1, <2>5 DEF Here
  <2>9. Pipeline'
    BY <1>6, <2>2, <2>4, <2>7, <2>8, AskedHere DEF b
  <2>10. client'.connected = TRUE /\ client'.phase # "connecting"
    BY <1>4, <2>1
  <2> QED BY <1>4, <1>5, <2>1, <2>5, <2>7, <2>9, <2>10, SocketStep
<1>7. CASE ~SocketOpen
  <2>1. /\ UNCHANGED << world, hub, worker, current, retiring, fwd, sess, sock >>
        /\ outbox' = outbox \o << t >>
    BY <1>3, <1>7 DEF Quiet, Perform
  <2>2. /\ outbox' \in Seq(Tokens)
        /\ \A j \in DOMAIN outbox' : \/ j \in DOMAIN outbox /\ outbox'[j] = outbox[j]
                                     \/ \E i \in DOMAIN << t >> : << t >>[i] = outbox'[j]
    BY <1>1, <1>3, <2>1, JoinedFacts DEF FlowTypes
  <2>3. \A i \in DOMAIN << t >> : << t >>[i] = t
    OBVIOUS
  <2>4. \A j \in DOMAIN outbox' : outbox'[j].n = 0
    BY <1>1, <1>2, <2>2, <2>3 DEF FlowTypes
  <2>5. FlowTypes'
    BY <1>1, <1>4, <2>1, <2>2, <2>4 DEF FlowTypes
  <2>6. (Attached /\ AddingOK /\ Serving /\ QueuedBounds /\ FrameBounds)'
    BY <2>1 DEF FlowInv, Numbering, Attached, AddingOK, Serving, QueuedBounds, FrameBounds
  <2>7. Pipeline'
    BY <1>7, <2>1 DEF Pipeline, SocketOpen
  <2> QED BY <1>5, <2>5, <2>6, <2>7 DEF FlowInv, Numbering
<1> QED BY <1>6, <1>7

\* A manual refresh asks for a new subscription, whatever the cooldown.
LEMMA FlowRefresh ==
  ASSUME FlowInv, StreamInv', refreshOnce
  PROVE  FlowInv'
<1> DEFINE c == resyncSubscription(client, TRUE, TRUE)
<1>1. ClientOK(client)
  BY DEF FlowInv, FlowTypes
<1>2. ClientOK(c) /\ Subscribed(client, c)
  BY <1>1, ResyncFacts
<1>3. Quiet /\ UNCHANGED sock /\ Perform(c)
  BY DEF refreshOnce
<1> HIDE DEF c
<1> QED BY <1>2, <1>3, FlowPerformAsk

\* The batched changes are handed over as one fetch.
LEMMA FlowFlush ==
  ASSUME FlowInv, StreamInv', FlushFired
  PROVE  FlowInv'
<1> DEFINE c == flushed(client)
<1>1. /\ ClientOK(client) /\ client.sends = << >> /\ world \in Nat /\ StreamInv
      /\ sess \in [Sessions -> SessionRecords] /\ outbox \in Seq(Tokens)
  BY DEF FlowInv, FlowTypes
<1>2. /\ ClientOK(c) /\ SameStream(client, c) /\ c.sends = client.sends
      /\ (Known(client, world) => Known(c, world))
  BY <1>1, FlushedFacts
<1>3. Quiet /\ UNCHANGED sock /\ Perform(c)
  BY DEF FlushFired, flushPendingChanges
<1> HIDE DEF c
<1>4. /\ ClientOK(client') /\ SameStream(c, client') /\ client'.sends = << >>
      /\ (Known(c, world) => Known(client', world))
  BY <1>1, <1>2, <1>3, Performed DEF Perform
<1>5. SameStream(client, client')
  BY <1>2, <1>4 DEF SameStream
<1>6. c.sends = << >> /\ Requests(c.sends) = << >>
  <2>1. << >> \in Seq(Tokens) OBVIOUS
  <2> QED BY <1>1, <1>2, <2>1, RequestsFacts
<1>7. UNCHANGED << sess, outbox >>
  <2>1. CASE SocketOpen
    <3>1. sock \in Sessions /\ sess[sock] \in SessionRecords /\ sess[sock].inbox \in Seq(Asked)
      BY <1>1, <2>1 DEF SocketOpen, StreamInv, SessionRecords
    <3>2. sess[sock].inbox \o << >> = sess[sock].inbox
      BY <3>1
    <3>3. outbox' = outbox /\ sess' = [sess EXCEPT ![sock].inbox = sess[sock].inbox \o << >>]
      BY <1>3, <1>6, <2>1 DEF Perform
    <3>4. [sess[sock] EXCEPT !.inbox = sess[sock].inbox] = sess[sock]
      BY <3>1 DEF SessionRecords
    <3>5. sess' = [sess EXCEPT ![sock] = [sess[sock] EXCEPT !.inbox = sess[sock].inbox]]
      BY <3>2, <3>3
    <3> QED BY <1>1, <3>1, <3>3, <3>4, <3>5
  <2>2. CASE ~SocketOpen
    BY <1>1, <1>3, <1>6, <2>2 DEF Perform
  <2> QED BY <2>1, <2>2
<1> QED BY <1>2, <1>3, <1>4, <1>5, <1>7, ClientQuiet

\* The cooldown of resyncs ends.
LEMMA FlowCooldown ==
  ASSUME FlowInv, StreamInv', CooldownEnds
  PROVE  FlowInv'
<1>1. ClientOK(client) /\ client \in ClientRecord /\ client.sends = << >>
  BY DEF FlowInv, FlowTypes, ClientOK
<1>2. client' = [client EXCEPT !.cooling = FALSE] /\ Quiet /\ UNCHANGED << sess, sock, outbox >>
  BY DEF CooldownEnds
<1>3. client' \in ClientRecord
  BY <1>1, <1>2 DEF ClientRecord
<1>4. /\ client'.phase = client.phase /\ client'.expects = client.expects /\ client'.last = client.last
      /\ client'.connected = client.connected /\ client'.refused = client.refused
      /\ client'.sends = << >> /\ client'.pending = client.pending /\ client'.raced = client.raced
      /\ client'.muted = client.muted
      /\ client'.fetch = client.fetch /\ client'.trailing = client.trailing /\ client'.data = client.data
  BY <1>1, <1>2 DEF ClientRecord
<1>5. ClientOK(client') /\ SameStream(client, client') /\ (Known(client, world) => Known(client', world))
  BY <1>1, <1>3, <1>4 DEF ClientOK, SameStream, Known, Fetching
<1> QED BY <1>2, <1>4, <1>5, ClientQuiet

\* The fallback poll.
LEMMA FlowPoll ==
  ASSUME FlowInv, StreamInv', FallbackPoll
  PROVE  FlowInv'
<1>1. ClientOK(client) /\ client.sends = << >> /\ world \in Nat
  BY DEF FlowInv, FlowTypes
<1>2. client' = performFetch(client) /\ Quiet /\ UNCHANGED << sess, sock, outbox >>
  BY DEF FallbackPoll
<1>3. /\ ClientOK(client') /\ SameStream(client, client') /\ client'.sends = << >>
      /\ Fetching(client', world)
  BY <1>1, <1>2, PerformFetchFacts
<1> QED BY <1>2, <1>3, ClientQuiet DEF Known

\* The answer is what the stores hold now.
LEMMA FlowRead ==
  ASSUME FlowInv, StreamInv', SnapshotRead
  PROVE  FlowInv'
<1>1. ClientOK(client) /\ client \in ClientRecord /\ client.sends = << >> /\ world \in Nat
  BY DEF FlowInv, FlowTypes, ClientOK
<1>2. /\ client' = [client EXCEPT !.fetch = [state |-> "read", v |-> world],
                                   !.raced = FALSE, !.muted = FALSE]
      /\ Quiet /\ UNCHANGED << sess, sock, outbox >>
  BY DEF SnapshotRead, FetchAnswered
<1>3. client' \in ClientRecord
  BY <1>1, <1>2 DEF ClientRecord
<1>4. /\ client'.phase = client.phase /\ client'.expects = client.expects /\ client'.last = client.last
      /\ client'.connected = client.connected /\ client'.refused = client.refused
      /\ client'.sends = << >> /\ client'.fetch.state = "read" /\ client'.fetch.v = world
  BY <1>1, <1>2 DEF ClientRecord
<1>5. ClientOK(client') /\ SameStream(client, client') /\ Known(client', world)
  BY <1>3, <1>4 DEF ClientOK, SameStream, Known, Fetching
<1> QED BY <1>2, <1>4, <1>5, ClientQuiet

\* The answer is shown, and a trailing request starts.
LEMMA FlowApplied ==
  ASSUME FlowInv, StreamInv', SnapshotApplied
  PROVE  FlowInv'
<1> DEFINE f == [state |-> IF client.trailing THEN "asked" ELSE "idle", v |-> 0]
<1>1. /\ ClientOK(client) /\ client \in ClientRecord /\ client.sends = << >> /\ world \in Nat
      /\ client.fetch.state = "read" /\ client.fetch.v \in Nat /\ client.trailing \in BOOLEAN
  BY DEF FlowInv, FlowTypes, ClientOK, SnapshotApplied, ClientRecord
<1>2. /\ client' = [client EXCEPT !.data = client.fetch.v, !.trailing = FALSE, !.fetch = f]
      /\ Quiet /\ UNCHANGED << sess, sock, outbox >>
  BY DEF SnapshotApplied, FetchApplied
<1>3. f \in [state : {"idle", "asked", "read"}, v : Nat] /\ (client.trailing => f.state = "asked")
      /\ (client.trailing = FALSE => f.state = "idle")
  BY <1>1
<1> HIDE DEF f
<1>4. client' \in ClientRecord
  BY <1>1, <1>2, <1>3 DEF ClientRecord
<1>5. /\ client'.phase = client.phase /\ client'.expects = client.expects /\ client'.last = client.last
      /\ client'.connected = client.connected /\ client'.refused = client.refused
      /\ client'.sends = << >> /\ client'.pending = client.pending /\ client'.raced = client.raced
      /\ client'.muted = client.muted
      /\ client'.fetch = f /\ client'.trailing = FALSE /\ client'.data = client.fetch.v
  BY <1>1, <1>2 DEF ClientRecord
<1>6. ClientOK(client') /\ SameStream(client, client')
  BY <1>1, <1>4, <1>5, ProtocolAssumption DEF ClientOK, SameStream
<1>7. Known(client, world) => Known(client', world)
  <2>1. CASE client.pending > 0 \/ client.raced = TRUE \/ client.muted = TRUE
    BY <1>5, <2>1 DEF Known
  <2>2. CASE client.trailing = TRUE
    BY <1>3, <1>5, <2>2 DEF Known, Fetching
  <2>3. CASE client.trailing = FALSE /\ client.fetch.v = world
    BY <1>3, <1>5, <2>3 DEF Known, Fetching
  <2> QED BY <1>1, <2>1, <2>2, <2>3 DEF Known, Fetching
<1> QED BY <1>2, <1>5, <1>6, <1>7, ClientQuiet

-----------------------------------------------------------------------------
\* The connection is gone; what is requested now waits for the next.
LEMMA FlowLost ==
  ASSUME FlowInv, StreamInv', handleConnectionError
  PROVE  FlowInv'
<1> DEFINE c == connectionLost(client)
<1>1. /\ ClientOK(client) /\ client.sends = << >> /\ world \in Nat /\ outbox \in Seq(Tokens)
      /\ \A i \in DOMAIN outbox : outbox[i].n = 0
      /\ FlowTypes /\ LastBound /\ LastOK
  BY DEF FlowInv, FlowTypes, Numbering
<1>2. /\ client' = Rendered(c) /\ outbox' = outbox \o c.sends /\ sock' = None
      /\ UNCHANGED << world, hub, worker, current, retiring, fwd, sess >>
  BY DEF handleConnectionError, Quiet
<1>3. /\ ClientOK(c) /\ (Known(client, world) => Known(c, world))
      /\ \/ c.sends = << >> /\ c.last = client.last
         \/ c.last.n = 0 /\ \E t \in Tokens : t.n = 0 /\ c.sends = << t >>
  BY <1>1, LostFacts
<1> HIDE DEF c
<1>4. /\ ClientOK(client') /\ client'.sends = << >> /\ client'.last = c.last
      /\ (Known(c, world) => Known(client', world))
  BY <1>1, <1>2, <1>3, Performed DEF SameStream
<1>5. c.sends \in Seq(Tokens) /\ \A i \in DOMAIN c.sends : c.sends[i].n = 0
  <2>1. CASE c.sends = << >> BY <2>1
  <2>2. ASSUME NEW t \in Tokens, t.n = 0, c.sends = << t >>
        PROVE  c.sends \in Seq(Tokens) /\ \A i \in DOMAIN c.sends : c.sends[i].n = 0
    BY <2>2
  <2> QED BY <1>3, <2>1, <2>2
<1>6. outbox' \in Seq(Tokens) /\ \A i \in DOMAIN outbox' : outbox'[i].n = 0
  BY <1>1, <1>2, <1>5, JoinedFacts
<1>7. FlowTypes'
  BY <1>1, <1>2, <1>4, <1>6 DEF FlowTypes
<1>8. (Attached /\ AddingOK /\ Serving /\ QueuedBounds /\ FrameBounds)'
  BY <1>2 DEF FlowInv, Numbering, Attached, AddingOK, Serving, QueuedBounds, FrameBounds
<1>9. LastBound' /\ LastOK'
  BY <1>1, <1>2, <1>3, <1>4 DEF LastBound, LastOK, Announced
<1>10. Pipeline'
  BY <1>2 DEF Pipeline, SocketOpen
<1> QED BY <1>7, <1>8, <1>9, <1>10 DEF FlowInv, Numbering

\* A new connection: nothing is served on it yet, and the first request resumes, if any.
LEMMA FlowOpen ==
  ASSUME FlowInv, StreamInv', NEW x \in Sessions, handleOpen(x)
  PROVE  FlowInv'
<1> DEFINE c == connectionOpened(client)
           q == c.sends \o outbox
           r == OpenSession(Requests(q))
<1>1. /\ ClientOK(client) /\ client.sends = << >> /\ world \in Nat /\ outbox \in Seq(Tokens)
      /\ \A i \in DOMAIN outbox : outbox[i].n = 0
      /\ FlowTypes /\ LastBound /\ LastOK /\ Attached /\ AddingOK /\ FrameBounds /\ StreamInv
      /\ sess \in [Sessions -> SessionRecords]
      /\ Serving /\ QueuedBounds
  BY DEF FlowInv, FlowTypes, Numbering
<1>2. /\ client' = Rendered(c) /\ outbox' = << >> /\ sock' = x
      /\ sess' = [sess EXCEPT ![x] = r] /\ sess[x].state = "unused" /\ sock = None
      /\ UNCHANGED << world, hub, worker, current, retiring, fwd >>
  BY DEF handleOpen, Quiet
<1>3. /\ ClientOK(c) /\ c.connected = TRUE /\ (Known(client, world) => Known(c, world))
      /\ c.phase = "awaiting-ack"
      /\ \/ c.expects = FALSE /\ c.last = client.last /\ c.sends = << c.last >>
         \/ c.last.n = 0 /\ \E t \in Tokens : t.n = 0 /\ c.sends = << t >>
  BY <1>1, OpenedFacts
<1>4. c.last \in Tokens
  BY <1>3 DEF ClientOK, ClientRecord
<1> HIDE DEF c
<1>5. /\ ClientOK(client') /\ client'.sends = << >> /\ client'.last = c.last
      /\ (Known(c, world) => Known(client', world))
      /\ client'.connected = TRUE /\ client'.phase = "awaiting-ack" /\ client'.expects = c.expects
  BY <1>1, <1>2, <1>3, Performed DEF SameStream
<1>6. PICK t \in Tokens : /\ c.sends = << t >>
                          /\ \/ c.expects = FALSE /\ c.last = client.last /\ t = c.last
                             \/ c.last.n = 0 /\ t.n = 0
  BY <1>3, <1>4
<1>7. << t >> \in Seq(Tokens) /\ DOMAIN << t >> = {1} /\ << t >>[1] = t /\ Len(<< t >>) = 1
  OBVIOUS
<1>8. /\ q \in Seq(Tokens) /\ 1 \in DOMAIN q /\ q[1] = t
      /\ \A j \in DOMAIN q : j = 1 \/ q[j].n = 0
  <2> DEFINE a == << t >>
  <2>1. q = a \o outbox /\ a \in Seq(Tokens) /\ DOMAIN a = {1} /\ a[1] = t /\ Len(a) = 1
    BY <1>6, <1>7
  <2> HIDE DEF a, q
  <2> DEFINE z == a \o outbox
  <2>2. z \in Seq(Tokens) /\ \A i \in DOMAIN a : i \in DOMAIN z /\ z[i] = a[i]
    BY <1>1, <2>1, JoinedFacts
  <2>3. \A j \in DOMAIN z : \/ j \in DOMAIN a /\ z[j] = a[j]
                           \/ \E i \in DOMAIN outbox : outbox[i] = z[j]
    BY <1>1, <2>1, JoinedFacts
  <2> HIDE DEF z
  <2>4. \A j \in DOMAIN z : j = 1 \/ z[j].n = 0
    BY <1>1, <2>1, <2>3
  <2>5. q = z BY <2>1 DEF z
  <2> QED BY <2>1, <2>2, <2>4, <2>5
<1> HIDE DEF q
<1> DEFINE p == Requests(q)
<1>9. p \in Seq(Asked) /\ DOMAIN p = DOMAIN q /\ \A i \in DOMAIN q : p[i].token = q[i]
  BY <1>8, RequestsFacts
<1> HIDE DEF p
<1>10. r = [NoSession EXCEPT !.state = "open", !.up = TRUE, !.inbox = p]
  BY DEF OpenSession, p
<1> HIDE DEF r
<1>11. NoToken \in Tokens
  BY DEF NoToken, Tokens, Lives
<1>12. << >> \in Seq(Frames)
  OBVIOUS
<1>13. /\ r \in SessionRecords /\ r.state = "open" /\ r.up = TRUE /\ r.cur = None /\ r.adding = None
       /\ r.inbox = p /\ r.out = << >>
  BY <1>9, <1>10, <1>11, <1>12 DEF NoSession, SessionRecords
<1>14. /\ sess' \in [Sessions -> SessionRecords] /\ sess'[x] = r
       /\ \A y \in Sessions \ {x} : sess'[y] = sess[y]
  BY <1>1, <1>2, <1>13
<1>15. FlowTypes'
  BY <1>1, <1>2, <1>5, <1>14 DEF FlowTypes
<1>16. Attached'
  <2>1. \A y \in Sessions : sess'[y].cur # None => y # x /\ sess'[y] = sess[y]
    BY <1>13, <1>14
  <2>2. \A y \in Sessions : sess'[y].adding # None => y # x /\ sess'[y] = sess[y]
    BY <1>13, <1>14
  <2>3. \A y \in Sessions : sess'[y].up = TRUE => sess'[y].state = "open"
    BY <1>1, <1>13, <1>14 DEF Attached
  <2>4. ASSUME NEW y \in Sessions, NEW z \in Sessions, sess'[y].adding # None,
               sess'[z].adding = sess'[y].adding
        PROVE  y = z
    <3>1. sess'[y] = sess[y] /\ sess'[z] = sess[z] /\ sess[y].adding # None
      BY <2>2, <2>4
    <3> QED BY <1>1, <2>4, <3>1 DEF Attached
  <2> QED BY <1>1, <1>2, <2>1, <2>2, <2>3, <2>4 DEF Attached
<1>17. AddingOK'
  BY <1>1, <1>2, <1>13, <1>14 DEF AddingOK
<1>18. (Serving /\ QueuedBounds)'
  BY <1>1, <1>2 DEF Serving, QueuedBounds
<1>19. FrameBounds'
  BY <1>1, <1>2, <1>13, <1>14 DEF FrameBounds
<1>20. LastBound' /\ LastOK'
  BY <1>1, <1>2, <1>3, <1>5 DEF LastBound, LastOK, Announced
<1>21. Pipeline'
  <2>1. Here' = r
    BY <1>2, <1>14 DEF Here
  <2>2. Resuming'
    <3> SUFFICES ASSUME NEW i \in DOMAIN p, p[i].token.n # 0 PROVE i = 1 /\ p[i].token = client'.last
      BY <1>13, <2>1 DEF Resuming, Untouched
    <3>1. i = 1 /\ p[i].token = t
      BY <1>8, <1>9
    <3> QED BY <1>5, <1>6, <3>1
  <2>3. expectsReset(client') => Asks(Here)'
    <3>1. CASE c.expects = FALSE BY <1>5, <3>1 DEF expectsReset
    <3>2. CASE t.n = 0
      <4>1. 1 \in DOMAIN p /\ p[1].token.n = 0 BY <1>8, <1>9, <3>2
      <4> QED BY <1>13, <2>1, <4>1 DEF Asks
    <3> QED BY <1>6, <3>1, <3>2
  <2>4. InitialComing'
    BY <2>3 DEF InitialComing
  <2>5. Here'.inbox # << >>
    BY <1>8, <1>9, <1>13, <2>1
  <2>6. ServedOK' /\ Coming'
    BY <1>13, <2>1, <2>5 DEF ServedOK, Coming, Unserved
  <2> QED BY <2>2, <2>4, <2>6 DEF Pipeline
<1> QED BY <1>15, <1>16, <1>17, <1>18, <1>19, <1>20, <1>21 DEF FlowInv, Numbering

\* What frame head and the queue b behind it keep of the queue q.
Behind(q, head, b) ==
  /\ b \in Seq(Frames) /\ head \in Frames /\ head = q[1] /\ 1 \in DOMAIN q
  /\ \A i \in DOMAIN b : \E j \in DOMAIN q : q[j] = b[i]
  /\ \A T : Has(q, T) => head.type \in T \/ Has(b, T)
  /\ TwoResets(q) => Has(b, {"reset"})
  /\ TwoResets(q) /\ head.type # "reset" => TwoResets(b)
  /\ \A n : (\E i \in DOMAIN q : q[i].type = "changed" /\ q[i].n = n) =>
       \/ head.type = "changed" /\ head.n = n
       \/ \E i \in DOMAIN b : b[i].type = "changed" /\ b[i].n = n

\* The head and the tail of a queue are that.
LEMMA BehindFacts ==
  ASSUME NEW q \in Seq(Frames), q # << >>
  PROVE  Behind(q, Head(q), Tail(q))
<1> DEFINE b == Tail(q)
<1>1. /\ b \in Seq(Frames) /\ Head(q) \in Frames /\ Head(q) = q[1] /\ 1 \in DOMAIN q
      /\ \A i \in DOMAIN q : i # 1 => i - 1 \in DOMAIN b /\ b[i - 1] = q[i]
      /\ \A i \in DOMAIN b : i + 1 \in DOMAIN q /\ q[i + 1] = b[i]
      /\ DOMAIN q \subseteq Nat
  BY TailItems
<1>2. DOMAIN q = 1 .. Len(q)
  OBVIOUS
<1> HIDE DEF b
<1>3. \A i \in DOMAIN b : \E j \in DOMAIN q : q[j] = b[i]
  BY <1>1
<1>4. \A T : Has(q, T) => Head(q).type \in T \/ Has(b, T)
  <2> SUFFICES ASSUME NEW T, NEW i \in DOMAIN q, q[i].type \in T
               PROVE  Head(q).type \in T \/ Has(b, T)
    BY DEF Has
  <2>1. CASE i = 1 BY <1>1, <2>1
  <2>2. CASE i # 1
    <3>1. i - 1 \in DOMAIN b /\ b[i - 1].type \in T BY <1>1, <2>2
    <3> QED BY <3>1 DEF Has
  <2> QED BY <2>1, <2>2
<1>5. ASSUME NEW i \in DOMAIN q, NEW j \in DOMAIN q, i < j, q[i].type = "reset", q[j].type = "reset"
      PROVE  Has(b, {"reset"}) /\ (Head(q).type # "reset" => TwoResets(b))
  <2>1. i \in Nat /\ j \in Nat /\ i >= 1 /\ j # 1
    BY <1>1, <1>2, <1>5
  <2>2. j - 1 \in DOMAIN b /\ b[j - 1].type = "reset"
    BY <1>1, <1>5, <2>1
  <2>3. Has(b, {"reset"})
    BY <2>2 DEF Has
  <2>4. ASSUME Head(q).type # "reset" PROVE TwoResets(b)
    <3>1. i # 1 BY <1>1, <1>5, <2>4
    <3>3. i - 1 < j - 1
      BY <1>5, <2>1
    <3>4. i - 1 \in DOMAIN b /\ b[i - 1] = q[i]
      BY <1>1, <3>1
    <3>2. b[i - 1].type = "reset"
      BY <1>5, <3>4
    <3> QED BY <2>2, <3>2, <3>3, <3>4 DEF TwoResets
  <2> QED BY <2>3, <2>4
<1>6. /\ TwoResets(q) => Has(b, {"reset"})
      /\ TwoResets(q) /\ Head(q).type # "reset" => TwoResets(b)
  BY <1>5 DEF TwoResets
<1>7. ASSUME NEW n, NEW i \in DOMAIN q, q[i].type = "changed", q[i].n = n
      PROVE  \/ Head(q).type = "changed" /\ Head(q).n = n
             \/ \E j \in DOMAIN b : b[j].type = "changed" /\ b[j].n = n
  <2>1. CASE i = 1 BY <1>1, <1>7, <2>1
  <2>2. CASE i # 1
    <3>1. i - 1 \in DOMAIN b /\ b[i - 1].type = "changed" /\ b[i - 1].n = n BY <1>1, <1>7, <2>2
    <3> QED BY <3>1
  <2> QED BY <2>1, <2>2
<1>8. Behind(q, Head(q), b)
  BY <1>1, <1>3, <1>4, <1>6, <1>7 DEF Behind
<1> QED BY <1>8 DEF b

\* The client takes a frame that does not make it ask for a new subscription.
LEMMA TakenHere ==
  ASSUME FlowInv, SocketOpen, UNCHANGED << world, hub, worker, current, fwd, sock >>, Here.out # << >>,
         NEW msg, msg = Head(Here.out),
         Here'.inbox = Here.inbox, Here'.cur = Here.cur, Here'.adding = Here.adding,
         Here'.token = Here.token, Here'.out = Tail(Here.out),
         \/ /\ msg.type = "ack" \/ (msg.type = "changed" /\ Stale(client, msg))
            /\ expectsReset(client') = expectsReset(client) /\ client'.last = client.last
            /\ client'.refused = client.refused
            /\ Known(client, world) => Known(client', world)
         \/ /\ msg.type = "changed" /\ expectsReset(client') = expectsReset(client)
            /\ client'.refused = client.refused /\ Known(client', world)
         \/ /\ msg.type = "reset" /\ expectsReset(client) /\ ~expectsReset(client')
            /\ client'.refused = client.refused /\ Known(client', world)
         \/ /\ msg.type \in {"reset", "complete"} /\ client'.refused = TRUE
            /\ ~(msg.type = "reset" /\ expectsReset(client))
            /\ expectsReset(client') = expectsReset(client) /\ Known(client', world)
  PROVE  Pipeline'
<1> DEFINE b == Tail(Here.out)
<1>1. /\ Here \in SessionRecords /\ Here.out \in Seq(Frames)
      /\ Resuming /\ InitialComing /\ ServedOK /\ Coming /\ current \in Managers
      /\ hub.seq[current] \in Nat /\ client.last.n \in Nat
  BY DEF FlowInv, StreamInv, FlowTypes, SocketOpen, Pipeline, Here, SessionRecords, MapsOK, Maps,
         ClientOK, ClientRecord, Tokens
<1>2. /\ \A T : Has(Here.out, T) => msg.type \in T \/ Has(b, T)
      /\ TwoResets(Here.out) => Has(b, {"reset"})
      /\ TwoResets(Here.out) /\ msg.type # "reset" => TwoResets(b)
      /\ \A n : (\E i \in DOMAIN Here.out : Here.out[i].type = "changed" /\ Here.out[i].n = n) =>
           \/ msg.type = "changed" /\ msg.n = n
           \/ \E i \in DOMAIN b : b[i].type = "changed" /\ b[i].n = n
  <2>1. Behind(Here.out, msg, b)
    BY <1>1, BehindFacts
  <2> HIDE DEF b
  <2> QED BY <2>1 DEF Behind
<1> HIDE DEF b
<1>3. Here'.out = b
  BY DEF b
<1>4. (Asks(Here)' <=> Asks(Here)) /\ (AddsAnew(Here)' <=> AddsAnew(Here))
  BY DEF Asks, AddsAnew
<1>5. Resuming'
  BY <1>1 DEF Resuming, Untouched
<1>6. InitialComing'
  <2> SUFFICES ASSUME expectsReset(client') PROVE Asks(Here)' \/ AddsAnew(Here)' \/ Has(b, {"reset", "error"})
    BY <1>3 DEF InitialComing
  <2>1. expectsReset(client) /\ msg.type \notin {"reset", "error"}
    OBVIOUS
  <2> QED BY <1>1, <1>2, <1>4, <2>1 DEF InitialComing
<1>7. ServedOK'
  <2>1. CASE client'.refused = TRUE BY <2>1 DEF ServedOK
  <2>2. CASE msg.type \in {"ack", "changed"} /\ client'.refused = client.refused
             /\ expectsReset(client') = expectsReset(client)
    <3>1. Wakes => Wakes'
      BY <1>2, <1>3, <2>2 DEF Wakes
    <3> QED BY <1>1, <2>2, <3>1 DEF ServedOK, ResetDue
  <2>3. CASE msg.type = "reset" /\ expectsReset(client) /\ ~expectsReset(client')
             /\ client'.refused = client.refused
    <3>1. Wakes => Wakes'
      BY <1>2, <1>3, <2>3 DEF Wakes
    <3> QED BY <1>1, <2>3, <3>1 DEF ServedOK, ResetDue
  <2> QED BY <2>1, <2>2, <2>3
<1>8. Coming'
  <2>1. CASE Known(client', world) BY <2>1 DEF Coming
  <2>2. CASE /\ msg.type = "ack" \/ (msg.type = "changed" /\ Stale(client, msg))
             /\ expectsReset(client') = expectsReset(client) /\ client'.last = client.last
             /\ Known(client, world) => Known(client', world)
    <3>1. Unserved => Unserved' BY <2>2 DEF Unserved
    <3>2. Announced => Announced' BY DEF Announced
    <3>3. Has(Here.out, {"reset", "error", "complete"}) => Has(Here'.out, {"reset", "error", "complete"})
      BY <1>2, <1>3, <2>2
    <3>4. ASSUME Arriving PROVE Arriving'
      <4> DEFINE n == hub.seq[current]
      <4>1. client'.last.n = 0 \/ client'.last.n < n
        BY <2>2, <3>4 DEF Arriving
      <4>2. CASE \E i \in DOMAIN Here.out : Here.out[i].type = "changed" /\ Here.out[i].n = n
        <5>1. ~(msg.type = "changed" /\ msg.n = n)
          BY <1>1, <2>2, <4>1 DEF Stale
        <5>2. \E i \in DOMAIN b : b[i].type = "changed" /\ b[i].n = n
          BY <1>2, <4>2, <5>1
        <5> QED BY <1>3, <4>1, <5>2 DEF Arriving
      <4>3. CASE ~\E i \in DOMAIN Here.out : Here.out[i].type = "changed" /\ Here.out[i].n = n
        BY <3>4, <4>1, <4>3 DEF Arriving
      <4> QED BY <4>2, <4>3
    <3> QED BY <1>1, <1>4, <2>2, <3>1, <3>2, <3>3, <3>4 DEF Coming
  <2> QED BY <2>1, <2>2
<1> QED BY <1>5, <1>6, <1>7, <1>8 DEF Pipeline

\* What the client does with a frame, by what it asks for in return.
Answered(c, d, msg, w) ==
  /\ d.sends = << >>
  /\ \/ /\ msg.type = "ack" \/ (msg.type = "changed" /\ Stale(c, msg))
        /\ expectsReset(d) = expectsReset(c) /\ d.last = c.last /\ d.refused = c.refused
        /\ Known(c, w) => Known(d, w)
     \/ /\ msg.type = "changed"
        /\ expectsReset(d) = expectsReset(c) /\ d.last = [n |-> msg.n, life |-> msg.life]
        /\ d.refused = c.refused /\ Known(d, w)
     \/ /\ msg.type = "reset" /\ expectsReset(c) /\ ~expectsReset(d)
        /\ d.last = c.last /\ d.refused = c.refused /\ Known(d, w)
     \/ /\ msg.type \in {"reset", "complete"} /\ d.refused = TRUE
        /\ ~(msg.type = "reset" /\ expectsReset(c))
        /\ expectsReset(d) = expectsReset(c) /\ d.last = c.last /\ Known(d, w)

\* Every message asks for a new subscription, or is answered so.
LEMMA AnsweredFacts ==
  ASSUME NEW c, ClientOK(c), c.phase # "connecting", c.sends = << >>, NEW msg \in Frames,
         NEW w \in Nat
  PROVE  LET d == receiveMessage(c, msg) IN
         /\ ClientOK(d) /\ d.connected = c.connected /\ d.phase # "connecting"
         /\ Subscribed(c, d) \/ Answered(c, d, msg, w)
<1> DEFINE d == receiveMessage(c, msg)
<1>1. ClientOK(d) /\ d.connected = c.connected /\ d.phase # "connecting"
  BY ReceiveFacts
<1>2. CASE Subscribed(c, d) BY <1>1, <1>2
<1>3. CASE ~Subscribed(c, d)
  <2>1. Answered(c, d, msg, w)
    BY <1>3, ReceiveFacts DEF Answered
  <2> QED BY <1>1, <2>1
<1> QED BY <1>2, <1>3

\* The client takes the next frame.
LEMMA FlowHandle ==
  ASSUME FlowInv, StreamInv', handleMessage
  PROVE  FlowInv'
<1> DEFINE q == sess[sock].out
           msg == Head(q)
           b == Tail(q)
           c == receiveMessage(client, msg)
           k == sess[sock].inbox \o Requests(c.sends)
           r == [sess[sock] EXCEPT !.out = b, !.inbox = k]
<1>1. /\ StreamInv /\ FlowTypes /\ SocketOpen /\ sock \in Sessions /\ q # << >>
      /\ sess \in [Sessions -> SessionRecords] /\ sess[sock] \in SessionRecords
      /\ q \in Seq(Frames) /\ sess[sock].inbox \in Seq(Asked)
      /\ ClientOK(client) /\ client \in ClientRecord /\ client.sends = << >> /\ world \in Nat
      /\ client.phase # "connecting" /\ client.connected = TRUE
  BY DEF FlowInv, FlowTypes, SocketOpen, StreamInv, SessionRecords, ClientOK, handleMessage
<1>2. /\ client' = Rendered(c) /\ Quiet /\ UNCHANGED << sock, outbox >>
      /\ sess' = [sess EXCEPT ![sock].out = b, ![sock].inbox = k]
  <2>1. /\ client' = Rendered(c) /\ Quiet /\ UNCHANGED << sock, outbox >>
        /\ sess' = [sess EXCEPT ![sock].out = Tail(@), ![sock].inbox = @ \o Requests(c.sends)]
    BY DEF handleMessage
  <2> HIDE DEF c
  <2> QED BY <1>1, <2>1
<1>3. Behind(q, msg, b)
  BY <1>1, BehindFacts
<1>4. sess' = [sess EXCEPT ![sock] = r]
  <2> HIDE DEF b, k
  <2> QED BY <1>1, <1>2
<1>5. msg \in Frames /\ b \in Seq(Frames)
  BY <1>3 DEF Behind
<1>6. Here = sess[sock] /\ Here.out = q
  BY DEF Here
<1> HIDE DEF msg, b, q
<1>7. /\ ClientOK(c) /\ c.connected = TRUE /\ c.phase # "connecting"
      /\ Subscribed(client, c) \/ Answered(client, c, msg, world)
  BY <1>1, <1>5, AnsweredFacts
<1> HIDE DEF c
<1>8. /\ ClientOK(client') /\ client'.sends = << >> /\ client'.connected = TRUE
      /\ client'.phase # "connecting" /\ SameStream(c, client')
      /\ expectsReset(client') = expectsReset(c)
      /\ Known(c, world) => Known(client', world)
  <2>1. ClientOK(client') /\ client'.sends = << >> /\ SameStream(c, client')
        /\ expectsReset(client') = expectsReset(c) /\ (Known(c, world) => Known(client', world))
    BY <1>1, <1>2, <1>7, Performed
  <2> QED BY <1>7, <2>1 DEF SameStream
<1>9. \A i \in DOMAIN b : \E j \in DOMAIN q : q[j] = b[i]
  BY <1>3 DEF Behind
<1>10. ASSUME NEW z \in Seq(Asked), k = z
       PROVE  /\ r \in SessionRecords /\ r.cur = sess[sock].cur /\ r.adding = sess[sock].adding
              /\ r.up = sess[sock].up /\ r.state = sess[sock].state /\ r.out = b
              /\ r.inbox = z /\ r.token = sess[sock].token /\ Here' = r
  <2> HIDE DEF k
  <2>1. /\ r \in SessionRecords /\ r.cur = sess[sock].cur /\ r.adding = sess[sock].adding
        /\ r.up = sess[sock].up /\ r.state = sess[sock].state /\ r.out = b
        /\ r.inbox = z /\ r.token = sess[sock].token
    BY <1>1, <1>5, <1>10 DEF SessionRecords
  <2> HIDE DEF r
  <2>2. Here' = r
    BY <1>1, <1>2, <1>4 DEF Here
  <2> QED BY <2>1, <2>2
<1>11. ASSUME NEW z \in Seq(Asked), k = z, LastBound', LastOK', Pipeline'
       PROVE  FlowInv'
  <2>1. /\ r \in SessionRecords /\ r.cur = sess[sock].cur /\ r.adding = sess[sock].adding
        /\ r.up = sess[sock].up /\ r.state = sess[sock].state /\ r.out = b
    BY <1>10, <1>11
  <2> HIDE DEF r
  <2>2. \A i \in DOMAIN r.out : \E j \in DOMAIN sess[sock].out : sess[sock].out[j] = r.out[i]
    BY <1>9, <2>1 DEF q
  <2> QED BY <1>1, <1>2, <1>4, <1>8, <1>11, <2>1, <2>2, SocketStep
<1>12. CASE Subscribed(client, c)
  <2>1. PICK t \in Tokens : t.n = 0 /\ c.sends = Append(client.sends, t)
    BY <1>12 DEF Subscribed
  <2> DEFINE a == << t >>
             p == Requests(a)
  <2>2. c.sends = a /\ a \in Seq(Tokens) /\ DOMAIN a = {1} /\ a[1] = t /\ a # << >>
    BY <1>1, <2>1
  <2> HIDE DEF a
  <2>3. p \in Seq(Asked) /\ DOMAIN p = DOMAIN a /\ \A i \in DOMAIN a : p[i].token = a[i]
    BY <2>2, RequestsFacts
  <2>4. k = sess[sock].inbox \o p
    BY <2>2
  <2> HIDE DEF p
  <2>5. p # << >> /\ \A i \in DOMAIN p : p[i].token.n = 0
    BY <2>1, <2>2, <2>3
  <2>6. k \in Seq(Asked)
    <3> HIDE DEF k
    <3> QED BY <1>1, <2>3, <2>4, JoinedFacts
  <2> HIDE DEF k
  <2>7. /\ Here'.inbox = Here.inbox \o p /\ Here'.cur = Here.cur /\ Here'.adding = Here.adding
        /\ Here'.token = Here.token /\ Here.out # << >>
    BY <1>1, <1>6, <1>10, <2>4, <2>6
  <2>8. Pipeline'
    BY <1>1, <1>2, <2>3, <2>5, <2>7, AskedHere
  <2>9. client'.last.n = 0
    BY <1>8, <1>12 DEF Subscribed, SameStream
  <2>10. LastBound' /\ LastOK'
    BY <2>9 DEF LastBound, LastOK
  <2> QED BY <1>11, <2>6, <2>8, <2>10
<1>13. CASE Answered(client, c, msg, world)
  <2>1. << >> \in Seq(Tokens)
    OBVIOUS
  <2>2. c.sends = << >> /\ Requests(c.sends) = << >>
    BY <1>13, <2>1, RequestsFacts DEF Answered
  <2>3. k = sess[sock].inbox
    BY <1>1, <2>2
  <2>4. k \in Seq(Asked)
    BY <1>1, <2>3
  <2> HIDE DEF k
  <2>5. /\ Here'.inbox = Here.inbox /\ Here'.cur = Here.cur /\ Here'.adding = Here.adding
        /\ Here'.token = Here.token /\ Here'.out = Tail(Here.out) /\ Here.out # << >>
        /\ msg = Head(Here.out)
    BY <1>1, <1>6, <1>10, <2>3, <2>4 DEF b, msg
  <2>6. UNCHANGED << world, hub, worker, current, fwd, sock >>
    BY <1>2 DEF Quiet
  <2>7. client'.last = c.last /\ client'.refused = c.refused
    BY <1>8 DEF SameStream
  <2>8. \/ /\ msg.type = "ack" \/ (msg.type = "changed" /\ Stale(client, msg))
           /\ expectsReset(client') = expectsReset(client) /\ client'.last = client.last
           /\ client'.refused = client.refused
           /\ Known(client, world) => Known(client', world)
        \/ /\ msg.type = "changed" /\ expectsReset(client') = expectsReset(client)
           /\ client'.refused = client.refused /\ Known(client', world)
        \/ /\ msg.type = "reset" /\ expectsReset(client) /\ ~expectsReset(client')
           /\ client'.refused = client.refused /\ Known(client', world)
        \/ /\ msg.type \in {"reset", "complete"} /\ client'.refused = TRUE
           /\ ~(msg.type = "reset" /\ expectsReset(client))
           /\ expectsReset(client') = expectsReset(client) /\ Known(client', world)
    BY <1>8, <1>13, <2>7 DEF Answered
  <2>9. Pipeline'
    BY <1>1, <2>5, <2>6, <2>8, TakenHere
  <2>10. \/ client'.last = client.last /\ (Known(client, world) => Known(client', world))
         \/ /\ msg.type = "changed" /\ client'.last = [n |-> msg.n, life |-> msg.life]
            /\ Known(client', world)
    BY <1>8, <1>13, <2>7 DEF Answered
  <2>11. LastBound'
    <3>1. LastBound /\ FrameBounds /\ hub' = hub
      BY <2>6 DEF FlowInv, Numbering
    <3>2. CASE client'.last = client.last
      BY <3>1, <3>2 DEF LastBound
    <3>3. CASE msg.type = "changed" /\ client'.last = [n |-> msg.n, life |-> msg.life]
      <4>1. 1 \in DOMAIN q /\ msg = q[1]
        BY <1>3 DEF Behind
      <4>2. Bound(hub, msg.n, msg.life)
        BY <1>1, <3>1, <3>3, <4>1 DEF FrameBounds, q
      <4> QED BY <3>1, <3>3, <4>2 DEF LastBound
    <3> QED BY <2>10, <3>2, <3>3
  <2>12. LastOK'
    <3>1. LastOK /\ UNCHANGED << world, hub, current, worker >>
      BY <2>6 DEF FlowInv, Numbering
    <3> QED BY <2>10, <3>1 DEF LastOK, Announced
  <2> QED BY <1>11, <2>4, <2>9, <2>11, <2>12
<1> QED BY <1>7, <1>12, <1>13

\* The client as ResourceStreamManager.start leaves it, its connection open or not.
Started(o) ==
  performFetch(resyncSubscription([InitialClient EXCEPT !.connected = o], TRUE, FALSE))

\* A request without a token, and one fetch.
LEMMA StartedFacts ==
  ASSUME NEW o \in BOOLEAN
  PROVE  LET c == Started(o) IN
         /\ ClientOK(c) /\ c.sends = << Unset >> /\ c.last = Unset
         /\ c.phase = "awaiting-ack" /\ c.connected = o
<1> DEFINE a == [InitialClient EXCEPT !.connected = o]
           e == [a EXCEPT !.last = Unset, !.cooling = TRUE, !.phase = "awaiting-ack",
                          !.preserved = FALSE]
           d == [e EXCEPT !.sends = << Unset >>, !.refused = FALSE, !.phase = "awaiting-ack",
                          !.expects = TRUE, !.preserved = FALSE]
           c == [d EXCEPT !.fetch.state = "asked"]
<1>1. Unset \in Tokens /\ Unset.n = 0
  BY DEF Unset, Tokens
<1>2. << >> \in Seq(Tokens) /\ << Unset >> \in Seq(Tokens) /\ Append(<< >>, Unset) = << Unset >>
  BY <1>1
<1>3. InitialClient \in ClientRecord
  BY <1>1, <1>2 DEF InitialClient, ClientRecord, Clocks
<1>4. /\ InitialClient.phase = "connecting" /\ InitialClient.sends = << >>
      /\ InitialClient.pending = 0 /\ InitialClient.cooling = FALSE
      /\ InitialClient.fetch.state = "idle"
  BY DEF InitialClient
<1>5. /\ a \in ClientRecord /\ a.phase = "connecting" /\ a.sends = << >> /\ a.pending = 0
      /\ a.cooling = FALSE /\ a.connected = o /\ a.fetch.state = "idle"
  BY <1>3, <1>4 DEF ClientRecord
<1> HIDE DEF a
<1>6. flushed(a) = a /\ ~InCooldown(a, FALSE) /\ confirmedHealth(a) = FALSE
  BY <1>5 DEF flushed, InCooldown, confirmedHealth
<1>7. resyncSubscription(a, TRUE, FALSE) = Subscribe(e)
  BY <1>6 DEF resyncSubscription
<1>8. /\ e \in ClientRecord /\ e.last = Unset /\ e.phase = "awaiting-ack" /\ e.preserved = FALSE
      /\ e.sends = << >> /\ e.connected = o /\ e.fetch.state = "idle"
  BY <1>1, <1>5 DEF ClientRecord
<1> HIDE DEF e
<1>9. confirmedHealth(e) = FALSE /\ Append(e.sends, e.last) = << Unset >> /\ (e.last.n = 0) = TRUE
  BY <1>1, <1>2, <1>8 DEF confirmedHealth
<1>10. Subscribe(e) = d
  BY <1>9 DEF Subscribe
<1>11. /\ d \in ClientRecord /\ d.last = Unset /\ d.phase = "awaiting-ack"
       /\ d.sends = << Unset >> /\ d.connected = o /\ d.fetch.state = "idle"
  BY <1>2, <1>8 DEF ClientRecord
<1> HIDE DEF d
<1>12. performFetch(d) = c
  BY <1>11 DEF performFetch
<1>13. /\ c \in ClientRecord /\ c.last = Unset /\ c.phase = "awaiting-ack"
       /\ c.sends = << Unset >> /\ c.connected = o /\ c.fetch.state = "asked"
  BY <1>11 DEF ClientRecord
<1> HIDE DEF c
<1>14. ClientOK(c)
  BY <1>13 DEF ClientOK
<1> QED BY <1>7, <1>10, <1>12, <1>13, <1>14 DEF Started, a

\* A page without data: its request is under way, or waits for the connection.
LEMMA InitFlow == Init => FlowInv
<1> SUFFICES ASSUME Init PROVE FlowInv
  OBVIOUS
<1> DEFINE o == FirstSession # None
           f == Started(o)
           p == Requests(f.sends)
<1>1. /\ HubInit /\ current = FirstManager /\ retiring = NotRetiring
      /\ fwd = [s \in Subs |-> NoForwarder]
      /\ sess = [x \in Sessions |-> IF x = FirstSession THEN OpenSession(p) ELSE NoSession]
      /\ client = [f EXCEPT !.sends = << >>]
      /\ outbox = (IF FirstSession = None THEN f.sends ELSE << >>)
      /\ sock = FirstSession
  BY DEF Init, Started
<1>2. StreamInv /\ MapsOK(hub)
  BY InitStreamInv DEF StreamInv
<1>3. Unset \in Tokens /\ Unset.n = 0 /\ NoToken \in Tokens
  BY DEF Unset, NoToken, Tokens, Lives
<1>4. /\ << Unset >> \in Seq(Tokens) /\ DOMAIN << Unset >> = {1} /\ << Unset >>[1] = Unset
      /\ << >> \in Seq(Tokens) /\ << >> \in Seq(Asked) /\ << >> \in Seq(Frames)
  BY <1>3
<1>5. o \in BOOLEAN
  OBVIOUS
<1> HIDE DEF o
<1>6. /\ ClientOK(f) /\ f.sends = << Unset >> /\ f.last = Unset
      /\ f.phase = "awaiting-ack" /\ f.connected = o
  BY <1>5, StartedFacts
<1> HIDE DEF f
<1>7. /\ ClientOK(client) /\ client.sends = << >> /\ client.last.n = 0 /\ client.phase = "awaiting-ack"
      /\ client.connected = o
  BY <1>1, <1>3, <1>4, <1>6 DEF ClientOK, ClientRecord
<1>8. /\ p \in Seq(Asked) /\ DOMAIN p = {1} /\ p[1].token = Unset
  <2> DEFINE t == << Unset >>
  <2>1. t \in Seq(Tokens) /\ DOMAIN t = {1} /\ t[1] = Unset /\ p = Requests(t)
    BY <1>4, <1>6
  <2> HIDE DEF t
  <2>2. Requests(t) \in Seq(Asked) /\ DOMAIN Requests(t) = {1} /\ Requests(t)[1].token = Unset
    BY <2>1, RequestsFacts
  <2> QED BY <2>1, <2>2
<1> HIDE DEF p
<1>9. /\ NoSession \in SessionRecords /\ NoSession.cur = None /\ NoSession.adding = None
      /\ NoSession.up = FALSE /\ NoSession.out = << >>
  BY <1>3, <1>4 DEF NoSession, SessionRecords
<1> DEFINE r == OpenSession(p)
<1>10. /\ r \in SessionRecords /\ r.cur = None /\ r.adding = None /\ r.out = << >>
       /\ r.state = "open" /\ r.inbox = p
  BY <1>3, <1>4, <1>8 DEF OpenSession, NoSession, SessionRecords
<1> HIDE DEF r
<1>11. \A x \in Sessions : /\ sess[x] \in SessionRecords /\ sess[x].cur = None
                           /\ sess[x].adding = None /\ sess[x].out = << >>
                           /\ (sess[x].up = TRUE => sess[x].state = "open")
  BY <1>1, <1>9, <1>10 DEF r
<1>12. sess \in [Sessions -> SessionRecords]
  <2>1. sess = [x \in Sessions |-> IF x = FirstSession THEN r ELSE NoSession]
    BY <1>1 DEF r
  <2> QED BY <1>9, <1>10, <2>1
<1>13. world = 0 /\ \A s \in Subs : fwd[s].on = None /\ fwd[s].hw = 0
  BY <1>1 DEF HubInit, NoForwarder
<1>14. FlowTypes
  <2>1. fwd \in [Subs -> [on : Sessions \cup {None}, hw : Nat]]
    BY <1>1 DEF NoForwarder
  <2>2. outbox \in Seq(Tokens) /\ \A i \in DOMAIN outbox : outbox[i].n = 0
    <3>1. outbox = << Unset >> \/ outbox = << >> BY <1>1, <1>6
    <3>2. CASE outbox = << Unset >> BY <1>3, <1>4, <3>2
    <3>3. CASE outbox = << >> BY <1>4, <3>3
    <3> QED BY <3>1, <3>2, <3>3
  <2>3. sock # None => client.connected = TRUE /\ client.phase # "connecting"
    BY <1>1, <1>7 DEF o
  <2> QED BY <1>7, <1>12, <1>13, <2>1, <2>2, <2>3 DEF FlowTypes
<1>15. Attached
  BY <1>11, <1>13 DEF Attached
<1>16. AddingOK
  BY <1>11 DEF AddingOK
<1>17. hub.dropping = {} /\ \A s \in Subs : hub.sub[s].state = "closed" /\ hub.sub[s].chan = << >>
  BY <1>1 DEF HubInit, FreeSub
<1>18. Serving /\ QueuedBounds
  <2>1. \A w \in Workers : worker[w].to = {}
    BY <1>1 DEF HubInit, IdleWorker
  <2>2. Live(hub, current) = {}
    BY <1>17 DEF Live
  <2>3. \A s \in Subs : DOMAIN hub.sub[s].chan = {}
    BY <1>17
  <2> QED BY <1>17, <2>1, <2>2, <2>3 DEF Serving, QueuedBounds
<1>19. FrameBounds
  <2>1. \A x \in Sessions : DOMAIN sess[x].out = {}
    BY <1>11
  <2> QED BY <2>1 DEF FrameBounds
<1>20. LastBound /\ LastOK
  BY <1>7 DEF LastBound, LastOK
<1>21. Pipeline
  <2> SUFFICES ASSUME SocketOpen PROVE Resuming /\ InitialComing /\ ServedOK /\ Coming
    BY DEF Pipeline
  <2>1. Here.inbox = p /\ Here.adding = None
    <3>1. sock \in Sessions /\ sock = FirstSession
      BY <1>1, ClientAssumption DEF SocketOpen
    <3> QED BY <1>1, <1>10, <3>1 DEF Here, r
  <2>2. Asks(Here) /\ Here.inbox # << >>
    BY <1>3, <1>8, <2>1 DEF Asks
  <2>3. Resuming
    BY <1>3, <1>8, <2>1 DEF Resuming
  <2> QED BY <2>2, <2>3 DEF InitialComing, ServedOK, Coming
<1> QED BY <1>2, <1>14, <1>15, <1>16, <1>18, <1>19, <1>20, <1>21 DEF FlowInv, Numbering

\* Every step keeps FlowInv.
LEMMA FlowHubStep ==
  ASSUME FlowInv, StreamInv', HubStep
  PROVE  FlowInv'
<1>1. UNCHANGED muxVars /\ UNCHANGED clientVars
  BY DEF HubStep
<1>2. ASSUME NEW w \in Workers, Change(w, current) PROVE FlowInv'
  BY <1>1, <1>2, FlowChange
<1>3. ASSUME NEW w \in Workers, prepareBroadcast(w) PROVE FlowInv'
  <2>1. CASE Live(hub, worker[w].on) = {} BY <1>1, <1>3, <2>1, FlowNobody
  <2>2. CASE Live(hub, worker[w].on) # {} BY <1>1, <1>3, <2>2, FlowBroadcast
  <2> QED BY <2>1, <2>2
<1>4. ASSUME NEW w \in Workers, NEW s \in Subs, CheckedSend(w, s) PROVE FlowInv'
  BY <1>1, <1>4, FlowSend
<1>5. ASSUME NEW s \in Subs, DropGoroutine(s) PROVE FlowInv'
  BY <1>5, FlowDropGoroutine
<1> QED BY <1>2, <1>3, <1>4, <1>5 DEF HubStep

LEMMA FlowMuxStep ==
  ASSUME FlowInv, StreamInv', MuxStep
  PROVE  FlowInv'
<1>1. UNCHANGED clientVars
  BY DEF MuxStep
<1>2. ASSUME NEW x \in Sessions, HandleSubscribe(x) PROVE FlowInv'
  BY <1>1, <1>2, FlowSubscribeRefused, FlowSubscribeAdded
<1>3. ASSUME NEW x \in Sessions, StoreRefused(x) PROVE FlowInv'
  BY <1>1, <1>3, FlowRefused
<1>4. ASSUME NEW x \in Sessions, AcknowledgeSubscribe(x) PROVE FlowInv'
  BY <1>1, <1>4, FlowAcknowledge
<1>5. ASSUME NEW x \in Sessions, ReadLoopEnds(x) PROVE FlowInv'
  BY <1>1, <1>5, FlowReadLoopEnds
<1>6. ASSUME NEW x \in Sessions, Disconnect(x) PROVE FlowInv'
  BY <1>1, <1>6, FlowDisconnect
<1>7. ASSUME NEW x \in Sessions, invalidateClusterSubscriptions(x) PROVE FlowInv'
  BY <1>1, <1>7, FlowInvalidate
<1>8. ASSUME NEW s \in Subs, ForwardUpdate(s) PROVE FlowInv'
  BY <1>1, <1>8, FlowForward
<1>9. ASSUME NEW s \in Subs, ForwardEnds(s) PROVE FlowInv'
  BY <1>1, <1>9, FlowForwardEnds
<1>10. ASSUME NEW m \in Managers, setTopology(m) PROVE FlowInv'
  BY <1>1, <1>10, FlowSetTopology
<1>11. CASE StopReplaced
  BY <1>1, <1>11, FlowStopReplaced
<1> QED BY <1>2, <1>3, <1>4, <1>5, <1>6, <1>7, <1>8, <1>9, <1>10, <1>11 DEF MuxStep

LEMMA FlowClientStep ==
  ASSUME FlowInv, StreamInv', ClientStep
  PROVE  FlowInv'
<1>1. CASE handleMessage BY <1>1, FlowHandle
<1>2. CASE handleConnectionError BY <1>2, FlowLost
<1>3. CASE refreshOnce BY <1>3, FlowRefresh
<1>4. CASE FlushFired BY <1>4, FlowFlush
<1>5. CASE CooldownEnds BY <1>5, FlowCooldown
<1>6. CASE FallbackPoll BY <1>6, FlowPoll
<1>7. CASE SnapshotRead BY <1>7, FlowRead
<1>8. CASE SnapshotApplied BY <1>8, FlowApplied
<1>9. ASSUME NEW x \in Sessions, handleOpen(x) PROVE FlowInv'
  BY <1>9, FlowOpen
<1> QED BY <1>1, <1>2, <1>3, <1>4, <1>5, <1>6, <1>7, <1>8, <1>9 DEF ClientStep

LEMMA FlowInvariance == Spec => []FlowInv
<1>1. FlowInv /\ [Next]_vars => FlowInv'
  <2> SUFFICES ASSUME FlowInv, [Next]_vars PROVE FlowInv'
    OBVIOUS
  <2>1. StreamInv
    BY DEF FlowInv
  <2>2. CASE HubStep BY <2>1, <2>2, HubStepStream, FlowHubStep
  <2>3. CASE MuxStep BY <2>1, <2>3, MuxStepKeeps, FlowMuxStep
  <2>4. CASE ClientStep BY <2>1, <2>4, ClientStepKeeps, FlowClientStep
  <2>5. CASE UNCHANGED vars
    <3>1. Quiet /\ UNCHANGED << sess, sock, outbox, client >>
      BY <2>5 DEF vars, Quiet
    <3>2. StreamInv'
      <4>1. sock' \in Sessions \cup {None} BY <2>1, <3>1 DEF StreamInv
      <4> QED BY <2>1, <3>1, <4>1, ClientOnlyStep
    <3>3. /\ ClientOK(client') /\ SameStream(client, client') /\ client'.sends = << >>
          /\ Known(client, world) => Known(client', world)
      BY <3>1 DEF FlowInv, FlowTypes, SameStream
    <3> QED BY <3>1, <3>2, <3>3, ClientQuiet
  <2> QED BY <2>2, <2>3, <2>4, <2>5 DEF Next
<1> QED BY <1>1, InitFlow, PTL DEF Spec

\* A settled healthy connection whose last resync was not refused is served by the current
\* manager (Handle, forwardSubscription, invalidateClusterSubscriptions, connectionOpened).
THEOREM HealthyServed == Spec => []HealthyIsServed
<1> QED BY FlowServed, FlowInvariance, PTL

\* A settled healthy connection that is served shows what the stores hold
\* (prepareBroadcast, Since, LiveMessage, receiveChanged, performFetch).
THEOREM HealthyFresh == Spec => []HealthyIsFresh
<1> QED BY FlowFresh, FlowInvariance, PTL

-----------------------------------------------------------------------------
(* The resume buffer.  The hub's buf is a bounded log; these proofs show    *)
(* that the ring of backend/refresh/ringbuffer is one, for every capacity   *)
(* and every increasing numbering: it stays ordered, it holds a suffix of   *)
(* what was added, and each Add is an Add of the log.                       *)

(* Wrapping an index once around the ring. *)
LEMMA WrapLemma ==
  ASSUME NEW m \in Nat, m > 0, NEW a \in Nat, a < 2 * m
  PROVE  /\ a % m \in 0 .. (m - 1)
         /\ a < m => a % m = a
         /\ a >= m => a % m = a - m
  OBVIOUS

\* The first retained item is in the slot at start.
LEMMA ZeroOffset ==
  ASSUME NEW m \in Nat, NEW s \in Nat, s < m
  PROVE  (s + 0) % m = s
  BY WrapLemma

(* Distinct offsets below the capacity are distinct slots. *)
LEMMA SlotLemma ==
  ASSUME RingTypeOK, max > 0,
         NEW i \in 0 .. (max - 1), NEW j \in 0 .. (max - 1)
  PROVE  /\ Slot(i) \in Slots
         /\ Slot(i) = Slot(j) => i = j
  BY WrapLemma, start + i \in Nat, start + j \in Nat DEF RingTypeOK, Slot, Slots

\* On a ring that is not empty, the oldest item (Since) is the first one visited.
LEMMA OldestLemma ==
  ASSUME RingTypeOK, count > 0
  PROVE  1 \in 1 .. count /\ Oldest = Visited[1]
<1>1. max > 0 /\ start \in Nat /\ start < max /\ max \in Nat /\ 1 \in 1 .. count
  BY DEF RingTypeOK
<1>2. Slot(1 - 1) = start
  BY <1>1, ZeroOffset DEF Slot
<1> QED
  BY <1>1, <1>2 DEF Oldest, Visited

(* Add on a ring with room appends to what is read. *)
LEMMA FreeLemma ==
  ASSUME RingTypeOK, NEW n \in Nat, AddFree(n), UNCHANGED max
  PROVE  /\ max > 0 /\ count < max /\ count' = count + 1
         /\ \A i \in 1 .. count : Visited'[i] = Visited[i]
         /\ Visited'[count + 1] = n
         /\ items' \in [Slots -> Nat]
<1>1. max > 0 /\ count < max /\ count' = count + 1 /\ start' = start
  BY DEF AddFree, RingTypeOK
<1>2. count \in 0 .. (max - 1) /\ Slot(count) \in Slots
  BY <1>1, SlotLemma DEF RingTypeOK
<1>3. items' = [items EXCEPT ![Slot(count)] = n]
  BY DEF AddFree
<1>4. ASSUME NEW i \in 1 .. count
      PROVE  Visited'[i] = Visited[i]
  <2>1. i - 1 \in 0 .. (max - 1) /\ i - 1 # count /\ i \in 1 .. (count + 1)
    BY <1>1 DEF RingTypeOK
  <2>2. Slot(i - 1) \in Slots /\ Slot(i - 1) # Slot(count)
    BY <2>1, <1>1, <1>2, SlotLemma
  <2>3. items'[Slot(i - 1)] = items[Slot(i - 1)]
    BY <2>2, <1>3 DEF RingTypeOK
  <2> QED
    BY <2>1, <2>3, <1>1 DEF Visited, Slot
<1>5. Visited'[count + 1] = n
  <2>1. count + 1 \in 1 .. (count + 1) /\ (count + 1) - 1 = count
    BY DEF RingTypeOK
  <2>2. items'[Slot(count)] = n
    BY <1>2, <1>3 DEF RingTypeOK
  <2> QED
    BY <2>1, <2>2, <1>1 DEF Visited, Slot
<1>6. items' \in [Slots -> Nat]
  BY <1>2, <1>3 DEF RingTypeOK
<1> QED
  BY <1>1, <1>4, <1>5, <1>6

(* Add on a full ring shifts what is read by one and puts n at its end. *)
LEMMA EvictLemma ==
  ASSUME RingTypeOK, NEW n \in Nat, AddEvicting(n), UNCHANGED max
  PROVE  /\ max > 0 /\ count = max /\ count' = count
         /\ \A i \in 1 .. (count - 1) : Visited'[i] = Visited[i + 1]
         /\ Visited'[count] = n
         /\ items' \in [Slots -> Nat]
         /\ start' \in Nat /\ start' < max
<1>1. max > 0 /\ count = max /\ count' = count /\ start \in Slots
  BY DEF AddEvicting, RingTypeOK, Slots
<1>2. items' = [items EXCEPT ![start] = n] /\ start' = (start + 1) % max
  BY DEF AddEvicting
<1>3. start' = (IF start + 1 < max THEN start + 1 ELSE 0)
  BY <1>1, <1>2, WrapLemma, start + 1 \in Nat DEF Slots, RingTypeOK
<1>4. Slot(0) = start
  BY <1>1, ZeroOffset DEF Slot, Slots, RingTypeOK
<1>5. ASSUME NEW i \in 0 .. (max - 2)
      PROVE  (start' + i) % max = Slot(i + 1)
  <2>1. start + (i + 1) \in Nat /\ start' + i \in Nat /\ start' < max
    BY <1>1, <1>3 DEF Slots, RingTypeOK
  <2>2. CASE start + 1 < max
    <3>1. start' + i = start + (i + 1)
      BY <2>2, <1>1, <1>3 DEF Slots, RingTypeOK
    <3> QED
      BY <3>1 DEF Slot
  <2>3. CASE start + 1 = max
    <3>1. /\ start' + i = i /\ start + (i + 1) = max + i
          /\ i < max /\ i \in Nat /\ max + i \in Nat
      BY <2>3, <1>1, <1>3 DEF Slots, RingTypeOK
    <3>2. i % max = i /\ (max + i) % max = i
      BY <3>1, <1>1, WrapLemma DEF RingTypeOK
    <3> QED
      BY <3>1, <3>2 DEF Slot
  <2> QED
    BY <2>2, <2>3, <1>1 DEF Slots, RingTypeOK
<1>6. (start' + (max - 1)) % max = start
  BY <1>1, <1>3, WrapLemma, start' + (max - 1) \in Nat DEF Slots, RingTypeOK
<1>7. ASSUME NEW i \in 1 .. (count - 1)
      PROVE  Visited'[i] = Visited[i + 1]
  <2>1. /\ i - 1 \in 0 .. (max - 2) /\ (i - 1) + 1 = i /\ (i + 1) - 1 = i
        /\ i \in 0 .. (max - 1) /\ 0 \in 0 .. (max - 1) /\ i # 0
        /\ i \in 1 .. count /\ i + 1 \in 1 .. count
    BY <1>1 DEF RingTypeOK
  <2>2. Slot(i) \in Slots /\ Slot(i) # start
    BY <2>1, <1>1, <1>4, SlotLemma
  <2>3. items'[Slot(i)] = items[Slot(i)]
    BY <2>2, <1>2 DEF RingTypeOK
  <2>4. (start' + (i - 1)) % max = Slot(i)
    BY <2>1, <1>5
  <2>5. Visited'[i] = items'[(start' + (i - 1)) % max]
    BY <2>1, <1>1 DEF Visited, Slot
  <2>6. Visited[i + 1] = items[Slot(i)]
    BY <2>1 DEF Visited
  <2> QED
    BY <2>3, <2>4, <2>5, <2>6
<1>8. Visited'[count] = n
  <2>1. items'[start] = n
    BY <1>1, <1>2 DEF RingTypeOK
  <2>2. Visited'[count] = items'[(start' + (max - 1)) % max]
    BY <1>1 DEF Visited, Slot, RingTypeOK
  <2> QED
    BY <2>1, <2>2, <1>6
<1>9. items' \in [Slots -> Nat] /\ start' \in Nat /\ start' < max
  BY <1>1, <1>2, <1>3 DEF RingTypeOK, Slots
<1> QED
  BY <1>1, <1>7, <1>8, <1>9

-----------------------------------------------------------------------------
(* The inductive invariant. *)
RingInv == RingTypeOK /\ Ordered /\ Suffix

\* A new ring of any capacity (New) satisfies the invariant.
LEMMA InitRingInv == RingInit => RingInv
<1> SUFFICES ASSUME RingInit PROVE RingInv
  OBVIOUS
<1>1. RingTypeOK
  BY RingAssumption DEF RingInit, RingTypeOK, Slots
<1>2. Ordered /\ Suffix
  BY DEF RingInit, Ordered, Suffix, Visited
<1> QED
  BY <1>1, <1>2 DEF RingInv

(* What is read has natural numbers, all older than a fresh one. *)
LEMMA FreshLemma ==
  ASSUME RingInv, NEW n \in Fresh
  PROVE  /\ n \in Nat /\ n \in Numbers
         /\ Visited = [i \in 1 .. count |-> Visited[i]]
         /\ \A i \in 1 .. count : Visited[i] \in Nat /\ Visited[i] < n
<1>1. n \in Nat /\ n \in Numbers
  BY RingAssumption DEF Fresh
<1>2. ASSUME NEW i \in 1 .. count
      PROVE  Visited[i] \in Nat /\ Visited[i] < n
  BY RingAssumption DEF RingInv, Suffix, Fresh, RingTypeOK
<1> QED
  BY <1>1, <1>2 DEF Visited

(* Every Add keeps the ring ordered and a suffix of what was added. *)
LEMMA StepRingInv == RingInv /\ [RingNext]_ringVars => RingInv'
<1> SUFFICES ASSUME RingInv, [RingNext]_ringVars PROVE RingInv'
  OBVIOUS
<1>1. CASE UNCHANGED ringVars
  BY <1>1 DEF RingInv, ringVars, RingTypeOK, Ordered, Suffix, Visited, Slot, Slots, Oldest
<1>2. CASE RingNext
  <2>1. PICK n \in Fresh : Add(n)
    BY <1>2 DEF RingNext
  <2>2. /\ n \in Nat /\ n \in Numbers
        /\ \A i \in 1 .. count : Visited[i] \in Nat /\ Visited[i] < n
    BY FreshLemma
  <2>3. /\ max' = max /\ added' = added \cup {n} /\ added' \subseteq Numbers
        /\ Slots' = Slots /\ RingTypeOK
    BY <2>1, <2>2 DEF Add, RingInv, RingTypeOK, Slots
  <2>4. CASE AddDropped
    <3>1. max = 0 /\ count = 0 /\ count' = 0 /\ items' = items /\ start' = start
      BY <2>4, <2>3 DEF AddDropped, RingTypeOK
    <3> QED
      BY <3>1, <2>3 DEF RingInv, RingTypeOK, Ordered, Suffix
  <2>5. CASE AddFree(n)
    <3>1. /\ max > 0 /\ count < max /\ count' = count + 1
          /\ \A i \in 1 .. count : Visited'[i] = Visited[i]
          /\ Visited'[count + 1] = n
          /\ items' \in [Slots -> Nat]
      BY <2>2, <2>3, <2>5, FreeLemma
    <3>2. RingTypeOK'
      BY <3>1, <2>3, <2>5 DEF RingTypeOK, AddFree
    <3>3. Ordered'
      BY <3>1, <2>2, <2>3 DEF RingInv, Ordered, RingTypeOK
    <3>4. \A i \in 1 .. count' : Visited'[i] \in added'
      BY <3>1, <2>2, <2>3 DEF RingInv, Suffix, RingTypeOK
    <3>5. ASSUME NEW k \in added'
          PROVE  \/ count' > 0 /\ k < Oldest'
                 \/ \E i \in 1 .. count' : Visited'[i] = k
      <4>1. CASE k = n
        <5>1. count + 1 \in 1 .. count'
          BY <3>1, <2>3 DEF RingTypeOK
        <5> QED
          BY <5>1, <4>1, <3>1
      <4>2. CASE count > 0 /\ k < Oldest
        <5>1. Oldest = Visited[1] /\ 1 \in 1 .. count
          BY <4>2, <2>3, OldestLemma
        <5>2. Oldest' = Visited'[1]
          BY <3>1, <3>2, <2>3, ZeroOffset
             DEF Oldest, Visited, Slot, RingTypeOK
        <5> QED
          BY <5>1, <5>2, <4>2, <3>1, <2>3 DEF RingTypeOK
      <4>3. CASE \E i \in 1 .. count : Visited[i] = k
        <5>1. PICK i \in 1 .. count : Visited[i] = k
          BY <4>3
        <5>2. i \in 1 .. count' /\ Visited'[i] = k
          BY <5>1, <3>1, <2>3 DEF RingTypeOK
        <5> QED
          BY <5>2
      <4> QED
        BY <4>1, <4>2, <4>3, <3>1, <2>3 DEF RingInv, Suffix, RingTypeOK
    <3> QED
      BY <3>2, <3>3, <3>4, <3>5 DEF RingInv, Suffix
  <2>6. CASE AddEvicting(n)
    <3>1. /\ max > 0 /\ count = max /\ count' = count
          /\ \A i \in 1 .. (count - 1) : Visited'[i] = Visited[i + 1]
          /\ Visited'[count] = n
          /\ items' \in [Slots -> Nat]
          /\ start' \in Nat /\ start' < max
      BY <2>2, <2>3, <2>6, EvictLemma
    <3>2. RingTypeOK'
      BY <3>1, <2>3 DEF RingTypeOK
    <3>3. Ordered'
      BY <3>1, <2>2, <2>3 DEF RingInv, Ordered, RingTypeOK
    <3>4. ASSUME NEW i \in 1 .. count'
          PROVE  Visited'[i] \in added'
      <4>1. CASE i = count
        BY <4>1, <3>1, <2>3
      <4>2. CASE i # count
        <5>1. i \in 1 .. (count - 1) /\ i + 1 \in 1 .. count
          BY <4>2, <3>1, <2>3 DEF RingTypeOK
        <5> QED
          BY <5>1, <3>1, <2>3 DEF RingInv, Suffix
      <4> QED
        BY <4>1, <4>2
    <3>5. ASSUME NEW k \in added'
          PROVE  \/ count' > 0 /\ k < Oldest'
                 \/ \E i \in 1 .. count' : Visited'[i] = k
      <4>1. Oldest = Visited[1] /\ 1 \in 1 .. count
        BY <3>1, <2>3, OldestLemma
      <4>2. Oldest' = Visited'[1] /\ count \in 1 .. count'
        BY <3>1, <3>2, <2>3, ZeroOffset
           DEF Oldest, Visited, Slot, RingTypeOK
      <4>3. Visited[1] < Visited'[1]
        <5>1. CASE count = 1
          BY <5>1, <4>1, <3>1, <2>2
        <5>2. CASE count > 1
          <6>1. 1 \in 1 .. (count - 1) /\ 2 \in 1 .. count
            BY <5>2, <3>1, <2>3 DEF RingTypeOK
          <6>2. Visited[1] < Visited[2]
            BY <6>1, <4>1 DEF RingInv, Ordered
          <6> QED
            BY <6>1, <6>2, <3>1
        <5> QED
          BY <5>1, <5>2, <3>1, <2>3 DEF RingTypeOK
      <4>4. /\ Visited[1] \in Nat /\ Visited'[1] \in Nat /\ k \in Nat
        BY <4>1, <4>2, <3>1, <3>4, <2>2, <2>3, RingAssumption
      <4>5. CASE k = n
        BY <4>5, <4>2, <3>1
      <4>6. CASE k < Oldest
        BY <4>1, <4>2, <4>3, <4>4, <4>6, <3>1
      <4>7. CASE \E i \in 1 .. count : Visited[i] = k
        <5>1. PICK i \in 1 .. count : Visited[i] = k
          BY <4>7
        <5>2. CASE i = 1
          BY <5>1, <5>2, <4>1, <4>2, <4>3, <4>4, <3>1
        <5>3. CASE i # 1
          <6>1. i - 1 \in 1 .. (count - 1) /\ (i - 1) + 1 = i /\ i - 1 \in 1 .. count'
            BY <5>3, <3>1, <2>3 DEF RingTypeOK
          <6> QED
            BY <6>1, <5>1, <3>1
        <5> QED
          BY <5>2, <5>3
      <4> QED
        BY <4>5, <4>6, <4>7, <3>1, <2>3 DEF RingInv, Suffix, RingTypeOK
    <3> QED
      BY <3>2, <3>3, <3>4, <3>5 DEF RingInv, Suffix
  <2> QED
    BY <2>1, <2>4, <2>5, <2>6 DEF Add
<1> QED
  BY <1>1, <1>2

\* The invariant holds in every reachable ring: what New and Add keep.
THEOREM RingInvHolds == RingSpec => []RingInv
  BY InitRingInv, StepRingInv, PTL DEF RingSpec

(* Read from its start, the ring is strictly increasing, for any capacity  *)
(* and any number of wrap-arounds (ringbuffer.go Add).                     *)
THEOREM RingOrdered == RingSpec => []Ordered
<1>1. RingInv => Ordered
  BY DEF RingInv
<1> QED
  BY RingInvHolds, <1>1, PTL

(* The ring is a suffix of what was added: no eviction skips an item, so a *)
(* token at or above the oldest item is answered without a gap.            *)
THEOREM RingIsSuffix == RingSpec => []Suffix
<1>1. RingInv => Suffix
  BY DEF RingInv
<1> QED
  BY RingInvHolds, <1>1, PTL

-----------------------------------------------------------------------------
\* A new ring is an empty log.
LEMMA InitRefines == RingInit => Log!Init
<1> SUFFICES ASSUME RingInit PROVE Log!Init
  OBVIOUS
<1>1. Visited = << >>
  BY DEF RingInit, Visited
<1> QED
  BY <1>1, RingAssumption DEF RingInit, Log!Init

\* Add on the ring is Add on the log, dropping, filling or evicting alike.
LEMMA StepRefines == RingInv /\ [RingNext]_ringVars => [Log!Add]_(Log!vars)
<1> SUFFICES ASSUME RingInv, [RingNext]_ringVars PROVE [Log!Add]_(Log!vars)
  OBVIOUS
<1>1. CASE UNCHANGED ringVars
  BY <1>1 DEF ringVars, Log!vars, Visited, Slot
<1>2. CASE RingNext
  <2>1. PICK n \in Fresh : Add(n)
    BY <1>2 DEF RingNext
  <2>2. /\ n \in Nat /\ n \in Numbers
        /\ \A i \in 1 .. count : Visited[i] \in Nat /\ Visited[i] < n
    BY FreshLemma
  <2>3. max' = max /\ RingTypeOK
    BY <2>1 DEF Add, RingInv
  <2>4. Visited \in Seq(Nat) /\ Len(Visited) = count
    BY <2>2, <2>3 DEF Visited, RingTypeOK
  <2>5. \A i \in 1 .. Len(Visited) : Visited[i] < n
    BY <2>2, <2>4
  <2>6. CASE AddDropped
    <3>1. count = 0 /\ count' = 0
      BY <2>6, <2>3 DEF AddDropped, RingTypeOK
    <3>2. Visited' = Visited
      BY <3>1 DEF Visited
    <3> QED
      BY <3>2, <2>3 DEF Log!vars
  <2>7. CASE AddFree(n)
    <3>1. /\ max > 0 /\ count < max /\ count' = count + 1
          /\ \A i \in 1 .. count : Visited'[i] = Visited[i]
          /\ Visited'[count + 1] = n
      BY <2>2, <2>3, <2>7, FreeLemma
    <3>2. Visited' = [i \in 1 .. (count + 1) |-> Visited'[i]]
      BY <3>1 DEF Visited
    <3>3. Visited' = Append(Visited, n)
      BY <3>1, <3>2, <2>4, <2>3 DEF RingTypeOK
    <3> QED
      BY <3>1, <3>3, <2>2, <2>3, <2>4, <2>5 DEF Log!Add, Log!Appended
  <2>8. CASE AddEvicting(n)
    <3>1. /\ max > 0 /\ count = max /\ count' = count
          /\ \A i \in 1 .. (count - 1) : Visited'[i] = Visited[i + 1]
          /\ Visited'[count] = n
      BY <2>2, <2>3, <2>8, EvictLemma
    <3>2. Visited' = [i \in 1 .. count |-> Visited'[i]]
      BY <3>1 DEF Visited
    <3>3. /\ Tail(Visited) \in Seq(Nat) /\ Len(Tail(Visited)) = count - 1
          /\ \A i \in 1 .. (count - 1) : Tail(Visited)[i] = Visited[i + 1]
      BY <3>1, <2>3, <2>4 DEF RingTypeOK
    <3>4. Visited' = Append(Tail(Visited), n)
      BY <3>1, <3>2, <3>3, <2>3 DEF RingTypeOK
    <3> QED
      BY <3>1, <3>4, <2>2, <2>3, <2>4, <2>5 DEF Log!Add, Log!Appended
  <2> QED
    BY <2>1, <2>6, <2>7, <2>8 DEF Add
<1> QED
  BY <1>1, <1>2

(* The ring implements the bounded log: every Add appends, and evicts the  *)
(* oldest item and no other exactly when the buffer is full.               *)
THEOREM RingRefinesLog == RingSpec => RefinesLog
  BY InitRefines, StepRefines, RingInvHolds, PTL DEF RingSpec, RefinesLog, Log!Spec

-----------------------------------------------------------------------------
(* What Since answers.  Its loop is a recursive function, so what it keeps *)
(* is shown by taking the least slot where it would differ.                *)

\* In an increasing log the items a reader has are the first ones.
LEMMA SeenLemma ==
  ASSUME Visited \in Seq(Nat), NEW token \in Nat,
         \A i, j \in 1 .. Len(Visited) : i < j => Visited[i] < Visited[j]
  PROVE  /\ Log!Seen(token) \in 0 .. Len(Visited)
         /\ \A i \in 1 .. Len(Visited) : Visited[i] > token <=> i > Log!Seen(token)
<1> DEFINE T == { k \in 0 .. Len(Visited) :
                    \A i \in 1 .. Len(Visited) : i > k => Visited[i] > token }
<1>1. Len(Visited) \in Nat /\ \A i \in 1 .. Len(Visited) : Visited[i] \in Nat
  OBVIOUS
<1>2. T \in SUBSET Nat /\ Len(Visited) \in T
  BY <1>1
<1>3. PICK k \in T : \A y \in T : k <= y
  BY <1>2, LeastNat
<1>4. k \in 0 .. Len(Visited) /\ \A i \in 1 .. Len(Visited) : i > k => Visited[i] > token
  BY <1>3
<1>5. ASSUME NEW i \in 1 .. Len(Visited), Visited[i] > token, ~(i > k) PROVE FALSE
  <2>1. \A j \in 1 .. Len(Visited) : j > i - 1 => Visited[j] > token
    BY <1>1, <1>5
  <2>2. i - 1 \in 0 .. Len(Visited)
    BY <1>1
  <2>3. i - 1 \in T
    BY <2>1, <2>2
  <2>4. k <= i - 1
    BY <2>3, <1>3
  <2> QED
    BY <2>4, <1>4, <1>5
<1>6. \E x \in 0 .. Len(Visited) : \A i \in 1 .. Len(Visited) : Visited[i] > token <=> i > x
  BY <1>4, <1>5
<1> QED
  BY <1>6 DEF Log!Seen

\* Since answers exactly what the log says a reader lacks, and that is what was added.
LEMMA AnswerIsExact == RingInv => NothingSkipped
<1> SUFFICES ASSUME RingInv, NEW token \in Numbers \cup {0}
             PROVE  /\ SinceOK(token) <=> Log!Answerable(token)
                    /\ SinceOK(token) =>
                         /\ SinceItems(token) = Log!Missing(token)
                         /\ { SinceItems(token)[i] : i \in DOMAIN SinceItems(token) }
                              = { n \in added : n > token }
  BY DEF NothingSkipped
<1>1. RingTypeOK /\ Ordered /\ Suffix
  BY DEF RingInv
<1>2. token \in Nat /\ added \subseteq Nat /\ count \in Nat
  BY <1>1, RingAssumption DEF RingTypeOK
<1>3. Visited \in Seq(Nat) /\ Len(Visited) = count
  <2>1. \A i \in 1 .. count : Visited[i] \in Nat
    BY <1>1, <1>2 DEF Suffix
  <2> QED
    BY <2>1, <1>2 DEF Visited
<1>4. SinceOK(token) <=> Log!Answerable(token)
  <2>1. CASE count = 0
    BY <2>1, <1>3 DEF SinceOK, Log!Answerable
  <2>2. CASE count # 0
    <3>1. Oldest = Visited[1] /\ Visited[1] \in Nat /\ Visited # << >>
      BY <2>2, <1>1, <1>2, <1>3, OldestLemma
    <3> QED
      BY <2>2, <3>1, <1>2 DEF SinceOK, Log!Answerable
  <2> QED
    BY <2>1, <2>2
<1>5. ASSUME SinceOK(token)
      PROVE  /\ SinceItems(token) = Log!Missing(token)
             /\ { SinceItems(token)[i] : i \in DOMAIN SinceItems(token) }
                  = { n \in added : n > token }
  <2> DEFINE k == Log!Seen(token)
             answer == SubSeq(Visited, k + 1, count)
  <2>1. count > 0 /\ token >= Oldest /\ Oldest = Visited[1]
    BY <1>5, <1>1, <1>2, OldestLemma DEF SinceOK
  <2>2. \A i, j \in 1 .. Len(Visited) : i < j => Visited[i] < Visited[j]
    BY <1>1, <1>3 DEF Ordered
  <2>3. k \in 0 .. count /\ \A i \in 1 .. count : Visited[i] > token <=> i > k
    BY <2>2, <1>2, <1>3, SeenLemma
  <2> HIDE DEF k
  <2>4. Log!Missing(token) = answer
    BY <1>3 DEF Log!Missing, k
  <2>5. SinceItems(token) = answer
    <3>1. CASE token >= Latest
      <4>1. Latest = Visited[count] /\ count \in 1 .. count /\ Visited[count] \in Nat
        BY <2>1, <1>2, <1>3 DEF Latest, Visited
      <4>2. k = count
        BY <3>1, <4>1, <2>3, <1>2
      <4>3. answer = << >>
        BY <4>2, <1>2, <1>3
      <4> QED
        BY <3>1, <4>3 DEF SinceItems
    <3>2. CASE ~(token >= Latest)
      BY <3>2, <2>3, <1>2, <1>3, NewerLemma DEF SinceItems
    <3> QED
      BY <3>1, <3>2
  <2>6. /\ DOMAIN answer = 1 .. (count - k)
        /\ \A i \in 1 .. (count - k) : answer[i] = Visited[k + i]
    BY <2>3, <1>2, <1>3
  <2> HIDE DEF answer
  <2>7. ASSUME NEW i \in DOMAIN answer
        PROVE  answer[i] \in added /\ answer[i] > token
    <3>1. k + i \in 1 .. count /\ k + i > k
      BY <2>3, <2>6, <1>2
    <3> QED
      BY <3>1, <2>3, <2>6, <1>1 DEF Suffix
  <2>8. ASSUME NEW n \in added, n > token
        PROVE  \E i \in DOMAIN answer : answer[i] = n
    <3>1. max # 0
      BY <2>1, <1>1 DEF RingTypeOK
    <3>2. ~(n < Oldest)
      BY <2>8, <2>1, <1>2, <1>3
    <3>3. PICK j \in 1 .. count : Visited[j] = n
      BY <3>1, <3>2, <1>1 DEF Suffix
    <3>4. j > k /\ j - k \in 1 .. (count - k) /\ k + (j - k) = j
      BY <3>3, <2>8, <2>3, <1>2
    <3> QED
      BY <3>3, <3>4, <2>6
  <2>9. { answer[i] : i \in DOMAIN answer } = { n \in added : n > token }
    BY <2>7, <2>8
  <2> QED
    BY <2>4, <2>5, <2>9
<1> QED
  BY <1>4, <1>5

(* A token Since accepts is answered with every item added after it, in    *)
(* order and nothing else; a token is refused only if an item the client   *)
(* needs may be gone (ringbuffer.go Since).                                *)
THEOREM ResumeExact == RingSpec => []NothingSkipped
  BY RingInvHolds, AnswerIsExact, PTL
=============================================================================
