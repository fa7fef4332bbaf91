----------------------------- MODULE RingBuffer -----------------------------
(***************************************************************************)
(* backend/refresh/ringbuffer/ringbuffer.go: the fixed-capacity ring of    *)
(* sequence-numbered items behind the resource and event streams' resume   *)
(* tokens.  An item is its sequence number (seqOf); slots are indexed from *)
(* 0 as in the code, 0 is the zero value an unwritten slot holds.          *)
(***************************************************************************)
EXTENDS Integers, Sequences, RingSince

CONSTANTS Capacities,  \* arguments New is called with; 0 keeps nothing
          Numbers      \* sequence numbers the callers' seqOf may return

ASSUME RingAssumption == Capacities \subseteq Nat /\ Numbers \subseteq Nat \ {0}

VARIABLES max, items, start, count,
          added     \* history: every sequence number Add was called with

ringVars == << max, items, start, count, added >>

Slots == 0 .. (max - 1)

(* New *)
RingInit == /\ max \in Capacities
        /\ items = [i \in Slots |-> 0]
        /\ start = 0 /\ count = 0 /\ added = {}

(* The slot of the i-th retained item, counted from 0. *)
Slot(i) == (start + i) % max

(* The callers number their items with a counter that only grows. *)
Fresh == { n \in Numbers : \A m \in added : m < n }

AddDropped == max = 0 /\ UNCHANGED << items, start, count >>

AddFree(n) == /\ max # 0 /\ count < max
              /\ items' = [items EXCEPT ![Slot(count)] = n]
              /\ count' = count + 1
              /\ UNCHANGED start

(* An eviction that forgets to move the start past the overwritten slot. *)
EvictInPlace(n) == /\ max # 0 /\ count >= max
                   /\ items' = [items EXCEPT ![start] = n]
                   /\ UNCHANGED << start, count >>

AddEvicting(n) == /\ max # 0 /\ count >= max
                  /\ items' = [items EXCEPT ![start] = n]
                  /\ start' = (start + 1) % max
                  /\ UNCHANGED count

Add(n) == /\ AddDropped \/ AddFree(n) \/ AddEvicting(n)
          /\ added' = added \cup {n} /\ UNCHANGED max

RingNext == \E n \in Fresh : Add(n)

RingSpec == RingInit /\ [][RingNext]_ringVars

-----------------------------------------------------------------------------
(* Since: refused, or the retained items newer than the token in the order *)
(* the loop visits them.                                                   *)

Oldest == items[start]
Latest == items[Slot(count - 1)]

Visited == [i \in 1 .. count |-> items[Slot(i - 1)]]

(* A Since that accepts a token from before the oldest retained item. *)
SinceOKAlways(token) == count # 0 /\ token >= 0

SinceOK(token) == count # 0 /\ token >= Oldest

SinceItems(token) == IF token >= Latest THEN << >> ELSE Newer(Visited, token)

-----------------------------------------------------------------------------
(* The ring read in order is the bounded log. *)
Log == INSTANCE BoundedLog WITH capacity <- max, log <- Visited

(* The ring implements the log: every Add is an append that evicts exactly *)
(* the oldest item when full (ringbuffer.go Add).                          *)
RefinesLog == Log!Spec

RingTypeOK == /\ max \in Nat
          /\ items \in [Slots -> Nat]
          /\ start \in Nat /\ (max > 0 => start < max)
          /\ count \in 0 .. max
          /\ added \subseteq Numbers

(* What the shortcuts of Since rely on: read from start on, the ring is    *)
(* strictly increasing, so its first item is the oldest and its last the   *)
(* latest; and it holds every number ever added that is not older than its *)
(* first one, so that an eviction never skipped an item.                   *)
Ordered == \A i, j \in 1 .. count : i < j => Visited[i] < Visited[j]

Suffix == /\ \A i \in 1 .. count : Visited[i] \in added
          /\ \A n \in added : \/ max = 0
                              \/ count > 0 /\ n < Oldest
                              \/ \E i \in 1 .. count : Visited[i] = n

(* What a resume token buys a reconnecting client (Since): if the token is *)
(* accepted, the answer holds every item ever added after it, in order and *)
(* nothing else; and a token is refused only if the buffer is empty or has *)
(* lost the item it names or an earlier one.                               *)
NothingSkipped ==
  \A token \in Numbers \cup {0} :
    /\ SinceOK(token) <=> Log!Answerable(token)
    /\ SinceOK(token) =>
         LET answer == SinceItems(token)
         IN  /\ answer = Log!Missing(token)
             /\ { answer[i] : i \in DOMAIN answer } = { n \in added : n > token }
=============================================================================
