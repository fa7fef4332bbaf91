----------------------------- MODULE BoundedLog -----------------------------
(***************************************************************************)
(* What a resume buffer promises its readers, without the ring: the        *)
(* newest Capacity items of everything that was ever added, oldest first,  *)
(* and an answer to a resume token that is either refused or exact.        *)
(* RingBuffer (backend/refresh/ringbuffer) is shown to implement it.       *)
(***************************************************************************)
EXTENDS Naturals, Sequences

CONSTANT Numbers     \* the sequence numbers items may carry

VARIABLES capacity,  \* items the log keeps, fixed at creation
          log        \* the retained sequence numbers, oldest first

vars == << capacity, log >>

Init == capacity \in Nat /\ log = << >>

(* The log after sequence number n arrived: one item longer, or shifted.   *)
Appended(n) == IF Len(log) < capacity THEN Append(log, n)
               ELSE Append(Tail(log), n)

Add == /\ capacity > 0
       /\ \E n \in Numbers : /\ \A i \in 1 .. Len(log) : log[i] < n
                             /\ log' = Appended(n)
       /\ UNCHANGED capacity

Spec == Init /\ [][Add]_vars

(* A token is answerable when the log still holds it or something newer.   *)
Answerable(token) == log # << >> /\ log[1] <= token

(* How many of the retained items a reader of everything up to token has,  *)
(* and the ones it still lacks.                                            *)
Seen(token) == CHOOSE k \in 0 .. Len(log) :
                 \A i \in 1 .. Len(log) : log[i] > token <=> i > k

Missing(token) == SubSeq(log, Seen(token) + 1, Len(log))
=============================================================================
