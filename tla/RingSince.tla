----------------------------- MODULE RingSince -----------------------------
(***************************************************************************)
(* What both users of backend/refresh/ringbuffer.Buffer read from it: the  *)
(* loop of Since over the sequence numbers of the retained items, oldest   *)
(* first.  RingBuffer runs it over the ring, StreamHub over the resume     *)
(* buffer of a scope.                                                      *)
(***************************************************************************)
EXTENDS Naturals, Sequences

(* What the loop has kept once it is past item i. *)
Newer(q, token) ==
  LET kept[i \in 0 .. Len(q)] ==
        IF i = 0 THEN << >>
        ELSE IF q[i] > token THEN Append(kept[i - 1], q[i]) ELSE kept[i - 1]
  IN  kept[Len(q)]
=============================================================================
