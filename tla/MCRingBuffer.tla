---------------------------- MODULE MCRingBuffer ----------------------------
(***************************************************************************)
(* RingBuffer for TLC: buffers of no, one and three slots, filled with     *)
(* every increasing choice of nine sequence numbers (three times around).  *)
(***************************************************************************)
EXTENDS RingBuffer

MCNumbers == 1 .. 9
=============================================================================
