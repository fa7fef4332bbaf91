-------------------------- MODULE MCSnapshotService --------------------------
(* SnapshotService for model checking: callers and flights are symmetric.   *)
EXTENDS SnapshotService, TLC

Symmetry == Permutations(Requests) \cup Permutations(Slots)
=============================================================================
