-------------------------- MODULE MCResourceStream --------------------------
(***************************************************************************)
(* ResourceStream for TLC.                                                 *)
(***************************************************************************)
EXTENDS ResourceStream, TLC

Lost == \E x \in Sessions : sess[x].state # "unused" /\ ~sess[x].up
Replaced == current # FirstManager

\* Bounds: a behaviour loses its connection or has its manager replaced. The
\* first leaves out manual refreshes; in the second, changes of the cluster and
\* manual refreshes are at most two together.
InBounds ==
    /\ Lost => ~Replaced /\ manuals = 0
    /\ Replaced => manuals + world <= 2

Symmetry == Permutations(Subs)
=============================================================================
