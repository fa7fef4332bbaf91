---------------------------- MODULE MCStreamHub ----------------------------
(***************************************************************************)
(* StreamHubSpec for TLC: two concurrent informer goroutines, two          *)
(* subscriptions, channels of one or two messages.                         *)
(***************************************************************************)
EXTENDS StreamHubSpec, TLC

Symmetry == Permutations(Subs) \cup Permutations(Workers)
=============================================================================
