------------------------- MODULE MCClusterReadiness -------------------------
(***************************************************************************)
(* ClusterReadiness for TLC.  A behaviour has one of these sets of outside *)
(* events, each of them at most once.                                      *)
(***************************************************************************)
EXTENDS ClusterReadiness

Once(events) == [e \in Events |-> IF e \in events THEN 1 ELSE 0]

MCBudgets == {
  Once({"change", "deadline"}),                   \* one generation
  Once({"connected", "fetch", "deadline", "slow", "fault"}),
  Once({"replace", "deadline"}),                  \* a replacement
  Once({"recovering", "invalid", "valid"})}       \* a failure of auth
=============================================================================
