---------------------------- MODULE MCAuthState ----------------------------
(* Model values and small instances for AuthState.                         *)
EXTENDS AuthState, TLC

\* First probe at once, then one progress interval: both paths of the countdown.
MCBackoff == <<0, 1>>
=============================================================================
