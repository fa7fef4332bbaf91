--------------------------- MODULE MCLiveOperations ---------------------------
(* Instances of LiveOperations for the model checker.  The kinds of           *)
(* operations meet only in the registry: in a behaviour only those of one     *)
(* kind are started, the calls that start the others have failed already.     *)
(* Drains get an opening less than sessions.                                  *)
EXTENDS LiveOperations

AllOps == Forwards \cup Shells \cup Drains

OneKindInit ==
  \E kind \in {Forwards, Shells, Drains} :
    /\ RegistryInitAfter(IF kind = Drains THEN 1 ELSE 0)
    /\ OperationsInit([o \in Ops |-> IF o \in kind THEN "idle" ELSE "over"])

OneKindSpec == OneKindInit /\ [][Next]_vars /\ Fairness
=============================================================================
