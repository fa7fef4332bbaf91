---------------------------- MODULE SnapshotReads ----------------------------
(***************************************************************************)
(* What the snapshot service promises its callers, without cache, shared   *)
(* builds or retirement: a read answered with a snapshot shows data that   *)
(* was in the stores at some moment, and never data older than the last    *)
(* change that had been announced (the cache of its domain invalidated)    *)
(* when the read was asked.  This is what the stream's client relies on    *)
(* when it fetches after a change signal.                                  *)
(***************************************************************************)
EXTENDS Naturals

CONSTANTS Requests, \* the callers, each with one read at a time
          MaxData   \* bound: the latest version of the stores

VARIABLES data,      \* the version of the stores
          announced, \* the version at the last announcement
          read       \* each caller: whether it asks, since when, the last answer

vars == <<data, announced, read>>

Error(kind) == [kind |-> kind, version |-> 0]
Errors == {Error("failed"), Error("canceled"), Error("retired")}

Idle(answer) == [asking |-> FALSE, floor |-> 0, answer |-> answer]

Init == /\ data = 0
        /\ announced = 0
        /\ read = [r \in Requests |-> Idle(Error("nothing"))]

Change == /\ data < MaxData
          /\ data' = data + 1
          /\ UNCHANGED <<announced, read>>

Announce == /\ announced' = data
            /\ UNCHANGED <<data, read>>

Ask(r) == /\ ~read[r].asking
          /\ read' = [read EXCEPT ![r] = [asking |-> TRUE, floor |-> announced,
                                          answer |-> Error("nothing")]]
          /\ UNCHANGED <<data, announced>>

AnswerSnapshot(r) ==
  /\ read[r].asking
  /\ \E v \in read[r].floor .. data :
       read' = [read EXCEPT ![r] = Idle([kind |-> "snapshot", version |-> v])]
  /\ UNCHANGED <<data, announced>>

AnswerError(r) ==
  /\ read[r].asking
  /\ \E e \in Errors : read' = [read EXCEPT ![r] = Idle(e)]
  /\ UNCHANGED <<data, announced>>

\* A service that is already retired answers at once.
Refuse(r) == /\ ~read[r].asking
             /\ read' = [read EXCEPT ![r] = Idle(Error("retired"))]
             /\ UNCHANGED <<data, announced>>

Next == \/ Change
        \/ Announce
        \/ \E r \in Requests : \/ Ask(r) \/ Refuse(r)
                               \/ AnswerSnapshot(r) \/ AnswerError(r)

Spec == Init /\ [][Next]_vars
=============================================================================
