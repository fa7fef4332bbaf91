-------------------------- MODULE AuthStateProofs --------------------------
(***************************************************************************)
(* Proofs about AuthState for every value of its constants: any number of  *)
(* goroutines and requests, any backoff schedule, any MaxAttempts.         *)
(*                                                                         *)
(* RecoveryNeverGivesUp is not inductive alone: that the current goroutine *)
(* is alive depends on OneActiveLoop (a report cannot cancel a goroutine   *)
(* other than the one it replaces), and the countdown and the burst need   *)
(* LocalsOK, what the locals of a goroutine satisfy at its program points. *)
(***************************************************************************)
EXTENDS AuthState, TLAPS

LocalsOK ==
  \A l \in Loops :
    /\ loop[l].pc \in {"announce", "sleep"} => loop[l].remaining > 0
    /\ loop[l].pc = "settle" => loop[l].authFailures = MaxAttempts

ShutdownPhase == stopped <=> shutdown # "no"

IInv ==
  /\ TypeOK
  /\ LocalsOK
  /\ ShutdownPhase
  /\ OneActiveLoop
  /\ RecoveryNeverGivesUp
  /\ ShutdownIsFinal

\* Every delay the recovery loop waits for is a natural number.
LEMMA DelaysAreNat ==
  /\ \A n \in Nat : getBackoffDelay(n) \in Nat
  /\ connectivityRetryDelay \in Nat
  /\ steadyRetryDelay \in Nat
<1>1. ASSUME NEW n \in Nat PROVE getBackoffDelay(n) \in Nat
  BY AuthConstants DEF getBackoffDelay
<1>2. connectivityRetryDelay \in Nat
  BY AuthConstants DEF connectivityRetryDelay
<1>3. steadyRetryDelay \in Nat
  BY AuthConstants DEF steadyRetryDelay
<1> QED
  BY <1>1, <1>2, <1>3

\* The locals of an ended and of a new goroutine are well typed.
LEMMA FreshGoroutine ==
  /\ Gone \in Goroutines
  /\ Started(getBackoffDelay(0)) \in Goroutines
<1>1. 0 \in 0..MaxAttempts
  BY AuthConstants
<1> QED
  BY <1>1, DelaysAreNat DEF Gone, Started, Goroutines, Points, Classes

\* Cancelling keeps every goroutine but for the context of the current one.
LEMMA CancelFacts ==
  ASSUME TypeOK
  PROVE  /\ CancelCurrent \in [Loops -> Goroutines]
         /\ \A l \in Loops :
              /\ CancelCurrent[l].pc = loop[l].pc
              /\ CancelCurrent[l].authFailures = loop[l].authFailures
              /\ CancelCurrent[l].remaining = loop[l].remaining
              /\ l # recoveryCancel => CancelCurrent[l] = loop[l]
              /\ l = recoveryCancel /\ loop[l].pc # "idle"
                   => CancelCurrent[l].ctxDone
BY DEF TypeOK, CancelCurrent, Goroutines

\* The initial states satisfy the invariant.
LEMMA InitIInv == Init => IInv
<1> SUFFICES ASSUME Init PROVE IInv
  OBVIOUS
<1>1. TypeOK
  <2>1. loop \in [Loops -> Goroutines]
    BY FreshGoroutine DEF Init
  <2>2. diag \in Diagnostics
    BY DEF Init, NoDiag, Diagnostics
  <2>3. retries \in 0..MaxRetries
    BY AuthConstants DEF Init
  <2>4. state \in States /\ lastProbeClass \in Classes
          /\ req \in [Requests -> ReqStates]
    BY DEF Init, States, Classes, ReqStates
  <2> QED
    BY <2>1, <2>2, <2>3, <2>4 DEF Init, TypeOK
<1>2. \A l \in Loops : loop[l].pc = "idle"
  BY DEF Init, Gone
<1> QED
  BY <1>1, <1>2 DEF Init, IInv, LocalsOK, ShutdownPhase, OneActiveLoop,
     RecoveryNeverGivesUp, ShutdownIsFinal, Active, Alive

\* Starting (or, once stopped, not starting) a recovery goroutine.
LEMMA StartRecoveryFacts ==
  ASSUME TypeOK, NEW l \in Loops, startRecoveryLocked(l)
  PROVE  /\ loop' \in [Loops -> Goroutines]
         /\ recoveryCancel' \in Loops \cup {None}
         /\ stopped => loop' = loop /\ recoveryCancel' = recoveryCancel
         /\ ~stopped => /\ recoveryCancel' = l
                        /\ loop'[l] = Started(getBackoffDelay(0))
                        /\ \A k \in Loops \ {l} : loop'[k] = CancelCurrent[k]
<1>1. CASE stopped
  BY <1>1 DEF startRecoveryLocked, MayStart, TypeOK
<1>2. CASE ~stopped
  BY <1>2, CancelFacts, FreshGoroutine DEF startRecoveryLocked, MayStart
<1> QED
  BY <1>1, <1>2

\* The invariant survives a report of a failure.
LEMMA ReportFailureStep ==
  ASSUME IInv, NEW d \in Diagnostics, ReportFailureDiagnostic(d),
         UNCHANGED shutdown, req' \in [Requests -> ReqStates],
         UNCHANGED world
  PROVE  IInv'
<1> USE DEF IInv
<1>1. CASE state # "valid"
  BY <1>1 DEF ReportFailureDiagnostic, ReportIgnored, manager, world, TypeOK, LocalsOK,
     ShutdownPhase, OneActiveLoop, RecoveryNeverGivesUp, ShutdownIsFinal,
     Active, Alive
<1>2. CASE state = "valid" /\ MaxAttempts > 0
  <2>1. PICK l \in Loops : startRecoveryLocked(l)
    BY <1>2 DEF ReportFailureDiagnostic, ReportIgnored
  <2>2. /\ state' = "recovering" /\ diag' = d /\ lastProbeClass' = "unknown"
        /\ UNCHANGED <<secondsUntilRetry, stopped, testSet, retries>>
    BY <1>2 DEF ReportFailureDiagnostic, ReportIgnored, setState
  <2>3. TypeOK'
    BY <2>1, <2>2, StartRecoveryFacts DEF TypeOK, States, Classes, world
  <2>4. LocalsOK'
    BY <2>1, StartRecoveryFacts, CancelFacts, CancelFacts DEF LocalsOK, Started
  <2>5. OneActiveLoop' /\ RecoveryNeverGivesUp' /\ ShutdownIsFinal'
    BY <1>2, <2>1, <2>2, StartRecoveryFacts, CancelFacts
       DEF OneActiveLoop, RecoveryNeverGivesUp, ShutdownIsFinal, ShutdownPhase,
           Active, Alive, Started, TypeOK
  <2> QED
    BY <2>2, <2>3, <2>4, <2>5 DEF ShutdownPhase
<1>3. CASE state = "valid" /\ ~(MaxAttempts > 0)
  BY <1>3 DEF ReportFailureDiagnostic, ReportIgnored, setState, world, TypeOK, LocalsOK,
     ShutdownPhase, OneActiveLoop, RecoveryNeverGivesUp, ShutdownIsFinal,
     Active, Alive, States, Classes
<1> QED
  BY <1>1, <1>2, <1>3

\* The invariant survives a report of a success.
LEMMA ReportSuccessStep ==
  ASSUME IInv, ReportSuccess, UNCHANGED shutdown,
         req' \in [Requests -> ReqStates], UNCHANGED world
  PROVE  IInv'
<1> USE DEF IInv
<1>1. TypeOK'
  BY CancelFacts DEF ReportSuccess, setState, world, TypeOK, States,
     Diagnostics, NoDiag
<1>2. LocalsOK'
  BY CancelFacts DEF ReportSuccess, LocalsOK
<1>3. OneActiveLoop' /\ RecoveryNeverGivesUp' /\ ShutdownIsFinal'
       /\ ShutdownPhase'
  BY CancelFacts DEF ReportSuccess, setState, OneActiveLoop,
     RecoveryNeverGivesUp, ShutdownIsFinal, ShutdownPhase, Active, Alive
<1> QED
  BY <1>1, <1>2, <1>3

\* What a step of goroutine l changes at most, and what it guarantees of l's
\* locals: l goes on with the context it had, or was cancelled and returns.
GoroutineStep(l) ==
  /\ loop' \in [Loops -> Goroutines]
  /\ \A k \in Loops \ {l} : loop'[k] = loop[k]
  /\ \/ loop'[l].pc # "idle" /\ loop'[l].ctxDone = loop[l].ctxDone
     \/ loop'[l].pc = "idle" /\ loop[l].ctxDone
  /\ loop'[l].pc \in {"announce", "sleep"} => loop'[l].remaining > 0
  /\ loop'[l].pc = "settle" => loop'[l].authFailures = MaxAttempts

\* Such a step keeps the invariant, provided it does not make the state valid.
LEMMA GoroutineStepKeeps ==
  ASSUME IInv, NEW l \in Loops, loop[l].pc # "idle", GoroutineStep(l),
         state' \in States, diag' \in Diagnostics, secondsUntilRetry' \in Nat,
         lastProbeClass' \in Classes,
         state' = state \/ (state' # "valid" /\ state # "valid"),
         UNCHANGED <<stopped, recoveryCancel, testSet, retries, shutdown, req,
                     accepted, reachable>>
  PROVE  IInv'
<1> USE DEF IInv, GoroutineStep
<1>1. TypeOK' /\ LocalsOK'
  BY DEF TypeOK, LocalsOK
<1>2. OneActiveLoop'
  BY DEF OneActiveLoop, Active, Alive
<1>3. RecoveryNeverGivesUp'
  BY DEF RecoveryNeverGivesUp, Active, Alive
<1>4. ShutdownIsFinal' /\ ShutdownPhase'
  BY DEF ShutdownIsFinal, ShutdownPhase, Alive
<1> QED
  BY <1>1, <1>2, <1>3, <1>4

\* A cancelled goroutine that returns is such a step.
LEMMA ReturnFacts ==
  ASSUME loop \in [Loops -> Goroutines], NEW l \in Loops, Return(l)
  PROVE  /\ loop' \in [Loops -> Goroutines]
         /\ loop'[l].pc = "idle"
         /\ \A k \in Loops \ {l} : loop'[k] = loop[k]
         /\ loop[l].ctxDone => GoroutineStep(l)
<1>1. loop' = [loop EXCEPT ![l] = Gone]
  BY DEF Return
<1>2. loop' \in [Loops -> Goroutines]
  BY <1>1, FreshGoroutine
<1>3. loop'[l] = Gone /\ \A k \in Loops \ {l} : loop'[k] = loop[k]
  BY <1>1
<1>4. loop'[l].pc = "idle"
  BY <1>3 DEF Gone
<1> QED
  BY <1>2, <1>3, <1>4 DEF GoroutineStep

\* The invariant survives every step of a recovery goroutine.
LEMMA RecoveryStep ==
  ASSUME IInv, NEW l \in Loops, runRecovery(l)
  PROVE  IInv'
<1>0. /\ TypeOK /\ LocalsOK
      /\ loop \in [Loops -> Goroutines]
      /\ state \in States /\ diag \in Diagnostics
      /\ secondsUntilRetry \in Nat /\ lastProbeClass \in Classes
  BY DEF TypeOK, IInv
<1>1. CASE EnterWait(l)
  <2>1. GoroutineStep(l) /\ loop[l].pc # "idle"
    <3>1. CASE loop[l].ctxDone
      BY <1>0, <1>1, <3>1, ReturnFacts DEF EnterWait
    <3>2. CASE ~loop[l].ctxDone
      BY <1>0, <1>1, <3>2
         DEF EnterWait, Goto, Countdown, Goroutines, Points, GoroutineStep
    <3> QED
      BY <3>1, <3>2
  <2> QED
    BY <1>0, <1>1, <2>1, GoroutineStepKeeps DEF EnterWait, manager, world
<1>2. CASE emitProgress(l)
  <2>1. GoroutineStep(l) /\ loop[l].pc # "idle" /\ secondsUntilRetry' \in Nat
    BY <1>0, <1>2
       DEF emitProgress, Goto, Goroutines, Points, GoroutineStep, LocalsOK
  <2> QED
    BY <1>0, <1>2, <2>1, GoroutineStepKeeps DEF emitProgress, world
<1>3. CASE Sleep(l)
  <2>1. GoroutineStep(l) /\ loop[l].pc # "idle"
    <3>1. CASE loop[l].ctxDone /\ Return(l)
      BY <1>0, <1>3, <3>1, ReturnFacts DEF Sleep
    <3>2. CASE loop' = [loop EXCEPT
                          ![l].pc = Countdown(loop[l].remaining - 1),
                          ![l].remaining = loop[l].remaining - 1]
      <4>1. loop[l].pc = "sleep" /\ loop[l].remaining \in Nat \ {0}
        BY <1>0, <1>3 DEF Sleep, LocalsOK, Goroutines
      <4> QED
        BY <1>0, <3>2, <4>1
           DEF Countdown, Goroutines, Points, GoroutineStep
    <3> QED
      BY <1>3, <3>1, <3>2 DEF Sleep
  <2> QED
    BY <1>0, <1>3, <2>1, GoroutineStepKeeps DEF Sleep, manager, world
<1>4. CASE StartProbe(l)
  <2>1. GoroutineStep(l) /\ loop[l].pc # "idle"
    <3>1. CASE loop[l].ctxDone
      BY <1>0, <1>4, <3>1, ReturnFacts DEF StartProbe
    <3>2. CASE ~loop[l].ctxDone
      BY <1>0, <1>4, <3>2
         DEF StartProbe, Goto, Goroutines, Points, GoroutineStep
    <3> QED
      BY <3>1, <3>2
  <2> QED
    BY <1>0, <1>4, <2>1, GoroutineStepKeeps DEF StartProbe, manager, world
<1>5. CASE testRecovery(l)
  <2>1. PICK v \in ProbeVerdicts :
          IF v = "ok" THEN Goto(l, "ok")
          ELSE loop' = [loop EXCEPT ![l].pc = "record", ![l].class = v]
    BY <1>5 DEF testRecovery
  <2>2. v # "ok" => v \in Classes
    BY DEF ProbeVerdicts, Classes
  <2>3. GoroutineStep(l) /\ loop[l].pc # "idle"
    BY <1>0, <1>5, <2>1, <2>2
       DEF testRecovery, Goto, Goroutines, Points, GoroutineStep
  <2> QED
    BY <1>0, <1>5, <2>3, GoroutineStepKeeps DEF testRecovery, manager, world
<1>6. CASE ProbeSucceeded(l)
  <2> USE DEF IInv
  <2>1. /\ loop' \in [Loops -> Goroutines] /\ loop'[l].pc = "idle"
        /\ \A k \in Loops \ {l} : loop'[k] = loop[k]
    BY <1>0, <1>6, ReturnFacts DEF ProbeSucceeded
  <2>2. /\ UNCHANGED <<secondsUntilRetry, lastProbeClass, stopped,
                       recoveryCancel, testSet, retries, shutdown, req,
                       accepted, reachable>>
        /\ loop[l].pc = "ok"
        /\ \/ ~loop[l].ctxDone /\ state' = "valid" /\ diag' = NoDiag
           \/ (loop[l].ctxDone \/ state = "valid") /\ UNCHANGED <<state, diag>>
    BY <1>6 DEF ProbeSucceeded, SuccessCounts, setState, world
  <2>3. TypeOK' /\ LocalsOK'
    <3>0. NoDiag \in Diagnostics /\ "valid" \in States
      BY DEF States, Diagnostics, NoDiag
    <3>1. state' \in States /\ diag' \in Diagnostics
      BY <1>0, <2>2, <3>0
    <3> QED
      BY <1>0, <2>1, <2>2, <3>1 DEF TypeOK, LocalsOK
  <2>4. OneActiveLoop' /\ RecoveryNeverGivesUp'
    BY <2>1, <2>2 DEF OneActiveLoop, RecoveryNeverGivesUp, Active, Alive
  <2>5. ShutdownIsFinal' /\ ShutdownPhase'
    BY <2>1, <2>2 DEF ShutdownIsFinal, ShutdownPhase, Alive
  <2> QED
    BY <2>3, <2>4, <2>5
<1>7. CASE recordRecoveryProbeClass(l)
  <2> DEFINE failures == IF loop[l].authFailures < MaxAttempts
                         THEN loop[l].authFailures + 1 ELSE MaxAttempts
  <2>a. failures \in 0..MaxAttempts /\ failures \in Nat
    BY <1>0, AuthConstants DEF Goroutines
  <2>b. loop[l].pc = "record" /\ lastProbeClass' = loop[l].class
    BY <1>7 DEF recordRecoveryProbeClass
  <2>c. \/ loop' = [loop EXCEPT ![l].pc = "enter",
                                ![l].remaining = connectivityRetryDelay]
        \/ /\ failures >= MaxAttempts
           /\ loop' = [loop EXCEPT ![l].pc = "settle",
                                   ![l].authFailures = failures]
        \/ loop' = [loop EXCEPT ![l].pc = "enter",
                                ![l].authFailures = failures,
                                ![l].remaining = getBackoffDelay(failures)]
    BY <1>7 DEF recordRecoveryProbeClass, ConsumesAttempt
  <2>d. getBackoffDelay(failures) \in Nat /\ connectivityRetryDelay \in Nat
    BY <2>a, DelaysAreNat
  <2> HIDE DEF failures
  <2>1. GoroutineStep(l) /\ loop[l].pc # "idle" /\ lastProbeClass' \in Classes
    <3>1. CASE loop' = [loop EXCEPT ![l].pc = "enter",
                                    ![l].remaining = connectivityRetryDelay]
      <4>1. loop' \in [Loops -> Goroutines]
        BY ZenonT(60), <1>0, <2>d, <3>1 DEF Goroutines, Points
      <4> QED
        BY <1>0, <2>b, <3>1, <4>1 DEF Goroutines, GoroutineStep
    <3>2. CASE /\ failures >= MaxAttempts
               /\ loop' = [loop EXCEPT ![l].pc = "settle",
                                       ![l].authFailures = failures]
      <4>1. failures = MaxAttempts
        BY <2>a, <3>2, AuthConstants
      <4>2. loop' \in [Loops -> Goroutines]
        BY ZenonT(60), <1>0, <2>a, <3>2 DEF Goroutines, Points
      <4> QED
        BY <1>0, <2>b, <3>2, <4>1, <4>2 DEF Goroutines, GoroutineStep
    <3>3. CASE loop' = [loop EXCEPT ![l].pc = "enter",
                                    ![l].authFailures = failures,
                                    ![l].remaining = getBackoffDelay(failures)]
      BY ZenonT(60), <1>0, <2>a, <2>b, <2>d, <3>3 DEF Goroutines, Points, GoroutineStep
    <3> QED
      BY <2>c, <3>1, <3>2, <3>3
  <2> QED
    BY <1>0, <1>7, <2>1, GoroutineStepKeeps DEF recordRecoveryProbeClass, world
<1>8. CASE settleInvalidCredentials(l)
  <2>1. GoroutineStep(l) /\ loop[l].pc # "idle"
    BY <1>0, <1>8, DelaysAreNat
       DEF settleInvalidCredentials, Goroutines, Points, GoroutineStep
  <2>2. state' \in States /\ diag' \in Diagnostics
          /\ (state' = state \/ (state' # "valid" /\ state # "valid"))
    BY <1>0, <1>8
       DEF settleInvalidCredentials, MaySettle, setState, States, Diagnostics
  <2> QED
    BY <1>0, <1>8, <2>1, <2>2, GoroutineStepKeeps
       DEF settleInvalidCredentials, world
<1> QED
  BY <1>1, <1>2, <1>3, <1>4, <1>5, <1>6, <1>7, <1>8 DEF runRecovery

\* The invariant survives every step of a request through the transport.
LEMMA RequestStep ==
  ASSUME IInv, NEW r \in Requests,
         RoundTrip(r) \/ BaseRoundTrip(r) \/ HandleResponse(r) \/ ReportAgain(r)
  PROVE  IInv'
<1>0. TypeOK
  BY DEF IInv
<1>1. CASE RoundTrip(r) \/ BaseRoundTrip(r)
  <2>1. req' \in [Requests -> ReqStates]
    BY <1>0, <1>1
       DEF TypeOK, RoundTrip, BaseRoundTrip, Answers, ReqStates
  <2>2. UNCHANGED <<manager, loop, shutdown, world>>
    BY <1>1 DEF RoundTrip, BaseRoundTrip
  <2> QED
    BY <2>1, <2>2
       DEF IInv, manager, world, TypeOK, LocalsOK, ShutdownPhase,
           OneActiveLoop, RecoveryNeverGivesUp, ShutdownIsFinal, Active, Alive
<1>2. CASE HandleResponse(r)
  <2>1. req' \in [Requests -> ReqStates] /\ UNCHANGED <<shutdown, world>>
    BY <1>0, <1>2 DEF TypeOK, HandleResponse, ReqStates
  <2>2. CASE req[r] = "2xx"
    BY <1>2, <2>1, <2>2, ReportSuccessStep DEF HandleResponse, IInv
  <2>3. CASE req[r] \in {"401", "exec"}
    <3>1. FailureDiagnostic(req[r]) \in Diagnostics
      BY <2>3 DEF FailureDiagnostic, Diagnostics, Reasons
    <3>2. ReportFailureDiagnostic(FailureDiagnostic(req[r]))
      BY <1>2, <2>3 DEF HandleResponse
    <3> QED
      BY <2>1, <3>1, <3>2, ReportFailureStep
  <2>4. CASE req[r] \notin {"2xx", "401", "exec"}
    <3>1. UNCHANGED <<manager, loop>>
      BY <1>2, <2>4 DEF HandleResponse
    <3> QED
      BY <2>1, <3>1
         DEF IInv, manager, world, TypeOK, LocalsOK, ShutdownPhase,
             OneActiveLoop, RecoveryNeverGivesUp, ShutdownIsFinal, Active,
             Alive
  <2> QED
    BY <2>2, <2>3, <2>4
<1>3. CASE ReportAgain(r)
  <2>1. req' \in [Requests -> ReqStates] /\ UNCHANGED <<shutdown, world>>
    BY <1>0, <1>3 DEF TypeOK, ReportAgain, ReqStates
  <2>2. PICK reason \in {"reported", "exec"} :
          ReportFailureDiagnostic(FailureDiagnostic(reason))
    BY <1>3 DEF ReportAgain
  <2>3. FailureDiagnostic(reason) \in Diagnostics
    BY DEF FailureDiagnostic, Diagnostics, Reasons
  <2> QED
    BY <2>1, <2>2, <2>3, ReportFailureStep
<1> QED
  BY <1>1, <1>2, <1>3

\* IInv is inductive.
LEMMA NextIInv == IInv /\ [Next]_vars => IInv'
<1> SUFFICES ASSUME IInv, [Next]_vars PROVE IInv'
  OBVIOUS
<1> USE DEF IInv
<1>1. CASE TriggerRetry
  <2>1. PICK l \in Loops : startRecoveryLocked(l)
    BY <1>1 DEF TriggerRetry
  <2>2. /\ UNCHANGED <<state, diag, lastProbeClass, stopped, testSet, shutdown,
                       req, world>>
        /\ secondsUntilRetry' = 0 /\ retries' = retries + 1
        /\ retries < MaxRetries /\ state # "valid" /\ MaxAttempts > 0
    BY <1>1 DEF TriggerRetry
  <2>3. TypeOK'
    BY <2>1, <2>2, StartRecoveryFacts, AuthConstants DEF TypeOK, world
  <2>4. LocalsOK'
    BY <2>1, StartRecoveryFacts, CancelFacts DEF LocalsOK, Started
  <2>5. OneActiveLoop' /\ RecoveryNeverGivesUp' /\ ShutdownIsFinal'
          /\ ShutdownPhase'
    BY <2>1, <2>2, StartRecoveryFacts, CancelFacts
       DEF OneActiveLoop, RecoveryNeverGivesUp, ShutdownIsFinal, ShutdownPhase,
           Active, Alive, Started, TypeOK
  <2> QED
    BY <2>3, <2>4, <2>5
<1>2. CASE SetRecoveryTest
  BY <1>2 DEF SetRecoveryTest, world, TypeOK, LocalsOK, ShutdownPhase,
     OneActiveLoop, RecoveryNeverGivesUp, ShutdownIsFinal, Active, Alive
<1>3. CASE Shutdown
  <2>1. TypeOK'
    BY <1>3, CancelFacts DEF Shutdown, TypeOK, world
  <2>2. LocalsOK'
    BY <1>3, CancelFacts DEF Shutdown, LocalsOK
  <2>3. OneActiveLoop' /\ RecoveryNeverGivesUp' /\ ShutdownIsFinal'
          /\ ShutdownPhase'
    BY <1>3, CancelFacts DEF Shutdown, OneActiveLoop, RecoveryNeverGivesUp,
       ShutdownIsFinal, ShutdownPhase, Active, Alive
  <2> QED
    BY <2>1, <2>2, <2>3
<1>4. CASE ShutdownReturns
  BY <1>4 DEF ShutdownReturns, manager, world, TypeOK, LocalsOK, ShutdownPhase,
     OneActiveLoop, RecoveryNeverGivesUp, ShutdownIsFinal, Active, Alive
<1>5. CASE \E l \in Loops : runRecovery(l)
  BY <1>5, RecoveryStep
<1>6. CASE \E r \in Requests : RoundTrip(r) \/ BaseRoundTrip(r)
                                \/ HandleResponse(r) \/ ReportAgain(r)
  BY <1>6, RequestStep
<1>7. CASE WorldChanges
  BY <1>7 DEF WorldChanges, manager, TypeOK, LocalsOK, ShutdownPhase,
     OneActiveLoop, RecoveryNeverGivesUp, ShutdownIsFinal, Active, Alive
<1>8. CASE UNCHANGED vars
  BY <1>8 DEF vars, manager, world, TypeOK, LocalsOK, ShutdownPhase,
     OneActiveLoop, RecoveryNeverGivesUp, ShutdownIsFinal, Active, Alive
<1> QED
  BY <1>1, <1>2, <1>3, <1>4, <1>5, <1>6, <1>7, <1>8 DEF Next

\* The inductive invariant holds in every reachable state.
THEOREM IInvHolds == Spec => []IInv
BY InitIInv, NextIInv, PTL DEF Spec

\* Type correctness of the manager, its goroutines and the transport.
THEOREM TypeCorrect == Spec => []TypeOK
<1>1. IInv => TypeOK
  BY DEF IInv
<1> QED
  BY <1>1, IInvHolds, PTL

\* While the state is not valid and the manager runs, the goroutine that
\* recoveryCancel refers to is alive and uncancelled (runRecovery never gives
\* up), for any number of goroutines, requests and attempts.
THEOREM NeverGivesUp == Spec => []RecoveryNeverGivesUp
<1>1. IInv => RecoveryNeverGivesUp
  BY DEF IInv
<1> QED
  BY <1>1, IInvHolds, PTL

\* Every uncancelled goroutine is the current one, and there is none while the
\* state is valid or after Shutdown.
THEOREM AtMostOneActiveLoop == Spec => []OneActiveLoop
<1>1. IInv => OneActiveLoop
  BY DEF IInv
<1> QED
  BY <1>1, IInvHolds, PTL

\* After Shutdown has returned no recovery goroutine exists.
THEOREM ShutdownFinality == Spec => []ShutdownIsFinal
<1>1. IInv => ShutdownIsFinal
  BY DEF IInv
<1> QED
  BY <1>1, IInvHolds, PTL

\* Only the goroutine of the current failure turns recovering into invalid, and
\* only after MaxAttempts auth-class probes of its own.
THEOREM SettlingIsEarned == Spec => SettlesOnlyAfterBurst
<1> DEFINE Earned ==
      state = "recovering" /\ state' = "invalid" =>
        /\ recoveryCancel \in Loops
        /\ loop[recoveryCancel].pc = "settle"
        /\ ~loop[recoveryCancel].ctxDone
        /\ loop[recoveryCancel].authFailures = MaxAttempts
        /\ diag'.typed = diag.typed
<1>1. IInv /\ [Next]_vars => [Earned]_vars
  <2> SUFFICES ASSUME IInv, Next, state = "recovering", state' = "invalid"
               PROVE  Earned
    OBVIOUS
  <2>1. PICK l \in Loops : settleInvalidCredentials(l)
    <3>1. ASSUME NEW d, ReportFailureDiagnostic(d) PROVE FALSE
      BY <3>1 DEF ReportFailureDiagnostic, ReportIgnored, manager
    <3>2. ASSUME NEW r \in Requests,
                 RoundTrip(r) \/ BaseRoundTrip(r) \/ HandleResponse(r)
                   \/ ReportAgain(r)
          PROVE  FALSE
      <4>1. ~HandleResponse(r)
        BY <3>1 DEF HandleResponse, ReportSuccess, setState, manager
      <4>2. ~ReportAgain(r)
        BY <3>1 DEF ReportAgain
      <4> QED
        BY <3>2, <4>1, <4>2 DEF RoundTrip, BaseRoundTrip, manager
    <3>3. ~TriggerRetry /\ ~SetRecoveryTest /\ ~Shutdown /\ ~ShutdownReturns
            /\ ~WorldChanges
      BY DEF TriggerRetry, SetRecoveryTest, Shutdown, ShutdownReturns,
         WorldChanges, manager
    <3>4. PICK l \in Loops : runRecovery(l)
      BY <3>2, <3>3 DEF Next
    <3>5. settleInvalidCredentials(l)
      BY <3>4 DEF runRecovery, EnterWait, emitProgress, Sleep, StartProbe,
         testRecovery, ProbeSucceeded, recordRecoveryProbeClass, setState,
         manager
    <3> QED
      BY <3>5
  <2>2. ~loop[l].ctxDone /\ loop[l].pc = "settle"
          /\ diag' = [diag EXCEPT !.reason = "rejected"]
    BY <2>1 DEF settleInvalidCredentials, MaySettle, setState
  <2>3. recoveryCancel = l /\ loop[l].authFailures = MaxAttempts
    BY <2>2 DEF IInv, OneActiveLoop, Active, Alive, LocalsOK
  <2>4. diag'.typed = diag.typed
    BY <2>2 DEF IInv, TypeOK, Diagnostics
  <2> QED
    BY <2>2, <2>3, <2>4
<1> QED
  BY <1>1, IInvHolds, PTL DEF Spec, SettlesOnlyAfterBurst
=============================================================================
