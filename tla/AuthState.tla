----------------------------- MODULE AuthState -----------------------------
(***************************************************************************)
(* The per-cluster authentication manager (backend/internal/authstate) and *)
(* the auth-aware transport in front of it.                                *)
(*                                                                         *)
(* One step of this module is one critical section of Manager.mu, one read *)
(* of a recovery context, or one event outside the program.  Everything    *)
(* between two such points is local to a goroutine and is folded into the  *)
(* step before it.  A recovery goroutine is an identity of Loops; identity *)
(* l is free while loop[l] = Gone, so the model bounds how many goroutines *)
(* are alive together, never how many are started.                         *)
(***************************************************************************)
EXTENDS Integers, Sequences, FiniteSets

CONSTANTS
  MaxAttempts,               \* Config.MaxAttempts; 0 disables recovery
  BackoffSchedule,           \* Config.BackoffSchedule, in progress intervals
  ConnectivityRetryInterval, \* Config.ConnectivityRetryInterval; 0 = unset
  SteadyRetryInterval,       \* Config.SteadyRetryInterval; 0 = unset
  ClusterAuthSteadyRetryInterval, \* the non-zero default of the one above
  Loops,                     \* identities of recovery goroutines
  Requests,                  \* identities of requests through the transport
  Reporters,                 \* requests whose caller reports the error again
  MaxRetries,                \* bound on manual retries
  None                       \* the nil recoveryCancel

ASSUME AuthConstants ==
  /\ MaxAttempts \in Nat
  /\ BackoffSchedule \in Seq(Nat)
  /\ ConnectivityRetryInterval \in Nat
  /\ SteadyRetryInterval \in Nat
  /\ ClusterAuthSteadyRetryInterval \in Nat \ {0}
  /\ MaxRetries \in Nat
  /\ Reporters \subseteq Requests
  /\ None \notin Loops

VARIABLES
  state,             \* Manager.state
  diag,              \* Manager.failureDiagnostic, as [reason, typed]
  secondsUntilRetry, \* Manager.secondsUntilRetry
  lastProbeClass,    \* Manager.lastProbeClass
  stopped,           \* Manager.stopped
  recoveryCancel,    \* the goroutine Manager.recoveryCancel cancels, or None
  testSet,           \* Config.RecoveryTest is not nil
  loop,              \* loop[l]: the locals of recovery goroutine l
  shutdown,          \* how far Shutdown() has got
  req,               \* req[r]: progress of a request through RoundTrip
  accepted,          \* the cluster accepts the credentials
  reachable,         \* the cluster can be reached
  retries            \* manual retries so far, at most MaxRetries

manager == <<state, diag, secondsUntilRetry, lastProbeClass, stopped,
             recoveryCancel, testSet, retries>>
world == <<accepted, reachable>>
vars == <<manager, loop, shutdown, req, world>>

States == {"valid", "recovering", "invalid"}
Classes == {"unknown", "auth", "connectivity"}
\* The reasons the callers of ReportFailure(Diagnostic) pass.  Only "exec", a
\* failed credential plugin, carries typed fields.
Reasons == {"401", "exec", "reported"}
NoDiag == [reason |-> "", typed |-> ""]
FailureDiagnostic(reason) ==
  [reason |-> reason, typed |-> IF reason = "exec" THEN "exec" ELSE ""]
Diagnostics == [reason : Reasons \cup {"", "rejected"}, typed : {"", "exec"}]

\* Program points of runRecovery.  "enter": about to call waitForRecoveryDelay;
\* "announce": about to emit the countdown; "sleep": in its select; "launch":
\* about to emit zero; "check": about to read the context before the probe;
\* "probe": in RecoveryTest; "ok"/"record": holding its answer, before the
\* lock; "settle": about to call settleInvalidCredentials.
Points == {"idle", "enter", "announce", "sleep", "launch", "check", "probe",
           "ok", "record", "settle"}

\* The locals of runRecovery: its program point, whether its context is
\* cancelled, authFailures (saturating at MaxAttempts, the only value it is
\* compared with), the progress intervals left of its delay, and the class of
\* its last failed probe.
Goroutines ==
  [pc : Points, ctxDone : BOOLEAN, authFailures : 0..MaxAttempts,
   remaining : Nat, class : Classes]
Gone == [pc |-> "idle", ctxDone |-> FALSE, authFailures |-> 0,
         remaining |-> 0, class |-> "unknown"]
Started(delay) == [pc |-> "enter", ctxDone |-> FALSE, authFailures |-> 0,
                   remaining |-> delay, class |-> "unknown"]

\* "sent": in the base transport; a status or error: answered, not yet
\* handled; "report": the caller is about to report the failure itself.
ReqStates == {"idle", "sent", "2xx", "401", "403", "exec", "other", "report"}

getBackoffDelay(attempt) ==
  IF Len(BackoffSchedule) = 0 THEN 0
  ELSE IF attempt >= Len(BackoffSchedule)
       THEN BackoffSchedule[Len(BackoffSchedule)]
       ELSE BackoffSchedule[attempt + 1]

connectivityRetryDelay ==
  IF ConnectivityRetryInterval > 0 THEN ConnectivityRetryInterval
  ELSE IF Len(BackoffSchedule) = 0 THEN 0
       ELSE BackoffSchedule[Len(BackoffSchedule)]

steadyRetryDelay ==
  IF SteadyRetryInterval > 0 THEN SteadyRetryInterval
  ELSE ClusterAuthSteadyRetryInterval

TypeOK ==
  /\ state \in States
  /\ diag \in Diagnostics
  /\ secondsUntilRetry \in Nat
  /\ lastProbeClass \in Classes
  /\ stopped \in BOOLEAN
  /\ recoveryCancel \in Loops \cup {None}
  /\ testSet \in BOOLEAN
  /\ retries \in 0..MaxRetries
  /\ loop \in [Loops -> Goroutines]
  /\ shutdown \in {"no", "waiting", "returned"}
  /\ req \in [Requests -> ReqStates]
  /\ accepted \in BOOLEAN
  /\ reachable \in BOOLEAN

\* New(): valid, nothing running.  RecoveryTest is set by a later call.
Init ==
  /\ state = "valid"
  /\ diag = NoDiag
  /\ secondsUntilRetry = 0
  /\ lastProbeClass = "unknown"
  /\ stopped = FALSE
  /\ recoveryCancel = None
  /\ testSet = FALSE
  /\ retries = 0
  /\ loop = [l \in Loops |-> Gone]
  /\ shutdown = "no"
  /\ req = [r \in Requests |-> "idle"]
  /\ accepted \in BOOLEAN
  /\ reachable \in BOOLEAN

-----------------------------------------------------------------------------
(* Manager operations, each one critical section.                          *)

setState(newState, newDiag) ==
  /\ state' = newState
  /\ diag' = newDiag

\* The goroutines after recoveryCancel is called.  A nil handle, or the handle
\* of a goroutine that has returned, cancels nothing.
CancelNothing == loop \* mutant: the cancel call is lost
CancelCurrent ==
  [l \in Loops |-> IF l = recoveryCancel /\ loop[l].pc # "idle"
                   THEN [loop[l] EXCEPT !.ctxDone = TRUE] ELSE loop[l]]

StartIfNoHandle == ~stopped /\ recoveryCancel = None \* mutant: a handle left
                                \* behind by a goroutine that has returned blocks
MayStart == ~stopped

\* Nothing starts once stopped; otherwise the current goroutine is cancelled
\* and l takes its place with a fresh context.
startRecoveryLocked(l) ==
  \/ /\ ~MayStart
     /\ UNCHANGED <<loop, recoveryCancel>>
  \/ /\ MayStart
     /\ loop[l].pc = "idle"
     /\ recoveryCancel' = l
     /\ loop' = [CancelCurrent EXCEPT ![l] =
                   Started(getBackoffDelay(0))]

ReportIgnored == state # "valid"

\* Ignored unless valid.
ReportFailureDiagnostic(d) ==
  \/ /\ ReportIgnored
     /\ UNCHANGED <<manager, loop>>
  \/ /\ ~ReportIgnored
     /\ lastProbeClass' = "unknown"
     /\ IF MaxAttempts > 0
        THEN /\ setState("recovering", d)
             /\ \E l \in Loops : startRecoveryLocked(l)
        ELSE /\ setState("invalid", d)
             /\ UNCHANGED <<loop, recoveryCancel>>
     /\ UNCHANGED <<secondsUntilRetry, stopped, testSet, retries>>

ReportSuccess ==
  /\ loop' = CancelCurrent
  /\ recoveryCancel' = None
  /\ setState("valid", NoDiag)
  /\ UNCHANGED <<secondsUntilRetry, lastProbeClass, stopped, testSet, retries>>

\* The user asks for a probe now.  The verdict (state) is left alone.
TriggerRetry ==
  /\ retries < MaxRetries
  /\ state # "valid"
  /\ MaxAttempts > 0
  /\ retries' = retries + 1
  /\ secondsUntilRetry' = 0
  /\ \E l \in Loops : startRecoveryLocked(l)
  /\ UNCHANGED <<state, diag, lastProbeClass, stopped, testSet, shutdown,
                 req, world>>

SetRecoveryTest ==
  /\ ~testSet
  /\ testSet' = TRUE
  /\ UNCHANGED <<state, diag, secondsUntilRetry, lastProbeClass, stopped,
                 recoveryCancel, retries, loop, shutdown, req, world>>

\* Shutdown's critical section, after which it waits for the goroutines.
Shutdown ==
  /\ shutdown = "no"
  /\ shutdown' = "waiting"
  /\ loop' = CancelCurrent
  /\ recoveryCancel' = None
  /\ stopped' = TRUE
  /\ UNCHANGED <<state, diag, secondsUntilRetry, lastProbeClass, testSet,
                 retries, req, world>>

\* wg.Wait() returns.
ShutdownReturns ==
  /\ shutdown = "waiting"
  /\ \A l \in Loops : loop[l].pc = "idle"
  /\ shutdown' = "returned"
  /\ UNCHANGED <<manager, loop, req, world>>

-----------------------------------------------------------------------------
(* The recovery goroutine.                                                 *)

Goto(l, p) == loop' = [loop EXCEPT ![l].pc = p]
Return(l) == loop' = [loop EXCEPT ![l] = Gone]

\* Where a goroutine continues with n intervals of its delay left.
Countdown(n) == IF n > 0 THEN "announce" ELSE "launch"

\* waitForRecoveryDelay reads the context once before the countdown.
EnterWait(l) ==
  /\ loop[l].pc = "enter"
  /\ IF loop[l].ctxDone THEN Return(l) ELSE Goto(l, Countdown(loop[l].remaining))
  /\ UNCHANGED <<manager, shutdown, req, world>>

\* emitProgress under the lock, with no look at the context.
emitProgress(l) ==
  /\ \/ /\ loop[l].pc = "announce"
        /\ secondsUntilRetry' = loop[l].remaining
        /\ Goto(l, "sleep")
     \/ /\ loop[l].pc = "launch"
        /\ secondsUntilRetry' = 0
        /\ Goto(l, "check")
  /\ UNCHANGED <<state, diag, lastProbeClass, stopped, recoveryCancel, testSet,
                 retries, shutdown, req, world>>

\* The select of the countdown: with both channels ready either case is taken.
Sleep(l) ==
  /\ loop[l].pc = "sleep"
  /\ \/ /\ loop[l].ctxDone
        /\ Return(l)
     \/ loop' = [loop EXCEPT ![l].pc = Countdown(loop[l].remaining - 1),
                             ![l].remaining = loop[l].remaining - 1]
  /\ UNCHANGED <<manager, shutdown, req, world>>

\* The context is read a last time before the probe; the probe itself runs
\* without it and without the lock.
StartProbe(l) ==
  /\ loop[l].pc = "check"
  /\ IF loop[l].ctxDone THEN Return(l) ELSE Goto(l, "probe")
  /\ UNCHANGED <<manager, shutdown, req, world>>

\* The answers RecoveryTest can give, already classified.  No test: success.
ProbeVerdicts ==
  {v \in {"ok", "auth", "connectivity"} :
     CASE v = "ok"           -> ~testSet \/ (accepted /\ reachable)
       [] v = "auth"         -> testSet /\ ~accepted
       [] v = "connectivity" -> testSet /\ ~reachable}

testRecovery(l) ==
  /\ loop[l].pc = "probe"
  /\ \E v \in ProbeVerdicts :
       IF v = "ok" THEN Goto(l, "ok")
       ELSE loop' = [loop EXCEPT ![l].pc = "record", ![l].class = v]
  /\ UNCHANGED <<manager, shutdown, req, world>>

SuccessIfRecovering(l) == \* mutant: not once the verdict has settled
  ~loop[l].ctxDone /\ state = "recovering"
SuccessCounts(l) == ~loop[l].ctxDone /\ state # "valid"

\* A successful probe counts only while its context is alive.
ProbeSucceeded(l) ==
  /\ loop[l].pc = "ok"
  /\ IF SuccessCounts(l)
     THEN setState("valid", NoDiag)
     ELSE UNCHANGED <<state, diag>>
  /\ Return(l)
  /\ UNCHANGED <<secondsUntilRetry, lastProbeClass, stopped, recoveryCancel,
                 testSet, retries, shutdown, req, world>>

NeverConsumes(l) == FALSE \* mutant: no verdict consumes an attempt
ConsumesAttempt(l) == loop[l].class # "connectivity"

\* The verdict is recorded with no look at the context.  A connectivity verdict
\* consumes no attempt; the last auth verdict of the burst goes on to settle.
recordRecoveryProbeClass(l) ==
  LET failures == IF loop[l].authFailures < MaxAttempts
                  THEN loop[l].authFailures + 1 ELSE MaxAttempts
  IN
  /\ loop[l].pc = "record"
  /\ lastProbeClass' = loop[l].class
  /\ \/ /\ ~ConsumesAttempt(l)
        /\ loop' = [loop EXCEPT ![l].pc = "enter",
                                ![l].remaining = connectivityRetryDelay]
     \/ /\ ConsumesAttempt(l)
        /\ failures >= MaxAttempts
        /\ loop' = [loop EXCEPT ![l].pc = "settle",
                                ![l].authFailures = failures]
     \/ /\ ConsumesAttempt(l)
        /\ failures < MaxAttempts
        /\ loop' = [loop EXCEPT ![l].pc = "enter",
                                ![l].authFailures = failures,
                                ![l].remaining = getBackoffDelay(failures)]
  /\ UNCHANGED <<state, diag, secondsUntilRetry, stopped, recoveryCancel,
                 testSet, retries, shutdown, req, world>>

SettlesThoughCancelled(l) == state = "recovering" \* mutant
MaySettle(l) == ~loop[l].ctxDone /\ state = "recovering"

\* The typed fields of the failure survive; only its reason is replaced.
settleInvalidCredentials(l) ==
  /\ loop[l].pc = "settle"
  /\ IF MaySettle(l)
     THEN setState("invalid", [diag EXCEPT !.reason = "rejected"])
     ELSE UNCHANGED <<state, diag>>
  /\ loop' = [loop EXCEPT ![l].pc = "enter",
                          ![l].remaining = steadyRetryDelay]
  /\ UNCHANGED <<secondsUntilRetry, lastProbeClass, stopped, recoveryCancel,
                 testSet, retries, shutdown, req, world>>

runRecovery(l) ==
  \/ EnterWait(l) \/ emitProgress(l) \/ Sleep(l) \/ StartProbe(l)
  \/ testRecovery(l) \/ ProbeSucceeded(l)
  \/ recordRecoveryProbeClass(l) \/ settleInvalidCredentials(l)

-----------------------------------------------------------------------------
(* AuthAwareTransport.RoundTrip and the callers that report again.         *)

\* Step 1 of RoundTrip.  A blocked reporter gets an AuthInvalidError that
\* quotes the reason; the classifier calls it an auth failure when the reason
\* is a 401 or a failed plugin.
RoundTrip(r) ==
  /\ req[r] = "idle"
  /\ \/ /\ state = "valid"
        /\ req' = [req EXCEPT ![r] = "sent"]
     \/ /\ state # "valid"
        /\ r \in Reporters
        /\ diag.reason \in {"401", "exec"}
        /\ req' = [req EXCEPT ![r] = "report"]
  /\ UNCHANGED <<manager, loop, shutdown, world>>

\* The base transport's answer; it may wait for as long as it takes before
\* RoundTrip looks at it.
Answers ==
  {a \in {"2xx", "401", "403", "exec", "other"} :
     CASE a = "2xx"             -> accepted /\ reachable
       [] a \in {"401", "403"}  -> ~accepted /\ reachable
       [] a = "exec"            -> ~accepted
       [] a = "other"           -> TRUE}

BaseRoundTrip(r) ==
  /\ req[r] = "sent"
  /\ \E a \in Answers : req' = [req EXCEPT ![r] = a]
  /\ UNCHANGED <<manager, loop, shutdown, world>>

\* Steps 2 to 5 of RoundTrip, then the caller's own classification: a
\* reporter goes on to report a 401, a 403 or a plugin failure itself.
HandleResponse(r) ==
  /\ req[r] \in {"2xx", "401", "403", "exec", "other"}
  /\ CASE req[r] = "2xx" -> ReportSuccess
       [] req[r] \in {"401", "exec"} ->
            ReportFailureDiagnostic(FailureDiagnostic(req[r]))
       [] OTHER -> UNCHANGED <<manager, loop>>
  /\ req' = [req EXCEPT ![r] =
               IF r \in Reporters /\ req[r] \in {"401", "403", "exec"}
               THEN "report" ELSE "idle"]
  /\ UNCHANGED <<shutdown, world>>

\* The heartbeat's (a bare reason) and the preflight's (typed) own report,
\* after RoundTrip returned.
ReportAgain(r) ==
  /\ req[r] = "report"
  /\ \E reason \in {"reported", "exec"} :
       ReportFailureDiagnostic(FailureDiagnostic(reason))
  /\ req' = [req EXCEPT ![r] = "idle"]
  /\ UNCHANGED <<shutdown, world>>

\* The user signs in or out; the network comes and goes.
WorldChanges ==
  /\ \/ accepted' = ~accepted /\ UNCHANGED reachable
     \/ reachable' = ~reachable /\ UNCHANGED accepted
  /\ UNCHANGED <<manager, loop, shutdown, req>>

Next ==
  \/ TriggerRetry
  \/ SetRecoveryTest
  \/ Shutdown
  \/ ShutdownReturns
  \/ \E l \in Loops : runRecovery(l)
  \/ \E r \in Requests : RoundTrip(r) \/ BaseRoundTrip(r)
                           \/ HandleResponse(r) \/ ReportAgain(r)
  \/ WorldChanges

Spec == Init /\ [][Next]_vars

\* Goroutines are scheduled, timers fire, a probe and a request end (both
\* carry a timeout), and Wait returns once the goroutines are gone.  Nothing
\* is assumed of the user, of new requests or of the world.
Fairness ==
  /\ \A l \in Loops : WF_vars(runRecovery(l))
  /\ \A r \in Requests : WF_vars(BaseRoundTrip(r) \/ HandleResponse(r)
                                   \/ ReportAgain(r))
  /\ WF_vars(ShutdownReturns)
  /\ WF_vars(SetRecoveryTest)

FairSpec == Spec /\ Fairness

-----------------------------------------------------------------------------
(* Properties.                                                             *)

Alive(l) == loop[l].pc # "idle"
Active(l) == Alive(l) /\ ~loop[l].ctxDone

\* runRecovery "never gives up": while the state is not valid and the manager
\* is running, the goroutine recoveryCancel refers to is alive and
\* uncancelled, whatever mix of reports, retries and stale goroutines led here.
RecoveryNeverGivesUp ==
  MaxAttempts > 0 /\ state # "valid" /\ ~stopped =>
    recoveryCancel \in Loops /\ Active(recoveryCancel)

\* startRecoveryLocked replaces, it never adds: an uncancelled goroutine is the
\* one recoveryCancel refers to, and there is none while the state is valid or
\* after Shutdown, so no probe of an old failure can outlive it.
OneActiveLoop ==
  \A l \in Loops : Active(l) =>
    recoveryCancel = l /\ state # "valid" /\ ~stopped

\* Shutdown returns only when every recovery goroutine has ended, and nothing
\* (a late 401, a late retry) starts one afterwards.
ShutdownIsFinal ==
  shutdown = "returned" => \A l \in Loops : ~Alive(l)

\* The verdict settles to invalid only by the goroutine of the current failure,
\* after MaxAttempts auth-class probes of its own; it keeps the typed fields of
\* the failure that started the recovery.
SettlesOnlyAfterBurst ==
  [][state = "recovering" /\ state' = "invalid" =>
       /\ recoveryCancel \in Loops
       /\ loop[recoveryCancel].pc = "settle"
       /\ ~loop[recoveryCancel].ctxDone
       /\ loop[recoveryCancel].authFailures = MaxAttempts
       /\ diag'.typed = diag.typed]_vars

\* Once the cluster stays reachable and keeps accepting the credentials, the
\* manager always returns to valid (unless stopped): no stale answer, cancelled
\* probe or late second report can leave it in recovery or invalid.
EventuallyValid ==
  <>[](accepted /\ reachable) => []<>(state = "valid" \/ stopped)

\* Credentials that stay rejected while the manager knows of a failure end in
\* the settled verdict, so the user is asked to sign in again.
RejectionSettles ==
  <>[](testSet /\ ~accepted /\ reachable /\ state # "valid" /\ ~stopped)
    => <>(state = "invalid")
=============================================================================
