-------------------------- MODULE ManualQueuesProofs --------------------------
(***************************************************************************)
(* Proofs about ManualQueues for every number of jobs, generations and     *)
(* updates, and every capacity of the channel: the types, and that no      *)
(* unfinished job is left behind by updates that agree.                    *)
(*                                                                         *)
(* Two things make it difficult.  A job that has ended must not come back  *)
(* to life on a queue that nobody consumes: JobsOK says that a copy is     *)
(* stored and sent once, by the call or the update that makes it.  And     *)
(* updates overlap: as long as none works from an outdated topology        *)
(* (InStep), those past their snapshot have one target, and no generation  *)
(* that one of them is about to stop is in the table, routed or a target.  *)
(***************************************************************************)
EXTENDS ManualQueues, TLAPS

\* Only generations that have been started are named anywhere.
Numbered ==
  /\ table \in 0 .. started /\ current \in 0 .. started
  /\ \A u \in Updates :
       upd[u].own \in 0 .. started /\ upd[u].previous \in 0 .. started /\ upd[u].target \in 0 .. started

\* Until its call has sent it, the original is where the call is; a registered
\* child is a job that was stored.
CallOK(j) ==
  /\ call[j].at \in {"idle", "routed"} => jobs[j][Original].at = "absent"
  /\ call[j].at \in {"routed", "stored", "sent"} => call[j].queue \in Queues
  /\ call[j].at = "stored" => jobs[j][Original].at = "stored"
  /\ call[j].at \in {"stored", "sent"} /\ jobs[j][Original].at \in Active =>
       jobs[j][Original].queue = call[j].queue
  /\ call[j].at = "sent" => jobs[j][Original].at # "absent"
  /\ child[j] # None => call[j].at = "registered" /\ jobs[j][child[j]].at # "absent"

\* An update makes its copy of a job while it moves that job, and only then.
CopyOK(u, j) ==
  /\ upd[u].at \notin {"move", "send", "rebind", "done"} => jobs[j][u].at = "absent"
  /\ upd[u].at \notin {"move", "send", "rebind"} => upd[u].moves[j] = None
  /\ upd[u].moves[j] # None /\ ~(upd[u].at \in {"send", "rebind"} /\ j \in upd[u].moving) =>
       jobs[j][u].at = "absent"
  /\ upd[u].at = "send" /\ j \in upd[u].moving => jobs[j][u].at = "stored"
  /\ upd[u].at \in {"send", "rebind"} /\ j \in upd[u].moving =>
       /\ upd[u].moves[j] # None /\ jobs[j][u].at # "absent"
       /\ jobs[j][u].at \in Active => jobs[j][u].queue = upd[u].target

JobsOK == \A j \in Jobs : CallOK(j) /\ \A u \in Updates : CopyOK(u, j)

UpdatesOK ==
  /\ \A u \in Updates : u > updates => upd[u] = NoUpdate
  /\ \A u \in Updates : upd[u].at \in {"publish", "topology"} => ~upd[u].selection
  /\ \A u \in Updates : \A j, k \in upd[u].moving : j = k
  /\ \A u, v \in Updates :
       Underway(u) /\ Underway(v) /\ upd[u].selection /\ upd[v].selection => u = v

\* Updates past their snapshot agree, and what one of them has stored is routed.
Aligned ==
  \A u \in Updates : PastSnapshot(u) =>
    /\ \A v \in Updates : PastSnapshot(v) => upd[v].target = upd[u].target
    /\ upd[u].at # "swap" => current = upd[u].target

\* What is routed, or will be, has a manager that consumes.
Alive(q) == q # None => Consumed(q) \/ q \in cooled
AllAlive ==
  /\ Alive(table) /\ Alive(current)
  /\ \A u \in Updates : /\ PastSnapshot(u) => Alive(upd[u].target)
                        /\ upd[u].at = "publish" => Alive(upd[u].own)

\* What an update is going to stop has left the table once the update has written
\* it, and is not its target.
Retires(u, q) == Underway(u) /\ ~upd[u].selection /\ q = upd[u].previous /\ q # None
Retiring ==
  \A u \in Updates, q \in Queues : Retires(u, q) =>
    /\ upd[u].at # "publish" => q # table
    /\ PastSnapshot(u) => q # upd[u].target

\* A generation that is to be published is nobody else's yet.
Upcoming ==
  \A u \in Updates : upd[u].at = "publish" =>
    /\ upd[u].own \in Queues /\ upd[u].own # table
    /\ \A v \in Updates :
         /\ upd[v].target # upd[u].own /\ ~Retires(v, upd[u].own)
         /\ v # u /\ upd[v].at = "publish" => upd[v].own # upd[u].own

\* The new generation of a change of the selection is nobody else's yet.
Planned ==
  \A u \in Updates :
    Underway(u) /\ upd[u].selection =>
      \/ upd[u].target \in {None, upd[u].previous}
      \/ upd[u].target # table /\ \A v \in Updates : ~Retires(v, upd[u].target)

\* What is unfinished elsewhere is about to be moved, or was registered late.
Migrating ==
  current # None =>
    \A j \in Jobs \ late :
      Unfinished(j) /\ Home(j) # current =>
        \E u \in Updates : upd[u].at = "scan" \/ upd[u].moves[j] = child[j]

InStep == overtaken \/ (Aligned /\ AllAlive /\ Retiring /\ Upcoming /\ Planned /\ Migrating)

IInv == TypeOK /\ Numbered /\ JobsOK /\ UpdatesOK /\ InStep

-----------------------------------------------------------------------------
(* Copies and records                                                      *)

LEMMA CopyFacts ==
  /\ Original \in Copies /\ Updates \subseteq Copies /\ Original \notin Updates
  /\ None \notin Copies /\ None \notin Queues
  /\ \A u \in Updates : u \in Nat /\ u > 0
BY UpdatesAssumption, QueuesAssumption DEF Original, Copies, Updates, Queues, None

JobStates == Active \cup {"absent", "ended"}
JobRecords == [at : JobStates, queue : Queues \cup {None}]
CallRecords ==
  [at : {"idle", "routed", "stored", "sent", "registered", "failed"}, queue : Queues \cup {None}]
UpdateRecords ==
  [at : {"idle", "publish", "topology", "swap", "scan", "move", "send", "rebind", "done"},
   selection : BOOLEAN, own : Queues \cup {None}, previous : Queues \cup {None},
   target : Queues \cup {None}, moves : [Jobs -> Copies \cup {None}], moving : SUBSET Jobs]
ManagerStates == {"absent", "starting", "consuming", "stopped", "ended"}

LEMMA Types ==
  TypeOK <=>
    /\ table \in Queues \cup {None} /\ current \in Queues \cup {None}
    /\ started \in Queues /\ updates \in 0 .. MaxUpdates
    /\ manager \in [Queues -> ManagerStates] /\ cooled \subseteq Queues
    /\ jobs \in [Jobs -> [Copies -> JobRecords]] /\ call \in [Jobs -> CallRecords]
    /\ child \in [Jobs -> Copies \cup {None}] /\ upd \in [Updates -> UpdateRecords]
    /\ late \subseteq Jobs /\ overtaken \in BOOLEAN
BY DEF TypeOK, JobStates, JobRecords, CallRecords, UpdateRecords, ManagerStates

LEMMA TypesNext ==
  TypeOK' <=>
    /\ table' \in Queues \cup {None} /\ current' \in Queues \cup {None}
    /\ started' \in Queues /\ updates' \in 0 .. MaxUpdates
    /\ manager' \in [Queues -> ManagerStates] /\ cooled' \subseteq Queues
    /\ jobs' \in [Jobs -> [Copies -> JobRecords]] /\ call' \in [Jobs -> CallRecords]
    /\ child' \in [Jobs -> Copies \cup {None}] /\ upd' \in [Updates -> UpdateRecords]
    /\ late' \subseteq Jobs /\ overtaken' \in BOOLEAN
BY DEF TypeOK, JobStates, JobRecords, CallRecords, UpdateRecords, ManagerStates

LEMMA JobSet ==
  ASSUME jobs \in [Jobs -> [Copies -> JobRecords]],
         NEW j \in Jobs, NEW c \in Copies, NEW r \in JobRecords,
         jobs' = [jobs EXCEPT ![j][c] = r]
  PROVE  /\ jobs' \in [Jobs -> [Copies -> JobRecords]] /\ jobs'[j][c] = r
         /\ \A k \in Jobs, d \in Copies : k # j \/ d # c => jobs'[k][d] = jobs[k][d]
OBVIOUS

LEMMA CallSet ==
  ASSUME call \in [Jobs -> CallRecords], NEW j \in Jobs, NEW r \in CallRecords,
         call' = [call EXCEPT ![j] = r]
  PROVE  /\ call' \in [Jobs -> CallRecords] /\ call'[j] = r
         /\ \A k \in Jobs : k # j => call'[k] = call[k]
OBVIOUS

LEMMA UpdSet ==
  ASSUME upd \in [Updates -> UpdateRecords], NEW u \in Updates, NEW r \in UpdateRecords,
         upd' = [upd EXCEPT ![u] = r]
  PROVE  /\ upd' \in [Updates -> UpdateRecords] /\ upd'[u] = r
         /\ \A v \in Updates : v # u => upd'[v] = upd[v]
OBVIOUS

LEMMA InitIInv == Init => IInv
<1> SUFFICES ASSUME Init PROVE IInv
  OBVIOUS
<1>1. 1 \in Queues /\ None \notin Queues /\ Updates \subseteq Copies /\ Original \in Copies
  BY CopyFacts, QueuesAssumption DEF Queues
<1>2. NoJob \in JobRecords /\ NoUpdate \in UpdateRecords
  BY DEF NoJob, JobRecords, JobStates, NoUpdate, UpdateRecords
<1>3. TypeOK
  <2>1. manager \in [Queues -> ManagerStates]
    BY DEF Init, ManagerStates
  <2>2. jobs \in [Jobs -> [Copies -> JobRecords]] /\ upd \in [Updates -> UpdateRecords]
    BY <1>2 DEF Init
  <2>3. call \in [Jobs -> CallRecords]
    BY DEF Init, CallRecords
  <2>4. child \in [Jobs -> Copies \cup {None}]
    BY DEF Init
  <2>5. /\ table \in Queues /\ current \in Queues /\ started \in Queues
        /\ cooled \subseteq Queues /\ late \subseteq Jobs /\ overtaken \in BOOLEAN
    BY <1>1 DEF Init
  <2>6. updates \in 0 .. MaxUpdates
    BY UpdatesAssumption DEF Init
  <2> QED
    BY <2>1, <2>2, <2>3, <2>4, <2>5, <2>6, Types
<1>4. \A u \in Updates :
        /\ upd[u] = NoUpdate /\ upd[u].at = "idle" /\ upd[u].moving = {}
        /\ ~Underway(u) /\ ~PastSnapshot(u)
  BY DEF Init, NoUpdate, Underway, PastSnapshot
<1>5. Numbered
  BY <1>4 DEF Init, Numbered, NoUpdate, None
<1>6. JobsOK
  BY <1>1, <1>4 DEF Init, JobsOK, CallOK, CopyOK, NoUpdate, NoJob, Active, None
<1>7. UpdatesOK
  BY <1>4 DEF UpdatesOK
<1>8. AllAlive
  BY <1>1, <1>4 DEF Init, AllAlive, Alive, Consumed
<1>9. Aligned /\ Retiring /\ Upcoming /\ Planned /\ Migrating
  BY <1>4 DEF Init, Aligned, Retiring, Retires, Upcoming, Planned, Migrating, Unfinished
<1> QED
  BY <1>3, <1>5, <1>6, <1>7, <1>8, <1>9 DEF IInv, InStep

-----------------------------------------------------------------------------
(* Steps that leave the generations and the updates alone                  *)

LEMMA ControlKept ==
  ASSUME IInv, UNCHANGED <<table, started, manager, cooled, current, upd, updates, overtaken>>
  PROVE  /\ Numbered' /\ UpdatesOK'
         /\ overtaken \/ (Aligned' /\ AllAlive' /\ Retiring' /\ Upcoming' /\ Planned')
<1>1. Numbered' /\ UpdatesOK'
  BY DEF IInv, Numbered, UpdatesOK, Underway
<1>2. ASSUME ~overtaken PROVE Aligned' /\ AllAlive' /\ Retiring' /\ Upcoming' /\ Planned'
  <2>1. Aligned /\ AllAlive /\ Retiring /\ Upcoming /\ Planned
    BY <1>2 DEF IInv, InStep
  <2> QED
    BY <2>1 DEF Aligned, AllAlive, Alive, Consumed, Retiring, Retires, Upcoming, Planned, Underway, PastSnapshot
<1> QED
  BY <1>1, <1>2

LEMMA MigratingKept ==
  ASSUME IInv, UNCHANGED <<current, upd, child, late, overtaken>>,
         \A j \in Jobs : Unfinished(j)' => Unfinished(j) /\ Home(j)' = Home(j)
  PROVE  overtaken \/ Migrating'
<1>1. CASE ~overtaken
  <2>1. Migrating
    BY <1>1 DEF IInv, InStep
  <2> QED
    BY <2>1 DEF Migrating
<1> QED
  BY <1>1

LEMMA TypeFacts ==
  ASSUME IInv
  PROVE  /\ table \in Queues \cup {None} /\ current \in Queues \cup {None}
         /\ started \in Queues /\ updates \in 0 .. MaxUpdates
         /\ manager \in [Queues -> ManagerStates] /\ cooled \subseteq Queues
         /\ jobs \in [Jobs -> [Copies -> JobRecords]] /\ call \in [Jobs -> CallRecords]
         /\ child \in [Jobs -> Copies \cup {None}] /\ upd \in [Updates -> UpdateRecords]
         /\ late \subseteq Jobs /\ overtaken \in BOOLEAN
BY Types DEF IInv

LEMMA JobFacts ==
  ASSUME IInv, NEW j \in Jobs PROVE CallOK(j) /\ \A u \in Updates : CopyOK(u, j)
BY DEF IInv, JobsOK

LEMMA Conclude ==
  ASSUME IInv, UNCHANGED <<table, started, manager, cooled, current, upd, updates, overtaken>>,
         TypeOK', JobsOK', overtaken \/ Migrating'
  PROVE  IInv'
<1>1. Numbered' /\ UpdatesOK' /\ (overtaken \/ (Aligned' /\ AllAlive' /\ Retiring' /\ Upcoming' /\ Planned'))
  BY ControlKept
<1>2. InStep'
  BY <1>1 DEF InStep
<1> QED
  BY <1>1, <1>2 DEF IInv

\* A step that changes one call and at most the original of its job.
LEMMA CallStep ==
  ASSUME IInv, NEW j \in Jobs, NEW r \in CallRecords, call' = [call EXCEPT ![j] = r],
         UNCHANGED <<table, started, manager, cooled, current, upd, updates, overtaken, child, late>>,
         jobs' \in [Jobs -> [Copies -> JobRecords]],
         \A k \in Jobs, c \in Copies : k # j \/ c # Original => jobs'[k][c] = jobs[k][c],
         child[j] = None, CallOK(j)'
  PROVE  IInv'
<1>1. call' \in [Jobs -> CallRecords] /\ \A k \in Jobs : k # j => call'[k] = call[k]
  BY TypeFacts, CallSet
<1>2. TypeOK'
  BY <1>1, TypeFacts, TypesNext
<1>3. ASSUME NEW k \in Jobs PROVE CallOK(k)' /\ \A u \in Updates : CopyOK(u, k)'
  <2>1. CallOK(k) /\ \A u \in Updates : CopyOK(u, k)
    BY JobFacts
  <2>2. \A u \in Updates : jobs'[k][u] = jobs[k][u]
    BY CopyFacts
  <2>3. \A u \in Updates : CopyOK(u, k)'
    BY <2>1, <2>2 DEF CopyOK
  <2>4. CASE k # j
    <3>1. call'[k] = call[k] /\ jobs'[k][Original] = jobs[k][Original]
      BY <1>1, <2>4, CopyFacts
    <3>2. child[k] # None => jobs'[k][child[k]] = jobs[k][child[k]]
      BY <2>4, TypeFacts
    <3> QED
      BY <2>1, <2>3, <3>1, <3>2 DEF CallOK
  <2> QED
    BY <2>3, <2>4
<1>4. JobsOK'
  BY <1>3 DEF JobsOK
<1>5. ASSUME NEW k \in Jobs PROVE Unfinished(k)' => Unfinished(k) /\ Home(k)' = Home(k)
  <2>1. child[k] # None => k # j /\ jobs'[k][child[k]] = jobs[k][child[k]]
    BY TypeFacts
  <2> QED
    BY <2>1 DEF Unfinished, Home
<1>6. overtaken \/ Migrating'
  BY <1>5, MigratingKept
<1> QED
  BY <1>2, <1>4, <1>6, Conclude

LEMMA Unregistered ==
  ASSUME IInv, NEW j \in Jobs, call[j].at # "registered" PROVE child[j] = None
BY JobFacts DEF CallOK

LEMMA RouteKeeps == ASSUME IInv, NEW j \in Jobs, Route(j) PROVE IInv'
<1> DEFINE r == IF current = None THEN [call[j] EXCEPT !.at = "failed"]
                ELSE [at |-> "routed", queue |-> current]
<1>1. r \in CallRecords /\ (r.at = "routed" => r.queue \in Queues) /\ r.at \in {"routed", "failed"}
  BY TypeFacts DEF CallRecords
<1>2. /\ call' = [call EXCEPT ![j] = r] /\ child[j] = None /\ jobs[j][Original].at = "absent"
      /\ UNCHANGED <<table, started, manager, cooled, current, upd, updates, overtaken, child, late, jobs>>
  BY Unregistered, JobFacts DEF Route, CallOK, generations, routing
<1>3. call'[j] = r
  BY <1>1, <1>2, TypeFacts, CallSet
<1> HIDE DEF r
<1>4. CallOK(j)'
  BY <1>1, <1>2, <1>3 DEF CallOK
<1> QED
  BY <1>1, <1>2, <1>4, TypeFacts, CallStep

LEMMA StoreKeeps == ASSUME IInv, NEW j \in Jobs, Store(j) PROVE IInv'
<1> DEFINE r == [call[j] EXCEPT !.at = "stored"]
           s == Stored(call[j].queue)
<1>1. call[j].queue \in Queues /\ child[j] = None
  BY Unregistered, JobFacts DEF Store, CallOK
<1>2. r \in CallRecords /\ r.at = "stored" /\ r.queue = call[j].queue
  BY TypeFacts DEF CallRecords
<1>3. s \in JobRecords /\ s.at = "stored" /\ s.queue = call[j].queue
  BY <1>1 DEF Stored, JobRecords, JobStates, Active
<1>4. /\ call' = [call EXCEPT ![j] = r] /\ jobs' = [jobs EXCEPT ![j][Original] = s]
      /\ UNCHANGED <<table, started, manager, cooled, current, upd, updates, overtaken, child, late>>
  BY DEF Store, generations, routing
<1> HIDE DEF r, s
<1>5. /\ jobs' \in [Jobs -> [Copies -> JobRecords]] /\ jobs'[j][Original] = s
      /\ \A k \in Jobs, d \in Copies : k # j \/ d # Original => jobs'[k][d] = jobs[k][d]
  BY <1>3, <1>4, TypeFacts, CopyFacts, JobSet
<1>6. call'[j] = r
  BY <1>2, <1>4, TypeFacts, CallSet
<1>7. CallOK(j)'
  BY <1>1, <1>2, <1>3, <1>4, <1>5, <1>6 DEF CallOK
<1> QED
  BY <1>1, <1>2, <1>4, <1>5, <1>7, CallStep

LEMMA SendKeeps == ASSUME IInv, NEW j \in Jobs, Send(j) PROVE IInv'
<1> DEFINE r == [call[j] EXCEPT !.at = "sent"]
           s == [jobs[j][Original] EXCEPT !.at = "pending"]
<1>1. /\ call[j].queue \in Queues /\ child[j] = None
      /\ jobs[j][Original].at = "stored" /\ jobs[j][Original].queue = call[j].queue
  BY Unregistered, JobFacts DEF Send, CallOK, Active
<1>2. r \in CallRecords /\ r.at = "sent" /\ r.queue = call[j].queue
  BY TypeFacts DEF CallRecords
<1>3. s \in JobRecords /\ s.at = "pending" /\ s.queue = call[j].queue
  <2>1. jobs[j][Original] \in JobRecords
    BY TypeFacts, CopyFacts
  <2> QED
    BY <1>1, <2>1 DEF JobRecords, JobStates, Active
<1>4. /\ call' = [call EXCEPT ![j] = r] /\ jobs' = [jobs EXCEPT ![j][Original] = s]
      /\ UNCHANGED <<table, started, manager, cooled, current, upd, updates, overtaken, child, late>>
  BY DEF Send, generations, routing
<1> HIDE DEF r, s
<1>5. /\ jobs' \in [Jobs -> [Copies -> JobRecords]] /\ jobs'[j][Original] = s
      /\ \A k \in Jobs, d \in Copies : k # j \/ d # Original => jobs'[k][d] = jobs[k][d]
  BY <1>3, <1>4, TypeFacts, CopyFacts, JobSet
<1>6. call'[j] = r
  BY <1>2, <1>4, TypeFacts, CallSet
<1>7. CallOK(j)'
  BY <1>1, <1>2, <1>3, <1>4, <1>5, <1>6 DEF CallOK
<1> QED
  BY <1>1, <1>2, <1>4, <1>5, <1>7, CallStep

LEMMA GiveUpKeeps == ASSUME IInv, NEW j \in Jobs, GiveUp(j) PROVE IInv'
<1> DEFINE r == [at |-> "failed", queue |-> None]
<1>1. r \in CallRecords /\ r.at = "failed"
  BY DEF CallRecords
<1>2. /\ call' = [call EXCEPT ![j] = r] /\ child[j] = None
      /\ UNCHANGED <<table, started, manager, cooled, current, upd, updates, overtaken, child, late, jobs>>
  BY Unregistered DEF GiveUp, generations, routing
<1>3. call'[j] = r
  BY <1>1, <1>2, TypeFacts, CallSet
<1> HIDE DEF r
<1>4. CallOK(j)'
  BY <1>1, <1>2, <1>3 DEF CallOK
<1> QED
  BY <1>1, <1>2, <1>4, TypeFacts, CallStep

\* A job registered elsewhere than where the routing is, is seen by a scan that
\* is still to come, or late.
LEMMA RegisterKeeps == ASSUME IInv, NEW j \in Jobs, Register(j) PROVE IInv'
<1> DEFINE r == [at |-> "registered", queue |-> None]
<1>1. r \in CallRecords /\ r.at = "registered"
  BY DEF CallRecords
<1>2. /\ call' = [call EXCEPT ![j] = r] /\ child' = [child EXCEPT ![j] = Original]
      /\ UNCHANGED <<table, started, manager, cooled, current, upd, updates, overtaken, jobs>>
  BY DEF Register, generations, routing
<1>3. /\ call' \in [Jobs -> CallRecords] /\ call'[j] = r
      /\ \A k \in Jobs : k # j => call'[k] = call[k]
  BY <1>1, <1>2, TypeFacts, CallSet
<1>4. /\ child' \in [Jobs -> Copies \cup {None}] /\ child'[j] = Original
      /\ \A k \in Jobs : k # j => child'[k] = child[k]
  BY <1>2, TypeFacts, CopyFacts
<1>5. /\ jobs[j][Original].at # "absent" /\ Original # None
      /\ (jobs[j][Original].at \in Active => jobs[j][Original].queue = call[j].queue)
  BY JobFacts, CopyFacts DEF Register, CallOK
<1>6. late' \subseteq Jobs /\ late \subseteq late'
      /\ (j \in late' \/ call[j].queue = current \/ current = None \/ WillScan)
  BY TypeFacts DEF Register
<1> HIDE DEF r
<1>7. TypeOK'
  BY <1>2, <1>3, <1>4, <1>6, TypeFacts, TypesNext
<1>8. ASSUME NEW k \in Jobs PROVE CallOK(k)' /\ \A u \in Updates : CopyOK(u, k)'
  <2>1. CallOK(k) /\ \A u \in Updates : CopyOK(u, k)
    BY JobFacts
  <2>2. \A u \in Updates : CopyOK(u, k)'
    BY <1>2, <2>1 DEF CopyOK
  <2>3. CASE k # j
    BY <1>2, <1>3, <1>4, <2>1, <2>2, <2>3 DEF CallOK
  <2>4. CASE k = j
    BY <1>1, <1>2, <1>3, <1>4, <1>5, <2>2, <2>4 DEF CallOK
  <2> QED
    BY <2>3, <2>4
<1>9. JobsOK'
  BY <1>8 DEF JobsOK
<1>10. overtaken \/ Migrating'
  <2> SUFFICES ASSUME ~overtaken, current # None, NEW k \in Jobs \ late',
                      Unfinished(k)', Home(k)' # current
               PROVE  \E u \in Updates : upd[u].at = "scan" \/ upd[u].moves[k] = child'[k]
    BY <1>2 DEF Migrating
  <2>1. Migrating
    BY DEF IInv, InStep
  <2>2. CASE k # j
    BY <1>2, <1>4, <1>6, <2>1, <2>2 DEF Migrating, Unfinished, Home
  <2>3. CASE k = j
    <3>1. Home(j)' = call[j].queue
      BY <1>2, <1>4, <1>5, <2>3 DEF Unfinished, Home
    <3> QED
      BY <1>6, <2>3, <3>1 DEF WillScan
  <2> QED
    BY <2>2, <2>3
<1> QED
  BY <1>2, <1>7, <1>9, <1>10, Conclude

-----------------------------------------------------------------------------
(* Managers and the jobs that they have                                    *)

\* A step of one job that has been sent and does not become active again.
LEMMA CopyStep ==
  ASSUME IInv, NEW j \in Jobs, NEW c \in Copies, NEW r \in JobRecords,
         jobs' = [jobs EXCEPT ![j][c] = r],
         UNCHANGED <<table, started, manager, cooled, current, upd, updates, overtaken,
                     call, child, late>>,
         jobs[j][c].at \in Active \ {"stored"}, r.at \notin {"absent", "stored"},
         r.at \in Active => r.queue = jobs[j][c].queue
  PROVE  IInv'
<1>1. /\ jobs' \in [Jobs -> [Copies -> JobRecords]] /\ jobs'[j][c] = r
      /\ \A k \in Jobs, d \in Copies : k # j \/ d # c => jobs'[k][d] = jobs[k][d]
  BY TypeFacts, JobSet
<1>2. TypeOK'
  BY <1>1, TypeFacts, TypesNext
<1>3. ASSUME NEW k \in Jobs, NEW d \in Copies
      PROVE  /\ jobs[k][d].at = "absent" <=> jobs'[k][d].at = "absent"
             /\ jobs[k][d].at = "stored" <=> jobs'[k][d].at = "stored"
             /\ jobs'[k][d].at \in Active =>
                  jobs[k][d].at \in Active /\ jobs'[k][d].queue = jobs[k][d].queue
  <2>1. CASE k = j /\ d = c
    BY <1>1, <2>1 DEF Active
  <2>2. CASE k # j \/ d # c
    BY <1>1, <2>2
  <2> QED
    BY <2>1, <2>2
<1>4. ASSUME NEW k \in Jobs PROVE CallOK(k)' /\ \A u \in Updates : CopyOK(u, k)'
  <2>1. CallOK(k) /\ (\A u \in Updates : CopyOK(u, k)) /\ child[k] \in Copies \cup {None}
    BY JobFacts, TypeFacts
  <2>2. ASSUME NEW u \in Updates PROVE CopyOK(u, k)'
    <3>1. u \in Copies /\ CopyOK(u, k)
      BY <2>1, CopyFacts
    <3>2. UNCHANGED upd
      OBVIOUS
    <3> QED
      BY <1>3, <3>1, <3>2 DEF CopyOK
  <2>3. CallOK(k)'
    BY <1>3, <2>1, CopyFacts DEF CallOK
  <2> QED
    BY <2>2, <2>3
<1>5. JobsOK'
  BY <1>4 DEF JobsOK
<1>6. \A k \in Jobs : Unfinished(k)' => Unfinished(k) /\ Home(k)' = Home(k)
  BY <1>3, TypeFacts DEF Unfinished, Home
<1> QED
  BY <1>2, <1>5, <1>6, MigratingKept, Conclude

LEMMA NextKeeps ==
  ASSUME IInv, NEW q \in Queues, NEW j \in Jobs, NEW c \in Copies, Next_(q, j, c) PROVE IInv'
<1> DEFINE r == [jobs[j][c] EXCEPT !.at = "taken"]
<1>1. jobs[j][c] \in JobRecords /\ jobs[j][c].at = "pending"
  BY TypeFacts DEF Next_, InChannel
<1>2. r \in JobRecords /\ r.at = "taken" /\ r.queue = jobs[j][c].queue
  BY <1>1 DEF JobRecords, JobStates, Active
<1>3. /\ jobs' = [jobs EXCEPT ![j][c] = r]
      /\ UNCHANGED <<table, started, manager, cooled, current, upd, updates, overtaken,
                     call, child, late>>
  BY DEF Next_, generations, routing, requests
<1> HIDE DEF r
<1> QED
  BY <1>1, <1>2, <1>3, CopyStep DEF Active

LEMMA BeginKeeps == ASSUME IInv, NEW j \in Jobs, NEW c \in Copies, Begin(j, c) PROVE IInv'
<1> DEFINE r == [jobs[j][c] EXCEPT !.at = "running"]
<1>1. jobs[j][c] \in JobRecords /\ jobs[j][c].at = "taken"
  BY TypeFacts DEF Begin
<1>2. r \in JobRecords /\ r.at = "running" /\ r.queue = jobs[j][c].queue
  BY <1>1 DEF JobRecords, JobStates, Active
<1>3. /\ jobs' = [jobs EXCEPT ![j][c] = r]
      /\ UNCHANGED <<table, started, manager, cooled, current, upd, updates, overtaken,
                     call, child, late>>
  BY DEF Begin, generations, routing, requests
<1> HIDE DEF r
<1> QED
  BY <1>1, <1>2, <1>3, CopyStep DEF Active

LEMMA FinishKeeps == ASSUME IInv, NEW j \in Jobs, NEW c \in Copies, Finish(j, c) PROVE IInv'
<1> DEFINE r == [at |-> "ended", queue |-> None]
<1>1. jobs[j][c].at = "running"
  BY DEF Finish
<1>2. r \in JobRecords /\ r.at = "ended"
  BY DEF JobRecords, JobStates
<1>3. /\ jobs' = [jobs EXCEPT ![j][c] = r]
      /\ UNCHANGED <<table, started, manager, cooled, current, upd, updates, overtaken,
                     call, child, late>>
  BY DEF Finish, generations, routing, requests
<1> HIDE DEF r
<1> QED
  BY <1>1, <1>2, <1>3, CopyStep DEF Active

\* A step of managers after which what was served is served, or cooled.
LEMMA ManagerStep ==
  ASSUME IInv, manager' \in [Queues -> ManagerStates], cooled' \subseteq Queues,
         UNCHANGED <<table, started, current, upd, updates, overtaken, call, child, late, jobs>>,
         \A q \in Queues : Consumed(q) \/ q \in cooled => Consumed(q)' \/ q \in cooled'
  PROVE  IInv'
<1>1. TypeOK'
  BY TypeFacts, TypesNext
<1>2. Numbered' /\ JobsOK' /\ UpdatesOK'
  BY DEF IInv, Numbered, JobsOK, CallOK, CopyOK, UpdatesOK, Underway
<1>3. ASSUME ~overtaken PROVE Aligned' /\ AllAlive' /\ Retiring' /\ Upcoming' /\ Planned' /\ Migrating'
  <2>1. Aligned /\ AllAlive /\ Retiring /\ Upcoming /\ Planned /\ Migrating
    BY <1>3 DEF IInv, InStep
  <2>2. ASSUME NEW q \in Queues \cup {None}, Alive(q) PROVE Alive(q)'
    BY <2>2 DEF Alive
  <2>3. Alive(table)' /\ Alive(current)'
    BY <2>1, <2>2, TypeFacts DEF AllAlive, Alive
  <2>4. ASSUME NEW u \in Updates, PastSnapshot(u) PROVE Alive(upd[u].target)'
    <3>1. upd[u].target \in Queues \cup {None} /\ Alive(upd[u].target)
      BY <2>1, <2>4, TypeFacts DEF AllAlive, UpdateRecords
    <3> QED
      BY <2>2, <3>1 DEF Alive
  <2>5. ASSUME NEW u \in Updates, upd[u].at = "publish" PROVE Alive(upd[u].own)'
    <3>1. upd[u].own \in Queues \cup {None} /\ Alive(upd[u].own)
      BY <2>1, <2>5, TypeFacts DEF AllAlive, UpdateRecords
    <3> QED
      BY <2>2, <3>1 DEF Alive
  <2>6. AllAlive'
    BY <2>3, <2>4, <2>5 DEF AllAlive, PastSnapshot, Underway, Alive
  <2>7. Aligned' /\ Retiring' /\ Upcoming' /\ Planned'
    BY <2>1 DEF Aligned, Retiring, Retires, Upcoming, Planned, Underway, PastSnapshot
  <2>8. Migrating'
    BY <2>1 DEF Migrating, Unfinished, Home
  <2> QED
    BY <2>7, <2>8, <2>6
<1>4. InStep'
  BY <1>3 DEF InStep
<1> QED
  BY <1>1, <1>2, <1>4 DEF IInv

LEMMA StartConsumingKeeps == ASSUME IInv, NEW q \in Queues, StartConsuming(q) PROVE IInv'
<1>1. manager' \in [Queues -> ManagerStates] /\ \A p \in Queues : Consumed(p) => Consumed(p)'
  BY TypeFacts DEF StartConsuming, ManagerStates, Consumed
<1>2. UNCHANGED <<table, started, cooled, current, upd, updates, overtaken, call, child, late, jobs>>
  BY DEF StartConsuming, routing, requests
<1> QED
  BY <1>1, <1>2, TypeFacts, ManagerStep

LEMMA ReturnsCancelledKeeps == ASSUME IInv, NEW q \in Queues, ReturnsCancelled(q) PROVE IInv'
<1>1. manager' \in [Queues -> ManagerStates] /\ \A p \in Queues : Consumed(p) => Consumed(p)'
  BY TypeFacts DEF ReturnsCancelled, ManagerStates, Consumed
<1>2. UNCHANGED <<table, started, cooled, current, upd, updates, overtaken, call, child, late, jobs>>
  BY DEF ReturnsCancelled, routing, requests
<1> QED
  BY <1>1, <1>2, TypeFacts, ManagerStep

LEMMA StopFacts ==
  ASSUME IInv, NEW S, StopManagers(S)
  PROVE  /\ manager' \in [Queues -> ManagerStates]
         /\ \A q \in Queues : q \notin S /\ Consumed(q) => Consumed(q)'
BY TypeFacts DEF StopManagers, ManagerStates, Consumed

LEMMA CoolKeeps == ASSUME IInv, NEW q \in Queues, Cool(q) PROVE IInv'
<1>1. cooled' = cooled \cup {q} /\ StopManagers({q})
  BY DEF Cool
<1>2. UNCHANGED <<table, started, current, upd, updates, overtaken, call, child, late, jobs>>
  BY DEF Cool, routing, requests
<1>3. /\ manager' \in [Queues -> ManagerStates]
      /\ \A p \in Queues : p \notin {q} /\ Consumed(p) => Consumed(p)'
  BY <1>1, StopFacts
<1> QED
  BY <1>1, <1>2, <1>3, TypeFacts, ManagerStep

-----------------------------------------------------------------------------
(* Updates of the routing: what they do to the table and the route         *)

LEMMA NumberFacts ==
  ASSUME IInv
  PROVE  /\ started \in Nat /\ started \in Queues /\ Queues \subseteq Nat
         /\ table \in 0 .. started /\ current \in 0 .. started
         /\ \A u \in Updates : /\ upd[u].own \in 0 .. started /\ upd[u].previous \in 0 .. started
                               /\ upd[u].target \in 0 .. started
         /\ \A q \in 0 .. started : q \in Queues \cup {None}
         /\ \A q \in Queues : q <= started => q \in 0 .. started
<1>1. started \in Queues /\ Queues \subseteq Nat /\ MaxQueues \in Nat
  BY TypeFacts, QueuesAssumption DEF Queues
<1>2. \A q \in 0 .. started : q \in Queues \cup {None}
  BY <1>1 DEF Queues, None
<1> QED
  BY <1>1, <1>2 DEF IInv, Numbered

\* The route of a copy and the calls are left alone: only the copies that the
\* update u makes are concerned.
LEMMA JobsKept ==
  ASSUME IInv, NEW u \in Updates, UNCHANGED <<jobs, call, child>>,
         \A v \in Updates : v # u => upd'[v] = upd[v],
         \A k \in Jobs : CopyOK(u, k)'
  PROVE  JobsOK'
<1> SUFFICES ASSUME NEW k \in Jobs PROVE CallOK(k)' /\ \A v \in Updates : CopyOK(v, k)'
  BY DEF JobsOK
<1>1. CallOK(k) /\ \A v \in Updates : CopyOK(v, k)
  BY JobFacts
<1>2. CallOK(k)'
  BY <1>1 DEF CallOK
<1>3. \A v \in Updates : CopyOK(v, k)'
  BY <1>1 DEF CopyOK
<1> QED
  BY <1>2, <1>3

LEMMA MovesKept ==
  ASSUME IInv, ~overtaken, UNCHANGED <<current, jobs, child, late>>,
         \A u \in Updates : upd[u].at = "scan" => upd'[u].at = "scan",
         \A u \in Updates : upd'[u].moves = upd[u].moves
  PROVE  Migrating'
<1>1. Migrating
  BY DEF IInv, InStep
<1> QED
  BY <1>1 DEF Migrating, Unfinished, Home

\* A new generation has a number that nothing names yet, and a manager.
LEMMA StartFacts ==
  ASSUME IInv, StartNew, NEW n, n = started + 1
  PROVE  /\ n \in Queues /\ n # None /\ started' = n
         /\ \A q \in 0 .. started : q \in 0 .. n /\ q # n
         /\ manager' \in [Queues -> ManagerStates] /\ Consumed(n)'
         /\ \A q \in Queues : Consumed(q) => Consumed(q)'
<1>1. started \in Nat /\ manager \in [Queues -> ManagerStates]
  BY NumberFacts, TypeFacts
<1>2. n \in Queues /\ started' = n /\ manager' = [manager EXCEPT ![n] = "starting"]
  BY DEF StartNew
<1> QED
  BY <1>1, <1>2 DEF Consumed, ManagerStates, None

\* An update that has not begun yet.
LEMMA BeginsFacts ==
  ASSUME IInv, NEW u \in Updates, Begins(u)
  PROVE  /\ upd[u] = NoUpdate /\ ~Underway(u) /\ ~PastSnapshot(u) /\ updates' \in 0 .. MaxUpdates
         /\ \A v \in Updates : v > updates' => v > updates /\ v # u
<1>1. u = updates + 1 /\ updates' = u /\ updates \in 0 .. MaxUpdates /\ MaxUpdates \in Nat
  BY TypeFacts, UpdatesAssumption DEF Begins
<1>2. u > updates /\ u \in 1 .. MaxUpdates
  BY <1>1 DEF Updates
<1>3. upd[u] = NoUpdate
  BY <1>2 DEF IInv, UpdatesOK
<1>4. ~Underway(u) /\ ~PastSnapshot(u)
  BY <1>3 DEF NoUpdate, Underway, PastSnapshot
<1>5. \A v \in Updates : v > updates' => v > updates /\ v # u
  BY <1>1, <1>2 DEF Updates
<1> QED
  BY <1>1, <1>2, <1>3, <1>4, <1>5

\* An update of an activation or a teardown begins.
LEMMA Beginning ==
  ASSUME IInv, NEW u \in Updates, Begins(u), NEW r \in UpdateRecords, upd' = [upd EXCEPT ![u] = r],
         r.at \in {"publish", "topology"}, ~r.selection, r.target = None,
         r.moves = upd[u].moves, r.moving = upd[u].moving,
         UNCHANGED <<current, cooled, overtaken, call, child, late, jobs>>,
         started' \in Queues, \A q \in 0 .. started : q \in 0 .. started',
         table' \in 0 .. started', r.own \in 0 .. started', r.previous \in 0 .. started',
         manager' \in [Queues -> ManagerStates], \A q \in Queues : Consumed(q) => Consumed(q)'
  PROVE  /\ TypeOK' /\ Numbered' /\ JobsOK' /\ UpdatesOK'
         /\ upd'[u] = r /\ Underway(u)' /\ ~PastSnapshot(u)'
         /\ \A v \in Updates : v # u => /\ upd'[v] = upd[v] /\ (Underway(v)' <=> Underway(v))
                                        /\ (PastSnapshot(v)' <=> PastSnapshot(v))
         /\ ~overtaken =>
              /\ Aligned' /\ Migrating' /\ Alive(current)'
              /\ \A v \in Updates : /\ PastSnapshot(v)' => Alive(upd[v].target)'
                                    /\ v # u /\ upd'[v].at = "publish" => Alive(upd[v].own)'
<1>1. /\ upd' \in [Updates -> UpdateRecords] /\ upd'[u] = r
      /\ \A v \in Updates : v # u => upd'[v] = upd[v]
  BY TypeFacts, UpdSet
<1>2. /\ upd[u] = NoUpdate /\ ~Underway(u) /\ ~PastSnapshot(u) /\ updates' \in 0 .. MaxUpdates
      /\ \A v \in Updates : v > updates' => v > updates /\ v # u
  BY BeginsFacts
<1>3. r.moving = {} /\ \A k \in Jobs : r.moves[k] = None
  BY <1>2 DEF NoUpdate
<1>4. TypeOK'
  <2>1. started' \in Nat /\ started' <= MaxQueues
    BY QueuesAssumption DEF Queues
  <2>2. table' \in Queues \cup {None}
    BY <2>1, QueuesAssumption DEF Queues, None
  <2> QED
    BY <1>1, <1>2, <2>2, TypeFacts, TypesNext
<1>5. Numbered'
  <2>1. None \in 0 .. started'
    BY QueuesAssumption DEF None, Queues
  <2> QED
    BY <1>1, <2>1, NumberFacts DEF Numbered
<1>6. JobsOK'
  <2>1. ASSUME NEW k \in Jobs PROVE CopyOK(u, k)'
    <3>1. jobs[k][u].at = "absent"
      BY <1>2, JobFacts DEF CopyOK, NoUpdate
    <3> QED
      BY <1>1, <1>3, <3>1 DEF CopyOK
  <2> QED
    BY <1>1, <2>1, JobsKept
<1>7. /\ Underway(u)' /\ ~PastSnapshot(u)'
      /\ \A v \in Updates : v # u => (PastSnapshot(v)' <=> PastSnapshot(v))
                                     /\ (Underway(v)' <=> Underway(v))
  BY <1>1 DEF PastSnapshot, Underway
<1>8. UpdatesOK'
  BY <1>1, <1>2, <1>3, <1>7 DEF IInv, UpdatesOK
<1>9. ASSUME ~overtaken
      PROVE  /\ Aligned' /\ Migrating' /\ Alive(current)'
             /\ \A v \in Updates : /\ PastSnapshot(v)' => Alive(upd[v].target)'
                                   /\ v # u /\ upd'[v].at = "publish" => Alive(upd[v].own)'
  <2>1. Aligned /\ AllAlive
    BY <1>9 DEF IInv, InStep
  <2>2. Aligned'
    BY <1>1, <1>7, <2>1 DEF Aligned
  <2>3. \A q \in Queues \cup {None} : Alive(q) => Alive(q)'
    BY DEF Alive
  <2>4. Alive(current)'
    BY <2>1, <2>3, TypeFacts DEF AllAlive, Alive
  <2>5. ASSUME NEW v \in Updates, PastSnapshot(v)' PROVE Alive(upd[v].target)'
    <3>1. v # u /\ PastSnapshot(v)
      BY <1>7, <2>5
    <3>2. upd[v].target \in Queues \cup {None} /\ Alive(upd[v].target) /\ upd'[v] = upd[v]
      BY <1>1, <2>1, <3>1, TypeFacts DEF AllAlive, UpdateRecords
    <3> QED
      BY <2>3, <3>2 DEF Alive
  <2>6. ASSUME NEW v \in Updates, v # u, upd'[v].at = "publish" PROVE Alive(upd[v].own)'
    <3>1. upd[v].own \in Queues \cup {None} /\ Alive(upd[v].own) /\ upd'[v] = upd[v]
      BY <1>1, <2>1, <2>6, TypeFacts DEF AllAlive, UpdateRecords
    <3> QED
      BY <2>3, <3>1 DEF Alive
  <2>7. Migrating'
    <3>1. \A v \in Updates : (upd[v].at = "scan" => upd'[v].at = "scan") /\ upd'[v].moves = upd[v].moves
      BY <1>1, <1>2 DEF NoUpdate
    <3> QED
      BY <1>9, <3>1, MovesKept
  <2> QED
    BY <2>2, <2>4, <2>5, <2>6, <2>7
<1> QED
  BY <1>1, <1>4, <1>5, <1>6, <1>7, <1>8, <1>9

\* What an update that begins leaves to the others.
LEMMA BeginningKeeps ==
  ASSUME IInv, ~overtaken, NEW u \in Updates, NEW r, upd'[u] = r,
         ~Underway(u), Underway(u)', ~PastSnapshot(u)',
         \A v \in Updates : v # u => /\ upd'[v] = upd[v] /\ (Underway(v)' <=> Underway(v))
                                     /\ (PastSnapshot(v)' <=> PastSnapshot(v)),
         ~r.selection, r.target = None, r.previous \in {None, table}, table' \in {None, table},
         r.at # "publish" => r.previous = None \/ table' = None,
         r.at = "publish" => /\ r.own \in Queues /\ r.own # table
                             /\ \A v \in Updates : /\ upd[v].target # r.own /\ upd[v].own # r.own
                                                   /\ upd[v].previous # r.own
  PROVE  Retiring' /\ Upcoming' /\ Planned'
<1>1. Retiring /\ Upcoming /\ Planned
  BY DEF IInv, InStep
<1>2. \A v \in Updates : \A q : Retires(v, q)' => Retires(v, q) \/ (v = u /\ q = r.previous /\ q # None)
  BY DEF Retires
<1>3. \A q \in Queues : q # None
  BY CopyFacts
<1>4. Retiring'
  <2> SUFFICES ASSUME NEW v \in Updates, NEW q \in Queues, Retires(v, q)'
               PROVE  /\ upd'[v].at # "publish" => q # table'
                      /\ PastSnapshot(v)' => q # upd'[v].target
    BY DEF Retiring
  <2>1. CASE v = u
    BY <1>2, <1>3, <2>1 DEF Retires
  <2>2. CASE v # u
    <3>1. Retires(v, q) /\ upd'[v] = upd[v] /\ (PastSnapshot(v)' <=> PastSnapshot(v))
      BY <1>2, <2>2
    <3>2. (upd[v].at # "publish" => q # table) /\ (PastSnapshot(v) => q # upd[v].target)
      BY <1>1, <3>1 DEF Retiring
    <3> QED
      BY <1>3, <3>1, <3>2
  <2> QED
    BY <2>1, <2>2
<1>5. Upcoming'
  <2> SUFFICES ASSUME NEW w \in Updates, upd'[w].at = "publish"
               PROVE  /\ upd'[w].own \in Queues /\ upd'[w].own # table'
                      /\ \A v \in Updates :
                           /\ upd'[v].target # upd'[w].own /\ ~Retires(v, upd[w].own)'
                           /\ v # w /\ upd'[v].at = "publish" => upd'[v].own # upd'[w].own
    BY DEF Upcoming
  <2>1. CASE w = u
    <3>1. \A v \in Updates : ~Retires(v, upd[w].own)'
      BY <2>1 DEF Retires
    <3> QED
      BY <1>3, <2>1, <3>1
  <2>2. CASE w # u
    <3>1. /\ upd'[w] = upd[w] /\ upd[w].own \in Queues /\ upd[w].own # table
          /\ \A v \in Updates :
               /\ upd[v].target # upd[w].own /\ ~Retires(v, upd[w].own)
               /\ v # w /\ upd[v].at = "publish" => upd[v].own # upd[w].own
      BY <1>1, <2>2 DEF Upcoming
    <3>2. \A v \in Updates : ~Retires(v, upd[w].own)'
      BY <3>1 DEF Retires
    <3> QED
      BY <1>3, <2>2, <3>1, <3>2
  <2> QED
    BY <2>1, <2>2
<1>6. Planned'
  <2> SUFFICES ASSUME NEW v \in Updates, Underway(v)', upd'[v].selection
               PROVE  \/ upd'[v].target \in {None, upd'[v].previous}
                      \/ upd'[v].target # table' /\ \A w \in Updates : ~Retires(w, upd[v].target)'
    BY DEF Planned
  <2>1. v # u /\ upd'[v] = upd[v] /\ Underway(v) /\ upd[v].selection
    OBVIOUS
  <2>2. \/ upd[v].target \in {None, upd[v].previous}
        \/ upd[v].target # table /\ \A w \in Updates : ~Retires(w, upd[v].target)
    BY <1>1, <2>1 DEF Planned
  <2>3. ASSUME upd[v].target # None, upd[v].target # table, NEW w \in Updates,
               ~Retires(w, upd[v].target)
        PROVE  ~Retires(w, upd[v].target)'
    BY <2>1, <2>3 DEF Retires
  <2> QED
    BY <2>1, <2>2, <2>3
<1> QED
  BY <1>4, <1>5, <1>6

LEMMA ActivateKeeps == ASSUME IInv, NEW u \in Updates, Activate(u) PROVE IInv'
<1>1. PICK n : n = started + 1
  OBVIOUS
<1> DEFINE r == [upd[u] EXCEPT !.at = "publish", !.own = n, !.previous = table]
<1>2. /\ Begins(u) /\ StartNew /\ upd' = [upd EXCEPT ![u] = r]
      /\ UNCHANGED <<table, current, cooled, overtaken, call, child, late, jobs>>
  BY <1>1 DEF Activate, requests
<1>3. /\ n \in Queues /\ n # None /\ started' = n
      /\ \A q \in 0 .. started : q \in 0 .. n /\ q # n
      /\ manager' \in [Queues -> ManagerStates] /\ Consumed(n)'
      /\ \A q \in Queues : Consumed(q) => Consumed(q)'
  BY <1>1, <1>2, StartFacts
<1>4. /\ r \in UpdateRecords /\ r.at = "publish" /\ r.own = n /\ r.previous = table
      /\ r.selection = upd[u].selection /\ r.target = upd[u].target
      /\ r.moves = upd[u].moves /\ r.moving = upd[u].moving
  BY <1>3, TypeFacts DEF UpdateRecords
<1>5. upd[u] = NoUpdate /\ ~Underway(u)
  BY <1>2, BeginsFacts
<1>6. ~r.selection /\ r.target = None
  BY <1>4, <1>5 DEF NoUpdate
<1> HIDE DEF r
<1>7. n \in 0 .. n
  BY <1>3, NumberFacts
<1>8. table \in 0 .. n /\ table # n
  BY <1>3, NumberFacts
<1>9. /\ TypeOK' /\ Numbered' /\ JobsOK' /\ UpdatesOK'
      /\ upd'[u] = r /\ Underway(u)' /\ ~PastSnapshot(u)'
      /\ \A v \in Updates : v # u => /\ upd'[v] = upd[v] /\ (Underway(v)' <=> Underway(v))
                                     /\ (PastSnapshot(v)' <=> PastSnapshot(v))
      /\ ~overtaken =>
           /\ Aligned' /\ Migrating' /\ Alive(current)'
           /\ \A v \in Updates : /\ PastSnapshot(v)' => Alive(upd[v].target)'
                                 /\ v # u /\ upd'[v].at = "publish" => Alive(upd[v].own)'
  BY <1>2, <1>3, <1>4, <1>6, <1>7, <1>8, Beginning
<1>10. ASSUME ~overtaken PROVE AllAlive' /\ Retiring' /\ Upcoming' /\ Planned'
  <2>1. Alive(table)'
    BY <1>2, <1>3, <1>10, TypeFacts DEF IInv, InStep, AllAlive, Alive
  <2>2. Alive(upd[u].own)'
    BY <1>3, <1>4, <1>9 DEF Alive
  <2>3. AllAlive'
    BY <1>9, <1>10, <2>1, <2>2 DEF AllAlive
  <2>4. \A v \in Updates : upd[v].target # n /\ upd[v].own # n /\ upd[v].previous # n
    BY <1>3, NumberFacts
  <2>5. Retiring' /\ Upcoming' /\ Planned'
    BY <1>2, <1>3, <1>4, <1>5, <1>6, <1>8, <1>9, <1>10, <2>4, BeginningKeeps
  <2> QED
    BY <2>3, <2>5
<1>11. InStep'
  BY <1>2, <1>9, <1>10 DEF InStep
<1> QED
  BY <1>9, <1>11 DEF IInv

LEMMA TeardownKeeps == ASSUME IInv, NEW u \in Updates, Teardown(u) PROVE IInv'
<1> DEFINE r == [upd[u] EXCEPT !.at = "topology", !.previous = table]
<1>1. /\ Begins(u) /\ upd' = [upd EXCEPT ![u] = r] /\ table' = None
      /\ UNCHANGED <<started, manager, cooled, current, overtaken, call, child, late, jobs>>
  BY DEF Teardown, requests
<1>2. /\ r \in UpdateRecords /\ r.at = "topology" /\ r.previous = table /\ r.own = upd[u].own
      /\ r.selection = upd[u].selection /\ r.target = upd[u].target
      /\ r.moves = upd[u].moves /\ r.moving = upd[u].moving
  BY TypeFacts DEF UpdateRecords
<1>3. upd[u] = NoUpdate /\ ~Underway(u)
  BY <1>1, BeginsFacts
<1>4. ~r.selection /\ r.target = None
  BY <1>2, <1>3 DEF NoUpdate
<1> HIDE DEF r
<1>5. None \in 0 .. started
  BY NumberFacts DEF None
<1>6. \A q \in Queues : Consumed(q) => Consumed(q)'
  BY <1>1 DEF Consumed
<1>7. /\ TypeOK' /\ Numbered' /\ JobsOK' /\ UpdatesOK'
      /\ upd'[u] = r /\ Underway(u)' /\ ~PastSnapshot(u)'
      /\ \A v \in Updates : v # u => /\ upd'[v] = upd[v] /\ (Underway(v)' <=> Underway(v))
                                     /\ (PastSnapshot(v)' <=> PastSnapshot(v))
      /\ ~overtaken =>
           /\ Aligned' /\ Migrating' /\ Alive(current)'
           /\ \A v \in Updates : /\ PastSnapshot(v)' => Alive(upd[v].target)'
                                 /\ v # u /\ upd'[v].at = "publish" => Alive(upd[v].own)'
  BY <1>1, <1>2, <1>4, <1>5, <1>6, NumberFacts, TypeFacts, Beginning
<1>8. ASSUME ~overtaken PROVE AllAlive' /\ Retiring' /\ Upcoming' /\ Planned'
  <2>1. Alive(table)'
    BY <1>1 DEF Alive
  <2>2. AllAlive'
    BY <1>2, <1>7, <1>8, <2>1 DEF AllAlive
  <2>3. Retiring' /\ Upcoming' /\ Planned'
    BY <1>1, <1>2, <1>3, <1>4, <1>7, <1>8, BeginningKeeps
  <2> QED
    BY <2>2, <2>3
<1>9. InStep'
  BY <1>1, <1>7, <1>8 DEF InStep
<1> QED
  BY <1>7, <1>9 DEF IInv

LEMMA ElsewhereKeeps == ASSUME IInv, NEW u \in Updates, Elsewhere(u) PROVE IInv'
<1> DEFINE r == [upd[u] EXCEPT !.at = "topology"]
<1>1. /\ Begins(u) /\ upd' = [upd EXCEPT ![u] = r]
      /\ UNCHANGED <<table, started, manager, cooled, current, overtaken, call, child, late, jobs>>
  BY DEF Elsewhere, requests, generations
<1>2. /\ r \in UpdateRecords /\ r.at = "topology" /\ r.previous = upd[u].previous /\ r.own = upd[u].own
      /\ r.selection = upd[u].selection /\ r.target = upd[u].target
      /\ r.moves = upd[u].moves /\ r.moving = upd[u].moving
  BY TypeFacts DEF UpdateRecords
<1>3. upd[u] = NoUpdate /\ ~Underway(u)
  BY <1>1, BeginsFacts
<1>4. ~r.selection /\ r.target = None /\ r.previous = None
  BY <1>2, <1>3 DEF NoUpdate
<1> HIDE DEF r
<1>5. \A q \in Queues : Consumed(q) => Consumed(q)'
  BY <1>1 DEF Consumed
<1>6. /\ TypeOK' /\ Numbered' /\ JobsOK' /\ UpdatesOK'
      /\ upd'[u] = r /\ Underway(u)' /\ ~PastSnapshot(u)'
      /\ \A v \in Updates : v # u => /\ upd'[v] = upd[v] /\ (Underway(v)' <=> Underway(v))
                                     /\ (PastSnapshot(v)' <=> PastSnapshot(v))
      /\ ~overtaken =>
           /\ Aligned' /\ Migrating' /\ Alive(current)'
           /\ \A v \in Updates : /\ PastSnapshot(v)' => Alive(upd[v].target)'
                                 /\ v # u /\ upd'[v].at = "publish" => Alive(upd[v].own)'
  BY <1>1, <1>2, <1>4, <1>5, NumberFacts, TypeFacts, Beginning
<1>7. ASSUME ~overtaken PROVE AllAlive' /\ Retiring' /\ Upcoming' /\ Planned'
  <2>1. Alive(table)'
    BY <1>1, <1>7 DEF IInv, InStep, AllAlive, Alive, Consumed
  <2>2. AllAlive'
    BY <1>2, <1>6, <1>7, <2>1 DEF AllAlive
  <2>3. Retiring' /\ Upcoming' /\ Planned'
    BY <1>1, <1>2, <1>3, <1>4, <1>6, <1>7, BeginningKeeps
  <2> QED
    BY <2>2, <2>3
<1>8. InStep'
  BY <1>1, <1>6, <1>7 DEF InStep
<1> QED
  BY <1>6, <1>8 DEF IInv

\* The generation that is now in the table was nobody else's.
LEMMA PublishKeeps == ASSUME IInv, NEW u \in Updates, Publish(u) PROVE IInv'
<1> DEFINE r == [upd[u] EXCEPT !.at = "topology"]
<1>1. /\ upd[u].at = "publish" /\ upd' = [upd EXCEPT ![u] = r] /\ table' = upd[u].own
      /\ UNCHANGED <<started, manager, cooled, current, updates, overtaken, call, child, late, jobs>>
  BY DEF Publish, requests
<1>2. /\ r \in UpdateRecords /\ r.at = "topology" /\ r.previous = upd[u].previous /\ r.own = upd[u].own
      /\ r.selection = upd[u].selection /\ r.target = upd[u].target
      /\ r.moves = upd[u].moves /\ r.moving = upd[u].moving
  BY TypeFacts DEF UpdateRecords
<1> HIDE DEF r
<1>3. /\ upd' \in [Updates -> UpdateRecords] /\ upd'[u] = r
      /\ \A v \in Updates : v # u => upd'[v] = upd[v]
  BY <1>1, <1>2, TypeFacts, UpdSet
<1>4. TypeOK'
  <2>1. table' \in Queues \cup {None}
    BY <1>1, TypeFacts DEF UpdateRecords
  <2> QED
    BY <1>1, <1>3, <2>1, TypeFacts, TypesNext
<1>5. Numbered'
  BY <1>1, <1>2, <1>3, NumberFacts DEF Numbered
<1>6. JobsOK'
  <2>1. ASSUME NEW k \in Jobs PROVE CopyOK(u, k)'
    <3>1. CopyOK(u, k)
      BY JobFacts
    <3> QED
      BY <1>1, <1>2, <1>3, <3>1 DEF CopyOK
  <2> QED
    BY <1>1, <1>3, <2>1, JobsKept
<1>7. \A v \in Updates : (Underway(v)' <=> Underway(v)) /\ (PastSnapshot(v)' <=> PastSnapshot(v))
  BY <1>1, <1>2, <1>3 DEF PastSnapshot, Underway
<1>8. \A v \in Updates :
        /\ upd'[v].selection = upd[v].selection /\ upd'[v].own = upd[v].own
        /\ upd'[v].previous = upd[v].previous /\ upd'[v].target = upd[v].target
        /\ upd'[v].moves = upd[v].moves /\ upd'[v].moving = upd[v].moving
        /\ v # u => upd'[v].at = upd[v].at
  BY <1>2, <1>3
<1>9. UpdatesOK'
  <2>1. \A v \in Updates : v > updates => v # u
    BY <1>1 DEF IInv, UpdatesOK, NoUpdate
  <2>2. ~upd[u].selection
    BY <1>1 DEF IInv, UpdatesOK
  <2> QED
    BY <1>1, <1>3, <1>7, <1>8, <2>1, <2>2 DEF IInv, UpdatesOK
<1>10. ASSUME ~overtaken PROVE Aligned' /\ AllAlive' /\ Retiring' /\ Upcoming' /\ Planned' /\ Migrating'
  <2>1. Aligned /\ AllAlive /\ Retiring /\ Upcoming /\ Planned
    BY <1>10 DEF IInv, InStep
  <2>2. /\ upd[u].own \in Queues /\ upd[u].own # table
        /\ \A v \in Updates :
             /\ upd[v].target # upd[u].own /\ ~Retires(v, upd[u].own)
             /\ v # u /\ upd[v].at = "publish" => upd[v].own # upd[u].own
    BY <1>1, <2>1 DEF Upcoming
  <2>3. ~PastSnapshot(u)
    BY <1>1 DEF PastSnapshot
  <2>4. Aligned'
    <3>1. \A v \in Updates : PastSnapshot(v)' => upd'[v] = upd[v] /\ PastSnapshot(v)
      BY <1>3, <1>7, <2>3
    <3> QED
      BY <1>1, <2>1, <3>1 DEF Aligned
  <2>5. AllAlive'
    <3>1. Alive(table)' /\ Alive(current)'
      BY <1>1, <2>1 DEF AllAlive, Alive, Consumed
    <3>2. ASSUME NEW v \in Updates, PastSnapshot(v)' PROVE Alive(upd[v].target)'
      <4>1. upd'[v].target = upd[v].target /\ Alive(upd[v].target)
        BY <1>7, <1>8, <2>1, <3>2 DEF AllAlive
      <4> QED
        BY <1>1, <4>1 DEF Alive, Consumed
    <3>3. ASSUME NEW v \in Updates, upd'[v].at = "publish" PROVE Alive(upd[v].own)'
      <4>1. upd'[v].own = upd[v].own /\ Alive(upd[v].own)
        BY <1>2, <1>3, <1>8, <2>1, <3>3 DEF AllAlive
      <4> QED
        BY <1>1, <4>1 DEF Alive, Consumed
    <3> QED
      BY <3>1, <3>2, <3>3 DEF AllAlive
  <2>6. \A v \in Updates : \A q : Retires(v, q)' <=> Retires(v, q)
    BY <1>7, <1>8 DEF Retires
  <2>7. Retiring'
    <3> SUFFICES ASSUME NEW v \in Updates, NEW q \in Queues, Retires(v, q)
                 PROVE  /\ upd'[v].at # "publish" => q # upd[u].own
                        /\ PastSnapshot(v)' => q # upd'[v].target
      BY <1>1, <2>6 DEF Retiring
    <3> QED
      BY <1>7, <1>8, <2>1, <2>2 DEF Retiring
  <2>8. \A v, w \in Updates : Retires(v, upd[w].own)' <=> Retires(v, upd[w].own)
    BY <1>7, <1>8 DEF Retires
  <2>9. Upcoming'
    <3> SUFFICES ASSUME NEW w \in Updates, upd'[w].at = "publish"
                 PROVE  /\ upd'[w].own \in Queues /\ upd'[w].own # upd[u].own
                        /\ \A v \in Updates :
                             /\ upd'[v].target # upd'[w].own /\ ~Retires(v, upd[w].own)'
                             /\ v # w /\ upd'[v].at = "publish" => upd'[v].own # upd'[w].own
      BY <1>1 DEF Upcoming
    <3>1. w # u /\ upd[w].at = "publish"
      BY <1>2, <1>3
    <3>2. /\ upd[w].own \in Queues
          /\ \A v \in Updates :
               /\ upd[v].target # upd[w].own /\ ~Retires(v, upd[w].own)
               /\ v # w /\ upd[v].at = "publish" => upd[v].own # upd[w].own
      BY <2>1, <3>1 DEF Upcoming
    <3> QED
      BY <1>1, <1>8, <2>8, <3>1, <3>2
  <2>10. \A v, w \in Updates : Retires(v, upd[w].target)' <=> Retires(v, upd[w].target)
    BY <1>7, <1>8 DEF Retires
  <2>11. Planned'
    <3> SUFFICES ASSUME NEW v \in Updates, Underway(v), upd[v].selection
                 PROVE  \/ upd[v].target \in {None, upd[v].previous}
                        \/ /\ upd[v].target # upd[u].own
                           /\ \A w \in Updates : ~Retires(w, upd[v].target)
      BY <1>1, <1>7, <1>8, <2>10 DEF Planned
    <3> QED
      BY <2>1, <2>2 DEF Planned
  <2>12. Migrating'
    <3>1. \A v \in Updates : upd[v].at = "scan" => upd'[v].at = "scan"
      BY <1>1, <1>8
    <3> QED
      BY <1>1, <1>8, <1>10, <3>1, MovesKept
  <2> QED
    BY <2>4, <2>5, <2>7, <2>9, <2>11, <2>12
<1>11. InStep'
  BY <1>1, <1>10 DEF InStep
<1> QED
  BY <1>4, <1>5, <1>6, <1>9, <1>11 DEF IInv

\* What the update now makes of the table is what the others make of it.
LEMMA TopologyKeeps == ASSUME IInv, NEW u \in Updates, Topology(u) PROVE IInv'
<1> DEFINE r == [upd[u] EXCEPT !.at = "swap", !.target = table]
<1>1. /\ upd[u].at = "topology" /\ upd' = [upd EXCEPT ![u] = r]
      /\ overtaken' = (overtaken \/ Overtakes(u, table))
      /\ UNCHANGED <<table, started, manager, cooled, current, updates, call, child, late, jobs>>
  BY DEF Topology, requests, generations
<1>2. r \in UpdateRecords /\ r.at = "swap" /\ r.own = upd[u].own /\ r.previous = upd[u].previous
      /\ r.selection = upd[u].selection /\ r.target = table
      /\ r.moves = upd[u].moves /\ r.moving = upd[u].moving
  BY TypeFacts DEF UpdateRecords
<1> HIDE DEF r
<1>3. /\ upd' \in [Updates -> UpdateRecords] /\ upd'[u] = r
      /\ \A v \in Updates : v # u => upd'[v] = upd[v]
  BY <1>1, <1>2, TypeFacts, UpdSet
<1>4. TypeOK'
  BY <1>1, <1>3, TypeFacts, TypesNext
<1>5. Numbered'
  BY <1>1, <1>2, <1>3, NumberFacts DEF Numbered
<1>6. JobsOK'
  <2>1. ASSUME NEW k \in Jobs PROVE CopyOK(u, k)'
    <3>1. CopyOK(u, k)
      BY JobFacts
    <3> QED
      BY <1>1, <1>2, <1>3, <3>1 DEF CopyOK
  <2> QED
    BY <1>1, <1>3, <2>1, JobsKept
<1>7. \A v \in Updates : (Underway(v)' <=> Underway(v))
                         /\ (v # u => (PastSnapshot(v)' <=> PastSnapshot(v)))
  BY <1>1, <1>2, <1>3 DEF PastSnapshot, Underway
<1>8. Underway(u) /\ PastSnapshot(u)' /\ ~PastSnapshot(u)
  BY <1>1, <1>2, <1>3 DEF PastSnapshot, Underway
<1>9. UpdatesOK'
  <2>1. \A v \in Updates : v > updates => v # u
    BY <1>1 DEF IInv, UpdatesOK, NoUpdate
  <2>2. \A v \in Updates : upd'[v].moving = upd[v].moving /\ upd'[v].selection = upd[v].selection
    BY <1>2, <1>3
  <2> QED
    BY <1>1, <1>3, <1>7, <2>1, <2>2 DEF IInv, UpdatesOK
<1>10. ASSUME ~overtaken' PROVE Aligned' /\ AllAlive' /\ Retiring' /\ Upcoming' /\ Planned' /\ Migrating'
  <2>1. ~overtaken /\ Aligned /\ AllAlive /\ Retiring /\ Upcoming /\ Planned
    BY <1>1, <1>10 DEF IInv, InStep
  <2>2. \A v \in Updates : v # u /\ PastSnapshot(v) => upd[v].target = table
    BY <1>1, <1>10 DEF Overtakes
  <2>3. Aligned'
    <3>1. \A v \in Updates : PastSnapshot(v)' => upd'[v].target = table
      BY <1>2, <1>3, <1>7, <2>2
    <3>2. \A v \in Updates : PastSnapshot(v)' /\ upd'[v].at # "swap" => current = upd'[v].target
      BY <1>2, <1>3, <1>7, <2>1 DEF Aligned
    <3> QED
      BY <1>1, <3>1, <3>2 DEF Aligned
  <2>4. AllAlive'
    <3>1. \A v \in Updates : PastSnapshot(v)' => upd'[v].target = table
      BY <1>2, <1>3, <1>7, <2>2
    <3>2. \A v \in Updates : upd'[v].at = "publish" => upd'[v] = upd[v]
      BY <1>2, <1>3
    <3> QED
      BY <1>1, <2>1, <3>1, <3>2 DEF AllAlive, Alive, Consumed
  <2>5. \A v \in Updates, q \in Queues : Retires(v, q)' <=> Retires(v, q)
    BY <1>2, <1>3, <1>7 DEF Retires
  <2>6. Retiring'
    <3> SUFFICES ASSUME NEW v \in Updates, NEW q \in Queues, Retires(v, q)
                 PROVE  /\ upd'[v].at # "publish" => q # table
                        /\ PastSnapshot(v)' => q # upd'[v].target
      BY <1>1, <2>5 DEF Retiring
    <3>1. (upd[v].at # "publish" => q # table) /\ (PastSnapshot(v) => q # upd[v].target)
      BY <2>1 DEF Retiring
    <3>2. CASE v = u
      BY <1>1, <1>2, <1>3, <3>1, <3>2
    <3>3. CASE v # u
      BY <1>3, <1>7, <3>1, <3>3
    <3> QED
      BY <3>2, <3>3
  <2>7. Planned'
    <3> SUFFICES ASSUME NEW v \in Updates, Underway(v)', upd'[v].selection
                 PROVE  \/ upd'[v].target \in {None, upd'[v].previous}
                        \/ /\ upd'[v].target # table
                           /\ \A w \in Updates : ~Retires(w, upd[v].target)'
      BY <1>1 DEF Planned, Retires
    <3>1. v # u
      BY <1>1, <1>2, <1>3 DEF IInv, UpdatesOK
    <3>2. upd'[v] = upd[v] /\ Underway(v)
      BY <1>3, <1>7, <3>1
    <3>3. \/ upd[v].target \in {None, upd[v].previous}
          \/ upd[v].target # table /\ \A w \in Updates : ~Retires(w, upd[v].target)
      BY <2>1, <3>2 DEF Planned
    <3>4. upd[v].target \in Queues \cup {None}
      BY TypeFacts DEF UpdateRecords
    <3>5. ASSUME NEW w \in Updates, upd[v].target # None
          PROVE  Retires(w, upd[v].target)' <=> Retires(w, upd[v].target)
      BY <1>2, <1>3, <1>7, <3>2 DEF Retires
    <3> QED
      BY <3>2, <3>3, <3>4, <3>5
  <2>8. Migrating'
    <3>1. \A v \in Updates : (upd[v].at = "scan" => upd'[v].at = "scan") /\ upd'[v].moves = upd[v].moves
      BY <1>1, <1>2, <1>3
    <3> QED
      BY <1>1, <2>1, <3>1, MovesKept
  <2>9. Upcoming'
    <3> SUFFICES ASSUME NEW w \in Updates, upd'[w].at = "publish"
                 PROVE  /\ upd'[w].own \in Queues /\ upd'[w].own # table
                        /\ \A v \in Updates :
                             /\ upd'[v].target # upd'[w].own /\ ~Retires(v, upd[w].own)'
                             /\ v # w /\ upd'[v].at = "publish" => upd'[v].own # upd'[w].own
      BY <1>1 DEF Upcoming
    <3>1. w # u /\ upd'[w] = upd[w]
      BY <1>2, <1>3
    <3>2. /\ upd[w].own \in Queues /\ upd[w].own # table
          /\ \A v \in Updates :
               /\ upd[v].target # upd[w].own /\ ~Retires(v, upd[w].own)
               /\ v # w /\ upd[v].at = "publish" => upd[v].own # upd[w].own
      BY <2>1, <3>1 DEF Upcoming
    <3>3. \A v \in Updates : ~Retires(v, upd[w].own)'
      BY <1>2, <1>3, <1>7, <3>1, <3>2 DEF Retires
    <3> QED
      BY <1>2, <1>3, <3>1, <3>2, <3>3
  <2> QED
    BY <2>3, <2>4, <2>6, <2>7, <2>8, <2>9
<1>11. InStep'
  BY <1>10 DEF InStep
<1> QED
  BY <1>4, <1>5, <1>6, <1>9, <1>11 DEF IInv

\* A selection plans with the table as it is, or a generation that is new.
LEMMA PlanKeeps ==
  ASSUME IInv, NEW u \in Updates, NEW to \in Queues \cup {None}, Plan(u, to) PROVE IInv'
<1> DEFINE r == [upd[u] EXCEPT !.at = "swap", !.selection = TRUE, !.previous = table, !.target = to]
<1>1. /\ Begins(u) /\ upd' = [upd EXCEPT ![u] = r]
      /\ \A v \in Updates : Underway(v) => ~upd[v].selection
      /\ overtaken' = (overtaken \/ Overtakes(u, to))
      /\ UNCHANGED <<table, current, cooled, call, child, late, jobs>>
  BY DEF Plan, requests
<1>2. r \in UpdateRecords /\ r.at = "swap" /\ r.own = upd[u].own /\ r.previous = table
      /\ r.selection /\ r.target = to /\ r.moves = upd[u].moves /\ r.moving = upd[u].moving
  BY TypeFacts DEF UpdateRecords
<1> HIDE DEF r
<1>3. /\ upd' \in [Updates -> UpdateRecords] /\ upd'[u] = r
      /\ \A v \in Updates : v # u => upd'[v] = upd[v]
  BY <1>1, <1>2, TypeFacts, UpdSet
<1>4. /\ upd[u] = NoUpdate /\ ~Underway(u) /\ ~PastSnapshot(u) /\ updates' \in 0 .. MaxUpdates
      /\ \A v \in Updates : v > updates' => v > updates /\ v # u
  BY <1>1, BeginsFacts
<1>5. r.moving = {} /\ \A k \in Jobs : r.moves[k] = None
  BY <1>2, <1>4 DEF NoUpdate
<1>6. /\ started' \in Queues /\ to \in 0 .. started' /\ \A q \in 0 .. started : q \in 0 .. started'
      /\ manager' \in [Queues -> ManagerStates]
      /\ \A q \in Queues : Consumed(q) => Consumed(q)'
      /\ to \in {None, table} \/ (to \in Queues /\ to \notin 0 .. started /\ Consumed(to)')
  <2>1. CASE to \in {None, table} /\ UNCHANGED <<started, manager>>
    <3>1. to \in 0 .. started
      BY <2>1, NumberFacts DEF None
    <3> QED
      BY <2>1, <3>1, NumberFacts, TypeFacts DEF Consumed
  <2>2. CASE to = started + 1 /\ StartNew
    <3>1. /\ to \in Queues /\ started' = to
          /\ \A q \in 0 .. started : q \in 0 .. to /\ q # to
          /\ manager' \in [Queues -> ManagerStates] /\ Consumed(to)'
          /\ \A q \in Queues : Consumed(q) => Consumed(q)'
      BY <2>2, StartFacts
    <3>2. to \in 0 .. to
      BY <3>1, NumberFacts
    <3> QED
      BY <3>1, <3>2
  <2> QED
    BY <2>1, <2>2 DEF Plan
<1>7. TypeOK'
  BY <1>1, <1>3, <1>4, <1>6, TypeFacts, TypesNext
<1>8. Numbered'
  BY <1>1, <1>2, <1>3, <1>6, NumberFacts DEF Numbered
<1>9. JobsOK'
  <2>1. ASSUME NEW k \in Jobs PROVE CopyOK(u, k)'
    <3>1. jobs[k][u].at = "absent"
      BY <1>4, JobFacts DEF CopyOK, NoUpdate
    <3> QED
      BY <1>1, <1>2, <1>3, <1>5, <3>1 DEF CopyOK
  <2> QED
    BY <1>1, <1>3, <2>1, JobsKept
<1>10. /\ Underway(u)' /\ PastSnapshot(u)'
       /\ \A v \in Updates : v # u => (PastSnapshot(v)' <=> PastSnapshot(v))
                                      /\ (Underway(v)' <=> Underway(v))
  BY <1>2, <1>3 DEF PastSnapshot, Underway
<1>11. UpdatesOK'
  BY <1>1, <1>2, <1>3, <1>4, <1>5, <1>10 DEF IInv, UpdatesOK
<1>12. ASSUME ~overtaken' PROVE Aligned' /\ AllAlive' /\ Retiring' /\ Upcoming' /\ Planned' /\ Migrating'
  <2>1. ~overtaken /\ Aligned /\ AllAlive /\ Retiring /\ Upcoming /\ Planned
    BY <1>1, <1>12 DEF IInv, InStep
  <2>2. \A v \in Updates : v # u /\ PastSnapshot(v) => upd[v].target = to
    BY <1>1, <1>12 DEF Overtakes
  <2>3. \A v \in Updates : PastSnapshot(v)' => upd'[v].target = to
    BY <1>2, <1>3, <1>10, <2>2
  <2>4. Aligned'
    <3>1. \A v \in Updates : PastSnapshot(v)' /\ upd'[v].at # "swap" => current = upd'[v].target
      BY <1>2, <1>3, <1>10, <2>1 DEF Aligned
    <3> QED
      BY <1>1, <2>3, <3>1 DEF Aligned
  <2>5. AllAlive'
    <3>1. \A q \in Queues \cup {None} : Alive(q) => Alive(q)'
      BY <1>1, <1>6 DEF Alive
    <3>2. Alive(table)' /\ Alive(current)'
      BY <1>1, <2>1, <3>1, TypeFacts DEF AllAlive, Alive
    <3>3. Alive(to)'
      BY <1>1, <1>6, <3>2 DEF Alive
    <3>4. ASSUME NEW v \in Updates, PastSnapshot(v)' PROVE Alive(upd[v].target)'
      <4>1. upd'[v].target = to
        BY <2>3, <3>4
      <4> QED
        BY <3>3, <4>1 DEF Alive
    <3>5. ASSUME NEW v \in Updates, upd'[v].at = "publish" PROVE Alive(upd[v].own)'
      <4>1. upd'[v] = upd[v]
        BY <1>2, <1>3, <3>5
      <4>2. upd[v].own \in Queues \cup {None} /\ Alive(upd[v].own)
        BY <2>1, <3>5, <4>1, TypeFacts DEF AllAlive, UpdateRecords
      <4> QED
        BY <3>1, <4>1, <4>2 DEF Alive
    <3> QED
      BY <3>2, <3>4, <3>5 DEF AllAlive
  <2>6. \A v \in Updates : v # u => upd'[v] = upd[v] /\ (Underway(v)' <=> Underway(v))
    BY <1>3, <1>10
  <2>7. Retiring'
    <3> SUFFICES ASSUME NEW v \in Updates, NEW q \in Queues, Retires(v, q)'
                 PROVE  /\ upd'[v].at # "publish" => q # table
                        /\ PastSnapshot(v)' => q # upd'[v].target
      BY <1>1 DEF Retiring
    <3>1. v # u
      BY <1>2, <1>3 DEF Retires
    <3>2. Retires(v, q)
      BY <2>6, <3>1 DEF Retires
    <3> QED
      BY <1>10, <2>1, <2>6, <3>1, <3>2 DEF Retiring
  <2>8. Planned'
    <3> SUFFICES ASSUME NEW v \in Updates, Underway(v)', upd'[v].selection
                 PROVE  \/ upd'[v].target \in {None, upd'[v].previous}
                        \/ /\ upd'[v].target # table
                           /\ \A w \in Updates : ~Retires(w, upd[v].target)'
      BY <1>1 DEF Planned, Retires
    <3>1. v = u /\ upd'[v].target = to /\ upd'[v].previous = table
      BY <1>1, <1>2, <1>3, <2>6
    <3>2. CASE to \in {None, table}
      BY <3>1, <3>2
    <3>3. CASE to \notin 0 .. started
      <4>1. to # table
        BY <3>3, NumberFacts
      <4>2. ASSUME NEW w \in Updates PROVE ~Retires(w, upd[v].target)'
        <5>1. CASE w = u
          BY <1>2, <1>3, <5>1 DEF Retires
        <5>2. CASE w # u
          <6>1. upd'[w].previous # to
            BY <2>6, <3>3, <5>2, NumberFacts
          <6> QED
            BY <3>1, <6>1 DEF Retires
        <5> QED
          BY <5>1, <5>2
      <4> QED
        BY <3>1, <4>1, <4>2
    <3> QED
      BY <1>6, <3>2, <3>3
  <2>9. Migrating'
    <3>1. \A v \in Updates : (upd[v].at = "scan" => upd'[v].at = "scan") /\ upd'[v].moves = upd[v].moves
      BY <1>2, <1>3, <1>4 DEF NoUpdate
    <3> QED
      BY <1>1, <2>1, <3>1, MovesKept
  <2>10. Upcoming'
    <3> SUFFICES ASSUME NEW w \in Updates, upd'[w].at = "publish"
                 PROVE  /\ upd'[w].own \in Queues /\ upd'[w].own # table
                        /\ \A v \in Updates :
                             /\ upd'[v].target # upd'[w].own /\ ~Retires(v, upd[w].own)'
                             /\ v # w /\ upd'[v].at = "publish" => upd'[v].own # upd'[w].own
      BY <1>1 DEF Upcoming
    <3>1. w # u /\ upd'[w] = upd[w]
      BY <1>2, <1>3
    <3>2. /\ upd[w].own \in Queues /\ upd[w].own # table
          /\ \A v \in Updates :
               /\ upd[v].target # upd[w].own /\ ~Retires(v, upd[w].own)
               /\ v # w /\ upd[v].at = "publish" => upd[v].own # upd[w].own
      BY <2>1, <3>1 DEF Upcoming
    <3>3. to # upd[w].own
      BY <1>6, <3>2, NumberFacts, CopyFacts
    <3>4. ASSUME NEW v \in Updates PROVE ~Retires(v, upd[w].own)'
      <4>1. CASE v = u
        BY <1>2, <1>3, <4>1 DEF Retires
      <4>2. CASE v # u
        BY <2>6, <3>1, <3>2, <4>2 DEF Retires
      <4> QED
        BY <4>1, <4>2
    <3> QED
      BY <1>2, <1>3, <3>1, <3>2, <3>3, <3>4
  <2> QED
    BY <2>4, <2>5, <2>7, <2>8, <2>9, <2>10
<1>13. InStep'
  BY <1>12 DEF InStep
<1> QED
  BY <1>7, <1>8, <1>9, <1>11, <1>13 DEF IInv

-----------------------------------------------------------------------------
(* Updates of the routing: UpdateConfig                                    *)

\* A step of an update past its snapshot that keeps what it works on.
LEMMA Onward ==
  ASSUME IInv, NEW u \in Updates, NEW r \in UpdateRecords, upd' = [upd EXCEPT ![u] = r],
         PastSnapshot(u), r.at \in {"scan", "move", "send", "rebind"},
         r.selection = upd[u].selection, r.own = upd[u].own,
         r.previous = upd[u].previous, r.target = upd[u].target,
         \A j, k \in r.moving : j = k,
         current' \in {current, upd[u].target}, ~overtaken => current' = upd[u].target,
         UNCHANGED <<table, started, manager, cooled, updates, overtaken>>
  PROVE  /\ upd' \in [Updates -> UpdateRecords] /\ upd'[u] = r
         /\ \A v \in Updates : v # u => upd'[v] = upd[v]
         /\ Numbered' /\ UpdatesOK'
         /\ overtaken \/ (Aligned' /\ AllAlive' /\ Retiring' /\ Upcoming' /\ Planned')
<1>1. /\ upd' \in [Updates -> UpdateRecords] /\ upd'[u] = r
      /\ \A v \in Updates : v # u => upd'[v] = upd[v]
  BY TypeFacts, UpdSet
<1>2. ASSUME NEW v \in Updates
      PROVE  /\ upd'[v].selection = upd[v].selection /\ upd'[v].own = upd[v].own
             /\ upd'[v].previous = upd[v].previous /\ upd'[v].target = upd[v].target
             /\ (Underway(v)' <=> Underway(v)) /\ (PastSnapshot(v)' <=> PastSnapshot(v))
             /\ (upd'[v].at = "publish" <=> upd[v].at = "publish")
  <2>1. CASE v = u
    BY <1>1, <2>1 DEF PastSnapshot, Underway
  <2>2. CASE v # u
    BY <1>1, <2>2 DEF PastSnapshot, Underway
  <2> QED
    BY <2>1, <2>2
<1>3. Numbered'
  BY <1>2, NumberFacts DEF Numbered
<1>4. UpdatesOK'
  <2>1. \A v \in Updates : v > updates => v # u
    BY DEF IInv, UpdatesOK, NoUpdate, PastSnapshot, Underway
  <2> QED
    BY <1>1, <1>2, <2>1 DEF IInv, UpdatesOK
<1>5. ASSUME ~overtaken PROVE Aligned' /\ AllAlive' /\ Retiring' /\ Upcoming' /\ Planned'
  <2>1. Aligned /\ AllAlive /\ Retiring /\ Upcoming /\ Planned
    BY <1>5 DEF IInv, InStep
  <2>2. \A v \in Updates : PastSnapshot(v) => upd[v].target = upd[u].target
    BY <2>1 DEF Aligned
  <2>3. Aligned'
    BY <1>2, <1>5, <2>2 DEF Aligned
  <2>4. AllAlive'
    <3>1. Alive(table)' /\ Alive(current)'
      BY <2>1 DEF AllAlive, Alive, Consumed
    <3>2. ASSUME NEW v \in Updates, PastSnapshot(v)' PROVE Alive(upd[v].target)'
      <4>1. upd'[v].target = upd[v].target /\ Alive(upd[v].target)
        BY <1>2, <2>1, <3>2 DEF AllAlive
      <4> QED
        BY <4>1 DEF Alive, Consumed
    <3>3. ASSUME NEW v \in Updates, upd'[v].at = "publish" PROVE Alive(upd[v].own)'
      <4>1. upd'[v].own = upd[v].own /\ Alive(upd[v].own)
        BY <1>2, <2>1, <3>3 DEF AllAlive
      <4> QED
        BY <4>1 DEF Alive, Consumed
    <3> QED
      BY <3>1, <3>2, <3>3 DEF AllAlive
  <2>5. \A v \in Updates : \A q : Retires(v, q)' <=> Retires(v, q)
    BY <1>2 DEF Retires
  <2>6. Retiring'
    BY <1>2, <2>1, <2>5 DEF Retiring
  <2>7. \A v, w \in Updates : Retires(v, upd[w].target)' <=> Retires(v, upd[w].target)
    BY <1>2 DEF Retires
  <2>8. Planned'
    BY <1>2, <2>1, <2>7 DEF Planned
  <2>9. \A v, w \in Updates : Retires(v, upd[w].own)' <=> Retires(v, upd[w].own)
    BY <1>2 DEF Retires
  <2>10. Upcoming'
    BY <1>2, <2>1, <2>9 DEF Upcoming
  <2> QED
    BY <2>3, <2>4, <2>6, <2>8, <2>10
<1> QED
  BY <1>1, <1>3, <1>4, <1>5

LEMMA SwapKeeps == ASSUME IInv, NEW u \in Updates, Swap(u) PROVE IInv'
<1> DEFINE r == [upd[u] EXCEPT !.at = "scan"]
<1>1. /\ upd[u].at = "swap" /\ upd' = [upd EXCEPT ![u] = r] /\ current' = upd[u].target
      /\ UNCHANGED <<table, started, manager, cooled, updates, overtaken, call, child, late, jobs>>
  BY DEF Swap, requests, generations
<1>2. r \in UpdateRecords /\ r.at = "scan" /\ r.own = upd[u].own /\ r.previous = upd[u].previous
      /\ r.selection = upd[u].selection /\ r.target = upd[u].target
      /\ r.moves = upd[u].moves /\ r.moving = upd[u].moving
  BY TypeFacts DEF UpdateRecords
<1> HIDE DEF r
<1>3. PastSnapshot(u) /\ \A j, k \in r.moving : j = k
  BY <1>1, <1>2 DEF PastSnapshot, Underway, IInv, UpdatesOK
<1>4. /\ upd' \in [Updates -> UpdateRecords] /\ upd'[u] = r
      /\ \A v \in Updates : v # u => upd'[v] = upd[v]
      /\ Numbered' /\ UpdatesOK'
      /\ overtaken \/ (Aligned' /\ AllAlive' /\ Retiring' /\ Upcoming' /\ Planned')
  BY <1>1, <1>2, <1>3, Onward
<1>5. current' \in Queues \cup {None}
  BY <1>1, TypeFacts DEF UpdateRecords
<1>6. TypeOK'
  BY <1>1, <1>4, <1>5, TypeFacts, TypesNext
<1>7. JobsOK'
  <2>1. ASSUME NEW k \in Jobs PROVE CopyOK(u, k)'
    <3>1. CopyOK(u, k)
      BY JobFacts
    <3> QED
      BY <1>1, <1>2, <1>4, <3>1 DEF CopyOK
  <2> QED
    BY <1>1, <1>4, <2>1, JobsKept
<1>8. Migrating'
  BY <1>2, <1>4 DEF Migrating
<1>9. InStep'
  BY <1>1, <1>4, <1>8 DEF InStep
<1> QED
  BY <1>4, <1>6, <1>7, <1>9 DEF IInv

\* Past its swap the target of an update is what is routed.
LEMMA Routed ==
  ASSUME IInv, NEW u \in Updates, upd[u].at \in {"scan", "move", "send", "rebind"}
  PROVE  /\ PastSnapshot(u) /\ upd[u].target \in Queues \cup {None}
         /\ ~overtaken => current = upd[u].target
<1>1. PastSnapshot(u) /\ upd[u].at # "swap"
  BY DEF PastSnapshot, Underway
<1>2. upd[u].target \in Queues \cup {None}
  BY TypeFacts DEF UpdateRecords
<1> QED
  BY <1>1, <1>2 DEF IInv, InStep, Aligned

LEMMA ScanKeeps == ASSUME IInv, NEW u \in Updates, Scan(u) PROVE IInv'
<1> DEFINE m == [j \in Jobs |-> IF upd[u].target # None /\ NeedsMigration(u, j) THEN child[j] ELSE None]
           r == [upd[u] EXCEPT !.at = "move", !.moves = m]
<1>1. /\ upd[u].at = "scan" /\ upd' = [upd EXCEPT ![u] = r]
      /\ UNCHANGED <<table, started, manager, cooled, current, updates, overtaken,
                     call, child, late, jobs>>
  BY DEF Scan, requests, generations
<1>2. m \in [Jobs -> Copies \cup {None}]
  BY TypeFacts
<1>3. \A j \in Jobs : m[j] = IF upd[u].target # None /\ NeedsMigration(u, j) THEN child[j] ELSE None
  OBVIOUS
<1> HIDE DEF m
<1>4. r \in UpdateRecords /\ r.at = "move" /\ r.own = upd[u].own /\ r.previous = upd[u].previous
      /\ r.selection = upd[u].selection /\ r.target = upd[u].target
      /\ r.moves = m /\ r.moving = upd[u].moving
  BY <1>2, TypeFacts DEF UpdateRecords
<1> HIDE DEF r
<1>5. PastSnapshot(u) /\ (~overtaken => current = upd[u].target)
  BY <1>1, Routed
<1>6. \A j, k \in r.moving : j = k
  BY <1>4 DEF IInv, UpdatesOK
<1>7. /\ upd' \in [Updates -> UpdateRecords] /\ upd'[u] = r
      /\ \A v \in Updates : v # u => upd'[v] = upd[v]
      /\ Numbered' /\ UpdatesOK'
      /\ overtaken \/ (Aligned' /\ AllAlive' /\ Retiring' /\ Upcoming' /\ Planned')
  BY <1>1, <1>4, <1>5, <1>6, Onward
<1>8. TypeOK'
  BY <1>1, <1>7, TypeFacts, TypesNext
<1>9. JobsOK'
  <2>1. ASSUME NEW k \in Jobs PROVE CopyOK(u, k)'
    <3>1. jobs[k][u].at = "absent"
      BY <1>1, JobFacts DEF CopyOK
    <3> QED
      BY <1>1, <1>4, <1>7, <3>1 DEF CopyOK
  <2> QED
    BY <1>1, <1>7, <2>1, JobsKept
<1>10. ASSUME ~overtaken PROVE Migrating'
  <2> SUFFICES ASSUME current # None, NEW j \in Jobs \ late, Unfinished(j), Home(j) # current
               PROVE  \E v \in Updates : upd'[v].at = "scan" \/ upd'[v].moves[j] = child[j]
    BY <1>1 DEF Migrating, Unfinished, Home
  <2>1. upd[u].target = current
    BY <1>5, <1>10
  <2>2. m[j] = child[j]
    BY <1>3, <2>1 DEF NeedsMigration
  <2> QED
    BY <1>4, <1>7, <2>2
<1>11. InStep'
  BY <1>1, <1>7, <1>10 DEF InStep
<1> QED
  BY <1>7, <1>8, <1>9, <1>11 DEF IInv

\* A copy that an update makes stands for the job only once it is rebound.
LEMMA MoveKeeps == ASSUME IInv, NEW u \in Updates, NEW j \in Jobs, Move(u, j) PROVE IInv'
<1> DEFINE s == Stored(upd[u].target)
           r == [upd[u] EXCEPT !.at = "send", !.moving = {j}]
<1>1. /\ upd[u].at = "move" /\ upd[u].moves[j] # None
      /\ upd' = [upd EXCEPT ![u] = r] /\ jobs' = [jobs EXCEPT ![j][u] = s]
      /\ UNCHANGED <<table, started, manager, cooled, current, updates, overtaken, call, child, late>>
  BY DEF Move, requests, generations
<1>2. PastSnapshot(u) /\ (~overtaken => current = upd[u].target) /\ upd[u].target \in Queues \cup {None}
  BY <1>1, Routed
<1>3. s \in JobRecords /\ s.at = "stored" /\ s.queue = upd[u].target
  BY <1>2 DEF Stored, JobRecords, JobStates, Active
<1>4. r \in UpdateRecords /\ r.at = "send" /\ r.own = upd[u].own /\ r.previous = upd[u].previous
      /\ r.selection = upd[u].selection /\ r.target = upd[u].target
      /\ r.moves = upd[u].moves /\ r.moving = {j}
  BY TypeFacts DEF UpdateRecords
<1> HIDE DEF r, s
<1>5. /\ upd' \in [Updates -> UpdateRecords] /\ upd'[u] = r
      /\ \A v \in Updates : v # u => upd'[v] = upd[v]
      /\ Numbered' /\ UpdatesOK'
      /\ overtaken \/ (Aligned' /\ AllAlive' /\ Retiring' /\ Upcoming' /\ Planned')
  BY <1>1, <1>2, <1>4, Onward
<1>6. /\ jobs' \in [Jobs -> [Copies -> JobRecords]] /\ jobs'[j][u] = s
      /\ \A k \in Jobs, d \in Copies : k # j \/ d # u => jobs'[k][d] = jobs[k][d]
  BY <1>1, <1>3, TypeFacts, CopyFacts, JobSet
<1>7. TypeOK'
  BY <1>1, <1>5, <1>6, TypeFacts, TypesNext
<1>8. jobs[j][u].at = "absent"
  BY <1>1, JobFacts DEF CopyOK
<1>9. ASSUME NEW k \in Jobs PROVE CallOK(k)' /\ \A v \in Updates : CopyOK(v, k)'
  <2>1. CallOK(k) /\ (\A v \in Updates : CopyOK(v, k)) /\ child[k] \in Copies \cup {None}
    BY JobFacts, TypeFacts
  <2>2. jobs'[k][Original] = jobs[k][Original]
    BY <1>6, CopyFacts
  <2>3. child[k] # None => jobs'[k][child[k]].at # "absent"
    BY <1>3, <1>6, <2>1 DEF CallOK
  <2>4. CallOK(k)'
    BY <1>1, <2>1, <2>2, <2>3 DEF CallOK
  <2>5. ASSUME NEW v \in Updates PROVE CopyOK(v, k)'
    <3>1. CopyOK(v, k) /\ v \in Copies
      BY <2>1, CopyFacts
    <3>2. CASE v # u
      <4>1. jobs'[k][v] = jobs[k][v] /\ upd'[v] = upd[v]
        BY <1>5, <1>6, <3>1, <3>2
      <4> QED
        BY <3>1, <4>1 DEF CopyOK
    <3>3. CASE v = u /\ k # j
      <4>1. jobs'[k][u] = jobs[k][u]
        BY <1>6, <3>1, <3>3
      <4> QED
        BY <1>1, <1>4, <1>5, <3>1, <3>3, <4>1 DEF CopyOK
    <3>4. CASE v = u /\ k = j
      BY <1>1, <1>3, <1>4, <1>5, <1>6, <3>4 DEF CopyOK
    <3> QED
      BY <3>2, <3>3, <3>4
  <2> QED
    BY <2>4, <2>5
<1>10. JobsOK'
  BY <1>9 DEF JobsOK
<1>11. ASSUME ~overtaken PROVE Migrating'
  <2> SUFFICES ASSUME current # None, NEW k \in Jobs \ late, Unfinished(k)', Home(k)' # current
               PROVE  \E v \in Updates : upd'[v].at = "scan" \/ upd'[v].moves[k] = child[k]
    BY <1>1 DEF Migrating
  <2>1. child[k] # None /\ child[k] \in Copies
    BY <1>1, TypeFacts DEF Unfinished
  <2>2. k # j \/ child[k] # u
    BY <1>8, <2>1, JobFacts DEF CallOK
  <2>3. jobs'[k][child[k]] = jobs[k][child[k]]
    BY <1>6, <2>1, <2>2
  <2>4. Unfinished(k) /\ Home(k) # current
    BY <1>1, <2>3 DEF Unfinished, Home
  <2>5. PICK v \in Updates : upd[v].at = "scan" \/ upd[v].moves[k] = child[k]
    BY <1>11, <2>4 DEF IInv, InStep, Migrating
  <2>6. upd'[v].moves = upd[v].moves /\ (upd[v].at = "scan" => upd'[v].at = "scan")
    BY <1>1, <1>4, <1>5
  <2> QED
    BY <2>5, <2>6
<1>12. InStep'
  BY <1>1, <1>5, <1>11 DEF InStep
<1> QED
  BY <1>5, <1>7, <1>10, <1>12 DEF IInv

LEMMA SendMovedKeeps ==
  ASSUME IInv, NEW u \in Updates, NEW j \in Jobs, SendMoved(u, j) PROVE IInv'
<1> DEFINE s == [jobs[j][u] EXCEPT !.at = "pending"]
           r == [upd[u] EXCEPT !.at = "rebind"]
<1>1. /\ upd[u].at = "send" /\ j \in upd[u].moving
      /\ upd' = [upd EXCEPT ![u] = r] /\ jobs' = [jobs EXCEPT ![j][u] = s]
      /\ UNCHANGED <<table, started, manager, cooled, current, updates, overtaken, call, child, late>>
  BY DEF SendMoved, requests, generations
<1>2. PastSnapshot(u) /\ (~overtaken => current = upd[u].target)
  BY <1>1, Routed
<1>3. jobs[j][u] \in JobRecords /\ jobs[j][u].at = "stored"
  BY <1>1, TypeFacts, CopyFacts, JobFacts DEF CopyOK
<1>4. s \in JobRecords /\ s.at = "pending" /\ s.queue = jobs[j][u].queue
  BY <1>3 DEF JobRecords, JobStates, Active
<1>5. r \in UpdateRecords /\ r.at = "rebind" /\ r.own = upd[u].own /\ r.previous = upd[u].previous
      /\ r.selection = upd[u].selection /\ r.target = upd[u].target
      /\ r.moves = upd[u].moves /\ r.moving = upd[u].moving
  BY TypeFacts DEF UpdateRecords
<1> HIDE DEF r, s
<1>6. \A i, k \in r.moving : i = k
  BY <1>5 DEF IInv, UpdatesOK
<1>7. /\ upd' \in [Updates -> UpdateRecords] /\ upd'[u] = r
      /\ \A v \in Updates : v # u => upd'[v] = upd[v]
      /\ Numbered' /\ UpdatesOK'
      /\ overtaken \/ (Aligned' /\ AllAlive' /\ Retiring' /\ Upcoming' /\ Planned')
  BY <1>1, <1>2, <1>5, <1>6, Onward
<1>8. /\ jobs' \in [Jobs -> [Copies -> JobRecords]] /\ jobs'[j][u] = s
      /\ \A k \in Jobs, d \in Copies : k # j \/ d # u => jobs'[k][d] = jobs[k][d]
  BY <1>1, <1>4, TypeFacts, CopyFacts, JobSet
<1>9. TypeOK'
  BY <1>1, <1>7, <1>8, TypeFacts, TypesNext
<1>10. ASSUME NEW k \in Jobs PROVE CallOK(k)' /\ \A v \in Updates : CopyOK(v, k)'
  <2>1. CallOK(k) /\ (\A v \in Updates : CopyOK(v, k)) /\ child[k] \in Copies \cup {None}
    BY JobFacts, TypeFacts
  <2>2. jobs'[k][Original] = jobs[k][Original]
    BY <1>8, CopyFacts
  <2>3. child[k] # None => jobs'[k][child[k]].at # "absent"
    BY <1>4, <1>8, <2>1 DEF CallOK
  <2>4. CallOK(k)'
    BY <1>1, <2>1, <2>2, <2>3 DEF CallOK
  <2>5. ASSUME NEW v \in Updates PROVE CopyOK(v, k)'
    <3>1. CopyOK(v, k) /\ v \in Copies
      BY <2>1, CopyFacts
    <3>2. CASE v # u
      <4>1. jobs'[k][v] = jobs[k][v] /\ upd'[v] = upd[v]
        BY <1>7, <1>8, <3>1, <3>2
      <4> QED
        BY <3>1, <4>1 DEF CopyOK
    <3>3. CASE v = u /\ k # j
      <4>1. jobs'[k][u] = jobs[k][u] /\ k \notin upd[u].moving
        BY <1>1, <1>5, <1>6, <1>8, <3>1, <3>3
      <4> QED
        BY <1>1, <1>5, <1>7, <3>1, <3>3, <4>1 DEF CopyOK
    <3>4. CASE v = u /\ k = j
      BY <1>1, <1>3, <1>4, <1>5, <1>7, <1>8, <3>1, <3>4 DEF CopyOK, Active
    <3> QED
      BY <3>2, <3>3, <3>4
  <2> QED
    BY <2>4, <2>5
<1>11. JobsOK'
  BY <1>10 DEF JobsOK
<1>12. ASSUME NEW k \in Jobs PROVE Unfinished(k)' => Unfinished(k) /\ Home(k)' = Home(k)
  <2>1. CASE k = j /\ child[k] = u
    BY <1>1, <1>3, <1>4, <1>8, <2>1 DEF Unfinished, Home, Active
  <2>2. CASE k # j \/ child[k] # u
    <3>1. child[k] # None => jobs'[k][child[k]] = jobs[k][child[k]]
      BY <1>8, <2>2, TypeFacts
    <3> QED
      BY <1>1, <3>1 DEF Unfinished, Home
  <2> QED
    BY <2>1, <2>2
<1>13. ASSUME ~overtaken PROVE Migrating'
  <2>1. Migrating
    BY <1>13 DEF IInv, InStep
  <2>2. \A v \in Updates : (upd[v].at = "scan" => upd'[v].at = "scan") /\ upd'[v].moves = upd[v].moves
    BY <1>1, <1>5, <1>7
  <2> QED
    BY <1>1, <1>12, <2>1, <2>2 DEF Migrating
<1>14. InStep'
  BY <1>1, <1>7, <1>13 DEF InStep
<1> QED
  BY <1>7, <1>9, <1>11, <1>14 DEF IInv

LEMMA RebindKeeps == ASSUME IInv, NEW u \in Updates, NEW j \in Jobs, Rebind(u, j) PROVE IInv'
<1> DEFINE m == [upd[u].moves EXCEPT ![j] = None]
           r == [upd[u] EXCEPT !.at = "move", !.moves = m, !.moving = {}]
<1>1. /\ upd[u].at = "rebind" /\ j \in upd[u].moving
      /\ upd' = [upd EXCEPT ![u] = r]
      /\ UNCHANGED <<table, started, manager, cooled, current, updates, overtaken, call, jobs>>
  BY DEF Rebind, generations
<1>2. upd[u].moves \in [Jobs -> Copies \cup {None}] /\ upd[u] \in UpdateRecords
  BY TypeFacts DEF UpdateRecords
<1>3. /\ m \in [Jobs -> Copies \cup {None}] /\ m[j] = None
      /\ \A k \in Jobs : k # j => m[k] = upd[u].moves[k]
  BY <1>2
<1> HIDE DEF m
<1>4. r \in UpdateRecords /\ r.at = "move" /\ r.own = upd[u].own /\ r.previous = upd[u].previous
      /\ r.selection = upd[u].selection /\ r.target = upd[u].target
      /\ r.moves = m /\ r.moving = {}
  BY <1>2, <1>3 DEF UpdateRecords
<1> HIDE DEF r
<1>5. PastSnapshot(u) /\ (~overtaken => current = upd[u].target)
  BY <1>1, Routed
<1>6. /\ upd' \in [Updates -> UpdateRecords] /\ upd'[u] = r
      /\ \A v \in Updates : v # u => upd'[v] = upd[v]
      /\ Numbered' /\ UpdatesOK'
      /\ overtaken \/ (Aligned' /\ AllAlive' /\ Retiring' /\ Upcoming' /\ Planned')
  BY <1>1, <1>4, <1>5, Onward
<1>7. \/ /\ child[j] = upd[u].moves[j] /\ child' = [child EXCEPT ![j] = u] /\ late' = late \ {j}
      \/ child[j] # upd[u].moves[j] /\ UNCHANGED <<child, late>>
  BY DEF Rebind, MayRebind
<1>8. /\ child' \in [Jobs -> Copies \cup {None}] /\ late' \subseteq Jobs
      /\ \A k \in Jobs : k # j => child'[k] = child[k] /\ (k \in late <=> k \in late')
      /\ \/ child'[j] = u /\ child[j] = upd[u].moves[j]
         \/ child'[j] = child[j] /\ child[j] # upd[u].moves[j] /\ late' = late
  BY <1>7, TypeFacts, CopyFacts
<1>9. TypeOK'
  BY <1>1, <1>6, <1>8, TypeFacts, TypesNext
<1>10. /\ upd[u].moves[j] # None /\ jobs[j][u].at # "absent"
       /\ (jobs[j][u].at \in Active => jobs[j][u].queue = upd[u].target)
  BY <1>1, JobFacts DEF CopyOK
<1>11. \A k \in upd[u].moving : k = j
  BY <1>1 DEF IInv, UpdatesOK
<1>12. ASSUME NEW k \in Jobs PROVE CallOK(k)' /\ \A v \in Updates : CopyOK(v, k)'
  <2>1. CallOK(k) /\ \A v \in Updates : CopyOK(v, k)
    BY JobFacts
  <2>2. CallOK(k)'
    <3>1. CASE child'[k] = child[k]
      BY <1>1, <2>1, <3>1 DEF CallOK
    <3>2. CASE child'[k] # child[k]
      <4>1. k = j /\ child'[j] = u /\ child[j] # None
        BY <1>8, <1>10, <3>2
      <4> QED
        BY <1>1, <1>10, <2>1, <4>1 DEF CallOK
    <3> QED
      BY <3>1, <3>2
  <2>4. ASSUME NEW v \in Updates PROVE CopyOK(v, k)'
    <3>1. CopyOK(v, k)
      BY <2>1
    <3>2. CASE v # u
      BY <1>1, <1>6, <3>1, <3>2 DEF CopyOK
    <3>3. CASE v = u /\ k # j
      <4>1. m[k] = upd[u].moves[k] /\ k \notin upd[u].moving
        BY <1>3, <1>11, <3>3
      <4> QED
        BY <1>1, <1>4, <1>6, <3>1, <3>3, <4>1 DEF CopyOK
    <3>4. CASE v = u /\ k = j
      BY <1>1, <1>3, <1>4, <1>6, <3>4 DEF CopyOK
    <3> QED
      BY <3>2, <3>3, <3>4
  <2> QED
    BY <2>2, <2>4
<1>13. JobsOK'
  BY <1>12 DEF JobsOK
<1>14. ASSUME ~overtaken PROVE Migrating'
  <2> SUFFICES ASSUME current # None, NEW k \in Jobs \ late', Unfinished(k)', Home(k)' # current
               PROVE  \E v \in Updates : upd'[v].at = "scan" \/ upd'[v].moves[k] = child'[k]
    BY <1>1 DEF Migrating
  <2>1. Migrating /\ current = upd[u].target
    BY <1>5, <1>14 DEF IInv, InStep
  <2>2. child'[k] = child[k] /\ k \notin late
    <3>1. CASE k # j
      BY <1>8, <3>1
    <3>2. CASE k = j
      <4>1. child'[j] # u
        BY <1>1, <1>10, <2>1, <3>2 DEF Unfinished, Home
      <4> QED
        BY <1>8, <3>2, <4>1
    <3> QED
      BY <3>1, <3>2
  <2>3. Unfinished(k) /\ Home(k) # current
    BY <1>1, <2>2 DEF Unfinished, Home
  <2>4. PICK v \in Updates : upd[v].at = "scan" \/ upd[v].moves[k] = child[k]
    BY <2>1, <2>2, <2>3 DEF Migrating
  <2>5. CASE v # u
    BY <1>6, <2>2, <2>4, <2>5
  <2>6. CASE v = u
    <3>1. upd[u].moves[k] = child[k]
      BY <1>1, <2>4, <2>6
    <3>2. k # j
      <4>1. ASSUME k = j PROVE FALSE
        <5>1. child'[j] = u /\ child[j] = u
          BY <1>8, <2>2, <3>1, <4>1
        <5> QED
          BY <1>1, <1>10, <2>1, <2>2, <4>1, <5>1 DEF Unfinished, Home
      <4> QED
        BY <4>1
    <3> QED
      BY <1>3, <1>4, <1>6, <2>2, <3>1, <3>2
  <2> QED
    BY <2>5, <2>6
<1>15. InStep'
  BY <1>1, <1>6, <1>14 DEF InStep
<1> QED
  BY <1>6, <1>9, <1>13, <1>15 DEF IInv

-----------------------------------------------------------------------------
(* Updates of the routing: their end                                       *)

\* When an update ends it has nothing left to move.
LEMMA Ends ==
  ASSUME IInv, NEW u \in Updates, Moved(u),
         upd' = [upd EXCEPT ![u] = [NoUpdate EXCEPT !.at = "done"]],
         UNCHANGED <<started, cooled, current, updates, call, child, late, jobs>>,
         table' \in 0 .. started, manager' \in [Queues -> ManagerStates], overtaken' \in BOOLEAN
  PROVE  /\ TypeOK' /\ Numbered' /\ JobsOK' /\ UpdatesOK'
         /\ upd'[u] = [NoUpdate EXCEPT !.at = "done"]
         /\ \A v \in Updates : v # u => /\ upd'[v] = upd[v] /\ (Underway(v)' <=> Underway(v))
                                        /\ (PastSnapshot(v)' <=> PastSnapshot(v))
         /\ ~Underway(u)' /\ ~PastSnapshot(u)' /\ PastSnapshot(u)
         /\ ~overtaken => Migrating' /\ current = upd[u].target
<1> DEFINE r == [NoUpdate EXCEPT !.at = "done"]
<1>1. r \in UpdateRecords /\ r.at = "done" /\ r.own = None /\ r.previous = None /\ r.target = None
      /\ ~r.selection /\ r.moving = {} /\ \A k \in Jobs : r.moves[k] = None
  BY DEF NoUpdate, UpdateRecords
<1>2. upd' = [upd EXCEPT ![u] = r] /\ upd[u].at = "move" /\ \A k \in Jobs : upd[u].moves[k] = None
  BY DEF Moved
<1> HIDE DEF r
<1>3. /\ upd' \in [Updates -> UpdateRecords] /\ upd'[u] = r
      /\ \A v \in Updates : v # u => upd'[v] = upd[v]
  BY <1>1, <1>2, TypeFacts, UpdSet
<1>4. PastSnapshot(u) /\ (~overtaken => current = upd[u].target)
  BY <1>2, Routed
<1>5. /\ ~Underway(u)' /\ ~PastSnapshot(u)'
      /\ \A v \in Updates : v # u => (Underway(v)' <=> Underway(v))
                                     /\ (PastSnapshot(v)' <=> PastSnapshot(v))
  BY <1>1, <1>3 DEF Underway, PastSnapshot
<1>6. TypeOK'
  <2>1. table' \in Queues \cup {None}
    BY NumberFacts
  <2> QED
    BY <1>3, <2>1, TypeFacts, TypesNext
<1>7. Numbered'
  <2>1. None \in 0 .. started
    BY NumberFacts DEF None
  <2> QED
    BY <1>1, <1>3, <2>1, NumberFacts DEF Numbered
<1>8. JobsOK'
  <2>1. \A k \in Jobs : CopyOK(u, k)'
    BY <1>1, <1>3 DEF CopyOK
  <2> QED
    BY <1>3, <2>1, JobsKept
<1>9. UpdatesOK'
  <2>1. \A v \in Updates : v > updates => v # u
    BY <1>2 DEF IInv, UpdatesOK, NoUpdate
  <2> QED
    BY <1>1, <1>3, <1>5, <2>1 DEF IInv, UpdatesOK
<1>10. ASSUME ~overtaken PROVE Migrating'
  <2> SUFFICES ASSUME current # None, NEW k \in Jobs \ late, Unfinished(k), Home(k) # current
               PROVE  \E v \in Updates : upd'[v].at = "scan" \/ upd'[v].moves[k] = child[k]
    BY DEF Migrating, Unfinished, Home
  <2>1. PICK v \in Updates : upd[v].at = "scan" \/ upd[v].moves[k] = child[k]
    BY <1>10 DEF IInv, InStep, Migrating
  <2>2. v # u
    BY <1>2, <2>1 DEF Unfinished
  <2> QED
    BY <1>3, <2>1, <2>2
<1>11. upd'[u] = [NoUpdate EXCEPT !.at = "done"]
  BY <1>3 DEF r
<1> QED
  BY <1>3, <1>4, <1>5, <1>6, <1>7, <1>8, <1>9, <1>10, <1>11

LEMMA EndedUpcoming ==
  ASSUME Upcoming, NEW u \in Updates, upd'[u] = [NoUpdate EXCEPT !.at = "done"], ~Underway(u)',
         \A v \in Updates : v # u => upd'[v] = upd[v] /\ (Underway(v)' <=> Underway(v)),
         table' = table \/ \E v \in Updates : table' = upd[v].target
  PROVE  Upcoming'
<1> SUFFICES ASSUME NEW w \in Updates, upd'[w].at = "publish"
             PROVE  /\ upd'[w].own \in Queues /\ upd'[w].own # table'
                    /\ \A v \in Updates :
                         /\ upd'[v].target # upd'[w].own /\ ~Retires(v, upd[w].own)'
                         /\ v # w /\ upd'[v].at = "publish" => upd'[v].own # upd'[w].own
  BY DEF Upcoming
<1>1. upd'[u].at = "done" /\ upd'[u].target = None
  BY DEF NoUpdate
<1>2. w # u /\ upd'[w] = upd[w]
  BY <1>1
<1>3. /\ upd[w].own \in Queues /\ upd[w].own # table
      /\ \A v \in Updates :
           /\ upd[v].target # upd[w].own /\ ~Retires(v, upd[w].own)
           /\ v # w /\ upd[v].at = "publish" => upd[v].own # upd[w].own
  BY <1>2 DEF Upcoming
<1>4. \A v \in Updates : ~Retires(v, upd[w].own)'
  BY <1>2, <1>3 DEF Retires
<1> QED
  BY <1>1, <1>2, <1>3, <1>4, CopyFacts

LEMMA StopPreviousKeeps == ASSUME IInv, NEW u \in Updates, StopPrevious(u) PROVE IInv'
<1> DEFINE S == {upd[u].previous}
<1>1. /\ Moved(u) /\ ~upd[u].selection /\ StopManagers(S)
      /\ upd' = [upd EXCEPT ![u] = [NoUpdate EXCEPT !.at = "done"]]
      /\ UNCHANGED <<table, started, cooled, current, updates, overtaken, call, child, late, jobs>>
  BY DEF StopPrevious, requests
<1>2. /\ manager' \in [Queues -> ManagerStates]
      /\ \A q \in Queues : q \notin S /\ Consumed(q) => Consumed(q)'
  BY <1>1, StopFacts
<1>3. table' \in 0 .. started /\ overtaken' \in BOOLEAN
  BY <1>1, NumberFacts, TypeFacts
<1>4. /\ TypeOK' /\ Numbered' /\ JobsOK' /\ UpdatesOK'
      /\ upd'[u] = [NoUpdate EXCEPT !.at = "done"]
      /\ \A v \in Updates : v # u => /\ upd'[v] = upd[v] /\ (Underway(v)' <=> Underway(v))
                                     /\ (PastSnapshot(v)' <=> PastSnapshot(v))
      /\ ~Underway(u)' /\ ~PastSnapshot(u)' /\ PastSnapshot(u)
      /\ ~overtaken => Migrating' /\ current = upd[u].target
  BY <1>1, <1>2, <1>3, Ends
<1>5. ASSUME ~overtaken PROVE Aligned' /\ AllAlive' /\ Retiring' /\ Upcoming' /\ Planned'
  <2>1. Aligned /\ AllAlive /\ Retiring /\ Upcoming /\ Planned /\ current = upd[u].target
    BY <1>4, <1>5 DEF IInv, InStep
  <2>2. Aligned'
    BY <1>1, <1>4, <2>1 DEF Aligned
  <2>3. ASSUME NEW q \in Queues, q \in S PROVE q # table /\ q # upd[u].target
    <3>1. Retires(u, q) /\ upd[u].at # "publish"
      BY <1>1, <1>4, <2>3, CopyFacts DEF Retires, PastSnapshot
    <3> QED
      BY <1>4, <2>1, <3>1 DEF Retiring
  <2>4. ASSUME NEW q \in Queues \cup {None}, Alive(q), q = table \/ q = upd[u].target
        PROVE  Alive(q)'
    BY <1>1, <1>2, <2>3, <2>4 DEF Alive
  <2>5. AllAlive'
    <3>1. Alive(table)' /\ Alive(current)'
      BY <1>1, <2>1, <2>4, TypeFacts DEF AllAlive, Alive
    <3>2. ASSUME NEW v \in Updates, PastSnapshot(v)' PROVE Alive(upd[v].target)'
      <4>1. v # u /\ PastSnapshot(v) /\ upd'[v] = upd[v]
        BY <1>4, <3>2
      <4>2. upd[v].target = upd[u].target /\ Alive(upd[v].target) /\ upd[v].target \in Queues \cup {None}
        BY <1>4, <2>1, <4>1, TypeFacts DEF Aligned, AllAlive, UpdateRecords
      <4> QED
        BY <2>4, <4>1, <4>2 DEF Alive
    <3>3. ASSUME NEW v \in Updates, upd'[v].at = "publish" PROVE Alive(upd[v].own)'
      <4>1. v # u /\ upd'[v] = upd[v]
        BY <1>1, <1>4, <3>3 DEF Moved, PastSnapshot, Underway
      <4>2. upd[v].own \in Queues /\ Alive(upd[v].own) /\ ~Retires(u, upd[v].own)
        BY <2>1, <3>3, <4>1 DEF AllAlive, Upcoming
      <4>3. upd[v].own \notin S
        BY <1>1, <1>4, <4>2, CopyFacts DEF Retires, PastSnapshot
      <4> QED
        BY <1>1, <1>2, <4>1, <4>2, <4>3 DEF Alive
    <3> QED
      BY <3>1, <3>2, <3>3 DEF AllAlive
  <2>6. \A v \in Updates : \A q : Retires(v, q)' => Retires(v, q) /\ v # u
    BY <1>4 DEF Retires
  <2>7. Retiring'
    BY <1>1, <1>4, <2>1, <2>6 DEF Retiring
  <2>8. Planned'
    <3> SUFFICES ASSUME NEW v \in Updates, Underway(v)', upd'[v].selection
                 PROVE  \/ upd'[v].target \in {None, upd'[v].previous}
                        \/ /\ upd'[v].target # table
                           /\ \A w \in Updates : ~Retires(w, upd[v].target)'
      BY <1>1 DEF Planned, Retires
    <3>1. v # u /\ Underway(v) /\ upd'[v] = upd[v]
      BY <1>4
    <3>2. \A w \in Updates : Retires(w, upd[v].target)' => Retires(w, upd[v].target)
      BY <1>4, <3>1 DEF Retires
    <3> QED
      BY <2>1, <3>1, <3>2 DEF Planned
  <2>9. Upcoming'
    BY <1>1, <1>4, <2>1, <2>6, EndedUpcoming
  <2> QED
    BY <2>2, <2>5, <2>7, <2>8, <2>9
<1>6. InStep'
  BY <1>1, <1>4, <1>5 DEF InStep
<1> QED
  BY <1>4, <1>6 DEF IInv

LEMMA ReplaceKeeps == ASSUME IInv, NEW u \in Updates, Replace(u) PROVE IInv'
<1> DEFINE S == IF upd[u].target = None THEN {table} ELSE {}
<1>1. /\ Moved(u) /\ upd[u].selection /\ StopManagers(S) /\ table' = upd[u].target
      /\ upd' = [upd EXCEPT ![u] = [NoUpdate EXCEPT !.at = "done"]]
      /\ overtaken' = (overtaken \/ table # upd[u].previous)
      /\ UNCHANGED <<started, cooled, current, updates, call, child, late, jobs>>
  BY DEF Replace, requests
<1>2. /\ manager' \in [Queues -> ManagerStates]
      /\ \A q \in Queues : q \notin S /\ Consumed(q) => Consumed(q)'
  BY <1>1, StopFacts
<1>3. table' \in 0 .. started /\ overtaken' \in BOOLEAN
  BY <1>1, NumberFacts, TypeFacts
<1>4. /\ TypeOK' /\ Numbered' /\ JobsOK' /\ UpdatesOK'
      /\ upd'[u] = [NoUpdate EXCEPT !.at = "done"]
      /\ \A v \in Updates : v # u => /\ upd'[v] = upd[v] /\ (Underway(v)' <=> Underway(v))
                                     /\ (PastSnapshot(v)' <=> PastSnapshot(v))
      /\ ~Underway(u)' /\ ~PastSnapshot(u)' /\ PastSnapshot(u)
      /\ ~overtaken => Migrating' /\ current = upd[u].target
  BY <1>1, <1>2, <1>3, Ends
<1>5. ASSUME ~overtaken' PROVE Aligned' /\ AllAlive' /\ Retiring' /\ Upcoming' /\ Planned' /\ Migrating'
  <2>1. /\ Aligned /\ AllAlive /\ Retiring /\ Upcoming /\ Planned /\ Migrating'
        /\ current = upd[u].target /\ table = upd[u].previous
    BY <1>1, <1>4, <1>5 DEF IInv, InStep
  <2>2. Aligned'
    BY <1>1, <1>4, <2>1 DEF Aligned
  <2>3. ASSUME NEW q \in Queues \cup {None}, q = upd[u].target PROVE Alive(q)'
    <3>1. Alive(q)
      BY <1>4, <2>1, <2>3 DEF AllAlive
    <3> QED
      BY <1>1, <1>2, <2>3, <3>1 DEF Alive
  <2>4. AllAlive'
    <3>1. Alive(table)' /\ Alive(current)'
      BY <1>1, <2>1, <2>3, TypeFacts DEF Alive
    <3>2. ASSUME NEW v \in Updates, PastSnapshot(v)' PROVE Alive(upd[v].target)'
      <4>1. v # u /\ PastSnapshot(v) /\ upd'[v] = upd[v]
        BY <1>4, <3>2
      <4>2. upd[v].target = upd[u].target /\ upd[v].target \in Queues \cup {None}
        BY <1>4, <2>1, <4>1, TypeFacts DEF Aligned, UpdateRecords
      <4> QED
        BY <2>3, <4>1, <4>2 DEF Alive
    <3>3. ASSUME NEW v \in Updates, upd'[v].at = "publish" PROVE Alive(upd[v].own)'
      <4>1. v # u /\ upd'[v] = upd[v]
        BY <1>1, <1>4, <3>3 DEF Moved, PastSnapshot, Underway
      <4>2. upd[v].own \in Queues /\ upd[v].own # table /\ Alive(upd[v].own)
        BY <2>1, <3>3, <4>1 DEF AllAlive, Upcoming
      <4> QED
        BY <1>1, <1>2, <4>1, <4>2 DEF Alive
    <3> QED
      BY <3>1, <3>2, <3>3 DEF AllAlive
  <2>5. Underway(u)
    BY <1>4 DEF PastSnapshot
  <2>6. Retiring'
    <3> SUFFICES ASSUME NEW v \in Updates, NEW q \in Queues, Retires(v, q)'
                 PROVE  /\ upd'[v].at # "publish" => q # upd[u].target
                        /\ PastSnapshot(v)' => q # upd'[v].target
      BY <1>1 DEF Retiring
    <3>1. v # u /\ Retires(v, q) /\ upd'[v] = upd[v] /\ (PastSnapshot(v)' <=> PastSnapshot(v))
      BY <1>4 DEF Retires
    <3>2. /\ q # None /\ (upd[v].at # "publish" => q # table)
          /\ PastSnapshot(v) => q # upd[v].target
      BY <2>1, <3>1 DEF Retiring, Retires
    <3>3. upd[v].at # "publish" => q # upd[u].target
      BY <1>1, <2>1, <2>5, <3>1, <3>2 DEF Planned
    <3> QED
      BY <3>1, <3>2, <3>3
  <2>7. Planned'
    <3>1. ASSUME NEW v \in Updates, Underway(v)', upd'[v].selection PROVE FALSE
      <4>1. v # u /\ Underway(v) /\ upd[v].selection
        BY <1>4, <3>1
      <4> QED
        BY <1>1, <2>5, <4>1 DEF IInv, UpdatesOK
    <3> QED
      BY <3>1 DEF Planned
  <2>8. Upcoming'
    BY <1>1, <1>4, <2>1, EndedUpcoming
  <2> QED
    BY <2>1, <2>2, <2>4, <2>6, <2>7, <2>8
<1>6. InStep'
  BY <1>5 DEF InStep
<1> QED
  BY <1>4, <1>6 DEF IInv

-----------------------------------------------------------------------------
(* The theorems                                                            *)

LEMMA StutterKeeps == ASSUME IInv, UNCHANGED vars PROVE IInv'
<1>1. UNCHANGED <<table, started, manager, cooled, current, upd, updates, overtaken,
                  call, child, late, jobs>>
  BY DEF vars, generations, routing, requests
<1>2. TypeOK'
  BY <1>1, TypeFacts, TypesNext
<1>3. JobsOK'
  BY <1>1 DEF IInv, JobsOK, CallOK, CopyOK
<1>4. overtaken \/ Migrating'
  BY <1>1, MigratingKept DEF Unfinished, Home
<1> QED
  BY <1>1, <1>2, <1>3, <1>4, Conclude

LEMMA NextKeepsIInv == ASSUME IInv, [Next]_vars PROVE IInv'
<1>1. CASE \E j \in Jobs : Route(j) \/ Store(j) \/ Send(j) \/ GiveUp(j) \/ Register(j)
  BY <1>1, RouteKeeps, StoreKeeps, SendKeeps, GiveUpKeeps, RegisterKeeps
<1>2. CASE \E q \in Queues : StartConsuming(q) \/ ReturnsCancelled(q) \/ Cool(q)
  BY <1>2, StartConsumingKeeps, ReturnsCancelledKeeps, CoolKeeps
<1>3. CASE \E q \in Queues, j \in Jobs, c \in Copies : Next_(q, j, c)
  BY <1>3, NextKeeps
<1>4. CASE \E j \in Jobs, c \in Copies : Begin(j, c) \/ Finish(j, c)
  BY <1>4, BeginKeeps, FinishKeeps
<1>5. CASE \E u \in Updates : UpdateStep(u)
  <2>1. PICK u \in Updates : UpdateStep(u)
    BY <1>5
  <2>2. CASE Publish(u) \/ Topology(u) \/ Swap(u) \/ Scan(u)
    BY <2>2, PublishKeeps, TopologyKeeps, SwapKeeps, ScanKeeps
  <2>3. CASE StopPrevious(u) \/ Replace(u)
    BY <2>3, StopPreviousKeeps, ReplaceKeeps
  <2>4. CASE \E j \in Jobs : Move(u, j) \/ SendMoved(u, j) \/ Rebind(u, j)
    BY <2>4, MoveKeeps, SendMovedKeeps, RebindKeeps
  <2> QED
    BY <2>1, <2>2, <2>3, <2>4 DEF UpdateStep
<1>6. CASE \E u \in Updates : Activate(u) \/ Teardown(u) \/ Elsewhere(u)
  BY <1>6, ActivateKeeps, TeardownKeeps, ElsewhereKeeps
<1>7. CASE \E u \in Updates, to \in Queues \cup {None} : Plan(u, to)
  BY <1>7, PlanKeeps
<1>8. CASE UNCHANGED vars
  BY <1>8, StutterKeeps
<1> QED
  BY <1>1, <1>2, <1>3, <1>4, <1>5, <1>6, <1>7, <1>8 DEF Next

LEMMA Invariance == Spec => []IInv
<1>1. Init => IInv
  BY InitIInv
<1>2. IInv /\ [Next]_vars => IInv'
  BY NextKeepsIInv
<1> QED
  BY <1>1, <1>2, PTL DEF Spec

LEMMA InvariantServes == IInv => UnfinishedIsServed
<1> SUFFICES ASSUME IInv, Quiet, ~overtaken, current # None, NEW j \in Jobs \ late, Unfinished(j)
             PROVE  Served(j)
  BY DEF UnfinishedIsServed
<1>1. \A u \in Updates : upd[u].at \in {"idle", "done"}
  BY DEF Quiet, Underway
<1>2. \A u \in Updates : upd[u].moves[j] = None
  BY <1>1, JobFacts DEF CopyOK
<1>3. Home(j) = current
  BY <1>1, <1>2 DEF IInv, InStep, Migrating, Unfinished
<1>4. Alive(current)
  BY DEF IInv, InStep, AllAlive
<1> QED
  BY <1>3, <1>4 DEF Served, Alive

\* Every variable keeps its type (refresh_aggregate_manual_queue.go,
\* refresh/manual_queue.go, refresh/types.go).
THEOREM TypeCorrect == Spec => []TypeOK
<1>1. IInv => TypeOK
  BY DEF IInv
<1> QED
  BY <1>1, Invariance, PTL

\* Between updates, overlapping ones that agree included, every unfinished job is
\* with the queue that is routed, and that queue has a manager which consumes or
\* is a cooled one; but for jobs registered after the scan that would have moved
\* them (moveUnfinishedJobs, whatever the number of jobs, generations, updates).
THEOREM NoneLeftBehind == Spec => []UnfinishedIsServed
<1>1. IInv => UnfinishedIsServed
  BY InvariantServes
<1> QED
  BY <1>1, Invariance, PTL
=============================================================================
