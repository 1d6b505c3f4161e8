------------------------------ MODULE HandoffProofs ----------------------------
(***************************************************************************)
(* How jobs are handed on.  Without faults no pending job is ever          *)
(* stranded: every path that makes a job pending goes on to enqueue it,    *)
(* and no path drops what it has taken over.  And no job is handed to two: *)
(* as long as heartbeats arrive in time and no operator interferes, a      *)
(* worker between TryClaim and the recording of its result is always the   *)
(* one whose token the job's row names, and that row names one token.      *)
(***************************************************************************)
EXTENDS SluiceProofs

\* Until there is a fault, an instance that leads holds the lease.
SoleLeader == faults = 0 => \A s \in leading : lease = s

\* The inductive invariant: NoStrandedJob needs SoleLeader, because an instance
\* that loses its lease drops the job it was about to enqueue.
HandoffInv == SystemInv /\ SoleLeader /\ NoStrandedJob

--------------------------------------------------------------------------------
(* Faults *)

\* A step that leaves the counter at zero had no fault.
LEMMA ZeroFaults ==
  ASSUME FaultsTypeOK, faults' = 0
  PROVE  /\ NoFault => faults = 0
         /\ \A kind \in {"crash", "terminate", "redis", "db", "lease", "drain"} : ~Fault(kind)
BY DEF FaultsTypeOK, NoFault, Fault

--------------------------------------------------------------------------------
(* The queues *)

\* LMOVE takes the head and leaves the other entries.
LEMMA MoveKeepsQueued ==
  ASSUME QueueTypeOK, NEW w \in Workers, NEW k \in Keys, Move(w, k), NEW j, Queued(j)
  PROVE  j = Head(queues[k]) \/ Queued(j)'
<1>1. PICK i \in Keys : \E n \in 1..Len(queues[i]) : queues[i][n] = j
  BY Zenon DEF Queued
<1>2. PICK n \in 1..Len(queues[i]) : queues[i][n] = j
  BY <1>1, Zenon
<1>3. queues' = [queues EXCEPT ![k] = Tail(queues[k])] /\ queues[k] # <<>>
  BY Zenon DEF Move
<1>4. queues[k] \in Seq(JobIds) /\ queues \in [Keys -> Seq(JobIds)]
  BY Zenon DEF QueueTypeOK
<1>5. CASE i # k
  BY <1>2, <1>3, <1>4, <1>5, Zenon DEF Queued
<1>6. CASE i = k /\ n = 1
  BY <1>2, <1>4, <1>6
<1>7. CASE i = k /\ n # 1
  <2>1. n - 1 \in 1..Len(Tail(queues[k])) /\ Tail(queues[k])[n - 1] = j
    BY <1>2, <1>3, <1>4, <1>7
  <2>2. queues'[k] = Tail(queues[k])
    BY <1>3, <1>4, Zenon
  <2>. QED
    BY <2>1, <2>2, Zenon DEF Queued
<1>. QED
  BY <1>5, <1>6, <1>7, Zenon

\* LPUSH without a fault leaves the entries there are.
LEMMA EnqueueKeepsQueued ==
  ASSUME QueueTypeOK, FaultsTypeOK, faults' = 0, NEW i \in JobIds, Enqueue(i), NEW j, Queued(j)
  PROVE  Queued(j)'
<1> DEFINE k == KeyOf(i)
<1>1. queues' = [queues EXCEPT ![k] = Append(queues[k], i)]
  BY ZeroFaults, Zenon DEF Enqueue
<1>2. PICK m \in Keys : \E n \in 1..Len(queues[m]) : queues[m][n] = j
  BY Zenon DEF Queued
<1>3. PICK n \in 1..Len(queues[m]) : queues[m][n] = j
  BY <1>2, Zenon
<1> HIDE DEF k
<1>4. queues[m] \in Seq(JobIds) /\ queues \in [Keys -> Seq(JobIds)]
  BY Zenon DEF QueueTypeOK
<1>5. CASE m # k
  BY <1>1, <1>3, <1>4, <1>5, Zenon DEF Queued
<1>6. CASE m = k
  <2>1. n \in 1..Len(Append(queues[k], i)) /\ Append(queues[k], i)[n] = j
    BY <1>3, <1>4, <1>6
  <2>2. queues'[k] = Append(queues[k], i)
    BY <1>1, <1>4, <1>6, Zenon
  <2>. QED
    BY <1>6, <2>1, <2>2, Zenon DEF Queued
<1>. QED
  BY <1>5, <1>6, Zenon

\* LPUSH without a fault queues the job, whose key is one of the keys.
LEMMA EnqueueQueues ==
  ASSUME StoreTypeOK, QueueTypeOK, FaultsTypeOK, faults' = 0, NEW j \in JobIds, Live(j), Enqueue(j)
  PROVE  Queued(j)'
<1> DEFINE k == KeyOf(j)
<1>1. queues' = [queues EXCEPT ![k] = Append(queues[k], j)]
  BY ZeroFaults, Zenon DEF Enqueue
<1>2. k \in Keys
  <2>1. jobs[j] \in Row
    BY DEF StoreTypeOK, Live, JobStates, Absent
  <2>2. bucketForPriority(jobs[j].priority) \in {1, 5, 10}
    BY Zenon DEF bucketForPriority
  <2>. QED
    BY <2>1, <2>2, Zenon DEF KeyOf, Keys, Row
<1> HIDE DEF k
<1>3. queues[k] \in Seq(JobIds)
  BY <1>2, Zenon DEF QueueTypeOK
<1>4. queues'[k] = Append(queues[k], j)
  BY <1>1, <1>2, Zenon DEF QueueTypeOK
<1>5. /\ Len(queues[k]) + 1 \in 1..Len(Append(queues[k], j))
      /\ Append(queues[k], j)[Len(queues[k]) + 1] = j
  BY <1>3
<1>. QED
  BY <1>2, <1>4, <1>5, Zenon DEF Queued

--------------------------------------------------------------------------------
(* The workers *)

\* No worker makes a job pending.
LEMMA WorkerMakesNonePending ==
  ASSUME SystemInv, NEW w \in Workers, WorkerNext(w), NEW j \in JobIds, jobs'[j].state = "pending"
  PROVE  jobs[j].state = "pending"
<1>1. jobs \in [JobIds -> Row \cup {Absent}]
  BY Zenon DEF SystemInv, TypeOK, StoreTypeOK
<1>2. CASE UNCHANGED jobs
  BY <1>2, Zenon
<1>3. ASSUME NEW i, NEW c, TryClaim(i, c) \/ MarkRunning(i, c) \/ CompleteJob(i, c)
      PROVE  jobs[j].state = "pending"
  <2>1. CASE TryClaim(i, c)
    BY <1>1, <2>1, Zenon DEF TryClaim, Row, Absent
  <2>2. CASE MarkRunning(i, c)
    BY <1>1, <2>2 DEF MarkRunning, Fenced, InFlight, Row, Absent
  <2>3. CASE CompleteJob(i, c)
    BY <1>1, <2>3 DEF CompleteJob, Fenced, InFlight, Row, Absent
  <2> QED
    BY <1>3, <2>1, <2>2, <2>3, Zenon
<1>4. ASSUME NEW i, NEW c, ExtendDeadline(i, c)
      PROVE  jobs[j].state = "pending"
  BY <1>1, <1>4 DEF ExtendDeadline, Fenced, InFlight, Row, Absent
<1>5. ASSUME NEW i, NEW c, NEW n, FailJob(i, c, n)
      PROVE  jobs[j].state = "pending"
  BY <1>1, <1>5 DEF FailJob, FailState, Fenced, InFlight, Row, Absent
<1>. QED
  BY <1>2, <1>3, <1>4, <1>5, Zenon
  DEF WorkerNext, WorkerStep, Dequeue, ClaimWon, ClaimLost, ClaimErrored, LoadJob, LoadFailed,
      StartExecution, FinishExecution, RecordSuccess, RecordRun, RecordFailure, Cleanup,
      RestartWorker, Heartbeat, CrashWorker, TerminateWorker, Halt, NoEffect, CompleteRun, AbandonRun,
      storeVars

\* Neither does the clock.
LEMMA ClockMakesNonePending ==
  ASSUME StoreTypeOK, NEW i \in JobIds, Clock(i), NEW j \in JobIds, jobs'[j].state = "pending"
  PROVE  jobs[j].state = "pending"
BY DEF Clock, DeadlinePasses, RunAtPasses, StoreTypeOK, Row, Absent

\* A worker's step without a fault strands no job.
LEMMA WorkerHandsOn ==
  ASSUME HandoffInv, faults' = 0, NEW w \in Workers, WorkerNext(w), UNCHANGED <<schedVars, apiVars>>,
         NEW j \in JobIds, jobs'[j].state = "pending"
  PROVE  OnItsWay(j)'
<1>1. SystemInv /\ QueueTypeOK /\ FaultsTypeOK /\ WorkerTypeOK
  BY Zenon DEF HandoffInv, SystemInv, TypeOK
<1>2. NoFault
  BY <1>1, ZeroFaults, Zenon
  DEF WorkerNext, WorkerStep, Dequeue, ClaimWon, ClaimLost, ClaimErrored, LoadJob, LoadFailed,
      StartExecution, FinishExecution, RecordSuccess, RecordRun, RecordFailure, Cleanup,
      RestartWorker, Heartbeat, CrashWorker, TerminateWorker, NoEffect, RemoveFromProcessing
<1>3. jobs[j].state = "pending" /\ OnItsWay(j)
  BY <1>1, <1>2, ZeroFaults, WorkerMakesNonePending, Zenon DEF HandoffInv, NoStrandedJob
<1>4. UNCHANGED <<apiHand, cliHand, hand>>
  BY Zenon DEF schedVars, apiVars
<1>5. CASE Dequeue(w)
  <2>1. PICK k \in Keys :
          /\ Move(w, k)
          /\ worker' = [worker EXCEPT ![w] =
                          [pc |-> "dequeued", job |-> Head(queues[k]), token |-> NoToken]]
    BY <1>1, <1>5, ZeroFaults, Zenon DEF Dequeue
  <2>2. worker'[w].pc = "dequeued" /\ worker'[w].job = Head(queues[k])
    BY <1>1, <2>1, Zenon DEF WorkerTypeOK
  <2>3. ASSUME NEW v \in Workers, At(v, "dequeued")
        PROVE  worker'[v] = worker[v]
    BY <1>1, <1>5, <2>1, <2>3, Zenon DEF Dequeue, At, WorkerTypeOK
  <2>. QED
    BY <1>1, <1>3, <1>4, <2>1, <2>2, <2>3, MoveKeepsQueued, Zenon DEF OnItsWay, At
<1>6. ASSUME ~Dequeue(w)
      PROVE  Queued(j) => Queued(j)'
  BY <1>1, <1>6, ZeroFaults, Zenon
  DEF WorkerNext, WorkerStep, ClaimWon, ClaimLost, ClaimErrored, LoadJob, LoadFailed,
      StartExecution, FinishExecution, RecordSuccess, RecordRun, RecordFailure, Cleanup,
      RestartWorker, Heartbeat, CrashWorker, TerminateWorker, RemoveFromProcessing, queueVars, Queued
<1>7. \A v \in Workers \ {w} : worker'[v] = worker[v]
  BY <1>1, Zenon
  DEF WorkerTypeOK, WorkerNext, WorkerStep, Dequeue, ClaimWon, ClaimLost, ClaimErrored, LoadJob,
      LoadFailed, StartExecution, FinishExecution, RecordSuccess, RecordRun, RecordFailure, Cleanup,
      RestartWorker, Heartbeat, CrashWorker, TerminateWorker, Halt, Goto, Return, workerVars
<1>8. CASE ~(At(w, "dequeued") /\ worker[w].job = j) /\ ~Dequeue(w)
  BY <1>3, <1>4, <1>6, <1>7, <1>8, Zenon DEF OnItsWay, At
<1>9. CASE At(w, "dequeued") /\ worker[w].job = j /\ ~Dequeue(w)
  <2>1. CASE ClaimWon(w)
    <3>1. jobs'[j].state = "claimed"
      BY <1>1, <1>9, <2>1 DEF ClaimWon, TryClaim, SystemInv, TypeOK, StoreTypeOK, Row, Absent
    <3>. QED
      BY <3>1, Zenon
  <2>2. CASE ClaimLost(w)
    <3>1. PICK v \in Workers \ {w} : At(v, "dequeued") /\ worker[v].job = j
      BY <1>3, <1>9, <2>2, Zenon DEF ClaimLost
    <3>. QED
      BY <1>7, <3>1, Zenon DEF OnItsWay, At
  <2>3. ~ClaimErrored(w) /\ ~CrashWorker(w) /\ ~TerminateWorker(w)
    BY <1>1, ZeroFaults, Zenon DEF ClaimErrored, CrashWorker, TerminateWorker
  <2>. QED
    BY <1>9, <2>1, <2>2, <2>3, Zenon
    DEF WorkerNext, WorkerStep, LoadJob, LoadFailed, StartExecution, FinishExecution, RecordSuccess,
        RecordRun, RecordFailure, Cleanup, RestartWorker, Heartbeat, At
<1>. QED
  BY <1>5, <1>8, <1>9, Zenon

--------------------------------------------------------------------------------
(* The scheduler *)

\* A loop that holds nothing drops nothing when it takes a job in hand.
LEMMA HoldKeeps ==
  ASSUME SchedTypeOK, NEW s \in Schedulers, NEW l \in Loops, hand[s][l] = {}, NEW i \in JobIds,
         Hold(s, l, i) \/ UNCHANGED hand, UNCHANGED <<queueVars, workerVars, apiVars>>,
         NEW j, OnItsWay(j)
  PROVE  OnItsWay(j)'
<1>1. \A r \in Schedulers, m \in Loops : j \in hand[r][m] => j \in hand'[r][m]
  <2>1. hand \in [Schedulers -> [Loops -> {{}} \cup {{k} : k \in JobIds}]]
    BY Zenon DEF SchedTypeOK
  <2>2. \A r \in Schedulers, m \in Loops :
          hand'[r][m] = hand[r][m] \/ (r = s /\ m = l)
    <3>1. CASE UNCHANGED hand
      BY <3>1, Zenon
    <3>2. CASE Hold(s, l, i)
      <4>1. \A r \in Schedulers : r # s => hand'[r] = hand[r]
        BY <2>1, <3>2, Zenon DEF Hold
      <4>2. \A m \in Loops : m # l => hand'[s][m] = hand[s][m]
        BY <2>1, <3>2, Zenon DEF Hold
      <4> QED
        BY <4>1, <4>2, Zenon
    <3> QED
      BY <3>1, <3>2, Zenon
  <2> QED
    BY <2>2, Zenon
<1>. QED
  BY <1>1, Zenon DEF OnItsWay, Queued, At, queueVars, workerVars, apiVars

\* A job in some loop's hand is on its way.
LEMMA HeldIsOnItsWay ==
  ASSUME SchedTypeOK, NEW s \in Schedulers, NEW l \in Loops, NEW j, Hold(s, l, j)
  PROVE  OnItsWay(j)'
<1>1. j \in hand'[s][l]
  BY Zenon DEF SchedTypeOK, Hold
<1>. QED
  BY <1>1, Zenon DEF OnItsWay

\* A statement of a loop on one job, the job then held or dead, strands no job.
LEMMA LoopStatementHandsOn ==
  ASSUME HandoffInv, faults = 0, NEW s \in Schedulers, NEW i \in JobIds,
         PromoteOne(s, i) \/ ReapOne(s, i) \/ MoveOne(s, i), faults' = 0,
         UNCHANGED <<workerVars, apiVars>>, NEW j \in JobIds, jobs'[j].state = "pending"
  PROVE  OnItsWay(j)'
<1>1. /\ StoreTypeOK /\ SchedTypeOK /\ FaultsTypeOK
      /\ jobs[j].state = "pending" => OnItsWay(j)
  BY Zenon DEF HandoffInv, SystemInv, TypeOK, NoStrandedJob
<1>2. UNCHANGED queueVars
  BY Zenon DEF PromoteOne, ReapOne, MoveOne
<1>3. CASE PromoteOne(s, i)
  <2>1. Take(s, "due", i) /\ Promote(s, i) /\ Hold(s, "due", i)
    BY <1>1, <1>3, ZeroFaults, Zenon DEF PromoteOne
  <2>2. CASE i = j
    BY <1>1, <2>1, <2>2, HeldIsOnItsWay, Zenon DEF Take
  <2>3. CASE i # j
    <3>1. jobs'[j] = jobs[j]
      BY <1>1, <2>1, <2>3, Zenon
      DEF Promote, PromoteScheduledToPending, PromoteFailedToPending, storeVars, StoreTypeOK
    <3>. QED
      BY <1>1, <1>2, <2>1, <3>1, HoldKeeps, Zenon DEF Take
  <2>. QED
    BY <2>2, <2>3, Zenon
<1>4. CASE ReapOne(s, i)
  <2>1. /\ Take(s, "reap", i) /\ RequeueStaleJob(i)
        /\ IF Stale(i) /\ Exhausted(i) THEN UNCHANGED hand ELSE Hold(s, "reap", i)
    BY <1>1, <1>4, ZeroFaults, Zenon DEF ReapOne
  <2>2. CASE i = j
    <3>1. ~(Stale(i) /\ Exhausted(i))
      <4>1. SUFFICES ASSUME Stale(i), Exhausted(i)
                     PROVE  FALSE
        BY Zenon
      <4>2. jobs[i] \in Row
        BY <1>1, <4>1 DEF StoreTypeOK, Stale, InFlight, Absent
      <4>3. jobs'[i].state = "dead"
        BY <1>1, <2>1, <4>1, <4>2, Zenon DEF RequeueStaleJob, StoreTypeOK, Row
      <4>. QED
        BY <2>2, <4>3, Zenon
    <3>. QED
      BY <1>1, <2>1, <2>2, <3>1, HeldIsOnItsWay, Zenon DEF Take
  <2>3. CASE i # j
    <3>1. jobs'[j] = jobs[j]
      BY <1>1, <2>1, <2>3, Zenon DEF RequeueStaleJob, StoreTypeOK
    <3>. QED
      BY <1>1, <1>2, <2>1, <3>1, HoldKeeps, Zenon DEF Take
  <2>. QED
    BY <2>2, <2>3, Zenon
<1>5. CASE MoveOne(s, i)
  <2>1. Take(s, "dead", i) /\ UNCHANGED <<jobs, hand>>
    BY <1>5, Zenon DEF MoveOne, MoveToDeadLetter, storeVars
  <2>. QED
    BY <1>1, <1>2, <2>1, HoldKeeps, Zenon DEF Take
<1>. QED
  BY <1>3, <1>4, <1>5, Zenon

\* A scheduler's step without a fault strands no job.
LEMMA SchedHandsOn ==
  ASSUME HandoffInv, faults' = 0, NEW s \in Schedulers, SchedNext(s), UNCHANGED <<workerVars, apiVars>>,
         NEW j \in JobIds, jobs'[j].state = "pending"
  PROVE  OnItsWay(j)'
<1>1. StoreTypeOK /\ QueueTypeOK /\ SchedTypeOK /\ FaultsTypeOK
  BY Zenon DEF HandoffInv, SystemInv, TypeOK
<1>2. ASSUME NEW i \in JobIds, PromoteOne(s, i) \/ ReapOne(s, i) \/ MoveOne(s, i)
      PROVE  OnItsWay(j)'
  <2>1. NoFault
    BY <1>1, <1>2, ZeroFaults, Zenon DEF PromoteOne, ReapOne, MoveOne
  <2>. QED
    BY <1>1, <1>2, <2>1, ZeroFaults, LoopStatementHandsOn, Zenon
<1>3. ASSUME UNCHANGED jobs, NoFault
      PROVE  jobs[j].state = "pending" /\ OnItsWay(j)
  BY <1>1, <1>3, ZeroFaults, Zenon DEF HandoffInv, NoStrandedJob
<1>4. ASSUME UNCHANGED <<storeVars, queueVars, hand>>, NoFault
      PROVE  OnItsWay(j)'
  BY <1>3, <1>4, Zenon DEF storeVars, queueVars, workerVars, apiVars, OnItsWay, Queued, At
<1>5. ASSUME NEW i \in JobIds, Enqueue(i), UNCHANGED storeVars,
             \A r \in Schedulers, m \in Loops : j \in hand[r][m] => j \in hand'[r][m] \/ j = i
      PROVE  OnItsWay(j)'
  <2>1. NoFault /\ UNCHANGED jobs
    BY <1>1, <1>5, ZeroFaults, Zenon DEF Enqueue, storeVars
  <2>2. OnItsWay(j) /\ Live(j)
    BY <1>3, <2>1, Zenon DEF Live, JobStates
  <2>3. Queued(j) => Queued(j)'
    BY <1>1, <1>5, EnqueueKeepsQueued, Zenon
  <2>4. i = j => Queued(j)'
    BY <1>1, <1>5, <2>2, EnqueueQueues, Zenon
  <2>. QED
    BY <1>5, <2>2, <2>3, <2>4, Zenon DEF OnItsWay, At, workerVars, apiVars
<1>6. ASSUME NEW i \in JobIds, ReconcileOne(s, i)
      PROVE  OnItsWay(j)'
  BY <1>5, <1>6, Zenon DEF ReconcileOne
<1>7. ASSUME NEW l, EnqueueHeld(s, l)
      PROVE  OnItsWay(j)'
  <2>1. PICK i \in hand[s][l] : Enqueue(i)
    BY <1>7, Zenon DEF EnqueueHeld
  <2>2. i \in JobIds /\ hand[s][l] = {i}
    BY <1>1, <1>7, <2>1 DEF SchedTypeOK, EnqueueHeld
  <2>3. \A r \in Schedulers, m \in Loops : j \in hand[r][m] => j \in hand'[r][m] \/ j = i
    BY <1>1, <1>7, <2>2 DEF SchedTypeOK, EnqueueHeld
  <2>. QED
    BY <1>5, <1>7, <2>1, <2>2, <2>3 DEF EnqueueHeld
<1>8. ~NoticeLoss(s) /\ ~CrashScheduler(s) /\ ~TerminateScheduler(s)
  BY <1>1, ZeroFaults, Zenon
  DEF HandoffInv, SoleLeader, NoticeLoss, CrashScheduler, TerminateScheduler, Quit
<1>9. CASE \/ pollScheduledJobs(s) \/ pollFailedJobs(s) \/ reapStaleClaims(s)
           \/ promoteDeadJobs(s) \/ reconcilePending(s) \/ Campaign(s)
  BY <1>4, <1>9, Zenon
  DEF pollScheduledJobs, pollFailedJobs, reapStaleClaims, promoteDeadJobs, reconcilePending, Poll,
      Campaign
<1>. QED
  BY <1>2, <1>6, <1>7, <1>8, <1>9, Zenon
  DEF SchedNext, runDuePoll, runStaleReaper, runDeadLetterPromoter, runPendingReconciler

--------------------------------------------------------------------------------
(* The API and the CLI *)

\* Handlers that only add to what they hold drop nothing.
LEMMA HandsKept ==
  ASSUME apiHand \subseteq apiHand', cliHand \subseteq cliHand',
         UNCHANGED <<queues, workerVars, schedVars>>, NEW j, OnItsWay(j)
  PROVE  OnItsWay(j)'
BY Zenon DEF OnItsWay, Queued, At, workerVars, schedVars

\* A handler's or command's step without a fault strands no job.
LEMMA ApiHandsOn ==
  ASSUME HandoffInv, faults' = 0, ApiNext, UNCHANGED <<workerVars, schedVars>>,
         NEW j \in JobIds, jobs'[j].state = "pending"
  PROVE  OnItsWay(j)'
<1>1. /\ StoreTypeOK /\ QueueTypeOK /\ FaultsTypeOK /\ ApiTypeOK
      /\ jobs \in [JobIds -> Row \cup {Absent}]
  BY Zenon DEF HandoffInv, SystemInv, TypeOK, StoreTypeOK
<1>2. ASSUME jobs'[j] = jobs[j], NoFault
      PROVE  jobs[j].state = "pending" /\ OnItsWay(j)
  BY <1>1, <1>2, ZeroFaults, Zenon DEF HandoffInv, NoStrandedJob
<1>3. ASSUME jobs'[j] = jobs[j], NoFault, UNCHANGED queues,
             apiHand \subseteq apiHand', cliHand \subseteq cliHand'
      PROVE  OnItsWay(j)'
  BY <1>2, <1>3, HandsKept, Zenon
<1>4. ASSUME j \in apiHand' \/ j \in cliHand'
      PROVE  OnItsWay(j)'
  BY <1>4, Zenon DEF OnItsWay
<1>5. ASSUME NEW i \in JobIds, handleSubmitJob(i)
      PROVE  OnItsWay(j)'
  <2>1. PICK t \in Tenants, p \in Priorities, k \in IdemKeys \cup {NoKey}, mr \in RetryLimits,
             ra \in {"future", "due"} :
          /\ InsertJob(i, NewJob(t, p, k, mr, ra))
          /\ \/ apiHand' = (IF ra = "future" THEN apiHand ELSE apiHand \cup {i}) /\ NoFault
             \/ UNCHANGED apiHand /\ Fault("db")
    BY <1>5, Zenon DEF handleSubmitJob
  <2>2. apiHand' = (IF ra = "future" THEN apiHand ELSE apiHand \cup {i}) /\ NoFault
    BY <1>1, <2>1, ZeroFaults, Zenon
  <2>3. jobs' = [jobs EXCEPT ![i] = NewJob(t, p, k, mr, ra)] /\ UNCHANGED <<queues, cliHand>>
    BY <1>5, <2>1, Zenon DEF handleSubmitJob, InsertJob, queueVars
  <2>4. CASE i = j
    BY <1>1, <1>4, <2>2, <2>3, <2>4, Zenon DEF NewJob
  <2>5. CASE i # j
    BY <1>1, <1>3, <2>2, <2>3, <2>5, Zenon
  <2>. QED
    BY <2>4, <2>5, Zenon
<1>6. ASSUME NEW i \in JobIds, handleCancelJob(i) \/ cmdForceFail(i)
      PROVE  OnItsWay(j)'
  <2>1. NoFault /\ UNCHANGED <<queues, apiHand, cliHand>>
    BY <1>6, Zenon DEF handleCancelJob, cmdForceFail, queueVars
  <2>2. jobs'[j] = jobs[j]
    <3>1. ASSUME NEW t, CancelJob(i, t)
          PROVE  jobs'[j] = jobs[j]
      BY <1>1, <3>1 DEF CancelJob, Row, Absent
    <3>2. ASSUME ForceFail(i)
          PROVE  jobs'[j] = jobs[j]
      BY <1>1, <3>2 DEF ForceFail, Row, Absent
    <3>. QED
      BY <1>6, <3>1, <3>2, Zenon DEF handleCancelJob, cmdForceFail
  <2>. QED
    BY <1>3, <2>1, <2>2, Zenon
<1>7. ASSUME NEW i \in JobIds, handleReplayJob(i)
      PROVE  OnItsWay(j)'
  <2>1. NoFault /\ apiHand' = apiHand \cup {i} /\ UNCHANGED <<queues, cliHand>>
    BY <1>1, <1>7, ZeroFaults, Zenon DEF handleReplayJob, queueVars
  <2>2. i # j => jobs'[j] = jobs[j]
    BY <1>1, <1>7, Zenon DEF handleReplayJob, ReplayJob
  <2>. QED
    BY <1>3, <1>4, <2>1, <2>2, Zenon
<1>8. ASSUME NEW i \in JobIds, CliReplayCheck(i) \/ CliReplayReset(i)
      PROVE  OnItsWay(j)'
  <2>1. NoFault /\ UNCHANGED <<queues, apiHand>>
    BY <1>1, <1>8, ZeroFaults, Zenon DEF CliReplayCheck, CliReplayReset, queueVars
  <2>2. CASE CliReplayCheck(i)
    BY <1>3, <2>1, <2>2, Zenon DEF CliReplayCheck, storeVars
  <2>3. CASE CliReplayReset(i)
    <3>1. cliHand' = cliHand \cup {i}
      BY <1>1, <2>3, ZeroFaults, Zenon DEF CliReplayReset
    <3>2. i # j => jobs'[j] = jobs[j]
      BY <1>1, <2>3, Zenon DEF CliReplayReset, ReplayJob, storeVars
    <3>. QED
      BY <1>3, <1>4, <2>1, <3>1, <3>2, Zenon
  <2>. QED
    BY <1>8, <2>2, <2>3, Zenon
<1>9. ASSUME NEW i \in JobIds, ApiEnqueue(i) \/ CliEnqueue(i)
      PROVE  OnItsWay(j)'
  <2>1. /\ Enqueue(i) /\ UNCHANGED jobs
        /\ apiHand \cup cliHand \subseteq apiHand' \cup cliHand' \cup {i}
    BY <1>1, <1>9, ZeroFaults, Zenon DEF ApiEnqueue, CliEnqueue, storeVars
  <2>2. NoFault
    BY <1>1, <2>1, ZeroFaults, Zenon DEF Enqueue
  <2>3. OnItsWay(j) /\ Live(j)
    BY <1>2, <2>1, <2>2, Zenon DEF Live, JobStates
  <2>4. Queued(j) => Queued(j)'
    BY <1>1, <2>1, EnqueueKeepsQueued, Zenon
  <2>5. i = j => Queued(j)'
    BY <1>1, <2>1, <2>3, EnqueueQueues, Zenon
  <2>. QED
    BY <2>1, <2>3, <2>4, <2>5, Zenon DEF OnItsWay, At, workerVars, schedVars
<1>10. ~cmdDrain
  BY <1>1, ZeroFaults, Zenon DEF cmdDrain
<1>. QED
  BY <1>5, <1>6, <1>7, <1>8, <1>9, <1>10, Zenon DEF ApiNext

--------------------------------------------------------------------------------
(* The invariant *)

\* The budget of faults only shrinks.
LEMMA NoFaultBefore ==
  ASSUME FaultsTypeOK, [Next]_vars, faults' = 0
  PROVE  faults = 0
<1>1. ASSUME NEW w \in Workers, WorkerNext(w)
      PROVE  faults = 0
  <2>1. CASE \/ ClaimErrored(w) \/ LoadFailed(w) \/ StartExecution(w) \/ RecordSuccess(w)
             \/ RecordRun(w) \/ RecordFailure(w)
    BY <2>1, ZeroFaults, Zenon
    DEF ClaimErrored, LoadFailed, StartExecution, RecordSuccess, RecordRun, RecordFailure, NoEffect
  <2>2. CASE ClaimLost(w) \/ Cleanup(w) \/ CrashWorker(w) \/ TerminateWorker(w)
    BY <2>2, ZeroFaults, Zenon
    DEF ClaimLost, Cleanup, CrashWorker, TerminateWorker, RemoveFromProcessing
  <2>3. CASE \/ Dequeue(w) \/ ClaimWon(w) \/ LoadJob(w) \/ FinishExecution(w) \/ RestartWorker(w)
             \/ Heartbeat(w)
    BY <2>3, ZeroFaults, Zenon DEF Dequeue, ClaimWon, LoadJob, FinishExecution, RestartWorker, Heartbeat
  <2>. QED
    BY <1>1, <2>1, <2>2, <2>3, Zenon DEF WorkerNext, WorkerStep
<1>2. ASSUME NEW s \in Schedulers, SchedNext(s)
      PROVE  faults = 0
  <2>1. CASE Campaign(s) \/ NoticeLoss(s) \/ CrashScheduler(s) \/ TerminateScheduler(s)
    BY <2>1, ZeroFaults, Zenon DEF Campaign, NoticeLoss, CrashScheduler, TerminateScheduler
  <2>2. CASE \/ pollScheduledJobs(s) \/ pollFailedJobs(s) \/ reapStaleClaims(s)
             \/ promoteDeadJobs(s) \/ reconcilePending(s)
    BY <2>2, ZeroFaults, Zenon
    DEF pollScheduledJobs, pollFailedJobs, reapStaleClaims, promoteDeadJobs, reconcilePending, Poll
  <2>3. ASSUME NEW j, PromoteOne(s, j) \/ ReapOne(s, j) \/ MoveOne(s, j) \/ ReconcileOne(s, j)
        PROVE  faults = 0
    BY <2>3, ZeroFaults, Zenon DEF PromoteOne, ReapOne, MoveOne, ReconcileOne, Enqueue
  <2>4. ASSUME NEW l, EnqueueHeld(s, l)
        PROVE  faults = 0
    BY <2>4, ZeroFaults, Zenon DEF EnqueueHeld, Enqueue
  <2>. QED
    BY <1>2, <2>1, <2>2, <2>3, <2>4, Zenon
    DEF SchedNext, runDuePoll, runStaleReaper, runDeadLetterPromoter, runPendingReconciler
<1>3. CASE ApiNext
  <2>1. ASSUME NEW j, handleSubmitJob(j) \/ handleCancelJob(j) \/ handleReplayJob(j) \/ ApiEnqueue(j)
        PROVE  faults = 0
    BY <2>1, ZeroFaults, Zenon
    DEF handleSubmitJob, handleCancelJob, handleReplayJob, ApiEnqueue, Enqueue
  <2>2. ASSUME NEW j, CliReplayCheck(j) \/ CliReplayReset(j) \/ CliEnqueue(j) \/ cmdForceFail(j)
        PROVE  faults = 0
    BY <2>2, ZeroFaults, Zenon DEF CliReplayCheck, CliReplayReset, CliEnqueue, cmdForceFail, Enqueue
  <2>3. ~cmdDrain
    BY ZeroFaults, Zenon DEF cmdDrain
  <2>. QED
    BY <1>3, <2>1, <2>2, <2>3, Zenon DEF ApiNext
<1>4. CASE LeaseExpires \/ (\E j \in JobIds : Clock(j)) \/ UNCHANGED vars
  BY <1>4, ZeroFaults, Zenon DEF LeaseExpires, Clock, vars, NoFault
<1>. QED
  BY <1>1, <1>2, <1>3, <1>4, Zenon DEF Next

\* A step without a fault leaves the lease with the one instance that leads.
LEMMA SoleLeaderStep ==
  ASSUME FaultsTypeOK, SchedTypeOK, SoleLeader, [Next]_vars
  PROVE  SoleLeader'
<1>1. SUFFICES ASSUME faults' = 0
               PROVE  \A r \in leading' : lease' = r
  BY Zenon DEF SoleLeader
<1>2. faults = 0 /\ \A r \in leading : r \in Schedulers /\ lease = r
  BY <1>1, NoFaultBefore, Zenon DEF SoleLeader, SchedTypeOK
<1>3. CASE UNCHANGED <<lease, leading>>
  BY <1>2, <1>3, Zenon
<1>4. ASSUME NEW s \in Schedulers, SchedNext(s)
      PROVE  \A r \in leading' : lease' = r
  <2>1. CASE Campaign(s)
    BY <1>2, <2>1, SchedulerAssumption, Zenon DEF Campaign
  <2>2. CASE NoticeLoss(s)
    BY <1>2, <2>2, Zenon DEF NoticeLoss, Quit
  <2>3. ~CrashScheduler(s) /\ ~TerminateScheduler(s)
    BY <1>1, ZeroFaults, Zenon DEF CrashScheduler, TerminateScheduler
  <2>4. CASE runDuePoll(s) \/ runStaleReaper(s) \/ runDeadLetterPromoter(s) \/ runPendingReconciler(s)
    <3>1. UNCHANGED <<lease, leading>>
      BY <2>4, Zenon
      DEF runDuePoll, runStaleReaper, runDeadLetterPromoter, runPendingReconciler, pollScheduledJobs,
          pollFailedJobs, reapStaleClaims, promoteDeadJobs, reconcilePending, Poll, PromoteOne,
          ReapOne, MoveOne, ReconcileOne, EnqueueHeld, Take
    <3>. QED
      BY <1>3, <3>1, Zenon
  <2>. QED
    BY <1>4, <2>1, <2>2, <2>3, <2>4, Zenon DEF SchedNext
<1>5. CASE LeaseExpires
  BY <1>1, <1>2, <1>5, ZeroFaults, SchedulerAssumption, Zenon DEF LeaseExpires
<1>. QED
  BY <1>3, <1>4, <1>5, Zenon DEF Next, Clock, vars, schedVars

\* The invariant of the hand-over is inductive.
LEMMA HandoffInvStep == HandoffInv /\ [Next]_vars => HandoffInv'
<1> SUFFICES ASSUME HandoffInv, [Next]_vars
             PROVE  HandoffInv'
  BY Zenon
<1>1. SystemInv' /\ SoleLeader'
  BY SystemInvStep, SoleLeaderStep, Zenon DEF HandoffInv, SystemInv, TypeOK
<1>2. NoStrandedJob'
  <2>1. SUFFICES ASSUME faults' = 0, NEW j \in JobIds, jobs'[j].state = "pending"
                 PROVE  OnItsWay(j)'
    BY Zenon DEF NoStrandedJob
  <2>2. faults = 0 /\ StoreTypeOK /\ (jobs[j].state = "pending" => OnItsWay(j))
    BY <2>1, NoFaultBefore, Zenon DEF HandoffInv, SystemInv, TypeOK, NoStrandedJob
  <2>3. ASSUME UNCHANGED <<queueVars, workerVars, apiVars, hand>>, jobs[j].state = "pending"
        PROVE  OnItsWay(j)'
    BY <2>2, <2>3, Zenon DEF OnItsWay, Queued, At, queueVars, workerVars, apiVars
  <2>4. CASE LeaseExpires /\ UNCHANGED <<workerVars, apiVars>>
    BY <2>1, <2>3, <2>4, Zenon DEF LeaseExpires, storeVars
  <2>5. ASSUME NEW i \in JobIds, Clock(i)
        PROVE  OnItsWay(j)'
    <3>1. jobs[j].state = "pending"
      BY <2>1, <2>2, <2>5, ClockMakesNonePending, Zenon
    <3>. QED
      BY <2>3, <2>5, <3>1, Zenon DEF Clock, schedVars
  <2>6. CASE UNCHANGED vars
    BY <2>1, <2>3, <2>6, Zenon DEF vars, storeVars, schedVars
  <2>. QED
    BY <2>1, <2>4, <2>5, <2>6, WorkerHandsOn, SchedHandsOn, ApiHandsOn, Zenon DEF Next
<1>. QED
  BY <1>1, <1>2, Zenon DEF HandoffInv

\* As long as there is no fault no pending job is stranded, for any number of jobs,
\* workers, instances and requests: each is in a queue, or about to be enqueued by the
\* handler, loop or command that made it pending, or about to be claimed.
THEOREM NoJobIsStranded == Spec => []NoStrandedJob
<1>1. Init => HandoffInv
  BY SystemInvInit
  DEF Init, StoreInit, SchedInit, Absent, HandoffInv, SoleLeader, NoStrandedJob
<1>2. HandoffInv /\ [Next]_vars => HandoffInv'
  BY HandoffInvStep, Zenon
<1>3. HandoffInv => NoStrandedJob
  BY Zenon DEF HandoffInv
<1>. QED
  BY <1>1, <1>2, <1>3, PTL DEF Spec

--------------------------------------------------------------------------------
(* No job is handed to two *)

ClaimStands(j, c) == Fenced(j, c) /\ jobs[j].deadline = "live"

Working(w) == worker[w].pc \in Holding \ {"completing"}

\* A worker that has still to record its result holds a claim that stands.
HoldersFenced == \A w \in Workers : Working(w) => ClaimStands(worker[w].job, worker[w].token)

\* The inductive invariant.
ExclusiveInv == SystemInv /\ HoldersFenced

--------------------------------------------------------------------------------
\* The row of a job whose claim stands.
LEMMA StandingClaim ==
  ASSUME StoreTypeOK, NEW j \in JobIds, NEW c, ClaimStands(j, c)
  PROVE  /\ jobs[j] \in Row /\ Inserted(j)
         /\ jobs[j].token = c /\ jobs[j].deadline = "live"
         /\ jobs[j].state \notin {"pending", "scheduled", "failed", "dead"}
<1>1. jobs[j].state \in {"claimed", "running"}
  BY Zenon DEF ClaimStands, Fenced, InFlight
<1>2. jobs[j] \in Row /\ Inserted(j)
  BY <1>1, RowOf, Zenon
<1> QED
  BY <1>1, <1>2, Zenon DEF ClaimStands, Fenced

\* A claim stands while its row is left alone.
LEMMA OthersRowSpares ==
  ASSUME StoreTypeOK, NEW j \in JobIds, NEW c, ClaimStands(j, c), NEW i \in JobIds,
         UNCHANGED jobs \/ (i # j /\ \E v : jobs' = [jobs EXCEPT ![i] = v])
  PROVE  ClaimStands(j, c)'
<1>1. jobs'[j] = jobs[j]
  BY Zenon DEF StoreTypeOK
<1> QED
  BY <1>1, Zenon DEF ClaimStands, Fenced

\* MarkRunning and ExtendDeadline end no claim.
LEMMA HolderSpares ==
  ASSUME StoreTypeOK, NEW j \in JobIds, NEW c, ClaimStands(j, c), NEW i \in JobIds,
         NEW d, MarkRunning(i, d) \/ ExtendDeadline(i, d)
  PROVE  ClaimStands(j, c)'
<1>1. CASE i # j
  <2>1. \E v : jobs' = [jobs EXCEPT ![i] = v]
    BY Zenon DEF MarkRunning, ExtendDeadline
  <2> QED
    BY <1>1, <2>1, OthersRowSpares, Zenon
<1>2. CASE i = j
  <2>1. jobs[j] \in Row
    BY StandingClaim, Zenon
  <2>2. CASE MarkRunning(i, d)
    <3>1. jobs'[j] = [jobs[j] EXCEPT !.state = "running"]
      BY <1>2, <2>2, Zenon DEF MarkRunning, StoreTypeOK
    <3> QED
      BY <2>1, <3>1, Zenon DEF ClaimStands, Fenced, InFlight, Row
  <2>3. CASE ExtendDeadline(i, d)
    <3>1. jobs'[j] = [jobs[j] EXCEPT !.deadline = "live"]
      BY <1>2, <2>3, Zenon DEF ExtendDeadline, StoreTypeOK
    <3> QED
      BY <2>1, <3>1, Zenon DEF ClaimStands, Fenced, InFlight, Row
  <2> QED
    BY <2>2, <2>3, Zenon
<1> QED
  BY <1>1, <1>2, Zenon

\* The statements of other workers name other tokens, and those of the scheduler
\* and the API find only jobs that are not in flight or whose deadline is past.
LEMMA OthersSpareClaim ==
  ASSUME StoreTypeOK, NEW j \in JobIds, NEW c \in Tokens, ClaimStands(j, c), NEW i \in JobIds,
         \/ \E d \in Tokens : TryClaim(i, d) \/ MarkRunning(i, d) \/ ExtendDeadline(i, d)
         \/ \E d \in Tokens \ {c} :
              CompleteJob(i, d) \/ \E n \in {"null", "due", "future"} : FailJob(i, d, n)
         \/ RequeueStaleJob(i) \/ MoveToDeadLetter(i)
         \/ \E t \in Tenants : CancelJob(i, t) \/ ReplayJob(i, t)
         \/ PromoteScheduledToPending(i) \/ PromoteFailedToPending(i) \/ RunAtPasses(i)
         \/ \E row : InsertJob(i, row)
  PROVE  ClaimStands(j, c)'
<1> DEFINE Else == UNCHANGED jobs \/ (i # j /\ \E v : jobs' = [jobs EXCEPT ![i] = v])
<1>1. Else => ClaimStands(j, c)'
  BY OthersRowSpares, Zenon
<1>2. /\ jobs[j].token = c /\ jobs[j].deadline = "live" /\ Inserted(j)
      /\ jobs[j].state \notin {"pending", "scheduled", "failed", "dead"}
  BY StandingClaim, Zenon
<1>3. ASSUME NEW d \in Tokens, MarkRunning(i, d) \/ ExtendDeadline(i, d)
      PROVE  ClaimStands(j, c)'
  BY <1>3, HolderSpares, Zenon
<1>4. ASSUME NEW d \in Tokens, TryClaim(i, d) PROVE Else
  BY <1>2, <1>4, Zenon DEF TryClaim
<1>5. ASSUME NEW d \in Tokens \ {c}, CompleteJob(i, d) PROVE Else
  BY <1>2, <1>5, Zenon DEF CompleteJob, Fenced
<1>6. ASSUME NEW d \in Tokens \ {c}, NEW n \in {"null", "due", "future"}, FailJob(i, d, n)
      PROVE  Else
  BY <1>2, <1>6, Zenon DEF FailJob, Fenced
<1>7. ASSUME RequeueStaleJob(i) PROVE Else
  BY <1>2, <1>7, Zenon DEF RequeueStaleJob, Stale
<1>8. ASSUME NEW t \in Tenants, CancelJob(i, t) \/ ReplayJob(i, t) PROVE Else
  BY <1>2, <1>8, Zenon DEF CancelJob, ReplayJob
<1>9. ASSUME \/ MoveToDeadLetter(i) \/ PromoteScheduledToPending(i)
              \/ PromoteFailedToPending(i) \/ RunAtPasses(i)
       PROVE  Else
  BY <1>2, <1>9, Zenon
  DEF MoveToDeadLetter, PromoteScheduledToPending, PromoteFailedToPending, RunAtPasses
<1>10. ASSUME NEW row, InsertJob(i, row) PROVE Else
  BY <1>2, <1>10, Zenon DEF InsertJob, Inserted
<1> HIDE DEF Else
<1>. QED
  BY <1>1, <1>3, <1>4, <1>5, <1>6, <1>7, <1>8, <1>9, <1>10, Zenon

\* What a worker's step does to the tables, if it does anything to the jobs.
LEMMA WorkerWrites ==
  ASSUME WorkerTypeOK, NEW w \in Workers, WorkerNext(w)
  PROVE  \/ UNCHANGED jobs
         \/ \E d \in Tokens : TryClaim(worker[w].job, d) /\ At(w, "dequeued")
         \/ /\ worker[w].pc \in Holding
            /\ \/ MarkRunning(worker[w].job, worker[w].token)
               \/ ExtendDeadline(worker[w].job, worker[w].token)
         \/ /\ worker[w].pc \in Holding
            /\ worker'[w].pc \in {"completing", "cleanup"}
            /\ \/ CompleteJob(worker[w].job, worker[w].token)
               \/ \E n \in {"null", "due", "future"} :
                    FailJob(worker[w].job, worker[w].token, n)
<1> USE DEF At, Holding
<1>1. CASE ClaimWon(w) \/ ClaimErrored(w)
  BY <1>1, Zenon DEF ClaimWon, ClaimErrored, storeVars
<1>2. CASE StartExecution(w) \/ Heartbeat(w)
  BY <1>2, Zenon DEF StartExecution, Heartbeat, NoEffect, storeVars
<1>3. CASE RecordSuccess(w)
  BY <1>3, BusyWorker DEF RecordSuccess, NoEffect, Goto, storeVars, WorkerTypeOK, Busy
<1>4. CASE RecordFailure(w)
  BY <1>4, BusyWorker, Zenon DEF RecordFailure, NoEffect, Goto, storeVars, WorkerTypeOK, Busy
<1>5. CASE RecordRun(w) \/ CrashWorker(w) \/ TerminateWorker(w)
  BY <1>5, Zenon DEF RecordRun, CompleteRun, AbandonRun, CrashWorker, TerminateWorker, Halt, storeVars
<1>6. CASE \/ Dequeue(w) \/ ClaimLost(w) \/ LoadJob(w) \/ LoadFailed(w) \/ FinishExecution(w)
           \/ Cleanup(w) \/ RestartWorker(w)
  BY <1>6, Zenon DEF Dequeue, ClaimLost, LoadJob, LoadFailed, FinishExecution, Cleanup,
     RestartWorker, storeVars
<1>. QED
  BY <1>1, <1>2, <1>3, <1>4, <1>5, <1>6, Zenon DEF WorkerNext, WorkerStep

\* Where a worker's own step leaves it.
LEMMA WorkerMoves ==
  ASSUME WorkerTypeOK, NEW w \in Workers, WorkerNext(w)
  PROVE  /\ \A v \in Workers \ {w} : worker'[v] = worker[v]
         /\ Working(w)' =>
              \/ /\ Working(w) /\ worker'[w].job = worker[w].job
                 /\ worker'[w].token = worker[w].token
              \/ /\ At(w, "dequeued") /\ worker'[w].job = worker[w].job
                 /\ worker'[w].token \in Tokens
                 /\ TryClaim(worker[w].job, worker'[w].token)
<1> USE DEF At, Working, Holding
<1>1. CASE ClaimWon(w)
  BY <1>1, BusyWorker DEF ClaimWon, WorkerTypeOK, Busy
<1>2. CASE \E pc \in {"loaded", "executing", "succeeded", "errored"} : Working(w) /\ Goto(w, pc)
  BY <1>2, BusyWorker DEF Goto, WorkerTypeOK, Busy
<1>3. CASE \E pc \in {"completing", "cleanup"} : worker[w].pc \in Holding /\ Goto(w, pc)
  BY <1>3, BusyWorker DEF Goto, WorkerTypeOK, Busy
<1>4. CASE Heartbeat(w)
  BY <1>4, Zenon DEF Heartbeat, workerVars
<1>5. ASSUME NEW r, worker' = [worker EXCEPT ![w] = r], r.pc \in {"idle", "stopped", "dequeued"}
      PROVE  (\A v \in Workers \ {w} : worker'[v] = worker[v]) /\ ~Working(w)'
  BY <1>5, Zenon DEF WorkerTypeOK
<1>6. CASE \/ ClaimLost(w) \/ ClaimErrored(w) \/ LoadFailed(w) \/ Cleanup(w)
           \/ RestartWorker(w) \/ CrashWorker(w) \/ TerminateWorker(w)
  <2>1. worker' = [worker EXCEPT ![w] = Idle] \/ worker' = [worker EXCEPT ![w] = Stopped]
    BY <1>6, Zenon
    DEF ClaimLost, ClaimErrored, LoadFailed, Cleanup, RestartWorker, CrashWorker,
        TerminateWorker, Halt, Return
  <2>. QED
    BY <1>5, <2>1, Zenon DEF Idle, Stopped
<1>7. CASE Dequeue(w)
  <2>1. CASE UNCHANGED workerVars
    BY <1>7, <2>1, Zenon DEF Dequeue, workerVars
  <2>2. ASSUME NEW k \in Keys,
               worker' = [worker EXCEPT ![w] =
                            [pc |-> "dequeued", job |-> Head(queues[k]), token |-> NoToken]]
        PROVE  (\A v \in Workers \ {w} : worker'[v] = worker[v]) /\ ~Working(w)'
    <3>1. [pc |-> "dequeued", job |-> Head(queues[k]), token |-> NoToken].pc = "dequeued"
      BY Zenon
    <3>. QED
      BY <1>5, <2>2, <3>1, Zenon
  <2>. QED
    BY <1>7, <2>1, <2>2, Zenon DEF Dequeue
<1>8. CASE LoadJob(w) \/ StartExecution(w) \/ FinishExecution(w)
  BY <1>2, <1>8, Zenon DEF LoadJob, StartExecution, FinishExecution
<1>9. CASE RecordSuccess(w) \/ RecordRun(w) \/ RecordFailure(w)
  BY <1>3, <1>9, Zenon DEF RecordSuccess, RecordRun, RecordFailure
<1>. QED
  BY <1>1, <1>4, <1>6, <1>7, <1>8, <1>9, Zenon DEF WorkerNext, WorkerStep

\* A worker's step spares the claims of the others and keeps its own until it has
\* recorded the result.
LEMMA WorkerSpares ==
  ASSUME ExclusiveInv, NEW w \in Workers, WorkerNext(w)
  PROVE  HoldersFenced'
<1>1. StoreTypeOK /\ WorkerTypeOK /\ ClaimsOwned /\ HoldersFenced
  BY Zenon DEF ExclusiveInv, SystemInv, TypeOK
<1>2. /\ \A v \in Workers \ {w} : worker'[v] = worker[v]
      /\ Working(w)' =>
           \/ /\ Working(w) /\ worker'[w].job = worker[w].job
              /\ worker'[w].token = worker[w].token
           \/ /\ At(w, "dequeued") /\ worker'[w].job = worker[w].job
              /\ worker'[w].token \in Tokens
              /\ TryClaim(worker[w].job, worker'[w].token)
  BY <1>1, WorkerMoves, Zenon
<1>3. worker[w].pc \in Holding \cup {"dequeued"} => worker[w].job \in JobIds
  BY <1>1, BusyWorker, Zenon DEF Holding, Busy
<1>4. ASSUME NEW v \in Workers \ {w}, Working(v)
      PROVE  ClaimStands(worker[v].job, worker[v].token)'
  <2>1. worker[v].job \in JobIds /\ worker[v].token \in Tokens
    BY <1>1, <1>4, HolderFacts, Zenon DEF Working
  <2>2. PICK j \in JobIds, c \in Tokens : j = worker[v].job /\ c = worker[v].token
    BY <2>1, Zenon
  <2>3. ClaimStands(j, c) /\ worker'[v] = worker[v]
    BY <1>1, <1>2, <1>4, <2>2, Zenon DEF HoldersFenced
  <2>4. worker[w].pc \in Holding => worker[w].token \in Tokens \ {c}
    BY <1>1, <1>4, <2>2, HolderFacts, Zenon DEF ClaimsOwned, Working
  <2>5. CASE UNCHANGED jobs
    BY <2>2, <2>3, <2>5, Zenon DEF ClaimStands, Fenced
  <2>6. CASE worker[w].pc \in Holding \cup {"dequeued"}
    <3>1. PICK i \in JobIds : i = worker[w].job
      BY <1>3, <2>6, Zenon
    <3>2. \/ UNCHANGED jobs
          \/ \E d \in Tokens : TryClaim(i, d) \/ MarkRunning(i, d) \/ ExtendDeadline(i, d)
          \/ \E d \in Tokens \ {c} :
               CompleteJob(i, d) \/ \E n \in {"null", "due", "future"} : FailJob(i, d, n)
      BY <1>1, <2>4, <3>1, WorkerWrites, Zenon
    <3>3. ClaimStands(j, c)' \/ UNCHANGED jobs
      BY <1>1, <2>3, <3>2, OthersSpareClaim, Zenon
    <3>. QED
      BY <2>2, <2>3, <2>5, <3>3, Zenon
  <2>. QED
    BY <1>1, <2>5, <2>6, WorkerWrites, Zenon DEF At
<1>5. ASSUME Working(w)'
      PROVE  ClaimStands(worker[w].job, worker[w].token)'
  <2>1. CASE At(w, "dequeued") /\ TryClaim(worker[w].job, worker'[w].token)
    BY <1>1, <1>2, <1>3, <1>5, <2>1
    DEF TryClaim, ClaimStands, Fenced, InFlight, StoreTypeOK, Row, Absent, At, Working, Holding
  <2>2. CASE Working(w) /\ worker'[w].job = worker[w].job /\ worker'[w].token = worker[w].token
    <3>1. worker[w].job \in JobIds /\ worker[w].token \in Tokens
      BY <1>1, <2>2, HolderFacts, Zenon DEF Working
    <3>2. PICK j \in JobIds, c \in Tokens : j = worker[w].job /\ c = worker[w].token
      BY <3>1, Zenon
    <3>3. ClaimStands(j, c)
      BY <1>1, <2>2, <3>2, Zenon DEF HoldersFenced
    <3>4. worker'[w].pc \notin {"completing", "cleanup"} /\ ~At(w, "dequeued")
      BY <1>5, <2>2, Zenon DEF Working, Holding, At
    <3>5. ClaimStands(j, c)' \/ UNCHANGED jobs
      BY <1>1, <3>2, <3>3, <3>4, WorkerWrites, OthersSpareClaim, Zenon
    <3>6. ClaimStands(j, c)'
      BY <3>3, <3>5, Zenon DEF ClaimStands, Fenced
    <3>. QED
      BY <2>2, <3>2, <3>6, Zenon
  <2>. QED
    BY <1>2, <1>5, <2>1, <2>2, Zenon
<1>. QED
  BY <1>2, <1>4, <1>5, Zenon DEF HoldersFenced, Working

--------------------------------------------------------------------------------
\* The statements of everyone who is not a worker, given that nobody force-fails
\* a job and that no deadline passes while the claim's worker is alive.
LEMMA OthersWrite ==
  ASSUME SystemInv, ~MayStall, MaxRequests = 0,
         \/ \E s \in Schedulers : SchedNext(s)
         \/ LeaseExpires \/ ApiNext
         \/ \E i \in JobIds : Clock(i)
  PROVE  \/ UNCHANGED jobs
         \/ \E i \in JobIds :
              \/ RequeueStaleJob(i) \/ MoveToDeadLetter(i)
              \/ \E t \in Tenants : CancelJob(i, t) \/ ReplayJob(i, t)
              \/ PromoteScheduledToPending(i) \/ PromoteFailedToPending(i) \/ RunAtPasses(i)
              \/ \E row : InsertJob(i, row)
              \/ DeadlinePasses(i) /\ ~Held(i)
<1> USE DEF storeVars
<1>1. ASSUME NEW s \in Schedulers, runDuePoll(s) \/ runStaleReaper(s)
      PROVE  \/ UNCHANGED jobs
             \/ \E i \in JobIds : \/ RequeueStaleJob(i) \/ PromoteScheduledToPending(i)
                                  \/ PromoteFailedToPending(i)
  BY <1>1, Zenon
  DEF runDuePoll, runStaleReaper, pollScheduledJobs, pollFailedJobs, reapStaleClaims, Poll,
      PromoteOne, Promote, ReapOne, EnqueueHeld
<1>2. ASSUME NEW s \in Schedulers, runDeadLetterPromoter(s) \/ runPendingReconciler(s)
      PROVE  UNCHANGED jobs \/ \E i \in JobIds : MoveToDeadLetter(i)
  BY <1>2, Zenon
  DEF runDeadLetterPromoter, runPendingReconciler, promoteDeadJobs, reconcilePending, Poll,
      MoveOne, ReconcileOne
<1>3. ASSUME NEW s \in Schedulers,
             Campaign(s) \/ NoticeLoss(s) \/ CrashScheduler(s) \/ TerminateScheduler(s)
      PROVE  UNCHANGED jobs
  BY <1>3, Zenon DEF Campaign, NoticeLoss, CrashScheduler, TerminateScheduler, Quit
<1>4. CASE LeaseExpires
  BY <1>4, Zenon DEF LeaseExpires
<1>5. CASE ApiNext
  <2>1. ~Request
    BY DEF SystemInv, TypeOK, ApiTypeOK, Request
  <2>. QED
    BY <1>5, <2>1, Zenon
    DEF ApiNext, handleSubmitJob, handleCancelJob, handleReplayJob, ApiEnqueue, CliReplayCheck,
        CliReplayReset, CliEnqueue, cmdForceFail, cmdDrain
<1>6. ASSUME NEW i \in JobIds, Clock(i)
      PROVE  RunAtPasses(i) \/ (DeadlinePasses(i) /\ ~Held(i))
  BY <1>6, Zenon DEF Clock
<1>. QED
  BY <1>1, <1>2, <1>3, <1>4, <1>5, <1>6, ZenonT(30) DEF SchedNext

\* Nothing that happens outside the workers ends a worker's claim.
LEMMA OthersSpare ==
  ASSUME ExclusiveInv, ~MayStall, MaxRequests = 0, UNCHANGED worker,
         \/ \E s \in Schedulers : SchedNext(s)
         \/ LeaseExpires \/ ApiNext
         \/ \E i \in JobIds : Clock(i)
  PROVE  HoldersFenced'
<1>1. StoreTypeOK /\ WorkerTypeOK /\ ClaimsOwned /\ HoldersFenced
  BY Zenon DEF ExclusiveInv, SystemInv, TypeOK
<1>2. SUFFICES ASSUME NEW w \in Workers, Working(w)
               PROVE  ClaimStands(worker[w].job, worker[w].token)'
  BY Zenon DEF HoldersFenced, Working
<1>3. worker[w].job \in JobIds /\ worker[w].token \in Tokens
  BY <1>1, <1>2, HolderFacts, Zenon DEF Working
<1>4. PICK j \in JobIds, c \in Tokens : j = worker[w].job /\ c = worker[w].token
  BY <1>3, Zenon
<1>5. ClaimStands(j, c)
  BY <1>1, <1>2, <1>4, Zenon DEF HoldersFenced
<1>6. CASE UNCHANGED jobs
  BY <1>4, <1>5, <1>6, Zenon DEF ClaimStands, Fenced
<1>7. ASSUME NEW i \in JobIds, DeadlinePasses(i), ~Held(i)
      PROVE  ClaimStands(j, c)'
  <2>1. i # j
    BY <1>2, <1>4, <1>5, <1>7, Zenon DEF Held, Working, ClaimStands, Fenced
  <2>. QED
    BY <1>1, <1>5, <1>7, <2>1, Zenon DEF DeadlinePasses, ClaimStands, Fenced, StoreTypeOK
<1>8. ClaimStands(j, c)' \/ UNCHANGED jobs
  BY <1>1, <1>5, <1>7, OthersWrite, OthersSpareClaim, Zenon DEF ExclusiveInv
<1>. QED
  BY <1>4, <1>6, <1>8, Zenon

\* The invariant is inductive.
LEMMA ExclusiveStep ==
  ASSUME ~MayStall, MaxRequests = 0
  PROVE  ExclusiveInv /\ [Next]_vars => ExclusiveInv'
<1> SUFFICES ASSUME ExclusiveInv, [Next]_vars
             PROVE  HoldersFenced'
  BY SystemInvStep, Zenon DEF ExclusiveInv
<1>1. ASSUME NEW w \in Workers, WorkerNext(w)
      PROVE  HoldersFenced'
  BY <1>1, WorkerSpares, Zenon
<1>2. CASE \/ \E s \in Schedulers : SchedNext(s) /\ UNCHANGED <<workerVars, apiVars>>
           \/ LeaseExpires /\ UNCHANGED <<workerVars, apiVars>>
           \/ ApiNext /\ UNCHANGED <<workerVars, schedVars>>
           \/ \E j \in JobIds : Clock(j)
  <2>1. UNCHANGED worker
    BY <1>2, Zenon DEF workerVars, Clock
  <2>. QED
    BY <1>2, <2>1, OthersSpare, Zenon
<1>3. CASE UNCHANGED vars
  BY <1>3, Zenon DEF vars, storeVars, workerVars, ExclusiveInv, HoldersFenced, Working, ClaimStands, Fenced
<1>. QED
  BY <1>1, <1>2, <1>3, Zenon DEF Next

\* A row names one token, and a job between the two statements of CompleteJob has
\* succeeded, for one run: two holders of one job are the same worker.
LEMMA FencedIsExclusive == ExclusiveInv => ExclusiveExecution
<1> SUFFICES ASSUME ExclusiveInv, NEW v \in Workers, NEW w \in Workers,
                    worker[v].pc \in Holding, worker[w].pc \in Holding,
                    worker[v].job = worker[w].job, v # w
             PROVE  FALSE
  BY Zenon DEF ExclusiveExecution
<1>1. SuccessOnce /\ WorkerTypeOK /\ ClaimsOwned /\ HoldersFenced
  BY Zenon DEF ExclusiveInv, SystemInv, StoreInv, TypeOK
<1>2. worker[v].token # worker[w].token
  BY <1>1, Zenon DEF ClaimsOwned
<1>3. CASE Working(v) /\ Working(w)
  BY <1>1, <1>2, <1>3, Zenon DEF HoldersFenced, ClaimStands, Fenced
<1>4. ASSUME NEW u \in Workers, At(u, "completing")
      PROVE  /\ worker[u].token \in Accepted
             /\ runs[worker[u].token].job = worker[u].job
             /\ jobs[worker[u].job].state = "succeeded"
  <2>1. worker[u].pc \in Holding
    BY <1>4, Zenon DEF Holding, At
  <2>2. /\ worker[u].token \in Tokens /\ worker[u].token \in completing
        /\ runs[worker[u].token].job = worker[u].job
    BY <1>1, <1>4, <2>1, HolderFacts, Zenon
  <2>3. worker[u].token \in Accepted
    BY <2>2, Zenon DEF Accepted
  <2> QED
    BY <1>1, <2>2, <2>3, Zenon DEF SuccessOnce
<1>5. CASE At(v, "completing") /\ At(w, "completing")
  <2>1. /\ worker[v].token \in Accepted /\ worker[w].token \in Accepted
        /\ runs[worker[v].token].job = runs[worker[w].token].job
    BY <1>4, <1>5, Zenon
  <2> QED
    BY <1>1, <1>2, <2>1, Zenon DEF SuccessOnce
<1>6. ASSUME NEW u \in Workers, Working(u)
      PROVE  jobs[worker[u].job].state # "succeeded"
  BY <1>1, <1>6, Zenon DEF HoldersFenced, ClaimStands, Fenced, InFlight
<1>7. Working(v) \/ At(v, "completing")
  BY Zenon DEF Working, At
<1>8. Working(w) \/ At(w, "completing")
  BY Zenon DEF Working, At
<1>. QED
  BY <1>3, <1>4, <1>5, <1>6, <1>7, <1>8, Zenon

\* With heartbeats that arrive in time and no operator at work, for every number
\* of workers, schedulers, jobs and faults: no two workers are at work on one job
\* at once.  Stale snapshots, second leaders, duplicate entries, claims committed
\* without an answer and crashes never make TryClaim hand out a job that is held.
THEOREM WorkersAreExclusive ==
  ASSUME ~MayStall, MaxRequests = 0
  PROVE  Spec => []ExclusiveExecution
<1>1. Init => ExclusiveInv
  BY SystemInvInit
  DEF ExclusiveInv, HoldersFenced, Working, Init, WorkerInit, Idle, Holding
<1>. QED
  BY <1>1, ExclusiveStep, FencedIsExclusive, PTL DEF Spec
================================================================================
