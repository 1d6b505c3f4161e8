------------------------------ MODULE SluiceProofs -----------------------------
(***************************************************************************)
(* Proofs about the composed system, for any number of jobs, workers,      *)
(* schedulers and faults: it implements the tables of JobStore, so that    *)
(* everything proved of the tables holds of the system.                    *)
(***************************************************************************)
EXTENDS Sluice, JobStoreProofs

\* The inductive invariant of the system.
SystemInv == TypeOK /\ StoreInv /\ ClaimsOwned

\* What a step keeps of the runs and of the half-done completions.
Keeps ==
  /\ \A c \in Tokens : runs[c] # NoRun => runs'[c] # NoRun /\ runs'[c].job = runs[c].job
  /\ completing \subseteq completing'

\* A worker that is neither idle nor stopped has a job and a token or none.
LEMMA BusyWorker ==
  ASSUME WorkerTypeOK, NEW w \in Workers, worker[w].pc \notin {"idle", "stopped"}
  PROVE  worker[w] \in Busy
BY DEF WorkerTypeOK, Idle, Stopped

\* Every statement on a job, and both ends of a completion, is a step of the
\* tables.
LEMMA Statements ==
  ASSUME NEW j \in JobIds
  PROVE  /\ \A c \in Tokens : TryClaim(j, c) => StoreNext
         /\ \A c \in Tokens :
              runs[c] # NoRun /\ runs[c].job = j =>
                /\ MarkRunning(j, c) => StoreNext
                /\ ExtendDeadline(j, c) => StoreNext
                /\ CompleteJob(j, c) => StoreNext
                /\ \A n \in {"null", "due", "future"} : FailJob(j, c, n) => StoreNext
         /\ \A c \in Tokens : CompleteRun(c) \/ AbandonRun(c) => StoreNext
         /\ RequeueStaleJob(j) \/ MoveToDeadLetter(j) \/ ForceFail(j) => StoreNext
         /\ PromoteScheduledToPending(j) \/ PromoteFailedToPending(j) => StoreNext
         /\ DeadlinePasses(j) \/ RunAtPasses(j) => StoreNext
         /\ \A t \in Tenants : CancelJob(j, t) \/ ReplayJob(j, t) => StoreNext
         /\ \A t \in Tenants, p \in Priorities, k \in IdemKeys \cup {NoKey},
               mr \in RetryLimits, ra \in {"future", "due"} :
              InsertJob(j, NewJob(t, p, k, mr, ra)) => StoreNext
BY Zenon DEF StoreNext, JobStatement, WorkerStatement

\* No statement on a job takes a run away from its job.
LEMMA JobStatementKeeps ==
  ASSUME StoreTypeOK, NEW j \in JobIds, JobStatement(j)
  PROVE  Keeps
<1>1. ASSUME NEW c \in Tokens, TryClaim(j, c)
      PROVE  Keeps
  BY <1>1, Zenon DEF TryClaim, Keeps, StoreTypeOK, NoRun
<1>2. ASSUME NEW c \in Tokens, WorkerStatement(j, c)
      PROVE  Keeps
  <2>1. CASE MarkRunning(j, c)
    BY <2>1, Zenon DEF MarkRunning, Keeps
  <2>2. CASE ExtendDeadline(j, c)
    BY <2>2, Zenon DEF ExtendDeadline, Keeps
  <2>3. CASE CompleteJob(j, c)
    BY <2>3, Zenon DEF CompleteJob, Keeps
  <2>4. ASSUME NEW n \in {"null", "due", "future"}, FailJob(j, c, n)
        PROVE  Keeps
    <3>1. runs[c] \in Run
      BY <1>2, Zenon DEF WorkerStatement, StoreTypeOK
    <3>. QED
      BY <2>4, <3>1, Zenon DEF FailJob, Keeps, StoreTypeOK, Run, NoRun, FailState
  <2>. QED
    BY <1>2, <2>1, <2>2, <2>3, <2>4, Zenon DEF WorkerStatement
<1>3. CASE RequeueStaleJob(j)
  BY <1>3, Zenon DEF RequeueStaleJob, Keeps, StoreTypeOK, Run, NoRun
<1>4. CASE UNCHANGED <<runs, completing>>
  BY <1>4, Zenon DEF Keeps
<1>. QED
  BY <1>1, <1>2, <1>3, <1>4, Zenon
  DEF JobStatement, InsertJob, MoveToDeadLetter, CancelJob, ReplayJob, ForceFail,
      PromoteScheduledToPending, PromoteFailedToPending, DeadlinePasses, RunAtPasses

\* ClaimsOwned when one worker moves: its token is the one it had or is new, and
\* no other worker's completion is ended.
LEMMA OwnedWhenOneMoves ==
  ASSUME ClaimsOwned, NEW w \in Workers,
         \A v \in Workers \ {w} : worker'[v] = worker[v],
         \A c \in Tokens : runs[c] # NoRun => runs'[c] # NoRun /\ runs'[c].job = runs[c].job,
         \A v \in Workers \ {w} : At(v, "completing") => worker[v].token \in completing',
         worker'[w].pc \in Holding =>
           /\ worker'[w].token \in Tokens
           /\ runs'[worker'[w].token] # NoRun
           /\ runs'[worker'[w].token].job = worker'[w].job
           /\ worker'[w].pc = "completing" => worker'[w].token \in completing'
           /\ \/ worker[w].pc \in Holding /\ worker'[w].token = worker[w].token
              \/ runs[worker'[w].token] = NoRun
  PROVE  ClaimsOwned'
BY DEF ClaimsOwned, At

\* The token and run of a worker that holds a claim.
LEMMA HolderFacts ==
  ASSUME ClaimsOwned, WorkerTypeOK, NEW w \in Workers, worker[w].pc \in Holding
  PROVE  /\ worker[w] \in Busy
         /\ worker[w].job \in JobIds
         /\ worker[w].token \in Tokens
         /\ runs[worker[w].token] # NoRun
         /\ runs[worker[w].token].job = worker[w].job
         /\ At(w, "completing") => worker[w].token \in completing
<1>1. worker[w] \in Busy
  BY BusyWorker, Zenon DEF Holding
<1>. QED
  BY <1>1, Zenon DEF ClaimsOwned, Busy

\* A worker's step is a step of the tables or leaves them alone.
LEMMA WorkerStore ==
  ASSUME SystemInv, NEW w \in Workers, WorkerNext(w)
  PROVE  StoreNext \/ UNCHANGED storeVars
<1>1. WorkerTypeOK /\ ClaimsOwned
  BY Zenon DEF SystemInv, TypeOK
<1>2. CASE At(w, "dequeued")
  <2>1. worker[w].job \in JobIds
    BY <1>1, <1>2, BusyWorker, Zenon DEF At, Busy
  <2>. QED
    BY <1>2, <2>1, Statements, Zenon
    DEF WorkerNext, WorkerStep, Dequeue, ClaimWon, ClaimLost, ClaimErrored, LoadJob, LoadFailed,
        StartExecution, FinishExecution, RecordSuccess, RecordRun, RecordFailure, Cleanup,
        RestartWorker, Heartbeat, CrashWorker, TerminateWorker, Halt, At
<1>3. CASE worker[w].pc \in Holding
  <2>1. /\ worker[w].job \in JobIds
        /\ worker[w].token \in Tokens
        /\ runs[worker[w].token] # NoRun
        /\ runs[worker[w].token].job = worker[w].job
    BY <1>1, <1>3, HolderFacts, Zenon
  <2>2. CASE StartExecution(w)
    BY <2>1, <2>2, Statements, Zenon DEF StartExecution, NoEffect
  <2>3. CASE Heartbeat(w)
    BY <2>1, <2>3, Statements, Zenon DEF Heartbeat
  <2>4. CASE RecordSuccess(w)
    BY <2>1, <2>4, Statements, Zenon DEF RecordSuccess, NoEffect
  <2>5. CASE RecordRun(w)
    BY <2>1, <2>5, Statements, Zenon DEF RecordRun
  <2>6. CASE RecordFailure(w)
    BY <2>1, <2>6, Statements, Zenon DEF RecordFailure, NoEffect
  <2>7. CASE CrashWorker(w) \/ TerminateWorker(w)
    BY <2>1, <2>7, Statements, Zenon DEF CrashWorker, TerminateWorker, Halt
  <2>. QED
    BY <1>3, <2>2, <2>3, <2>4, <2>5, <2>6, <2>7, Zenon
    DEF WorkerNext, WorkerStep, Dequeue, ClaimWon, ClaimLost, ClaimErrored, LoadJob, LoadFailed,
        FinishExecution, Cleanup, RestartWorker, At, Holding
<1>4. CASE worker[w].pc \in {"idle", "stopped", "cleanup"}
  BY <1>4, Zenon
  DEF WorkerNext, WorkerStep, Dequeue, ClaimWon, ClaimLost, ClaimErrored, LoadJob, LoadFailed,
      StartExecution, FinishExecution, RecordSuccess, RecordRun, RecordFailure, Cleanup,
      RestartWorker, Heartbeat, CrashWorker, TerminateWorker, Halt, At
<1>5. worker[w].pc \in Holding \cup {"idle", "stopped", "cleanup", "dequeued"}
  BY <1>1 DEF WorkerTypeOK, Busy, Idle, Stopped, Holding
<1>. QED
  BY <1>2, <1>3, <1>4, <1>5, Zenon DEF At

--------------------------------------------------------------------------------
(* Types of the queues and of the fault counter *)

\* LPUSH of a job id keeps the queues' type, and it counts its fault.
LEMMA EnqueueTypes ==
  ASSUME QueueTypeOK, FaultsTypeOK, NEW j \in JobIds, Enqueue(j)
  PROVE  QueueTypeOK' /\ FaultsTypeOK'
<1> DEFINE k == KeyOf(j)
<1>1. processing' = processing
  BY Zenon DEF Enqueue
<1>2. CASE queues' = [queues EXCEPT ![k] = Append(@, j)] /\ NoFault
  <2>1. ASSUME k \in Keys
        PROVE  Append(queues[k], j) \in Seq(JobIds)
    BY <2>1 DEF QueueTypeOK
  <2> HIDE DEF k
  <2>2. queues' \in [Keys -> Seq(JobIds)]
    BY <1>2, <2>1, Zenon DEF QueueTypeOK
  <2>. QED
    BY <1>1, <1>2, <2>2, Zenon DEF QueueTypeOK, FaultsTypeOK, NoFault
<1>3. CASE Fault("redis") /\ UNCHANGED queues
  BY <1>1, <1>3 DEF QueueTypeOK, FaultsTypeOK, Fault
<1>. QED
  BY <1>2, <1>3, Zenon DEF Enqueue

\* LMOVE yields a job id and keeps the types of the lists.
LEMMA MoveTypes ==
  ASSUME QueueTypeOK, NEW w \in Workers, NEW k \in Keys, Move(w, k)
  PROVE  Head(queues[k]) \in JobIds /\ QueueTypeOK'
<1>1. queues[k] \in Seq(JobIds) /\ queues[k] # <<>>
  BY Zenon DEF QueueTypeOK, Move
<1>2. Head(queues[k]) \in JobIds /\ Tail(queues[k]) \in Seq(JobIds)
  BY <1>1
<1>3. queues' \in [Keys -> Seq(JobIds)]
  BY <1>2, Zenon DEF QueueTypeOK, Move
<1>4. processing' \in [Workers -> SUBSET JobIds]
  BY <1>2, Zenon DEF QueueTypeOK, Move
<1>. QED
  BY <1>2, <1>3, <1>4, Zenon DEF QueueTypeOK

\* LREM keeps the types of the lists.
LEMMA RemoveTypes ==
  ASSUME QueueTypeOK, FaultsTypeOK, NEW w \in Workers, NEW j \in JobIds,
         RemoveFromProcessing(w, j)
  PROVE  QueueTypeOK' /\ FaultsTypeOK'
BY DEF RemoveFromProcessing, QueueTypeOK, FaultsTypeOK, NoFault, Fault

\* A step without a fault, or with one, keeps the counter's type.
LEMMA FaultTypes ==
  ASSUME FaultsTypeOK
  PROVE  /\ NoFault => FaultsTypeOK'
         /\ \A kind \in {"crash", "terminate", "redis", "db", "lease", "drain"} :
              Fault(kind) => FaultsTypeOK'
BY DEF FaultsTypeOK, NoFault, Fault

--------------------------------------------------------------------------------
\* A worker's step keeps the types of queues, faults and workers.
LEMMA WorkerTypes ==
  ASSUME SystemInv, NEW w \in Workers, WorkerNext(w)
  PROVE  QueueTypeOK' /\ FaultsTypeOK' /\ WorkerTypeOK'
<1>1. QueueTypeOK /\ FaultsTypeOK /\ WorkerTypeOK /\ ClaimsOwned
  BY Zenon DEF SystemInv, TypeOK
<1>2. CASE Dequeue(w)
  <2>1. FaultsTypeOK'
    BY <1>1, <1>2, FaultTypes, Zenon DEF Dequeue
  <2>2. ASSUME NEW k \in Keys, Move(w, k)
        PROVE  Head(queues[k]) \in JobIds /\ QueueTypeOK'
    BY <1>1, <2>2, MoveTypes, Zenon
  <2>3. ASSUME NEW k \in Keys, Move(w, k),
               worker' = [worker EXCEPT ![w] =
                            [pc |-> "dequeued", job |-> Head(queues[k]), token |-> NoToken]]
        PROVE  WorkerTypeOK'
    <3>1. [pc |-> "dequeued", job |-> Head(queues[k]), token |-> NoToken] \in Busy
      BY <2>2, <2>3, Zenon DEF Busy
    <3>. QED
      BY <1>1, <2>3, <3>1, Zenon DEF WorkerTypeOK
  <2>4. ASSUME UNCHANGED workerVars PROVE WorkerTypeOK'
    BY <1>1, <2>4, Zenon DEF WorkerTypeOK, workerVars
  <2>5. ASSUME UNCHANGED queueVars PROVE QueueTypeOK'
    BY <1>1, <2>5, Zenon DEF QueueTypeOK, queueVars
  <2>. QED
    BY <1>2, <2>1, <2>2, <2>3, <2>4, <2>5, Zenon DEF Dequeue
<1>3. CASE ClaimWon(w)
  <2>1. worker[w] \in Busy
    BY <1>1, <1>3, BusyWorker, Zenon DEF ClaimWon, At
  <2>2. PICK c \in Tokens :
          worker' = [worker EXCEPT ![w] = [@ EXCEPT !.pc = "claimed", !.token = c]]
    BY <1>3, Zenon DEF ClaimWon
  <2>3. [worker[w] EXCEPT !.pc = "claimed", !.token = c] \in Busy
    BY <2>1, Zenon DEF Busy
  <2>4. WorkerTypeOK'
    BY <1>1, <1>3, <2>2, <2>3, Zenon DEF ClaimWon, WorkerTypeOK
  <2>. QED
    BY <1>1, <1>3, <2>4, FaultTypes, Zenon DEF ClaimWon, QueueTypeOK, queueVars
<1>4. CASE ClaimLost(w) \/ Cleanup(w)
  <2>1. worker[w].job \in JobIds
    BY <1>1, <1>4, BusyWorker, Zenon DEF ClaimLost, Cleanup, At, Busy
  <2>2. WorkerTypeOK'
    BY <1>1, <1>4, Zenon DEF ClaimLost, Cleanup, WorkerTypeOK, Return
  <2>. QED
    BY <1>1, <1>4, <2>1, <2>2, RemoveTypes, Zenon DEF ClaimLost, Cleanup
<1>5. CASE ClaimErrored(w) \/ RestartWorker(w)
  <2>1. WorkerTypeOK'
    BY <1>1, <1>5, Zenon DEF ClaimErrored, RestartWorker, WorkerTypeOK, Return
  <2>2. QueueTypeOK'
    BY <1>1, <1>5, Zenon DEF ClaimErrored, RestartWorker, QueueTypeOK
  <2>. QED
    BY <1>1, <1>5, <2>1, <2>2, FaultTypes, Zenon DEF ClaimErrored, RestartWorker
<1>6. CASE LoadFailed(w) \/ CrashWorker(w) \/ TerminateWorker(w)
  <2>1. WorkerTypeOK' /\ QueueTypeOK'
    BY <1>1, <1>6, Zenon
    DEF LoadFailed, CrashWorker, TerminateWorker, Halt, WorkerTypeOK, Return, QueueTypeOK, queueVars
  <2>. QED
    BY <1>1, <1>6, <2>1, FaultTypes, Zenon DEF LoadFailed, CrashWorker, TerminateWorker
<1>7. ASSUME \/ LoadJob(w) \/ StartExecution(w) \/ FinishExecution(w) \/ RecordSuccess(w)
             \/ RecordRun(w) \/ RecordFailure(w)
      PROVE  QueueTypeOK' /\ FaultsTypeOK' /\ WorkerTypeOK'
  <2>1. worker[w] \in Busy
    BY <1>1, <1>7, BusyWorker, Zenon
    DEF LoadJob, StartExecution, FinishExecution, RecordSuccess, RecordRun, RecordFailure, At
  <2>2. PICK pc \in {"loaded", "executing", "succeeded", "errored", "completing", "cleanup"} :
          worker' = [worker EXCEPT ![w].pc = pc]
    BY <1>7, Zenon
    DEF LoadJob, StartExecution, FinishExecution, RecordSuccess, RecordRun, RecordFailure, Goto
  <2>3. WorkerTypeOK'
    BY <1>1, <2>1, <2>2, Zenon DEF WorkerTypeOK, Busy
  <2>4. QueueTypeOK'
    BY <1>1, <1>7, Zenon
    DEF LoadJob, StartExecution, FinishExecution, RecordSuccess, RecordRun, RecordFailure,
        QueueTypeOK, queueVars
  <2>. QED
    BY <1>1, <1>7, <2>3, <2>4, FaultTypes, Zenon
    DEF LoadJob, StartExecution, FinishExecution, RecordSuccess, RecordRun, RecordFailure, NoEffect
<1>8. CASE Heartbeat(w)
  BY <1>1, <1>8, FaultTypes, Zenon DEF Heartbeat, WorkerTypeOK, workerVars, QueueTypeOK, queueVars
<1>. QED
  BY <1>2, <1>3, <1>4, <1>5, <1>6, <1>7, <1>8, Zenon DEF WorkerNext, WorkerStep

--------------------------------------------------------------------------------
\* No step of the tables takes a run away from its job.
LEMMA RunsKept ==
  ASSUME StoreInv, [StoreNext]_storeVars, NEW c \in Tokens, runs[c] # NoRun
  PROVE  runs'[c] # NoRun /\ runs'[c].job = runs[c].job
<1>1. ASSUME NEW j \in JobIds, JobStatement(j)
      PROVE  runs'[c] # NoRun /\ runs'[c].job = runs[c].job
  BY <1>1, JobStatementKeeps, Zenon DEF StoreInv, Keeps
<1>2. ASSUME NEW d \in Tokens, CompleteRun(d)
      PROVE  runs'[c] # NoRun /\ runs'[c].job = runs[c].job
  BY <1>2, Zenon DEF CompleteRun, StoreInv, StoreTypeOK, Run, NoRun
<1>3. CASE UNCHANGED runs
  BY <1>3, Zenon
<1>. QED
  BY <1>1, <1>2, <1>3, Zenon DEF StoreNext, storeVars, AbandonRun

\* A worker's step ends no completion but its own.
LEMMA OthersComplete ==
  ASSUME SystemInv, NEW w \in Workers, WorkerNext(w), NEW v \in Workers \ {w}, At(v, "completing")
  PROVE  worker[v].token \in completing'
<1>1. worker[v].token \in completing
  BY Zenon DEF SystemInv, ClaimsOwned, At, Holding
<1>2. CASE At(w, "completing")
  <2>1. worker[v].token # worker[w].token
    BY <1>2, Zenon DEF SystemInv, ClaimsOwned, At, Holding
  <2>. QED
    BY <1>1, <1>2, <2>1, Zenon
    DEF WorkerNext, WorkerStep, Dequeue, ClaimWon, ClaimLost, ClaimErrored, LoadJob, LoadFailed,
        StartExecution, FinishExecution, RecordSuccess, RecordRun, RecordFailure, Cleanup,
        RestartWorker, Heartbeat, CrashWorker, TerminateWorker, Halt, At, CompleteRun, AbandonRun
<1>3. CASE ~At(w, "completing")
  <2>1. CASE UNCHANGED storeVars
    BY <1>1, <2>1, Zenon DEF storeVars
  <2>2. ASSUME NEW c, TryClaim(worker[w].job, c)
        PROVE  worker[v].token \in completing'
    BY <1>1, <2>2, Zenon DEF TryClaim
  <2>3. ASSUME NEW j, NEW c, MarkRunning(j, c) \/ ExtendDeadline(j, c) \/ CompleteJob(j, c)
        PROVE  worker[v].token \in completing'
    BY <1>1, <2>3, Zenon DEF MarkRunning, ExtendDeadline, CompleteJob
  <2>4. ASSUME NEW j, NEW c, NEW n, FailJob(j, c, n)
        PROVE  worker[v].token \in completing'
    BY <1>1, <2>4, Zenon DEF FailJob
  <2>. QED
    BY <1>3, <2>1, <2>2, <2>3, <2>4, Zenon
    DEF WorkerNext, WorkerStep, Dequeue, ClaimWon, ClaimLost, ClaimErrored, LoadJob, LoadFailed,
        StartExecution, FinishExecution, RecordSuccess, RecordRun, RecordFailure, Cleanup,
        RestartWorker, Heartbeat, CrashWorker, TerminateWorker, Halt, NoEffect
<1>. QED
  BY <1>2, <1>3, Zenon

\* A worker's step keeps every worker's claim its own.
LEMMA WorkerOwned ==
  ASSUME SystemInv, NEW w \in Workers, WorkerNext(w)
  PROVE  ClaimsOwned'
<1>1. WorkerTypeOK /\ ClaimsOwned /\ StoreInv
  BY Zenon DEF SystemInv, TypeOK
<1>2. \A c \in Tokens : runs[c] # NoRun => runs'[c] # NoRun /\ runs'[c].job = runs[c].job
  BY <1>1, WorkerStore, RunsKept, Zenon
<1>3. \A v \in Workers \ {w} : At(v, "completing") => worker[v].token \in completing'
  BY OthersComplete, Zenon
<1>4. \A v \in Workers \ {w} : worker'[v] = worker[v]
  BY <1>1, Zenon
  DEF WorkerTypeOK, WorkerNext, WorkerStep, Dequeue, ClaimWon, ClaimLost, ClaimErrored, LoadJob,
      LoadFailed, StartExecution, FinishExecution, RecordSuccess, RecordRun, RecordFailure, Cleanup,
      RestartWorker, Heartbeat, CrashWorker, TerminateWorker, Halt, Goto, Return, workerVars
<1> DEFINE Owns ==
      worker'[w].pc \in Holding =>
        /\ worker'[w].token \in Tokens
        /\ runs'[worker'[w].token] # NoRun
        /\ runs'[worker'[w].token].job = worker'[w].job
        /\ worker'[w].pc = "completing" => worker'[w].token \in completing'
        /\ \/ worker[w].pc \in Holding /\ worker'[w].token = worker[w].token
           \/ runs[worker'[w].token] = NoRun
<1>5. ASSUME worker'[w].pc \notin Holding
      PROVE  Owns
  BY <1>5, Zenon
<1>6. ASSUME ClaimWon(w)
      PROVE  Owns
  <2>1. worker[w] \in Busy
    BY <1>1, <1>6, BusyWorker, Zenon DEF ClaimWon, At
  <2>2. PICK c \in Tokens :
          /\ TryClaim(worker[w].job, c)
          /\ worker' = [worker EXCEPT ![w] = [@ EXCEPT !.pc = "claimed", !.token = c]]
    BY <1>6, Zenon DEF ClaimWon
  <2>3. worker'[w].pc = "claimed" /\ worker'[w].token = c /\ worker'[w].job = worker[w].job
    BY <1>1, <2>1, <2>2, Zenon DEF WorkerTypeOK, Busy
  <2>4. runs[c] = NoRun /\ runs'[c] = [job |-> worker[w].job, attempt |-> jobs[worker[w].job].attempt,
                                      state |-> "claimed"]
    BY <1>1, <2>2, Zenon DEF TryClaim, StoreInv, StoreTypeOK
  <2>. QED
    BY <2>3, <2>4 DEF NoRun
<1>7. ASSUME worker[w].pc \in Holding,
             worker'[w].token = worker[w].token /\ worker'[w].job = worker[w].job,
             worker'[w].pc = "completing" => worker'[w].token \in completing'
      PROVE  Owns
  BY <1>1, <1>2, <1>7, HolderFacts, Zenon
<1>8. ASSUME LoadJob(w) \/ StartExecution(w) \/ FinishExecution(w) \/ RecordSuccess(w)
      PROVE  Owns
  <2>1. worker[w].pc \in Holding /\ worker[w] \in Busy
    BY <1>1, <1>8, HolderFacts, Zenon
    DEF LoadJob, StartExecution, FinishExecution, RecordSuccess, At, Holding
  <2>2. worker'[w].token = worker[w].token /\ worker'[w].job = worker[w].job
    BY <1>1, <1>8, <2>1
    DEF LoadJob, StartExecution, FinishExecution, RecordSuccess, Goto, WorkerTypeOK, Busy
  <2>3. worker'[w].pc = "completing" => worker[w].token \in completing'
    BY <1>1, <1>8, <2>1
    DEF LoadJob, StartExecution, FinishExecution, RecordSuccess, Goto, WorkerTypeOK, Busy, CompleteJob
  <2>. QED
    BY <1>7, <2>1, <2>2, <2>3, Zenon
<1>9. ASSUME Heartbeat(w)
      PROVE  Owns
  <2>1. worker' = worker /\ worker[w].pc \in Holding /\ worker[w].pc # "completing"
    BY <1>9, Zenon DEF Heartbeat, workerVars, Holding
  <2>. QED
    BY <1>7, <2>1, Zenon
<1>10. Owns
  <2>1. ASSUME NEW r, worker' = [worker EXCEPT ![w] = r], r.pc \notin Holding
        PROVE  Owns
    <3>1. worker'[w] = r
      BY <1>1, <2>1, Zenon DEF WorkerTypeOK
    <3>. QED
      BY <1>5, <2>1, <3>1, Zenon
  <2>2. CASE Dequeue(w)
    <3>1. ASSUME NEW k \in Keys,
                 worker' = [worker EXCEPT ![w] =
                              [pc |-> "dequeued", job |-> Head(queues[k]), token |-> NoToken]]
          PROVE  Owns
      BY <2>1, <3>1, Zenon DEF Holding
    <3>2. ASSUME UNCHANGED workerVars PROVE Owns
      BY <1>5, <2>2, <3>2, Zenon DEF Dequeue, At, Holding, workerVars
    <3>. QED
      BY <2>2, <3>1, <3>2, Zenon DEF Dequeue
  <2>3. CASE ClaimLost(w) \/ ClaimErrored(w) \/ LoadFailed(w) \/ Cleanup(w) \/ RestartWorker(w)
    <3>1. Return(w)
      BY <2>3, Zenon DEF ClaimLost, ClaimErrored, LoadFailed, Cleanup, RestartWorker
    <3>. QED
      BY <2>1, <3>1, Zenon DEF Return, Idle, Holding
  <2>4. CASE CrashWorker(w) \/ TerminateWorker(w)
    <3>1. worker' = [worker EXCEPT ![w] = Stopped]
      BY <2>4, Zenon DEF CrashWorker, TerminateWorker, Halt
    <3>. QED
      BY <2>1, <3>1, Zenon DEF Stopped, Holding
  <2>5. CASE RecordRun(w) \/ RecordFailure(w)
    <3>1. worker[w] \in Busy /\ Goto(w, "cleanup")
      BY <1>1, <2>5, BusyWorker, Zenon DEF RecordRun, RecordFailure, At
    <3>2. worker'[w].pc = "cleanup"
      BY <1>1, <3>1, Zenon DEF Goto, WorkerTypeOK, Busy
    <3>. QED
      BY <1>5, <3>2, Zenon DEF Holding
  <2>. QED
    BY <1>6, <1>8, <1>9, <2>2, <2>3, <2>4, <2>5, Zenon DEF WorkerNext, WorkerStep
<1>. QED
  BY <1>1, <1>2, <1>3, <1>4, <1>10, OwnedWhenOneMoves, Zenon

--------------------------------------------------------------------------------
(* The scheduler *)

\* A scheduler's step runs at most one statement on a job.
LEMMA SchedStore ==
  ASSUME SystemInv, NEW s \in Schedulers, SchedNext(s)
  PROVE  (\E j \in JobIds : JobStatement(j)) \/ UNCHANGED storeVars
<1>1. CASE runDuePoll(s)
  BY <1>1, Zenon
  DEF runDuePoll, pollScheduledJobs, pollFailedJobs, Poll, PromoteOne, Promote, EnqueueHeld,
      JobStatement
<1>2. CASE runStaleReaper(s)
  BY <1>2, Zenon DEF runStaleReaper, reapStaleClaims, Poll, ReapOne, EnqueueHeld, JobStatement
<1>3. CASE runDeadLetterPromoter(s)
  BY <1>3, Zenon DEF runDeadLetterPromoter, promoteDeadJobs, Poll, MoveOne, JobStatement
<1>4. CASE runPendingReconciler(s)
  BY <1>4, Zenon DEF runPendingReconciler, reconcilePending, Poll, ReconcileOne
<1>. QED
  BY <1>1, <1>2, <1>3, <1>4, Zenon
  DEF SchedNext, Campaign, NoticeLoss, CrashScheduler, TerminateScheduler, Quit

\* A snapshot of job ids keeps the types.
LEMMA PollTypes ==
  ASSUME SystemInv, NEW s \in Schedulers, NEW l, NEW found \in SUBSET JobIds,
         Poll(s, l, found), poll' \in [Schedulers -> {"scheduled", "failed"}]
  PROVE  QueueTypeOK' /\ FaultsTypeOK' /\ SchedTypeOK'
<1>1. batch' \in [Schedulers -> [Loops -> SUBSET JobIds]]
  BY Zenon DEF SystemInv, TypeOK, SchedTypeOK, Poll
<1>. QED
  BY <1>1, FaultTypes, Zenon DEF SystemInv, TypeOK, SchedTypeOK, QueueTypeOK, Poll, queueVars

\* Taking a job from a snapshot, and holding it or not, keeps the types.
LEMMA TakeTypes ==
  ASSUME SystemInv, NEW s \in Schedulers, NEW l, NEW j \in JobIds, Take(s, l, j),
         Hold(s, l, j) \/ UNCHANGED hand
  PROVE  SchedTypeOK'
<1>1. SchedTypeOK /\ l \in Loops
  BY Zenon DEF SystemInv, TypeOK, Take
<1>2. batch' \in [Schedulers -> [Loops -> SUBSET JobIds]]
  BY <1>1 DEF SchedTypeOK, Take
<1>3. hand' \in [Schedulers -> [Loops -> {{}} \cup {{i} : i \in JobIds}]]
  <2> DEFINE H == {{}} \cup {{i} : i \in JobIds}
  <2>1. {j} \in H /\ hand \in [Schedulers -> [Loops -> H]]
    BY <1>1, Zenon DEF SchedTypeOK
  <2> HIDE DEF H
  <2>2. hand' \in [Schedulers -> [Loops -> H]]
    <3>1. CASE Hold(s, l, j)
      <4>1. [hand[s] EXCEPT ![l] = {j}] \in [Loops -> H]
        BY <2>1, Zenon
      <4>. QED
        BY <2>1, <3>1, <4>1, Zenon DEF Hold
    <3>2. CASE UNCHANGED hand
      BY <2>1, <3>2, Zenon
    <3>. QED
      BY <3>1, <3>2, Zenon
  <2>. QED
    BY <2>2, Zenon DEF H
<1>. QED
  BY <1>1, <1>2, <1>3, Zenon DEF SchedTypeOK, Take

\* A scheduler's step keeps the types of queues, faults and schedulers.
LEMMA SchedTypes ==
  ASSUME SystemInv, NEW s \in Schedulers, SchedNext(s)
  PROVE  QueueTypeOK' /\ FaultsTypeOK' /\ SchedTypeOK'
<1>1. QueueTypeOK /\ FaultsTypeOK /\ SchedTypeOK
  BY Zenon DEF SystemInv, TypeOK
<1>2. CASE \/ pollScheduledJobs(s) \/ pollFailedJobs(s) \/ reapStaleClaims(s)
           \/ promoteDeadJobs(s) \/ reconcilePending(s)
  <2>1. poll' \in [Schedulers -> {"scheduled", "failed"}]
    BY <1>1, <1>2, Zenon
    DEF SchedTypeOK, pollScheduledJobs, pollFailedJobs, reapStaleClaims, promoteDeadJobs,
        reconcilePending
  <2>2. /\ GetDueJobs \in SUBSET JobIds /\ GetFailedReadyJobs \in SUBSET JobIds
        /\ GetStaleClaims \in SUBSET JobIds /\ GetPendingJobs \in SUBSET JobIds
        /\ ListDeadJobs \in SUBSET JobIds
    BY Zenon DEF GetDueJobs, GetFailedReadyJobs, DueIn, GetStaleClaims, ListDeadJobs, GetPendingJobs
  <2>. QED
    BY <1>2, <2>1, <2>2, PollTypes, Zenon
    DEF pollScheduledJobs, pollFailedJobs, reapStaleClaims, promoteDeadJobs, reconcilePending
<1>3. ASSUME NEW j \in JobIds, PromoteOne(s, j) \/ ReapOne(s, j) \/ MoveOne(s, j)
      PROVE  QueueTypeOK' /\ FaultsTypeOK' /\ SchedTypeOK'
  <2>1. SchedTypeOK'
    BY <1>3, TakeTypes, Zenon DEF PromoteOne, ReapOne, MoveOne
  <2>2. QueueTypeOK'
    BY <1>1, <1>3, Zenon DEF PromoteOne, ReapOne, MoveOne, QueueTypeOK, queueVars
  <2>. QED
    BY <1>1, <1>3, <2>1, <2>2, FaultTypes, Zenon DEF PromoteOne, ReapOne, MoveOne
<1>4. ASSUME NEW j \in JobIds, ReconcileOne(s, j)
      PROVE  QueueTypeOK' /\ FaultsTypeOK' /\ SchedTypeOK'
  BY <1>1, <1>4, TakeTypes, EnqueueTypes, Zenon DEF ReconcileOne
<1>5. ASSUME NEW l, EnqueueHeld(s, l)
      PROVE  QueueTypeOK' /\ FaultsTypeOK' /\ SchedTypeOK'
  <2>1. l \in Loops
    BY <1>5, Zenon DEF EnqueueHeld
  <2>2. PICK j \in hand[s][l] : Enqueue(j)
    BY <1>5, Zenon DEF EnqueueHeld
  <2>3. j \in JobIds
    BY <1>1, <2>1, <2>2 DEF SchedTypeOK
  <2>4. hand' \in [Schedulers -> [Loops -> {{}} \cup {{i} : i \in JobIds}]]
    BY <1>1, <1>5, Zenon DEF SchedTypeOK, EnqueueHeld
  <2>5. SchedTypeOK'
    BY <1>1, <1>5, <2>4, Zenon DEF SchedTypeOK, EnqueueHeld
  <2>. QED
    BY <1>1, <2>2, <2>3, <2>5, EnqueueTypes, Zenon
<1>6. CASE Campaign(s)
  BY <1>1, <1>6, FaultTypes, Zenon DEF Campaign, SchedTypeOK, QueueTypeOK, queueVars
<1>7. CASE NoticeLoss(s) \/ CrashScheduler(s) \/ TerminateScheduler(s)
  <2>1. batch' \in [Schedulers -> [Loops -> SUBSET JobIds]]
    BY <1>1, <1>7, ZenonT(30) DEF NoticeLoss, CrashScheduler, TerminateScheduler, Quit, SchedTypeOK, NoWork
  <2>2. hand' \in [Schedulers -> [Loops -> {{}} \cup {{i} : i \in JobIds}]]
    <3> DEFINE H == {{}} \cup {{i} : i \in JobIds}
    <3>1. hand \in [Schedulers -> [Loops -> H]] /\ {} \in H
      BY <1>1, Zenon DEF SchedTypeOK
    <3>2. hand' = [hand EXCEPT ![s] = NoWork]
      BY <1>7, Zenon DEF NoticeLoss, CrashScheduler, TerminateScheduler, Quit
    <3> HIDE DEF H
    <3>3. NoWork \in [Loops -> H]
      BY <3>1, Zenon DEF NoWork
    <3>4. hand' \in [Schedulers -> [Loops -> H]]
      BY <3>1, <3>2, <3>3, Zenon
    <3>. QED
      BY <3>4, Zenon DEF H
  <2>3. SchedTypeOK' /\ QueueTypeOK'
    BY <1>1, <1>7, <2>1, <2>2, Zenon
    DEF NoticeLoss, CrashScheduler, TerminateScheduler, Quit, SchedTypeOK, QueueTypeOK, queueVars
  <2>. QED
    BY <1>1, <1>7, <2>3, FaultTypes, Zenon DEF NoticeLoss, CrashScheduler, TerminateScheduler
<1>. QED
  BY <1>2, <1>3, <1>4, <1>5, <1>6, <1>7, Zenon
  DEF SchedNext, runDuePoll, runStaleReaper, runDeadLetterPromoter, runPendingReconciler

--------------------------------------------------------------------------------
(* The API and the CLI *)

\* A step of a handler or command runs at most one statement on a job.
LEMMA ApiStore ==
  ASSUME ApiNext
  PROVE  (\E j \in JobIds : JobStatement(j)) \/ UNCHANGED storeVars
BY DEF ApiNext, handleSubmitJob, handleCancelJob, handleReplayJob, ApiEnqueue, CliReplayCheck,
       CliReplayReset, CliEnqueue, cmdForceFail, cmdDrain, JobStatement

\* A step of a handler or command keeps the types of queues, faults and hands.
LEMMA ApiTypes ==
  ASSUME SystemInv, ApiNext
  PROVE  QueueTypeOK' /\ FaultsTypeOK' /\ ApiTypeOK'
<1>1. QueueTypeOK /\ FaultsTypeOK /\ ApiTypeOK
  BY Zenon DEF SystemInv, TypeOK
<1>2. ASSUME NEW j \in JobIds, handleSubmitJob(j) \/ CliReplayReset(j)
      PROVE  QueueTypeOK' /\ FaultsTypeOK' /\ ApiTypeOK'
  <2>1. ApiTypeOK' /\ QueueTypeOK'
    BY <1>1, <1>2, Zenon DEF handleSubmitJob, CliReplayReset, ApiTypeOK, QueueTypeOK, queueVars
  <2>. QED
    BY <1>1, <1>2, <2>1, FaultTypes, Zenon DEF handleSubmitJob, CliReplayReset
<1>3. ASSUME NEW j \in JobIds,
             handleCancelJob(j) \/ handleReplayJob(j) \/ CliReplayCheck(j) \/ cmdForceFail(j)
      PROVE  QueueTypeOK' /\ FaultsTypeOK' /\ ApiTypeOK'
  <2>1. requests' \in 0..MaxRequests
    BY <1>1, <1>3, ApiAssumption
    DEF handleCancelJob, handleReplayJob, CliReplayCheck, cmdForceFail, Request, ApiTypeOK
  <2>2. ApiTypeOK' /\ QueueTypeOK'
    BY <1>1, <1>3, <2>1, Zenon
    DEF handleCancelJob, handleReplayJob, CliReplayCheck, cmdForceFail, ApiTypeOK, QueueTypeOK, queueVars
  <2>. QED
    BY <1>1, <1>3, <2>2, FaultTypes, Zenon
    DEF handleCancelJob, handleReplayJob, CliReplayCheck, cmdForceFail
<1>4. ASSUME NEW j \in JobIds, ApiEnqueue(j) \/ CliEnqueue(j)
      PROVE  QueueTypeOK' /\ FaultsTypeOK' /\ ApiTypeOK'
  <2>1. ApiTypeOK'
    BY <1>1, <1>4, Zenon DEF ApiEnqueue, CliEnqueue, ApiTypeOK
  <2>2. CASE Enqueue(j)
    BY <1>1, <2>1, <2>2, EnqueueTypes, Zenon
  <2>3. CASE Fault("crash") /\ UNCHANGED queueVars
    BY <1>1, <2>1, <2>3, FaultTypes, Zenon DEF QueueTypeOK, queueVars
  <2>. QED
    BY <1>4, <2>2, <2>3, Zenon DEF ApiEnqueue, CliEnqueue
<1>5. CASE cmdDrain
  <2>1. ApiTypeOK' /\ FaultsTypeOK'
    BY <1>1, <1>5, FaultTypes, Zenon DEF cmdDrain, ApiTypeOK, apiVars
  <2>2. PICK k \in Keys : DrainQueue(k)
    BY <1>5, Zenon DEF cmdDrain
  <2>3. QueueTypeOK'
    BY <1>1, <2>2 DEF DrainQueue, QueueTypeOK
  <2>. QED
    BY <2>1, <2>3, Zenon
<1>. QED
  BY <1>2, <1>3, <1>4, <1>5, Zenon DEF ApiNext

--------------------------------------------------------------------------------
(* The system *)

\* Every step of the system is a step of the tables or leaves them alone.
LEMMA StepImplementsStore ==
  SystemInv /\ [Next]_vars => [StoreNext]_storeVars
<1> SUFFICES ASSUME SystemInv, [Next]_vars
             PROVE  StoreNext \/ UNCHANGED storeVars
  BY Zenon
<1>1. ASSUME NEW w \in Workers, WorkerNext(w)
      PROVE  StoreNext \/ UNCHANGED storeVars
  BY <1>1, WorkerStore, Zenon
<1>2. ASSUME NEW s \in Schedulers, SchedNext(s)
      PROVE  StoreNext \/ UNCHANGED storeVars
  BY <1>2, SchedStore, Zenon DEF StoreNext
<1>3. CASE ApiNext
  BY <1>3, ApiStore, Zenon DEF StoreNext
<1>4. CASE LeaseExpires
  BY <1>4, Zenon DEF LeaseExpires
<1>5. ASSUME NEW j \in JobIds, Clock(j)
      PROVE  StoreNext \/ UNCHANGED storeVars
  BY <1>5, Statements, Zenon DEF Clock
<1>6. CASE UNCHANGED vars
  BY <1>6, Zenon DEF vars
<1>. QED
  BY <1>1, <1>2, <1>3, <1>4, <1>5, <1>6, Zenon DEF Next

\* Steps of the scheduler, the API, the CLI and the clock leave the workers'
\* claims their own.
LEMMA OwnedWhenNoneMoves ==
  ASSUME SystemInv, UNCHANGED workerVars,
         (\E j \in JobIds : JobStatement(j)) \/ UNCHANGED storeVars
  PROVE  ClaimsOwned'
<1>1. Keeps
  BY JobStatementKeeps, Zenon DEF SystemInv, TypeOK, Keeps, storeVars
<1>2. ClaimsOwned /\ worker' = worker
  BY Zenon DEF SystemInv, workerVars
<1>. QED
  BY <1>1, <1>2, Zenon DEF ClaimsOwned, Keeps, At

\* The system's invariant is inductive.
LEMMA SystemInvStep == SystemInv /\ [Next]_vars => SystemInv'
<1> SUFFICES ASSUME SystemInv, [Next]_vars
             PROVE  SystemInv'
  BY Zenon
<1>1. StoreInv' /\ StoreTypeOK'
  BY StepImplementsStore, StoreInvStep, Zenon DEF SystemInv, StoreInv
<1> DEFINE Types == QueueTypeOK /\ FaultsTypeOK /\ WorkerTypeOK /\ SchedTypeOK /\ ApiTypeOK
<1>2. Types
  BY Zenon DEF SystemInv, TypeOK
<1>3. ASSUME NEW w \in Workers, WorkerNext(w), UNCHANGED <<schedVars, apiVars>>
      PROVE  Types' /\ ClaimsOwned'
  BY <1>2, <1>3, WorkerTypes, WorkerOwned, Zenon
  DEF SchedTypeOK, schedVars, ApiTypeOK, apiVars
<1>4. ASSUME NEW s \in Schedulers, SchedNext(s), UNCHANGED <<workerVars, apiVars>>
      PROVE  Types' /\ ClaimsOwned'
  BY <1>2, <1>4, SchedTypes, SchedStore, OwnedWhenNoneMoves, Zenon
  DEF WorkerTypeOK, workerVars, ApiTypeOK, apiVars
<1>5. ASSUME ApiNext, UNCHANGED <<workerVars, schedVars>>
      PROVE  Types' /\ ClaimsOwned'
  BY <1>2, <1>5, ApiTypes, ApiStore, OwnedWhenNoneMoves, Zenon
  DEF WorkerTypeOK, workerVars, SchedTypeOK, schedVars
<1>6. ASSUME LeaseExpires, UNCHANGED <<workerVars, apiVars>>
      PROVE  Types' /\ ClaimsOwned'
  <2>1. ClaimsOwned'
    BY <1>6, OwnedWhenNoneMoves, Zenon DEF LeaseExpires
  <2>2. SchedTypeOK' /\ QueueTypeOK' /\ FaultsTypeOK'
    BY <1>2, <1>6, FaultTypes, Zenon DEF LeaseExpires, SchedTypeOK, QueueTypeOK, queueVars
  <2>. QED
    BY <1>2, <1>6, <2>1, <2>2, Zenon DEF WorkerTypeOK, workerVars, ApiTypeOK, apiVars
<1>7. ASSUME NEW j \in JobIds, Clock(j)
      PROVE  Types' /\ ClaimsOwned'
  <2>1. JobStatement(j) /\ UNCHANGED workerVars
    BY <1>7, Zenon DEF Clock, JobStatement
  <2>2. ClaimsOwned'
    BY <2>1, OwnedWhenNoneMoves, Zenon
  <2>3. FaultsTypeOK'
    BY <1>2, <1>7, FaultTypes, Zenon DEF Clock
  <2>. QED
    BY <1>2, <1>7, <2>2, <2>3, Zenon
    DEF Clock, QueueTypeOK, queueVars, WorkerTypeOK, workerVars, SchedTypeOK, schedVars, ApiTypeOK, apiVars
<1>8. ASSUME UNCHANGED vars
      PROVE  Types' /\ ClaimsOwned'
  <2>1. ClaimsOwned'
    BY <1>8, OwnedWhenNoneMoves, Zenon DEF vars
  <2>. QED
    BY <1>2, <1>8, <2>1, Zenon
    DEF vars, QueueTypeOK, queueVars, FaultsTypeOK, WorkerTypeOK, workerVars, SchedTypeOK, schedVars,
        ApiTypeOK, apiVars
<1>9. Types' /\ ClaimsOwned'
  BY <1>3, <1>4, <1>5, <1>6, <1>7, <1>8, Zenon DEF Next
<1>. QED
  BY <1>1, <1>9, Zenon DEF SystemInv, TypeOK

\* The system starts in the invariant.
LEMMA SystemInvInit == Init => SystemInv
<1> SUFFICES ASSUME Init
             PROVE  SystemInv
  BY Zenon
<1>1. StoreInv /\ StoreTypeOK
  BY StoreInvInit, Zenon DEF Init, StoreInv
<1>2. QueueTypeOK /\ FaultsTypeOK /\ ApiTypeOK
  BY ApiAssumption
  DEF Init, QueueInit, QueueTypeOK, FaultsInit, FaultsTypeOK, ApiInit, ApiTypeOK
<1>3. WorkerTypeOK /\ SchedTypeOK
  BY Zenon DEF Init, WorkerInit, WorkerTypeOK, SchedInit, SchedTypeOK, NoWork
<1>4. ClaimsOwned
  BY Zenon DEF Init, WorkerInit, ClaimsOwned, Idle, Holding
<1>. QED
  BY <1>1, <1>2, <1>3, <1>4, Zenon DEF SystemInv, TypeOK

\* API, CLI, schedulers and workers, with crashes, lost and unanswered statements
\* and two leaders at once, keep the types of all state, and no worker ever goes
\* on with a token or run that is not its own: process passes to MarkRunning,
\* CompleteJob and FailJob the run and token TryClaim gave it.
THEOREM SystemInvariant == Spec => [](TypeOK /\ ClaimsOwned)
<1>1. Init => SystemInv
  BY SystemInvInit, Zenon
<1>2. SystemInv /\ [Next]_vars => SystemInv'
  BY SystemInvStep, Zenon
<1>3. SystemInv => TypeOK /\ ClaimsOwned
  BY Zenon DEF SystemInv
<1>. QED
  BY <1>1, <1>2, <1>3, PTL DEF Spec

\* The composed system implements the tables of JobStore: none of the handlers,
\* loops and workers writes them in a way that JobStore does not allow.
THEOREM SystemImplementsStore == Spec => ImplementsStore
<1>1. Init => SystemInv /\ StoreInit
  BY SystemInvInit, Zenon DEF Init
<1>2. SystemInv /\ [Next]_vars => SystemInv' /\ [StoreNext]_storeVars
  BY SystemInvStep, StepImplementsStore, Zenon
<1>. QED
  BY <1>1, <1>2, PTL DEF Spec, StoreSpec, ImplementsStore

\* So the system keeps what the tables promise, whatever its processes do and suffer:
\* a claimed or running job has its run, attempts are counted as claims are granted
\* and stay within the retry budget, at most one success is accepted per job, and a
\* succeeded job never changes.
THEOREM SystemKeepsPromises ==
  Spec => /\ [](HolderHasRun /\ AttemptAccounting /\ RetryBudget /\ SuccessOnce)
          /\ SucceededIsFinal
<1>1. Spec => StoreSpec
  BY SystemImplementsStore, Zenon DEF ImplementsStore
<1>. QED
  BY <1>1, ClaimsAreWhole, AttemptsAreCounted, RetriesAreBounded, SuccessIsUnique, SucceededFinal, PTL

\* All state of the composed system keeps its type, the attempt column, the queues
\* and the scheduler's snapshots included.
THEOREM SystemTypes == Spec => []TypeOK
BY SystemInvariant, PTL
================================================================================
