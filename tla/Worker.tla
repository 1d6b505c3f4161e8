--------------------------------- MODULE Worker --------------------------------
(***************************************************************************)
(* The worker loop of internal/worker: take a job id from a queue, claim   *)
(* the job, load it, execute it, record the result, clear the processing   *)
(* entry.  One action per database or Redis round trip, so everything that *)
(* other processes do in between is an interleaving.  A round trip may     *)
(* fail (Fault "db", "redis"), and the process may crash or be terminated  *)
(* at any point.                                                           *)
(***************************************************************************)
EXTENDS RedisQueue

VARIABLE worker    \* where each worker is, with which job and claim token

workerVars == <<worker>>

Idle == [pc |-> "idle"]

Stopped == [pc |-> "stopped"]

Busy ==
  [pc    : {"dequeued", "claimed", "loaded", "executing", "succeeded", "errored",
            "completing", "cleanup"},
   job   : JobIds,
   token : Tokens \cup {NoToken}]

WorkerTypeOK == worker \in [Workers -> Busy \cup {Idle, Stopped}]

WorkerInit == worker = [w \in Workers |-> Idle]

\* The steps of process between TryClaim and the end of CompleteJob or FailJob.
Holding == {"claimed", "loaded", "executing", "succeeded", "errored", "completing"}

At(w, pc) == worker[w].pc = pc

Goto(w, pc) == worker' = [worker EXCEPT ![w].pc = pc]

Return(w) == worker' = [worker EXCEPT ![w] = Idle]

\* The scan over tenants and buckets is many LMOVEs.  An idle worker may be
\* anywhere in it, past lanes that have filled since, so any queue may yield.  An
\* error ends the scan, whether or not the LMOVE took effect, and Run calls again.
Dequeue(w) ==
  /\ At(w, "idle")
  /\ \/ \E k \in Keys :
          /\ Move(w, k)
          /\ worker' = [worker EXCEPT ![w] =
                          [pc |-> "dequeued", job |-> Head(queues[k]), token |-> NoToken]]
          /\ NoFault
     \/ /\ UNCHANGED queueVars \/ \E k \in Keys : Move(w, k)
        /\ Fault("redis")
        /\ UNCHANGED workerVars
  /\ UNCHANGED storeVars

\* A slip: the worker goes on with another token than the one it claimed with.
ClaimWonOtherToken(w) ==
  /\ At(w, "dequeued")
  /\ \E c, d \in Tokens :
       /\ TryClaim(worker[w].job, c)
       /\ worker' = [worker EXCEPT ![w] = [@ EXCEPT !.pc = "claimed", !.token = d]]
  /\ NoFault
  /\ UNCHANGED queueVars

ClaimWon(w) ==
  /\ At(w, "dequeued")
  /\ \E c \in Tokens :
       /\ TryClaim(worker[w].job, c)
       /\ worker' = [worker EXCEPT ![w] = [@ EXCEPT !.pc = "claimed", !.token = c]]
  /\ NoFault
  /\ UNCHANGED queueVars

\* The row is gone or no longer pending, or SKIP LOCKED passed over it because
\* another worker's TryClaim, which may yet roll back, holds its lock.
ClaimLost(w) ==
  /\ At(w, "dequeued")
  /\ \/ jobs[worker[w].job].state # "pending"
     \/ \E v \in Workers \ {w} : At(v, "dequeued") /\ worker[v].job = worker[w].job
  /\ RemoveFromProcessing(w, worker[w].job)
  /\ Return(w)
  /\ UNCHANGED storeVars

\* TryClaim returns an error: rolled back, or committed without the answer.  One
\* fault at a time: the LREM that follows succeeds.
ClaimErrored(w) ==
  /\ At(w, "dequeued")
  /\ Fault("db")
  /\ UNCHANGED storeVars \/ \E c \in Tokens : TryClaim(worker[w].job, c)
  /\ processing' = [processing EXCEPT ![w] = @ \ {worker[w].job}]
  /\ Return(w)
  /\ UNCHANGED queues

LoadJob(w) ==
  /\ At(w, "claimed")
  /\ Live(worker[w].job)
  /\ Goto(w, "loaded")
  /\ NoFault
  /\ UNCHANGED <<storeVars, queueVars>>

\* GetJob fails, or the job was requeued and cancelled meanwhile.  The early
\* return leaves the entry in the processing list.
LoadFailed(w) ==
  /\ At(w, "claimed")
  /\ \/ ~Live(worker[w].job) /\ NoFault
     \/ Fault("db")
  /\ Return(w)
  /\ UNCHANGED <<storeVars, queueVars>>

\* A statement of the worker changes nothing: its token is stale, or it failed.
NoEffect(w) ==
  /\ \/ ~Fenced(worker[w].job, worker[w].token) /\ NoFault
     \/ Fault("db")
  /\ UNCHANGED storeVars

\* MarkRunning, its result ignored, then the heartbeat and the execution start.
StartExecution(w) ==
  /\ At(w, "loaded")
  /\ \/ MarkRunning(worker[w].job, worker[w].token) /\ NoFault
     \/ NoEffect(w)
  /\ Goto(w, "executing")
  /\ UNCHANGED queueVars

\* A beat already sent may reach the database after the execution has ended.
Heartbeat(w) ==
  /\ worker[w].pc \in {"executing", "succeeded", "errored"}
  /\ ExtendDeadline(worker[w].job, worker[w].token)
  /\ NoFault
  /\ UNCHANGED <<queueVars, workerVars>>

FinishExecution(w) ==
  /\ At(w, "executing")
  /\ Goto(w, "succeeded") \/ Goto(w, "errored")
  /\ NoFault
  /\ UNCHANGED <<storeVars, queueVars>>

\* A stale token updates no row and ends CompleteJob.
RecordSuccess(w) ==
  /\ At(w, "succeeded")
  /\ \/ CompleteJob(worker[w].job, worker[w].token) /\ Goto(w, "completing") /\ NoFault
     \/ NoEffect(w) /\ Goto(w, "cleanup")
  /\ UNCHANGED queueVars

RecordRun(w) ==
  /\ At(w, "completing")
  /\ \/ CompleteRun(worker[w].token) /\ NoFault
     \/ AbandonRun(worker[w].token) /\ Fault("db")
  /\ Goto(w, "cleanup")
  /\ UNCHANGED queueVars

\* The worker's copy of the job: FailJob writes only if nothing changed since.
ShouldRetry(j) == jobs[j].attempt < jobs[j].maxRetries

RecordFailure(w) ==
  /\ At(w, "errored")
  /\ \/ /\ \E nextRunAt \in IF ShouldRetry(worker[w].job) THEN {"due", "future"} ELSE {"null"} :
             FailJob(worker[w].job, worker[w].token, nextRunAt)
        /\ NoFault
     \/ NoEffect(w)
  /\ Goto(w, "cleanup")
  /\ UNCHANGED queueVars

Cleanup(w) ==
  /\ At(w, "cleanup")
  /\ RemoveFromProcessing(w, worker[w].job)
  /\ Return(w)
  /\ UNCHANGED storeVars

--------------------------------------------------------------------------------
\* Nothing of the process is left but what it wrote.
Halt(w) ==
  /\ ~At(w, "stopped")
  /\ IF At(w, "completing") THEN AbandonRun(worker[w].token) ELSE UNCHANGED storeVars
  /\ worker' = [worker EXCEPT ![w] = Stopped]
  /\ UNCHANGED queueVars

CrashWorker(w) == Fault("crash") /\ Halt(w)

\* SIGTERM cancels the context that process, execute and every query run under.
TerminateWorker(w) == Fault("terminate") /\ Halt(w)

\* A new process has a new id: the old processing list is never looked at again.
RestartWorker(w) ==
  /\ At(w, "stopped")
  /\ Return(w)
  /\ processing' = [processing EXCEPT ![w] = {}]
  /\ NoFault
  /\ UNCHANGED <<storeVars, queues>>

WorkerStep(w) ==
  \/ Dequeue(w)
  \/ ClaimWon(w)
  \/ ClaimLost(w)
  \/ ClaimErrored(w)
  \/ LoadJob(w)
  \/ LoadFailed(w)
  \/ StartExecution(w)
  \/ FinishExecution(w)
  \/ RecordSuccess(w)
  \/ RecordRun(w)
  \/ RecordFailure(w)
  \/ Cleanup(w)
  \/ RestartWorker(w)

WorkerNext(w) ==
  \/ WorkerStep(w)
  \/ Heartbeat(w)
  \/ CrashWorker(w)
  \/ TerminateWorker(w)
================================================================================
