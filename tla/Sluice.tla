--------------------------------- MODULE Sluice --------------------------------
(***************************************************************************)
(* The whole of Sluice's job path: API, operators, schedulers and workers  *)
(* over one Postgres, one Redis and one etcd, with the clock.              *)
(***************************************************************************)
EXTENDS Worker, Scheduler, Api

CONSTANT MayStall    \* may a deadline pass although a live worker holds the claim?

vars == <<storeVars, queueVars, faults, workerVars, schedVars, apiVars>>

Init ==
  /\ StoreInit
  /\ QueueInit
  /\ FaultsInit
  /\ WorkerInit
  /\ SchedInit
  /\ ApiInit

\* A process at work on the job under its current claim.
Held(j) == \E w \in Workers : worker[w].pc \in Holding /\ worker[w].token = jobs[j].token

\* A worker may stall, or its heartbeats may not get through.
Clock(j) ==
  /\ \/ DeadlinePasses(j) /\ (MayStall \/ ~Held(j))
     \/ RunAtPasses(j)
  /\ NoFault
  /\ UNCHANGED <<queueVars, workerVars, schedVars, apiVars>>

Next ==
  \/ \E w \in Workers : WorkerNext(w) /\ UNCHANGED <<schedVars, apiVars>>
  \/ \E s \in Schedulers : SchedNext(s) /\ UNCHANGED <<workerVars, apiVars>>
  \/ LeaseExpires /\ UNCHANGED <<workerVars, apiVars>>
  \/ ApiNext /\ UNCHANGED <<workerVars, schedVars>>
  \/ \E j \in JobIds : Clock(j)

Spec == Init /\ [][Next]_vars

--------------------------------------------------------------------------------
(* Fairness.  Processes keep running and are restarted, a request and a    *)
(* query get an answer or an error, execute returns within httpTimeout,    *)
(* tickers tick and time passes.  Faults, requests, heartbeats and the     *)
(* outcome of an execution are left to chance.                             *)

Fairness ==
  /\ \A w \in Workers : WF_vars(WorkerStep(w) /\ UNCHANGED <<schedVars, apiVars>>)
  /\ \A s \in Schedulers :
       /\ WF_vars(NoticeLoss(s) /\ UNCHANGED <<workerVars, apiVars>>)
       /\ WF_vars(runDuePoll(s) /\ UNCHANGED <<workerVars, apiVars>>)
       /\ WF_vars(runStaleReaper(s) /\ UNCHANGED <<workerVars, apiVars>>)
       /\ WF_vars(runDeadLetterPromoter(s) /\ UNCHANGED <<workerVars, apiVars>>)
       /\ WF_vars(runPendingReconciler(s) /\ UNCHANGED <<workerVars, apiVars>>)
  /\ WF_vars((\E s \in Schedulers : Campaign(s)) /\ UNCHANGED <<workerVars, apiVars>>)
  /\ WF_vars(LeaseExpires /\ NoFault /\ UNCHANGED <<workerVars, apiVars>>)
  /\ \A j \in JobIds :
       /\ WF_vars(Clock(j))
       /\ WF_vars((ApiEnqueue(j) \/ CliReplayReset(j) \/ CliEnqueue(j))
                    /\ UNCHANGED <<workerVars, schedVars>>)

FairSpec == Spec /\ Fairness

--------------------------------------------------------------------------------
(* Properties *)

\* Types of the tables, the queues and every process.
TypeOK ==
  /\ StoreTypeOK
  /\ QueueTypeOK
  /\ FaultsTypeOK
  /\ WorkerTypeOK
  /\ SchedTypeOK
  /\ ApiTypeOK

\* A worker that has claimed a job goes on, until CompleteJob or FailJob is over,
\* with a token whose run is a run of that job; no other worker has the token;
\* and between the two statements of CompleteJob the first one's effect stands.
\* Whatever happens to the job meanwhile, the worker's writes name its own run.
ClaimsOwned ==
  \A w \in Workers : worker[w].pc \in Holding =>
    /\ worker[w].token \in Tokens
    /\ runs[worker[w].token] # NoRun
    /\ runs[worker[w].token].job = worker[w].job
    /\ At(w, "completing") => worker[w].token \in completing
    /\ \A v \in Workers \ {w} :
         worker[v].pc \in Holding => worker[v].token # worker[w].token

\* Someone is about to enqueue the job, or it is queued, or a worker has it and
\* will try to claim it.
OnItsWay(j) ==
  \/ Queued(j)
  \/ j \in apiHand \cup cliHand
  \/ \E s \in Schedulers, l \in Loops : j \in hand[s][l]
  \/ \E w \in Workers : At(w, "dequeued") /\ worker[w].job = j

\* Without faults no job is ever stranded: every pending job is on its way to a
\* worker, with no help from the pending reconciler, however claims that were
\* lost, stale snapshots of the scheduler loops, cancels, replays and force-fails
\* interleave.  Each code path that makes a job pending goes on to enqueue it.
NoStrandedJob ==
  faults = 0 => \A j \in JobIds : jobs[j].state = "pending" => OnItsWay(j)

\* Every step of the composed system is a step of the tables or leaves them
\* alone, so what is proved of JobStore holds of the system.  In particular no
\* worker passes a token or run that is not of the job it names.
ImplementsStore == StoreSpec

\* As long as heartbeats arrive in time, no two workers are at work on one job
\* at once: duplicate queue entries, a second leader with an old snapshot, claims
\* committed without an answer and crashes do not get a job claimed twice.  An
\* operator can, who force-fails a job under its worker and then replays it.
ExclusiveExecution ==
  \A v, w \in Workers :
    worker[v].pc \in Holding /\ worker[w].pc \in Holding /\ worker[v].job = worker[w].job
      => v = w

Settled(j) == jobs[j].state \in {"succeeded", "dead", "deleted"}

\* Every accepted job is eventually succeeded, dead or cancelled, whatever is
\* lost on the way: the queue entry, the claim, the worker, the leader.
EventuallySettled == \A j \in JobIds : Inserted(j) ~> Settled(j)

--------------------------------------------------------------------------------
(* What the documentation says and the code does not keep to. *)

\* storage.go, PromoteFailedToPending: a failed job is moved back to pending when
\* its backoff has elapsed.  So no step moves one while its run_at is in the future.
BackoffRespected ==
  [][\A j \in JobIds :
       jobs[j].state = "failed" /\ jobs'[j].state = "pending" => jobs[j].runAt # "future"]_vars

\* architecture.md, dead-letter promotion: jobs that exceed their max_retries get
\* moved to dead_letter.  So every dead job gets a row there, unless it is
\* replayed first; promoteDeadJobs does the moving.
DeadIsListed ==
  \A j \in JobIds :
    jobs[j].state = "dead" ~> (jobs[j].state # "dead" \/ deadLetter[j] # NoLetter)
================================================================================
