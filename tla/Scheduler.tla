------------------------------- MODULE Scheduler -------------------------------
(***************************************************************************)
(* The scheduler of internal/scheduler under the leader election of        *)
(* internal/leader.  While an instance leads, its loops run side by side:  *)
(*   "due"      pollScheduledJobs and pollFailedJobs, in turn              *)
(*   "reap"     reapStaleClaims                                            *)
(*   "dead"     promoteDeadJobs                                            *)
(*   "pending"  reconcilePending                                           *)
(* and Loops says which of these a model runs.                             *)
(* Each takes a snapshot with one query and then goes through it, a        *)
(* database write and an Enqueue per job, all separate steps.  Losing the  *)
(* lease and noticing it are two events, so two instances can lead.  The   *)
(* cron expander is in module Cron, the partition maintainer in Partitions.*)
(***************************************************************************)
EXTENDS RedisQueue, FiniteSets

CONSTANTS
  Schedulers,
  NoScheduler,
  Loops,           \* the loops that run: some or all of the four
  DeadListLimit,   \* the Limit promoteDeadJobs gives ListJobs
  MaxQueue         \* bound: the loops wait while a queue is this long

ASSUME SchedulerAssumption == NoScheduler \notin Schedulers

VARIABLES
  lease,     \* the instance that holds the election key in etcd
  leading,   \* the instances whose leaderCtx is not cancelled
  poll,      \* which of its two polls an instance's due loop did last
  batch,     \* what each loop has still to do of its snapshot
  hand       \* the job each loop has written and has still to enqueue

schedVars == <<lease, leading, poll, batch, hand>>

NoWork == [l \in Loops |-> {}]

SchedTypeOK ==
  /\ lease \in Schedulers \cup {NoScheduler}
  /\ leading \in SUBSET Schedulers
  /\ poll \in [Schedulers -> {"scheduled", "failed"}]
  /\ batch \in [Schedulers -> [Loops -> SUBSET JobIds]]
  /\ hand \in [Schedulers -> [Loops -> {{}} \cup {{j} : j \in JobIds}]]

SchedInit ==
  /\ lease = NoScheduler
  /\ leading = {}
  /\ poll = [s \in Schedulers |-> "failed"]
  /\ batch = [s \in Schedulers |-> NoWork]
  /\ hand = [s \in Schedulers |-> NoWork]

--------------------------------------------------------------------------------
(* Leadership *)

\* An instance that crashed or stepped down campaigns again.
Campaign(s) ==
  /\ s \notin leading
  /\ lease = NoScheduler
  /\ lease' = s
  /\ leading' = leading \cup {s}
  /\ poll' = [poll EXCEPT ![s] = "failed"]
  /\ NoFault
  /\ UNCHANGED <<storeVars, queueVars, batch, hand>>

\* The TTL runs out after a crash, or while the holder is paused or cut off.
LeaseExpires ==
  /\ lease # NoScheduler
  /\ \/ lease \notin leading /\ NoFault
     \/ Fault("lease")
  /\ lease' = NoScheduler
  /\ UNCHANGED <<storeVars, queueVars, leading, poll, batch, hand>>

\* leaderCtx is cancelled: what is left of every loop's work fails.
Quit(s) ==
  /\ s \in leading
  /\ leading' = leading \ {s}
  /\ batch' = [batch EXCEPT ![s] = NoWork]
  /\ hand' = [hand EXCEPT ![s] = NoWork]
  /\ UNCHANGED <<storeVars, queueVars, poll>>

\* sess.Done fires; resign finds nothing to delete.
NoticeLoss(s) == lease # s /\ Quit(s) /\ NoFault /\ UNCHANGED lease

CrashScheduler(s) == Fault("crash") /\ Quit(s) /\ UNCHANGED lease

\* SIGTERM: the loops end, then resign deletes the election key.
TerminateScheduler(s) ==
  /\ Fault("terminate")
  /\ Quit(s)
  /\ lease' = IF lease = s THEN NoScheduler ELSE lease

--------------------------------------------------------------------------------
(* Snapshots.  The LIMIT of 500 of the due and pending queries is taken to *)
(* be more than there are jobs.                                            *)

Poll(s, l, found) ==
  /\ s \in leading /\ l \in Loops
  /\ batch[s][l] = {} /\ hand[s][l] = {}
  /\ \A k \in Keys : Len(queues[k]) < MaxQueue
  /\ batch' = [batch EXCEPT ![s][l] = found]
  /\ NoFault
  /\ UNCHANGED <<storeVars, queueVars, lease, leading, hand>>

DueIn(state) == {j \in JobIds : jobs[j].state = state /\ jobs[j].runAt # "future"}

GetDueJobs == DueIn("scheduled")

GetFailedReadyJobs == DueIn("failed")

GetStaleClaims == {j \in JobIds : Stale(j)}

\* A slip: run_at is compared the wrong way round.
GetRecentPendingJobs == {j \in JobIds : jobs[j].state = "pending" /\ jobs[j].runAt = "due"}

GetPendingJobs == {j \in JobIds : jobs[j].state = "pending" /\ jobs[j].runAt = "overdue"}

\* ORDER BY created_at DESC LIMIT: the dead jobs with few newer dead ones.
ListDeadJobs ==
  LET dead == {j \in JobIds : jobs[j].state = "dead"}
  IN  {j \in dead : Cardinality({i \in dead : i > j}) < DeadListLimit}

pollScheduledJobs(s) ==
  /\ poll[s] = "failed"
  /\ poll' = [poll EXCEPT ![s] = "scheduled"]
  /\ Poll(s, "due", GetDueJobs)

pollFailedJobs(s) ==
  /\ poll[s] = "scheduled"
  /\ poll' = [poll EXCEPT ![s] = "failed"]
  /\ Poll(s, "due", GetFailedReadyJobs)

reapStaleClaims(s) == Poll(s, "reap", GetStaleClaims) /\ UNCHANGED poll

promoteDeadJobs(s) == Poll(s, "dead", ListDeadJobs) /\ UNCHANGED poll

reconcilePending(s) == Poll(s, "pending", GetPendingJobs) /\ UNCHANGED poll

--------------------------------------------------------------------------------
(* One job of a snapshot *)

Take(s, l, j) ==
  /\ s \in leading /\ l \in Loops
  /\ hand[s][l] = {}
  /\ j \in batch[s][l]
  /\ batch' = [batch EXCEPT ![s][l] = @ \ {j}]
  /\ UNCHANGED <<lease, leading, poll>>

Hold(s, l, j) == hand' = [hand EXCEPT ![s][l] = {j}]

\* A slip: the statements no longer name the state they start from.
PromoteFromAny(s, j) ==
  /\ jobs' = [jobs EXCEPT ![j] = [@ EXCEPT !.state = "pending"]]
  /\ UNCHANGED <<runs, deadLetter, completing, handed>>

\* The statement of the poll in progress; it may find the job has moved on.
Promote(s, j) ==
  \/ poll[s] = "scheduled" /\ PromoteScheduledToPending(j)
  \/ poll[s] = "failed" /\ PromoteFailedToPending(j)
  \/ jobs[j].state # poll[s] /\ UNCHANGED storeVars

\* The job is enqueued whether or not the statement found it; after an error,
\* which does not say whether the statement took effect, it is not.
PromoteOne(s, j) ==
  /\ Take(s, "due", j)
  /\ \/ Promote(s, j) /\ Hold(s, "due", j) /\ NoFault
     \/ /\ Promote(s, j) \/ UNCHANGED storeVars
        /\ Fault("db")
        /\ UNCHANGED hand
  /\ UNCHANGED queueVars

\* A slip: the answer is read the wrong way round.
ReapOneInverted(s, j) ==
  /\ Take(s, "reap", j)
  /\ RequeueStaleJob(j)
  /\ IF Stale(j) /\ Exhausted(j) THEN Hold(s, "reap", j) ELSE UNCHANGED hand
  /\ NoFault
  /\ UNCHANGED queueVars

\* RequeueStaleJob answers dead only if it killed the job itself.
ReapOne(s, j) ==
  /\ Take(s, "reap", j)
  /\ \/ /\ RequeueStaleJob(j)
        /\ IF Stale(j) /\ Exhausted(j) THEN UNCHANGED hand ELSE Hold(s, "reap", j)
        /\ NoFault
     \/ /\ RequeueStaleJob(j) \/ UNCHANGED storeVars
        /\ Fault("db")
        /\ UNCHANGED hand
  /\ UNCHANGED queueVars

MoveOne(s, j) ==
  /\ Take(s, "dead", j)
  /\ \/ MoveToDeadLetter(j) /\ NoFault
     \/ /\ \/ (jobs[j].state # "dead" \/ deadLetter[j] # NoLetter) /\ NoFault
           \/ Fault("db")
        /\ UNCHANGED storeVars
  /\ UNCHANGED <<queueVars, hand>>

ReconcileOne(s, j) ==
  /\ Take(s, "pending", j)
  /\ Enqueue(j)
  /\ UNCHANGED <<storeVars, hand>>

EnqueueHeld(s, l) ==
  /\ l \in Loops
  /\ \E j \in hand[s][l] : Enqueue(j)
  /\ hand' = [hand EXCEPT ![s][l] = {}]
  /\ UNCHANGED <<storeVars, lease, leading, poll, batch>>

--------------------------------------------------------------------------------
(* The loops, each a goroutine *)

runDuePoll(s) ==
  \/ pollScheduledJobs(s)
  \/ pollFailedJobs(s)
  \/ \E j \in JobIds : PromoteOne(s, j)
  \/ EnqueueHeld(s, "due")

runStaleReaper(s) ==
  \/ reapStaleClaims(s)
  \/ \E j \in JobIds : ReapOne(s, j)
  \/ EnqueueHeld(s, "reap")

runDeadLetterPromoter(s) ==
  \/ promoteDeadJobs(s)
  \/ \E j \in JobIds : MoveOne(s, j)

runPendingReconciler(s) ==
  \/ reconcilePending(s)
  \/ \E j \in JobIds : ReconcileOne(s, j)

SchedNext(s) ==
  \/ Campaign(s)
  \/ NoticeLoss(s)
  \/ CrashScheduler(s)
  \/ TerminateScheduler(s)
  \/ runDuePoll(s)
  \/ runStaleReaper(s)
  \/ runDeadLetterPromoter(s)
  \/ runPendingReconciler(s)
================================================================================
