------------------------------- MODULE JobStore --------------------------------
(***************************************************************************)
(* The Postgres tables jobs, job_runs and dead_letter, and every statement *)
(* of internal/storage and cmd/sluice-cli that writes them.  Each action   *)
(* is one statement or one transaction: what Postgres makes atomic.  The   *)
(* callers are left open: StoreNext lets any caller run any statement at   *)
(* any time, a worker that lost its claim long ago included, so whatever   *)
(* holds here holds for every schedule of API, scheduler, worker and CLI.  *)
(*                                                                         *)
(* A successful TryClaim makes one claim token and one job_runs row, and   *)
(* the worker always passes the two together; both are named by one member *)
(* of Tokens.  Time is abstract: a deadline is live until it passes, and   *)
(* run_at is in the future, then due, then a minute old.                   *)
(***************************************************************************)
EXTENDS Integers

CONSTANTS
  JobIds,         \* jobs, numbered in the order of created_at
  Tokens,         \* claim tokens, each with its job_runs row
  NoToken,        \* claim_token IS NULL
  Tenants,        \* tenant ids
  Priorities,     \* job priorities
  IdemKeys,       \* idempotency keys
  NoKey,          \* idempotency_key IS NULL
  RetryLimits     \* the max_retries that clients submit

ASSUME StoreAssumption ==
  /\ JobIds \subseteq Nat
  /\ NoToken \notin Tokens
  /\ NoKey \notin IdemKeys
  /\ RetryLimits \subseteq Int

VARIABLES
  jobs,         \* table jobs
  runs,         \* table job_runs
  deadLetter,   \* table dead_letter
  completing,   \* claims whose CompleteJob ran its first statement only
  handed        \* history: claims granted since submission or replay

storeVars == <<jobs, runs, deadLetter, completing, handed>>

--------------------------------------------------------------------------------
JobStates ==
  {"pending", "scheduled", "claimed", "running", "succeeded", "failed", "dead"}

InFlight == {"claimed", "running"}

\* The values of last_error that a property tells apart.
Errors == {"none", "execution", "heartbeat", "operator"}

\* A row of table jobs.
Row ==
  [state      : JobStates \cup {"deleted"},
   tenant     : Tenants,
   priority   : Priorities,
   key        : IdemKeys \cup {NoKey},
   maxRetries : RetryLimits,
   attempt    : Nat,
   runAt      : {"future", "due", "overdue"},
   token      : Tokens \cup {NoToken},
   deadline   : {"none", "live", "expired"},
   lastError  : Errors]

Absent == [state |-> "absent"]

\* finished_at IS NULL holds exactly while a run's state is "claimed".
Run == [job : JobIds, attempt : Nat, state : {"claimed", "succeeded", "failed", "dead"}]

NoRun == [state |-> "none"]

Letter == [attempts : Nat, error : Errors]

NoLetter == [error |-> "absent"]

\* Types of the three tables, of the claims half completed, and of the history.
StoreTypeOK ==
  /\ jobs \in [JobIds -> Row \cup {Absent}]
  /\ runs \in [Tokens -> Run \cup {NoRun}]
  /\ deadLetter \in [JobIds -> Letter \cup {NoLetter}]
  /\ completing \in SUBSET Tokens
  /\ handed \in [JobIds -> Nat]

StoreInit ==
  /\ jobs = [j \in JobIds |-> Absent]
  /\ runs = [c \in Tokens |-> NoRun]
  /\ deadLetter = [j \in JobIds |-> NoLetter]
  /\ completing = {}
  /\ handed = [j \in JobIds |-> 0]

--------------------------------------------------------------------------------
Inserted(j) == jobs[j] # Absent

Live(j) == jobs[j].state \in JobStates

\* A slip: the index covers only the jobs that are not over.
KeyTakenWhileOpen(t, k) ==
  k # NoKey /\ \E i \in JobIds :
    /\ Live(i) /\ jobs[i].tenant = t /\ jobs[i].key = k
    /\ jobs[i].state \notin {"succeeded", "dead"}

\* UNIQUE (tenant_id, idempotency_key); NULL keys never collide.
KeyTaken(t, k) ==
  k # NoKey /\ \E i \in JobIds : Live(i) /\ jobs[i].tenant = t /\ jobs[i].key = k

\* The WHERE clause by which a worker's write finds its job.
Fenced(j, c) == jobs[j].state \in InFlight /\ jobs[j].token = c

\* The WHERE clause of the reaper.
Stale(j) == jobs[j].state \in InFlight /\ jobs[j].deadline = "expired"

\* A slip: one attempt too many.
ExhaustedLate(j) == jobs[j].attempt + 1 > jobs[j].maxRetries

Exhausted(j) == jobs[j].attempt + 1 >= jobs[j].maxRetries

\* A row as handleSubmitJob builds it; ra is "future" for a run_at after now.
NewJob(t, p, k, mr, ra) ==
  [state      |-> IF ra = "future" THEN "scheduled" ELSE "pending",
   tenant     |-> t,
   priority   |-> p,
   key        |-> k,
   maxRetries |-> mr,
   attempt    |-> 0,
   runAt      |-> ra,
   token      |-> NoToken,
   deadline   |-> "none",
   lastError  |-> "none"]

InsertJob(j, row) ==
  /\ ~Inserted(j)
  /\ ~KeyTaken(row.tenant, row.key)
  /\ jobs' = [jobs EXCEPT ![j] = row]
  /\ UNCHANGED <<runs, deadLetter, completing, handed>>

\* SELECT ... FOR UPDATE SKIP LOCKED, the claim and its job_runs row, in one
\* transaction.
TryClaim(j, c) ==
  /\ jobs[j].state = "pending"
  /\ runs[c] = NoRun
  /\ jobs' = [jobs EXCEPT ![j] =
                [@ EXCEPT !.state = "claimed", !.token = c, !.deadline = "live"]]
  /\ runs' = [runs EXCEPT ![c] =
                [job |-> j, attempt |-> jobs[j].attempt, state |-> "claimed"]]
  /\ handed' = [handed EXCEPT ![j] = @ + 1]
  /\ UNCHANGED <<deadLetter, completing>>

MarkRunning(j, c) ==
  /\ Fenced(j, c)
  /\ jobs[j].state = "claimed"
  /\ jobs' = [jobs EXCEPT ![j] = [@ EXCEPT !.state = "running"]]
  /\ UNCHANGED <<runs, deadLetter, completing, handed>>

ExtendDeadline(j, c) ==
  /\ Fenced(j, c)
  /\ jobs' = [jobs EXCEPT ![j] = [@ EXCEPT !.deadline = "live"]]
  /\ UNCHANGED <<runs, deadLetter, completing, handed>>

\* CompleteJob is two statements outside a transaction.  This is the first;
\* a stale token affects no row and the second is then skipped.
CompleteJob(j, c) ==
  /\ Fenced(j, c)
  /\ jobs' = [jobs EXCEPT ![j] =
                [@ EXCEPT !.state = "succeeded", !.token = NoToken, !.deadline = "none"]]
  /\ completing' = completing \cup {c}
  /\ UNCHANGED <<runs, deadLetter, handed>>

\* The second statement: WHERE id = runID, whatever the row says by now.
CompleteRun(c) ==
  /\ c \in completing
  /\ runs' = [runs EXCEPT ![c] = [@ EXCEPT !.state = "succeeded"]]
  /\ completing' = completing \ {c}
  /\ UNCHANGED <<jobs, deadLetter, handed>>

\* The second statement never runs: the worker died or the statement failed.
AbandonRun(c) ==
  /\ c \in completing
  /\ completing' = completing \ {c}
  /\ UNCHANGED <<jobs, runs, deadLetter, handed>>

\* A slip: a state that the enum job_state does not have.
FailStateUnknown(j) == IF Exhausted(j) THEN "dead" ELSE "retrying"

FailState(j) == IF Exhausted(j) THEN "dead" ELSE "failed"

\* nextRunAt is "null" when the worker computed none.
FailJob(j, c, nextRunAt) ==
  /\ Fenced(j, c)
  /\ jobs' = [jobs EXCEPT ![j] =
                [@ EXCEPT !.state     = FailState(j),
                          !.attempt   = jobs[j].attempt + 1,
                          !.lastError = "execution",
                          !.runAt     = IF Exhausted(j) \/ nextRunAt = "null"
                                        THEN jobs[j].runAt ELSE nextRunAt,
                          !.token     = NoToken,
                          !.deadline  = "none"]]
  /\ runs' = [runs EXCEPT ![c] = [@ EXCEPT !.state = FailState(j)]]
  /\ UNCHANGED <<deadLetter, completing, handed>>

\* A slip: the second statement no longer compares the deadline.
RequeueJobInFlight(j) ==
  /\ Inserted(j)
  /\ runs' = [c \in Tokens |->
                IF runs[c].state = "claimed" /\ runs[c].job = j
                THEN [runs[c] EXCEPT !.state = "failed"] ELSE runs[c]]
  /\ jobs' = IF jobs[j].state \notin InFlight THEN jobs ELSE
               [jobs EXCEPT ![j] =
                  [@ EXCEPT !.state   = IF Exhausted(j) THEN "dead" ELSE "pending",
                            !.attempt = jobs[j].attempt + 1,
                            !.token   = NoToken]]
  /\ UNCHANGED <<deadLetter, completing, handed>>

\* The first statement closes every open run of the job; the second requeues
\* the job only if it is stale; the transaction commits in either case.
RequeueStaleJob(j) ==
  /\ Inserted(j)
  /\ runs' = [c \in Tokens |->
                IF runs[c].state = "claimed" /\ runs[c].job = j
                THEN [runs[c] EXCEPT !.state = "failed"] ELSE runs[c]]
  /\ jobs' = IF ~Stale(j) THEN jobs ELSE
               [jobs EXCEPT ![j] =
                  [@ EXCEPT !.state     = IF Exhausted(j) THEN "dead" ELSE "pending",
                            !.attempt   = jobs[j].attempt + 1,
                            !.token     = NoToken,
                            !.deadline  = "none",
                            !.lastError = "heartbeat"]]
  /\ UNCHANGED <<deadLetter, completing, handed>>

\* ON CONFLICT (job_id) DO NOTHING; the jobs row stays.
MoveToDeadLetter(j) ==
  /\ jobs[j].state = "dead"
  /\ deadLetter[j] = NoLetter
  /\ deadLetter' = [deadLetter EXCEPT ![j] =
                      [attempts |-> jobs[j].attempt, error |-> jobs[j].lastError]]
  /\ UNCHANGED <<jobs, runs, completing, handed>>

\* DELETE.  The tombstone keeps the columns that callers have copies of.
CancelJob(j, t) ==
  /\ jobs[j].state \in {"pending", "scheduled"}
  /\ jobs[j].tenant = t
  /\ jobs' = [jobs EXCEPT ![j] = [@ EXCEPT !.state = "deleted"]]
  /\ UNCHANGED <<runs, deadLetter, completing, handed>>

\* A slip: the attempts of the job's former life still count.
ReplayJobKeepsAttempt(j, t) ==
  /\ jobs[j].state = "dead"
  /\ jobs[j].tenant = t
  /\ jobs' = [jobs EXCEPT ![j] =
                [@ EXCEPT !.state = "pending", !.lastError = "none"]]
  /\ handed' = [handed EXCEPT ![j] = 0]
  /\ UNCHANGED <<runs, deadLetter, completing>>

ReplayJob(j, t) ==
  /\ jobs[j].state = "dead"
  /\ jobs[j].tenant = t
  /\ jobs' = [jobs EXCEPT ![j] =
                [@ EXCEPT !.state = "pending", !.attempt = 0, !.lastError = "none",
                          !.token = NoToken, !.deadline = "none"]]
  /\ handed' = [handed EXCEPT ![j] = 0]
  /\ UNCHANGED <<runs, deadLetter, completing>>

\* Two slips: the claim is not cleared; any job may be failed.
ForceFailKeepsClaim(j) ==
  /\ jobs[j].state \in {"claimed", "running", "pending", "failed"}
  /\ jobs' = [jobs EXCEPT ![j] = [@ EXCEPT !.state = "dead", !.lastError = "operator"]]
  /\ UNCHANGED <<runs, deadLetter, completing, handed>>

ForceFailAny(j) ==
  /\ Live(j)
  /\ jobs' = [jobs EXCEPT ![j] =
                [@ EXCEPT !.state = "dead", !.token = NoToken, !.deadline = "none",
                          !.lastError = "operator"]]
  /\ UNCHANGED <<runs, deadLetter, completing, handed>>

\* sluice-cli force-fail.  The open run, if any, is left open.
ForceFail(j) ==
  /\ jobs[j].state \in {"claimed", "running", "pending", "failed"}
  /\ jobs' = [jobs EXCEPT ![j] =
                [@ EXCEPT !.state = "dead", !.token = NoToken, !.deadline = "none",
                          !.lastError = "operator"]]
  /\ UNCHANGED <<runs, deadLetter, completing, handed>>

PromoteScheduledToPending(j) ==
  /\ jobs[j].state = "scheduled"
  /\ jobs' = [jobs EXCEPT ![j] = [@ EXCEPT !.state = "pending"]]
  /\ UNCHANGED <<runs, deadLetter, completing, handed>>

PromoteFailedToPending(j) ==
  /\ jobs[j].state = "failed"
  /\ jobs' = [jobs EXCEPT ![j] = [@ EXCEPT !.state = "pending", !.runAt = "due"]]
  /\ UNCHANGED <<runs, deadLetter, completing, handed>>

--------------------------------------------------------------------------------
(* The clock, as the WHERE clauses compare with NOW(). *)

DeadlinePasses(j) ==
  /\ jobs[j].state \in InFlight
  /\ jobs[j].deadline = "live"
  /\ jobs' = [jobs EXCEPT ![j] = [@ EXCEPT !.deadline = "expired"]]
  /\ UNCHANGED <<runs, deadLetter, completing, handed>>

\* run_at is only compared while a job waits, so time is let pass only then.
RunAtPasses(j) ==
  /\ jobs[j].state \in {"pending", "scheduled", "failed"}
  /\ jobs[j].runAt # "overdue"
  /\ jobs' = [jobs EXCEPT ![j] =
                [@ EXCEPT !.runAt =
                   IF jobs[j].runAt = "future" THEN "due" ELSE "overdue"]]
  /\ UNCHANGED <<runs, deadLetter, completing, handed>>

--------------------------------------------------------------------------------
\* Callers pass the run and token that a TryClaim on this job returned.
WorkerStatement(j, c) ==
  /\ runs[c] # NoRun
  /\ runs[c].job = j
  /\ \/ MarkRunning(j, c)
     \/ ExtendDeadline(j, c)
     \/ CompleteJob(j, c)
     \/ \E nextRunAt \in {"null", "due", "future"} : FailJob(j, c, nextRunAt)

JobStatement(j) ==
  \/ \E t \in Tenants, p \in Priorities, k \in IdemKeys \cup {NoKey},
        mr \in RetryLimits, ra \in {"future", "due"} :
       InsertJob(j, NewJob(t, p, k, mr, ra))
  \/ \E c \in Tokens : TryClaim(j, c) \/ WorkerStatement(j, c)
  \/ RequeueStaleJob(j)
  \/ MoveToDeadLetter(j)
  \/ \E t \in Tenants : CancelJob(j, t) \/ ReplayJob(j, t)
  \/ ForceFail(j)
  \/ PromoteScheduledToPending(j)
  \/ PromoteFailedToPending(j)
  \/ DeadlinePasses(j)
  \/ RunAtPasses(j)

StoreNext ==
  \/ \E j \in JobIds : JobStatement(j)
  \/ \E c \in Tokens : CompleteRun(c) \/ AbandonRun(c)

StoreSpec == StoreInit /\ [][StoreNext]_storeVars

--------------------------------------------------------------------------------
(* Properties *)

\* How often a job may be handed out: FailJob and RequeueStaleJob both let a
\* job with max_retries <= 1 run once.
Budget(j) == IF jobs[j].maxRetries > 1 THEN jobs[j].maxRetries ELSE 1

\* A job has a claim token and a deadline exactly while it is in flight, and the
\* token's job_runs row is a row of this job and of its current attempt.  So no
\* two jobs are ever held under one token, and no write of TryClaim, FailJob,
\* RequeueStaleJob, ForceFail or ReplayJob leaves half a claim behind.
HolderHasRun ==
  \A j \in JobIds : Inserted(j) =>
    /\ jobs[j].token # NoToken <=> jobs[j].state \in InFlight
    /\ jobs[j].deadline # "none" <=> jobs[j].state \in InFlight
    /\ jobs[j].state \in InFlight =>
         /\ runs[jobs[j].token] # NoRun
         /\ runs[jobs[j].token].job = j
         /\ runs[jobs[j].token].attempt = jobs[j].attempt
         /\ runs[jobs[j].token].state \in {"claimed", "failed"}

WithinBudget(j) ==
  Inserted(j) =>
    /\ handed[j] <= Budget(j)
    /\ jobs[j].state = "dead" /\ jobs[j].lastError # "operator" => handed[j] = Budget(j)

\* Between submission (or replay) and the next replay a job is handed to workers
\* at most Budget times, however failures, heartbeat losses and operator actions
\* interleave; and a job that dies without an operator has used its whole budget:
\* FailJob and RequeueStaleJob agree on what an attempt is.
RetryBudget == \A j \in JobIds : WithinBudget(j)

\* attempt counts the grants that have ended.
Accounted(j) ==
  /\ jobs[j].state = "absent" => handed[j] = 0
  /\ jobs[j].state \in InFlight \cup {"succeeded"} =>
       handed[j] = jobs[j].attempt + 1 /\ jobs[j].attempt < Budget(j)
  /\ jobs[j].state \in {"pending", "scheduled", "failed", "deleted"} =>
       handed[j] = jobs[j].attempt /\ jobs[j].attempt < Budget(j)

\* Why RetryBudget holds: a job in flight or succeeded has been handed out once
\* more than its attempt column says, a waiting one exactly that often, and no
\* such job has ended as many grants as its budget: TryClaim, FailJob and
\* RequeueStaleJob keep these counts in step.
AttemptAccounting == \A j \in JobIds : Accounted(j)

\* The claims that CompleteJob accepted.
Accepted == {c \in Tokens : c \in completing \/ runs[c].state = "succeeded"}

\* However many workers execute a job, at most one of its runs is ever accepted
\* as successful, that run is the one of the job's last attempt, and the job is
\* succeeded: no completion of a stale worker gets through CompleteJob.
SuccessOnce ==
  /\ \A c \in Accepted :
       /\ runs[c] # NoRun
       /\ jobs[runs[c].job].state = "succeeded"
       /\ jobs[runs[c].job].attempt = runs[c].attempt
  /\ \A c, d \in Accepted : runs[c].job = runs[d].job => c = d

\* No statement of any role changes the row of a job that has succeeded: not a
\* late FailJob, not the reaper, not cancel, replay or force-fail.
SucceededIsFinal ==
  [][\A j \in JobIds : jobs[j].state = "succeeded" => jobs'[j] = jobs[j]]_storeVars

\* For the proofs of Submission: the unique index leaves a key to one job of its
\* tenant until the job is cancelled.
KeyNamesOneJob ==
  \A i, j \in JobIds :
    /\ Live(i) /\ Live(j)
    /\ jobs[i].key # NoKey /\ jobs[i].key = jobs[j].key /\ jobs[i].tenant = jobs[j].tenant
    => i = j

\* The inductive invariant of the tables.
StoreInv ==
  StoreTypeOK /\ HolderHasRun /\ AttemptAccounting /\ RetryBudget /\ SuccessOnce

Phase(j) ==
  CASE jobs[j].state = "absent"    -> "absent"
    [] jobs[j].state \in InFlight  -> "held"
    [] jobs[j].state = "succeeded" -> "done"
    [] jobs[j].state = "dead"      -> "dead"
    [] jobs[j].state = "deleted"   -> "withdrawn"
    [] OTHER                       -> "waiting"

Contract ==
  INSTANCE JobContract WITH
    phase  <- [j \in JobIds |-> Phase(j)],
    holder <- [j \in JobIds |-> IF Inserted(j) THEN jobs[j].token ELSE NoToken],
    issued <- {c \in Tokens : runs[c] # NoRun},
    grants <- handed,
    limit  <- [j \in JobIds |-> IF Inserted(j) THEN Budget(j) ELSE 0]

\* The tables implement JobContract: exclusive grants under tokens that are never
\* issued twice, a bounded number of them, give-back only while some remain, and
\* no way out of succeeded.
ImplementsContract == Contract!ContractSpec
================================================================================
