# Sluice in TLA+

A model of Sluice (submission, queueing, dispatch, claiming, execution, retry,
recovery, operator intervention, recurring schedules, partition maintenance), checked
with TLC on small instances and, for the properties that matter most, proved with
TLAPS for all of them. `PROJECT.json` maps every definition to the source lines it
stands for.

## 1. The system

Sluice is three roles of one binary (`cmd/sluice`) and an admin CLI
(`cmd/sluice-cli`) over one Postgres (the truth), Redis lists (the way to workers)
and an etcd lease (which scheduler leads).

| Part | State | Operations that change state |
|---|---|---|
| Job tables, `internal/storage` | `jobs`, `job_runs`, `dead_letter` | InsertJob, TryClaim, MarkRunning, ExtendDeadline, CompleteJob (two statements), FailJob, RequeueStaleJob, MoveToDeadLetter, CancelJob, ReplayJob, the two promotions |
| Queues, `internal/queue` | `queue:{bucket}:{tenant}`, `processing:{worker}`, `heartbeat:{job}` | Enqueue (LPUSH), Dequeue (LMOVE), RemoveFromProcessing (LREM), Heartbeat (SET) |
| Worker, `internal/worker` | the job in hand, claim token, tenant cache | Run, process, heartbeat, Reload |
| Scheduler, `internal/scheduler` | each loop's snapshot | due poll, stale reaper, dead-letter promoter, pending reconciler, cron expander, partition maintainer |
| Leader election, `internal/leader` | the lease, each instance's `leaderCtx` | Campaign, session loss, resign |
| API, `internal/api` | a request between its write and its Enqueue | submit, cancel, replay, create and delete schedule |
| CLI, `cmd/sluice-cli` | a replay between its three steps | replay, force-fail, drain |
| Job model, `internal/job` | none | ShouldRetry, NextRetryAt |
| Rate limiter, `internal/ratelimit` | a counter per tenant and second | Allow |
| Tenants, statistics, WebSocket, metrics, tracing, dashboard, deployment | read-only as far as jobs go | none |

How they interact. The API writes a job and pushes its id. A worker moves the id to
its processing list, claims the row under a fresh token, executes, and writes the
result under that token. The leader moves scheduled and failed jobs to pending when
their time has come, takes jobs from workers whose deadline passed, copies dead jobs
to `dead_letter`, and re-enqueues pending jobs that have waited for a minute.
Nothing ties a row to its queue entry but the code's order of calls.

What is hard in this, and so what the properties are about (the full list, each
hazard at its line, is under "hazards" in `PROJECT.json`):

- a worker that lost its claim comes back late with a heartbeat or a result;
- row and queue entry are written by separate calls, and any process may stop
  between them, or any call fail, or succeed without its answer arriving;
- the scheduler loops act on snapshots, one job at a time, and for a while two
  instances may lead;
- entries are duplicated on purpose, and `SKIP LOCKED` drops one while another
  worker's claim is still open;
- three pieces of code decide separately whether an attempt was the last one;
- operators take jobs from under workers and give dead ones a new life;
- transactions take the same row locks in opposite orders;
- intervals fixed in three packages have to fit together;
- a schedule is fired by three calls that nothing ties together;
- the worker's list of tenants is a cache, and its scan of the lanes is not atomic.

## 2. Modules

| Module | Models | Uses |
|---|---|---|
| `JobContract` | what is promised about one job: exclusive grants under tokens never issued twice, at most `limit` per life, done stays done | |
| `JobStore` | the three tables and every statement that writes them, callers left open | |
| `RowLocks` | the transactions of `JobStore` statement by statement, with row locks | `JobStore` |
| `Faults` | a shared budget of faults | |
| `RedisQueue` | queues and processing lists | `JobStore`, `Faults` |
| `Worker` | the worker loop, one action per round trip | `RedisQueue` |
| `Scheduler` | leader election and four loops | `RedisQueue` |
| `Api` | job handlers and CLI commands | `RedisQueue` |
| `Sluice` | the composition, clock, fairness, properties | `Worker`, `Scheduler`, `Api` |
| `Submission` | POST /jobs round trip by round trip: rate limiter, insert, look-up, enqueue, answer | `RedisQueue` |
| `Cron` | table `schedules`, its handlers, the cron loop | `Scheduler` |
| `Dispatch` | Dequeue's scan over tenants and lanes, the worker's list of tenants | `Faults` |
| `Lease` | one claim in time: deadline, beats, reaper, retry delay | |
| `Partitions` | the monthly partitions of `job_runs` | |
| `MCSluice`, `MCSubmission` | symmetry for TLC | |
| `JobStoreProofs`, `LocksProofs`, `SluiceProofs`, `HandoffProofs`, `SubmissionSteps`, `SubmissionProofs`, `CronProofs` | theorems about the modules of those names | |
| `LoopProofs` | theorems about `Dispatch`, `Lease` and `Partitions` | |

Operators commented "a slip" are variants of the code with one plausible mistake.
No specification uses them; they show that a property tells the code from the slip.

**JobStore.** `jobs`, `runs` and `deadLetter` are the tables as functions, without
the columns no property tells apart (payload, type, timestamps kept for display). A
claim token and the `job_runs` row made with it are one member of `Tokens`, because
TryClaim makes both and the worker always passes both. `completing` is the set of
claims between the two statements of CompleteJob; `handed` is a history variable,
the claims granted since submission or replay. Time is abstract: a deadline is
`live` until it has `expired`; `runAt` is in the `future`, `due`, then `overdue`
(the reconciler's minute). A cancelled job is a tombstone, since callers still hold
copies of its columns. A statement that finds no row is a stutter. Each action is one
statement or transaction.

**RowLocks** is why a transaction may be one action. TryClaim, FailJob and
RequeueStaleJob take their row locks one statement after the other and become visible
at commit, as under READ COMMITTED; a single statement waits while another session
holds its row. The `job_runs` row of an unfinished TryClaim is reserved, not visible.
RequeueStaleJob locks the open runs one by one and compares the deadline with NOW(),
which Postgres fixes when the transaction begins. Deadlock detection is `Rollback` of a
session that is in a cycle of waits.

**RedisQueue.** Queues are sequences, oldest first. A processing list is a set: LREM
removes all copies and nothing else reads the list. The heartbeat keys are left out:
the code sets them and never reads them.

**Worker.** `worker[w]` is where `process` is, with job and token. Every database or
Redis call is an action, and every error return a disjunct under `Fault("db")` or
`Fault("redis")`; a claim or a promotion whose error hides a commit is a choice.
`Dequeue` may take from any non-empty queue; which one it is, is the subject of
`Dispatch`. An LMOVE that fails, with or without effect, leaves the worker idle.
Execution ends in success or error, by choice. SIGTERM stops the worker
where it is: `runWorker` cancels the context every call uses. A restarted worker has a
new id, so its processing list is empty and the old one is out of reach.

**Scheduler.** `lease` is what etcd says and `leading` who believes to lead; losing
the lease and noticing it are two steps. Each loop has the rest of its snapshot
(`batch`) and the job it has written and not yet enqueued (`hand`). The due loop
alternates between its two polls. The LIMITs of 500 are taken to exceed the number
of jobs; the dead-letter LIMIT is `DeadListLimit`.

**Api.** A handler that writes and then enqueues is two actions, as is the end of
`sluice-cli replay`, whose check is a third. A replayed job that is cancelled before
the handler reads it back is not enqueued in the code and is in the model; the entry
meets no row and is dropped. `drain` deletes one queue per step.

**Submission.** A request carries the second that Allow read, the count that INCR
returned and, at the end, its status and job. INCR and EXPIRE are two actions: a
process that dies between them leaves a counter without a TTL. An error of the limiter
lets the request through, as the handler does. `Elsewhere` is the rest of the system at
work on the jobs: cancel, replay, force-fail.

**Cron.** `now` counts minutes, and a cron expression is a period, so that `NextMatch`
is the next multiple. `todo` is the rest of an instance's snapshot, `firing` the
schedule it is at between InsertJob, Enqueue and UpdateScheduleAfterRun. Templates that
do not parse stay due, as in the code; `EventuallyFired` is about schedules that have
room in the batch beside them. `origin` is a history variable, the due time a
job was made for; `late` counts the jobs made after a delete. Leadership is that of
`Scheduler`, whose own loops are off.

**Dispatch.** One worker in full; of the others, that entries come and go.
`refresher` is the goroutine of Run (ticker or channel, GetTenants, publish), `reload`
the channel of capacity 1. `scan` is where Dequeue is: the list that this call goes by,
the tenants not yet drawn, the tenant at hand and the buckets left. The order of
weightedShuffle is drawn one tenant at a time. `older` is a history field: the entries
that waited when the scan came to the tenant and still do.

**Lease.** Time goes by in seconds, and `Tick` may not pass a timer that is due.
Beats may be lost and may be in flight for up to `MaxFlight`; a stage of `process` is
reached up to `MaxLag` late. The reaper's round may fail, and its leader may go, to be
replaced within `MaxVacancy` by one whose ticker starts anew; `putOff` adds up what
these two cost the round that is waited for. `NextRetryAt` is computed in integers of `IntBits` bits,
so that a doubling that goes on too long wraps around.

**Partitions.** Day by day; `AddDate` has Go's normalisation (30 January plus one
month is in March). Each round of the maintainer gets any subset of its calls through.

## 3. Runs

Bounds. `Tokens` bounds the claims of a behaviour, `MaxFaults` the faults,
`MaxRequests` the cancels, replays and force-fails. `MaxQueue` (2) stops the loops
from polling while a queue is that long, since the reconciler and the reaper would
otherwise enqueue one job for ever; two entries of one job are enough for duplicate
deliveries, and held jobs and handlers may add more. `Loops` selects the loops and
`MayStall` says whether a deadline may pass although its worker is alive. One job is
enough for the passing runs of `Sluice` because every statement names one job and the
loops treat jobs independently, but for the LIMIT of the dead-letter promoter, for which
`dead_letters` has two; the proofs are for any number.

| Run | Instance | Shows |
|---|---|---|
| `locks` | 1 job, 2 tokens, 2 sessions in transactions beside every single statement | `LocksTypeOK`; `SuccessOnce` and `ImplementsContract` hold with transactions in pieces; `RequeueClosesRun`: the reaper never ends a claim and leaves its run open; `TransactionsEnd` |
| `recovery` | 2 workers, 1 scheduler, 1 request, any one fault, stalls allowed, loops due, reap and pending | `TypeOK`; `ClaimsOwned`: tokens are private and name the worker's own run; `NoStrandedJob`: before any fault every pending job is queued, or about to be queued or claimed; `ImplementsStore`: the composition changes the tables only as `JobStore` allows |
| `exclusive` | 2 workers, 2 schedulers, max_retries 0 or 2, 1 request, two faults among crash, database, lease; heartbeats arrive | `HolderHasRun`: claims are whole; `AttemptAccounting` and `RetryBudget`: at most max(1, max_retries) grants per life, and all of them used before a job dies by itself; `SucceededIsFinal`; `ExclusiveExecution`: no job is worked on twice at once, even with two leaders |
| `live` | 1 worker, 1 scheduler, two faults among crash, SIGTERM, Redis, database, lease, drain; heartbeats arrive | `EventuallySettled` |
| `submit` | 3 requests, 2 jobs, one key or none, limit 1, one fault | `SubmissionTypeOK`; `AnswersAgree`: all answers for a key name one job; `ConflictOnlyAfterCancel`: a 409 without a fault means a cancel in between; `RateLimitHolds` |
| `dispatch` | 2 tenants, one of which comes and goes, 2 entries, 2 of the 3 lanes, weight 0 in the table, one fault | `DispatchTypeOK`; `HigherLaneFirst`: no waiting job of a higher lane of the tenant is passed over; `ReloadNotLost`: no SIGHUP is lost; `HeadOfLaneServed` |
| `cron` | 2 schedules, 2 schedulers, period 2, minutes 0 to 3, one crash, SIGTERM or database error | `CronTypeOK`; `OncePerOccurrence`: a due time fires once plus at most once per fault; `DeletedFiresOnce`; `NextRunAdvances`; `EventuallyFired` |
| `lease` | the code's own intervals in seconds; up to 10 seconds of failed rounds and leader changes; backoffs and attempts around the cap | `LiveClaimKept`: a live worker loses its claim only if beats got through and then three in a row (two while it records) did not; `CrashDetected`: a crash is found out by the deadline's TTL, one round of the reaper and what put that round off; `RetryDelayInRange` |
| `partitions` | every day from late 2026 to early 2028, over two winters and a leap day, every pattern of rounds | `MonthReady`: with a round at least every 28 days each month has its partition when it begins; `NeverRefused` |

Why these bounds. `locks`: a deadlock needs two transactions on one job and its run,
and a third party is a single statement. `submit`: two requests race for a key while a
third finds it taken, and limit 1 makes two of them contend. `cron`: two due times of
one schedule beside a second that never parses. `dispatch`: entry, lane and tenant each
have a rival; `Loaded` keeps lane 1 empty, so that the pass over an empty lane is
always there. `lease`: `IntBits` is 16, small enough that the attempts of the run
would overflow, and `MaxPutOff` is 10, which has room for two failed rounds or one
change of leader with the 5 seconds that etcd waits. `exclusive`: one request, since
a force-fail and a replay together do put two workers on one job. `partitions`: the bounds are sharp, a `MaxGap` of 29 or a `Warmup` of
30 days violates `MonthReady`.

Deadlock is checked where the system never stops. It is not in `locks`,
`submit` and `lease`, where nothing is left to do once the jobs, requests or the one
claim are over.

**Disagreements.** Three runs check what a document or comment says and find it
violated; "findings" in `PROJECT.json` quotes the lines.

| Run | Property | The code |
|---|---|---|
| `stale_promotion` | `BackoffRespected` | while two instances lead, the old one's snapshot promotes a job that was retried and failed again since: the UPDATE compares the state, not `run_at`. A force-fail followed by a replay does the same with one leader |
| `dead_letters` | `DeadIsListed` | the promoter lists the 200 newest dead jobs, copied ones included, so that older ones are never copied. The run has a LIMIT of 1 and two jobs, under `FairSpec` and without faults; with a LIMIT of 2 the property holds |
| `crash_detection` | `NodeLossRecovered` | a worker that dies before its first beat is applied keeps its claim for 60 seconds, against "< 30 seconds" and "15s"; the leader is there throughout and no round fails |

Others were met while modelling, and have no run of their own:

- README.md:144 has workers drain their jobs on SIGTERM. `runWorker` passes Run the
  context that SIGTERM cancels (`main.go:167`), so the job is aborted where it is, and
  comes back by its deadline (`EventuallySettled`).
- `storage.go:310` has RequeueStaleJob handle a job whose deadline expired. Its first
  statement closes every open run of the job without comparing the deadline
  (`storage.go:323`): the `job_runs` row of a claim that a heartbeat has just saved
  says failed. The claim itself stands.
- architecture.md:104 has exactly one leader at any moment. `lease` and `leading` in
  `Scheduler` part when the lease runs out early.
- A claim lost before execution uses an attempt: a job can die unexecuted.
- A failed GetJob leaves the processing entry behind.
- `fireSchedule` computes the next run in the scheduler's own zone
  (`scheduler.go:284`), the create handler in the schedule's (`schedule_handler.go:62`).
- README.md:132 and architecture.md:350 have weighted fairness within each priority
  lane. The code draws the tenant first and goes through its lanes second, so a high
  priority job of one tenant may wait for low priority jobs of another;
  `HigherLaneFirst` is about the lanes of one tenant.
- architecture.md:94 and :347 have a token bucket; the limiter is a fixed window.

**Fairness.**

- `FairSpec` (`live`, `dead_letters`): weak fairness of each worker's next step (calls return or fail,
  `execute` has a 25 second timeout, a dead worker is restarted), of each loop of a
  leader (tickers), of noticing a lost lease, of some instance winning a free lease, of
  the expiry of a dead holder's lease, of the clock per job, and of the rest of a
  started request. A fault, a new request, a heartbeat and the outcome of an execution
  are never forced. Deadlines do not pass under a worker that is alive: a worker that
  stalls on every attempt only uses up the retry budget, but each stall takes a token.
- `FairCronSpec` (`cron`): the same for the cron loop, the election and the clock.
- `FairLocksSpec` (`locks`): strong fairness of a session's next statement, rollback
  included. Postgres queues those who wait for a row lock, so a session that is again
  and again able to go on does, and it breaks deadlocks after `deadlock_timeout`.
- `DispatchFairness` (`dispatch`): weak fairness of the goroutine and of Dequeue, strong
  fairness of each tenant's draw. The draw is random with a positive weight, so a
  tenant that can be drawn infinitely often is, with probability one.

`HeadOfLaneServed` is about the first entry of a lane of an active tenant while the
higher lanes of that tenant are empty: strict priority lets lower lanes starve by
design, and the jobs of a deactivated tenant stay queued.

## 4. Proofs

All constants are arbitrary, under the named assumptions of the modules:
`StoreAssumption` (jobs are numbers, NULLs differ from values, retry limits are
integers, zero and negative included), `SchedulerAssumption`, `ApiAssumption`,
`SubmissionAssumption`, `CronAssumption`, `LeaseAssumption`, `IntervalsAssumption`,
`DispatchAssumption`, `PartitionsAssumption`. What a theorem assumes beyond these is
in its statement, and named below. An inductive invariant that is not the property
itself stands at the end of the module it is about ("Why the properties hold") or at
the head of its proofs.

A leaf names Zenon where first-order reasoning is enough, and leaves arithmetic, records
and sequences to SMT: tlapm prepares an SMT leaf the slower the more of them came before
it in the module, and gives up after five seconds.

**The tables.** `JobStoreProofs`: `StoreInv` is inductive. `RetryBudget` alone is not:
that a dying job has used all its grants follows only from `AttemptAccounting`, which
ties `attempt` to the grants in each state. `SuccessOnce` needs `HolderHasRun`: a
completion is accepted only under the job's current token, whose run is of the current
attempt. From it: `ClaimsAreWhole`, `AttemptsAreCounted`,
`RetriesAreBounded`, `SuccessIsUnique`, `SucceededFinal`.
`StoreImplementsContract` shows each statement to be one step of `JobContract` or a
stutter.

**The transactions.** `LocksProofs`, for any number of sessions. A step of `RowLocks`
is a statement of `JobStore`, or one of the writes that RequeueStaleJob alone has
(`StoreOrReap`), so that `StoreInv` carries over. To show that, what a transaction read
must still be so when it writes. `LocksInv` says when: `LocksExclude`, no two sessions
hold one row, and `TxStands`, per kind of transaction. For TryClaim and FailJob the
row they locked is as they read it. RequeueStaleJob is the hard one: it locks the runs
before the job, so the claim it read may end in between, and what stands is only that a
run it has locked is open, and that the run of the claim it saw is closed by now or
among those it has locked or is still to lock. From it: `LocksAreTyped`, `LockedRowsStand`,
`TransactionsKeepPromises` (`SuccessOnce`, `HolderHasRun`, `RetryBudget`,
`AttemptAccounting`), `TransactionsImplementContract`, `RequeuedRunsAreClosed`.

**The composition.** `SluiceProofs`: `SystemInv` (types, `StoreInv`, `ClaimsOwned`) is
inductive. It is `ClaimsOwned` that lets a worker's call be a `WorkerStatement` of
`JobStore`. From it: `SystemInvariant`, `SystemTypes`, `SystemImplementsStore`, and
with the theorems above `SystemKeepsPromises`: under any number of crashes, errors, lost
leases and leaders, claims are whole, attempts are counted and bounded, and success is
unique and final.

**Handing on.** `HandoffProofs`: `NoJobIsStranded`.
`NoStrandedJob` needs `SoleLeader`, since an instance that notices the loss of its
lease drops what it was about to enqueue, and without a fault no leading instance loses
it. One lemma per component shows that what a step takes over it hands on.
`WorkersAreExclusive` assumes that deadlines pass only under dead workers (`~MayStall`)
and that there are no operator requests, both of which take jobs from workers by
intention. The strengthening is `HoldersFenced`: a worker that has still to record its
result holds the token in the row, under a live deadline.

**Submission.** `SubmissionProofs`, over the lemmas of `SubmissionSteps`:
`SubmissionsAreTyped`, `ConflictsAreCancels`, `AnswersNameOneJob`, and
`RateLimitIsKept` (for a limit of at least 1). The limit needs `LimiterInv`: a counter
outlives every request that read the clock in its second (`CountersOutlast`, which is
where a stall shorter than the TTL is used), so no two INCRs of a second return the
same count (`CountsDiffer`), and those let through have counts up to the limit. The answers need `AnswerInv`: the
job of a request, and the one whose key stood in the way of its insert, are of its
tenant and key; `KeyNamesOneJob`, which the unique index gives, does the rest.

**Schedules.** `CronProofs`: `SchedulesFireOnce`, `DeletedSchedulesStop`,
`CronIsTyped`, `NextRunNeverGoesBack`, without an early loss of the lease
(`"lease" \notin FaultKinds`): two leaders fire a due time twice. `CronInv` says that a
loop under way is the leader's, that what is left of its snapshot is still due then,
that a firing under way moves `next_run_at` on, and that no job was made for a due time
still to come. "At most n jobs" is `AtMost`, a numbering of them by 1..n without
repetition, so that nothing has to be assumed about the size of `JobIds`.

**Loops by themselves.** `LoopProofs`.

- `IntervalsFit` and `CrashesAreDetected`, for all intervals that satisfy
  `IntervalsAssumption`. `LeaseInv` bounds the time to the deadline in each stage by
  what the claim, or the last beat and those missed since, leave of it; a failed round
  or a new leader moves the next round away by no more than it adds to `putOff`.
- `ScansByPriority`, `ScansAreTyped`, `ReloadsAreHeard`. `HigherLaneFirst` needs
  `OlderIsQueued`: an entry pushed behind the scan is not one that waited before.
- `CreatesAreNotRefused`: the default partition has rows of the present month only, and
  `AddDate` of the look-ahead is later. `MonthsAreReady`, for any day to begin with,
  if `MaxGap` is at most 28, `Warmup` at least 31 days and the look-ahead a month or more:
  `CalendarInv` ties the partitions that exist to the days since the last round.

**Only model-checked.** `EventuallySettled`, `EventuallyFired`,
`TransactionsEnd` and `HeadOfLaneServed` are liveness under fairness, which is out of
the prover's reach. `RetryDelayInRange` is about a doubling loop, a recursion over
data, which would take an induction that the provers cannot do.

## 5. Not modelled

- Reads: job and run listings, statistics, the WebSocket stream (which polls the
  tables), tenant lookup by API key. They change no state of the job path.
- The form of a request: body limits, JSON, the allowed job types and priorities. The
  models begin with a request that passed these checks.
- Sessions, keys and revisions of etcd below the abstract lease of `Scheduler`, and the
  errors of Campaign, which end the process.
- A negative `backoff_seconds`, and clocks of worker and database that disagree.
- Cron expressions other than a period: parsing and matching are a library's.
- Configuration, metrics, tracing, the dashboard and deployment files.
