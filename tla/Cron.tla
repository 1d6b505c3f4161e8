---------------------------------- MODULE Cron ---------------------------------
(***************************************************************************)
(* Recurring schedules: the table schedules, the handlers that create and  *)
(* delete rows, and the leader's cron loop (expandCron, fireSchedule).     *)
(* Leadership, the job tables and the queues are those of Scheduler, whose *)
(* own loops are off here.  A fired schedule is three calls, InsertJob,    *)
(* Enqueue and UpdateScheduleAfterRun, and nothing ties them together.     *)
(*                                                                         *)
(* now counts minutes.  A cron expression is reduced to a period: it fires *)
(* when the minute, on the clock of some zone, is a multiple of it.        *)
(***************************************************************************)
EXTENDS Scheduler

CONSTANTS
  ScheduleIds,
  Names,            \* schedule names
  Periods,          \* cron expressions
  Zones,            \* time zones, as minutes ahead of the scheduler's own
  CronBatchSize,    \* the LIMIT of GetDueSchedules
  Horizon           \* bound: the last minute

ASSUME CronAssumption ==
  /\ Periods \subseteq Nat \ {0}
  /\ Zones \subseteq Nat
  /\ Horizon \in Nat

VARIABLES
  schedules,   \* table schedules
  now,         \* the time
  todo,        \* what each instance's cron loop has still to do of its snapshot
  firing,      \* the schedule that each instance is at, between two calls
  origin,      \* history: the schedule and the next_run_at a job was made for
  late         \* history: jobs made for a schedule after it was deleted

cronVars == <<schedules, now, todo, firing, origin, late>>

\* A job template that fireSchedule can make a job of, and one that it cannot.
Template == [priority : Priorities, maxRetries : RetryLimits]

Malformed == [priority |-> "malformed"]

ScheduleRow ==
  [status    : {"active", "deleted"},
   tenant    : Tenants,
   name      : Names,
   period    : Periods,
   zone      : Zones,
   template  : Template \cup {Malformed},
   nextRunAt : Nat]

NoSchedule == [status |-> "absent"]

Occurrence == [id : ScheduleIds, due : Nat]

NoOrigin == [due |-> "none"]

Firing == [id : ScheduleIds, job : JobIds, next : Nat, step : {"enqueue", "update"}]

NotFiring == [step |-> "none"]

\* Types of the cron loop, its table and its history.
CronTypeOK ==
  /\ schedules \in [ScheduleIds -> ScheduleRow \cup {NoSchedule}]
  /\ now \in Nat
  /\ todo \in [Schedulers -> SUBSET Occurrence]
  /\ firing \in [Schedulers -> Firing \cup {NotFiring}]
  /\ origin \in [JobIds -> Occurrence \cup {NoOrigin}]
  /\ late \in [ScheduleIds -> Nat]

CronInit ==
  /\ StoreInit
  /\ QueueInit
  /\ FaultsInit
  /\ SchedInit
  /\ schedules = [i \in ScheduleIds |-> NoSchedule]
  /\ now = 0
  /\ todo = [s \in Schedulers |-> {}]
  /\ firing = [s \in Schedulers |-> NotFiring]
  /\ origin = [j \in JobIds |-> NoOrigin]
  /\ late = [i \in ScheduleIds |-> 0]

--------------------------------------------------------------------------------
Active(i) == schedules[i].status = "active"

\* A slip: an expression that matches this minute is next due this minute.
NextOrNow(period, zone, t) ==
  IF (t + zone) % period = 0 THEN t ELSE t + period - ((t + zone) % period)

\* cron.Schedule.Next: the first match after t.
NextMatch(period, zone, t) == t + period - ((t + zone) % period)

\* The name is unique among the tenant's schedules.  The template is not looked
\* at, and the first run is computed on the clock of the schedule's zone.
handleCreateSchedule(i) ==
  /\ schedules[i] = NoSchedule
  /\ \E t \in Tenants, n \in Names, p \in Periods, z \in Zones,
        tmpl \in Template \cup {Malformed} :
       /\ ~\E k \in ScheduleIds :
             Active(k) /\ schedules[k].tenant = t /\ schedules[k].name = n
       /\ schedules' = [schedules EXCEPT ![i] =
            [status |-> "active", tenant |-> t, name |-> n, period |-> p, zone |-> z,
             template |-> tmpl, nextRunAt |-> NextMatch(p, z, now)]]
  /\ NoFault
  /\ UNCHANGED <<storeVars, queueVars, schedVars, now, todo, firing, origin, late>>

\* A slip: the row is only disabled, which no query of the table asks about.
DisableSchedule(i) ==
  /\ Active(i)
  /\ schedules' = [schedules EXCEPT ![i] = [@ EXCEPT !.status = "disabled"]]
  /\ NoFault
  /\ UNCHANGED <<storeVars, queueVars, schedVars, now, todo, firing, origin, late>>

\* DELETE.  The tombstone keeps the columns that snapshots have copies of.
handleDeleteSchedule(i) ==
  /\ Active(i)
  /\ schedules' = [schedules EXCEPT ![i] = [@ EXCEPT !.status = "deleted"]]
  /\ NoFault
  /\ UNCHANGED <<storeVars, queueVars, schedVars, now, todo, firing, origin, late>>

--------------------------------------------------------------------------------
(* The cron loop *)

\* A slip: deleted schedules are found as well.
DueEver == {i \in ScheduleIds : schedules[i] # NoSchedule /\ schedules[i].nextRunAt <= now}

Due == {i \in ScheduleIds : Active(i) /\ schedules[i].nextRunAt <= now}

\* ORDER BY next_run_at LIMIT: none that is left out is due before one that is not.
GetDueSchedules(found) ==
  /\ found \subseteq Due
  /\ found = Due \/ Cardinality(found) = CronBatchSize
  /\ Cardinality(found) <= CronBatchSize
  /\ \A i \in found, k \in Due \ found : schedules[i].nextRunAt <= schedules[k].nextRunAt

expandCron(s) ==
  /\ s \in leading
  /\ todo[s] = {} /\ firing[s] = NotFiring
  /\ \E found \in SUBSET ScheduleIds :
       /\ GetDueSchedules(found)
       /\ todo' = [todo EXCEPT ![s] =
                     {[id |-> i, due |-> schedules[i].nextRunAt] : i \in found}]
  /\ NoFault
  /\ UNCHANGED <<storeVars, queueVars, schedVars, schedules, now, firing, origin, late>>

\* The next schedule of the snapshot, in its order.
TakeDue(s, e) ==
  /\ s \in leading
  /\ firing[s] = NotFiring
  /\ e \in todo[s]
  /\ \A f \in todo[s] : e.due <= f.due
  /\ todo' = [todo EXCEPT ![s] = @ \ {e}]

\* uuid.New: jobs are numbered in the order they are made.
FreshJob(j) == ~Inserted(j) /\ \A i \in JobIds : i < j => Inserted(i)

CronJob(i) ==
  NewJob(schedules[i].tenant, schedules[i].template.priority, NoKey,
         schedules[i].template.maxRetries, "due")

InsertCronJob(e, j) ==
  /\ FreshJob(j)
  /\ InsertJob(j, CronJob(e.id))
  /\ origin' = [origin EXCEPT ![j] = e]
  /\ late' = IF Active(e.id) THEN late ELSE [late EXCEPT ![e.id] = @ + 1]

\* A slip: the error ends the round.
FireMalformedStops(s, e) ==
  /\ s \in leading /\ firing[s] = NotFiring /\ \A f \in todo[s] : e.due <= f.due
  /\ schedules[e.id].template = Malformed
  /\ todo' = [todo EXCEPT ![s] = {}]
  /\ NoFault
  /\ UNCHANGED <<storeVars, queueVars, schedVars, schedules, now, firing, origin, late>>

\* The template does not parse: the error is logged, next_run_at stays.
FireMalformed(s, e) ==
  /\ TakeDue(s, e)
  /\ schedules[e.id].template = Malformed
  /\ NoFault
  /\ UNCHANGED <<storeVars, queueVars, schedVars, schedules, now, firing, origin, late>>

\* The next run is computed from the present, on the clock of this process.
FireInsert(s, e) ==
  /\ TakeDue(s, e)
  /\ schedules[e.id].template # Malformed
  /\ \E j \in JobIds :
       /\ InsertCronJob(e, j)
       /\ firing' = [firing EXCEPT ![s] =
            [id |-> e.id, job |-> j, step |-> "enqueue",
             next |-> NextMatch(schedules[e.id].period, 0, now)]]
  /\ NoFault
  /\ UNCHANGED <<queueVars, schedVars, schedules, now>>

\* InsertJob returns an error, with the row written or not.
FireInsertErrored(s, e) ==
  /\ TakeDue(s, e)
  /\ schedules[e.id].template # Malformed
  /\ Fault("db")
  /\ \/ \E j \in JobIds : InsertCronJob(e, j)
     \/ UNCHANGED <<storeVars, origin, late>>
  /\ UNCHANGED <<queueVars, schedVars, schedules, now, firing>>

\* An error of Enqueue is only logged.
FireEnqueue(s) ==
  /\ firing[s].step = "enqueue"
  /\ Enqueue(firing[s].job)
  /\ firing' = [firing EXCEPT ![s].step = "update"]
  /\ UNCHANGED <<storeVars, schedVars, schedules, now, todo, origin, late>>

\* UPDATE ... WHERE id: whatever next_run_at is by now; no row if deleted.
UpdateScheduleAfterRun(i, next) ==
  schedules' = IF Active(i)
               THEN [schedules EXCEPT ![i] = [@ EXCEPT !.nextRunAt = next]]
               ELSE schedules

FireUpdate(s) ==
  /\ firing[s].step = "update"
  /\ \/ UpdateScheduleAfterRun(firing[s].id, firing[s].next) /\ NoFault
     \/ UNCHANGED schedules /\ Fault("db")
  /\ firing' = [firing EXCEPT ![s] = NotFiring]
  /\ UNCHANGED <<storeVars, queueVars, schedVars, now, todo, origin, late>>

runCronExpander(s) ==
  \/ expandCron(s)
  \/ \E e \in todo[s] : FireMalformed(s, e) \/ FireInsert(s, e) \/ FireInsertErrored(s, e)
  \/ FireEnqueue(s)
  \/ FireUpdate(s)

--------------------------------------------------------------------------------
\* A slip: the loop goes on with what it has.
LeaveCronRunning(s) ==
  /\ NoticeLoss(s) \/ CrashScheduler(s) \/ TerminateScheduler(s)
  /\ UNCHANGED cronVars

\* leaderCtx is cancelled or the process is gone: the loop ends where it is.
LeaveCron(s) ==
  /\ NoticeLoss(s) \/ CrashScheduler(s) \/ TerminateScheduler(s)
  /\ todo' = [todo EXCEPT ![s] = {}]
  /\ firing' = [firing EXCEPT ![s] = NotFiring]
  /\ UNCHANGED <<schedules, now, origin, late>>

Minute ==
  /\ now < Horizon
  /\ now' = now + 1
  /\ NoFault
  /\ UNCHANGED <<storeVars, queueVars, schedVars, schedules, todo, firing, origin, late>>

CronNext ==
  \/ \E i \in ScheduleIds : handleCreateSchedule(i) \/ handleDeleteSchedule(i)
  \/ \E s \in Schedulers :
       \/ Campaign(s) /\ UNCHANGED cronVars
       \/ LeaveCron(s)
       \/ runCronExpander(s)
  \/ LeaseExpires /\ UNCHANGED cronVars
  \/ Minute

allVars == <<storeVars, queueVars, faults, schedVars, cronVars>>

CronSpec == CronInit /\ [][CronNext]_allVars

\* The ticker of an instance that leads, etcd and the clock go on.
CronFairness ==
  /\ \A s \in Schedulers : WF_allVars(runCronExpander(s))
  /\ WF_allVars(\E s \in Schedulers : Campaign(s) /\ UNCHANGED cronVars)
  /\ \A s \in Schedulers : WF_allVars(NoticeLoss(s) /\ LeaveCron(s))
  /\ WF_allVars(LeaseExpires /\ NoFault /\ UNCHANGED cronVars)
  /\ WF_allVars(Minute)

FairCronSpec == CronSpec /\ CronFairness

--------------------------------------------------------------------------------
(* Properties *)

RoomInBatch ==
  Cardinality({i \in ScheduleIds : Active(i) /\ schedules[i].template = Malformed})
    < CronBatchSize

JobsOf(e) == {j \in JobIds : origin[j] = e}

\* S has no more than n members: they can be numbered up to n.
AtMost(n, S) == \E f \in [S -> 1..n] : \A x, y \in S : f[x] = f[y] => x = y

\* A schedule is fired once for each of its due times, and once more at most for
\* every crash, shutdown or database error: what fireSchedule repeats it repeats
\* only because InsertJob took effect and UpdateScheduleAfterRun did not.
OncePerOccurrence ==
  \A j \in JobIds : origin[j] # NoOrigin => AtMost(faults + 1, JobsOf(origin[j]))

\* next_run_at never goes back, so no due time comes round again: with one leader
\* at a time fireSchedule overwrites nothing but the value it was called with.
NextRunAdvances ==
  [][\A i \in ScheduleIds :
       Active(i) /\ schedules[i]'.status = "active"
         => schedules[i].nextRunAt <= schedules[i]'.nextRunAt]_allVars

\* After DELETE a schedule makes one more job at most, the one that the leader's
\* snapshot had it down for.
DeletedFiresOnce == \A i \in ScheduleIds : late[i] <= 1

\* A schedule that is due, and whose template parses, moves on to its next run,
\* whatever happens to the leader, as long as those that do not parse, which stay
\* due for good, leave room in the batch of GetDueSchedules.
EventuallyFired ==
  []RoomInBatch => \A i \in ScheduleIds :
    Active(i) /\ schedules[i].template # Malformed /\ schedules[i].nextRunAt <= now
      ~> ~Active(i) \/ schedules[i].nextRunAt > now

--------------------------------------------------------------------------------
(* The inductive invariant of the loop, where no lease runs out early *)

\* Only the holder of the lease has work in its cron loop.
LoopIsLeaders ==
  \A s \in Schedulers :
    IF s \in leading THEN lease = s ELSE todo[s] = {} /\ firing[s] = NotFiring

\* What the loop still has to fire is as the table has it, and not fired yet.
SnapshotIsCurrent ==
  \A s \in Schedulers : \A e \in todo[s] :
    /\ schedules[e.id] # NoSchedule
    /\ e.due = schedules[e.id].nextRunAt
    /\ e.due <= now
    /\ late[e.id] = 0
    /\ AtMost(faults, JobsOf(e))

\* What it is firing it is done with in the snapshot, and will move forward.
FiringMovesOn ==
  \A s \in Schedulers : firing[s] # NotFiring =>
    /\ schedules[firing[s].id] # NoSchedule
    /\ schedules[firing[s].id].nextRunAt < firing[s].next
    /\ \A e \in todo[s] : e.id # firing[s].id

\* Jobs were made for due times up to next_run_at, and next_run_at itself has
\* been fired only if the loop is at it or a fault came in between.
DueTimesInOrder ==
  /\ \A j \in JobIds : origin[j] # NoOrigin =>
       /\ schedules[origin[j].id] # NoSchedule
       /\ origin[j].due <= schedules[origin[j].id].nextRunAt
  /\ \A i \in ScheduleIds : Active(i) =>
       /\ late[i] = 0
       /\ \/ \E s \in Schedulers : firing[s] # NotFiring /\ firing[s].id = i
          \/ AtMost(faults, JobsOf([id |-> i, due |-> schedules[i].nextRunAt]))
  /\ \A i \in ScheduleIds : schedules[i] = NoSchedule => late[i] = 0

CronInv ==
  /\ CronTypeOK /\ faults \in Nat
  /\ LoopIsLeaders /\ SnapshotIsCurrent /\ FiringMovesOn /\ DueTimesInOrder
  /\ OncePerOccurrence /\ DeletedFiresOnce

================================================================================
