------------------------------- MODULE CronProofs ------------------------------
(***************************************************************************)
(* What the cron loop promises, proved for any number of schedules,        *)
(* instances, periods, zones and faults, as long as the lease of a running *)
(* leader does not expire under it.                                        *)
(***************************************************************************)
EXTENDS Cron, TLAPS

\* An expression's next match lies after the time it is asked about, in any zone:
\* what makes UpdateScheduleAfterRun move next_run_at forward.
LEMMA NextMatchIsLater ==
  ASSUME NEW p \in Nat \ {0}, NEW z \in Nat, NEW t \in Nat
  PROVE  NextMatch(p, z, t) \in Nat /\ NextMatch(p, z, t) > t
<1>1. (t + z) % p \in 0..(p - 1)
  OBVIOUS
<1> QED
  BY DEF NextMatch

\* Nothing needs no numbers.
LEMMA AtMostNone ==
  ASSUME NEW S, S = {}, NEW n \in Nat
  PROVE  AtMost(n, S)
<1>1. [x \in S |-> 1] \in [S -> 1..n]
  BY Zenon
<1> QED
  BY <1>1, Zenon DEF AtMost

\* Fewer members, or more numbers, are numbered as well.
LEMMA AtMostFewer ==
  ASSUME NEW S, NEW T, T \subseteq S, NEW n \in Nat, NEW m \in Nat, n <= m, AtMost(n, S)
  PROVE  AtMost(m, T)
<1>1. PICK f \in [S -> 1..n] : \A x, y \in S : f[x] = f[y] => x = y
  BY Zenon DEF AtMost
<1> DEFINE g == [x \in T |-> f[x]]
<1>2. g \in [T -> 1..m]
  BY <1>1
<1>3. \A x, y \in T : g[x] = g[y] => x = y
  BY <1>1, Zenon
<1> QED
  BY <1>2, <1>3, Zenon DEF AtMost

\* One member more takes one number more.
LEMMA AtMostOneMore ==
  ASSUME NEW S, NEW T, NEW j, T \subseteq S \cup {j}, NEW n \in Nat, AtMost(n, S)
  PROVE  AtMost(n + 1, T)
<1>1. PICK f \in [S -> 1..n] : \A x, y \in S : f[x] = f[y] => x = y
  BY Zenon DEF AtMost
<1> DEFINE g == [x \in T |-> IF x = j THEN n + 1 ELSE f[x]]
<1>2. \A x \in T : x # j => f[x] \in 1..n
  BY <1>1, Zenon
<1>3. g \in [T -> 1..(n + 1)]
  BY <1>2
<1>4. ASSUME NEW x \in T, NEW y \in T, g[x] = g[y] PROVE x = y
  <2>1. CASE x # j /\ y # j
    BY <1>1, <1>4, <2>1, Zenon
  <2>2. CASE x = j \/ y = j
    BY <1>2, <1>4, <2>2
  <2> QED
    BY <2>1, <2>2, Zenon
<1> QED
  BY <1>3, <1>4, Zenon DEF AtMost

\* The jobs of an occurrence, before and after fireSchedule's InsertJob: at most
\* one more for the schedule it fires, and no more for any other.
LEMMA OneMoreJob ==
  ASSUME CronTypeOK, NEW j \in JobIds, NEW e \in Occurrence,
         NEW f, origin' = [origin EXCEPT ![j] = e], e # NoOrigin
  PROVE  /\ \A n \in Nat : AtMost(n, JobsOf(f)) => AtMost(n + 1, JobsOf(f)')
         /\ f # e => JobsOf(f)' \subseteq JobsOf(f)
<1>1. JobsOf(f)' \subseteq JobsOf(f) \cup {j}
  BY DEF JobsOf
<1>2. f # e => JobsOf(f)' \subseteq JobsOf(f)
  BY DEF JobsOf
<1> QED
  BY <1>1, <1>2, AtMostOneMore, Zenon

\* As long as origin stays, so do the jobs of every occurrence.
LEMMA SameJobs ==
  ASSUME origin' = origin, NEW f
  PROVE  JobsOf(f)' = JobsOf(f)
BY Zenon DEF JobsOf

\* The bound that one job per due time and one per fault make together.
LEMMA OneMore ==
  ASSUME NEW a \in Nat, NEW b \in {a, a + 1}
  PROVE  /\ b \in Nat /\ a <= b
         /\ a + 1 \in Nat /\ b + 1 \in Nat /\ a + 1 <= b + 1
OBVIOUS

\* A fault only loosens the bounds on the jobs of an occurrence that gets no more.
LEMMA BoundsLoosen ==
  ASSUME faults \in Nat, faults' \in {faults, faults + 1}, NEW f, JobsOf(f)' \subseteq JobsOf(f)
  PROVE  /\ AtMost(faults, JobsOf(f)) => AtMost(faults', JobsOf(f)')
         /\ AtMost(faults + 1, JobsOf(f)) => AtMost(faults' + 1, JobsOf(f)')
<1>1. /\ faults' \in Nat /\ faults <= faults'
      /\ faults + 1 \in Nat /\ faults' + 1 \in Nat /\ faults + 1 <= faults' + 1
  BY OneMore, Zenon
<1> QED
  BY <1>1, AtMostFewer, Zenon

\* So it is for every occurrence as long as origin stays.
LEMMA MoreFaults ==
  ASSUME faults \in Nat, faults' \in {faults, faults + 1}, origin' = origin, NEW f
  PROVE  /\ AtMost(faults, JobsOf(f)) => AtMost(faults', JobsOf(f)')
         /\ AtMost(faults + 1, JobsOf(f)) => AtMost(faults' + 1, JobsOf(f)')
<1>1. JobsOf(f)' \subseteq JobsOf(f)
  BY Zenon DEF JobsOf
<1> QED
  BY <1>1, BoundsLoosen, Zenon

--------------------------------------------------------------------------------
(* One lemma per action *)

\* What the steps that fire nothing have in common: no job is made, no row is added
\* or moved, and the loops have nothing new to do.
FiresNothing ==
  /\ faults' \in {faults, faults + 1} /\ now' \in {now, now + 1}
  /\ origin' = origin /\ late' = late
  /\ \A i \in ScheduleIds :
       /\ schedules'[i].nextRunAt = schedules[i].nextRunAt
       /\ schedules'[i] = NoSchedule <=> schedules[i] = NoSchedule
       /\ Active(i)' => Active(i)
  /\ \A s \in Schedulers :
       /\ todo'[s] \subseteq todo[s]
       /\ firing'[s] = NotFiring <=> firing[s] = NotFiring
       /\ firing[s] # NotFiring =>
            firing'[s].id = firing[s].id /\ firing'[s].next = firing[s].next

\* Such a step keeps the invariant if it keeps the types and the leader's right to
\* its loop.
LEMMA FiresNothingStep ==
  ASSUME CronInv, FiresNothing, CronTypeOK', LoopIsLeaders'
  PROVE  CronInv'
<1>1. faults \in Nat /\ faults' \in Nat /\ now \in Nat
  BY DEF CronInv, CronTypeOK, FiresNothing
<1>2. \A f : /\ AtMost(faults, JobsOf(f)) => AtMost(faults', JobsOf(f)')
             /\ AtMost(faults + 1, JobsOf(f)) => AtMost(faults' + 1, JobsOf(f)')
  BY <1>1, MoreFaults, Zenon DEF FiresNothing
<1>3. SnapshotIsCurrent'
  <2> SUFFICES ASSUME NEW s \in Schedulers, NEW e \in todo'[s]
               PROVE  /\ schedules'[e.id] # NoSchedule
                      /\ e.due = schedules'[e.id].nextRunAt
                      /\ e.due <= now'
                      /\ late'[e.id] = 0
                      /\ AtMost(faults', JobsOf(e)')
    BY Zenon DEF SnapshotIsCurrent
  <2>1. e \in todo[s]
    BY Zenon DEF FiresNothing
  <2>2. e.id \in ScheduleIds /\ e.due \in Nat
    BY <2>1 DEF CronInv, CronTypeOK, Occurrence
  <2>3. /\ schedules[e.id] # NoSchedule
        /\ e.due = schedules[e.id].nextRunAt
        /\ e.due <= now
        /\ late[e.id] = 0
        /\ AtMost(faults, JobsOf(e))
    BY <2>1, Zenon DEF CronInv, SnapshotIsCurrent
  <2>4. e.due <= now'
    BY <1>1, <2>2, <2>3 DEF FiresNothing
  <2> QED
    BY <1>2, <2>2, <2>3, <2>4, Zenon DEF FiresNothing
<1>4. FiringMovesOn'
  <2>1. \A s \in Schedulers : firing[s] # NotFiring => firing[s].id \in ScheduleIds
    BY Zenon DEF CronInv, CronTypeOK, Firing
  <2> QED
    BY <2>1 DEF CronInv, FiringMovesOn, FiresNothing
<1>5. DueTimesInOrder'
  <2>1. \A j \in JobIds : origin[j] # NoOrigin => origin[j].id \in ScheduleIds
    BY Zenon DEF CronInv, CronTypeOK, Occurrence
  <2> QED
    BY <1>2, <2>1 DEF CronInv, DueTimesInOrder, FiresNothing
<1>6. OncePerOccurrence' /\ DeletedFiresOnce'
  BY <1>2, Zenon DEF CronInv, OncePerOccurrence, DeletedFiresOnce, FiresNothing
<1> QED
  BY <1>1, <1>3, <1>4, <1>5, <1>6, Zenon DEF CronInv

\* handleDeleteSchedule leaves the due time to the snapshots that have it.
LEMMA DeleteStep ==
  ASSUME CronInv, NEW i \in ScheduleIds, handleDeleteSchedule(i)
  PROVE  CronInv'
<1>1. /\ schedules' = [schedules EXCEPT ![i] = [@ EXCEPT !.status = "deleted"]]
      /\ UNCHANGED <<lease, leading, now, todo, firing, origin, late, faults>>
      /\ Active(i)
  BY Zenon DEF handleDeleteSchedule, NoFault, schedVars
<1>2. schedules[i] \in ScheduleRow
  BY <1>1 DEF CronInv, CronTypeOK, Active, NoSchedule
<1>3. /\ schedules' \in [ScheduleIds -> ScheduleRow \cup {NoSchedule}]
      /\ \A k \in ScheduleIds :
           /\ schedules'[k].nextRunAt = schedules[k].nextRunAt
           /\ schedules'[k] = NoSchedule <=> schedules[k] = NoSchedule
           /\ schedules'[k].status = "active" => schedules[k].status = "active"
  BY <1>1, <1>2 DEF CronInv, CronTypeOK, ScheduleRow, NoSchedule
<1>4. FiresNothing
  BY <1>1, <1>3, Zenon DEF FiresNothing, Active
<1>5. CronTypeOK'
  BY <1>1, <1>3, Zenon DEF CronInv, CronTypeOK
<1>6. LoopIsLeaders'
  BY <1>1, Zenon DEF CronInv, LoopIsLeaders
<1> QED
  BY <1>4, <1>5, <1>6, FiresNothingStep, Zenon

\* Enqueue, failed or not, leaves the table and the jobs' due times alone.
LEMMA EnqueueStep ==
  ASSUME CronInv, NEW s \in Schedulers, FireEnqueue(s)
  PROVE  CronInv'
<1>1. /\ firing[s].step = "enqueue"
      /\ firing' = [firing EXCEPT ![s].step = "update"]
      /\ UNCHANGED <<lease, leading, schedules, now, todo, origin, late>>
      /\ faults' \in {faults, faults + 1}
  BY Zenon DEF FireEnqueue, schedVars, CronInv, Enqueue, Fault, NoFault
<1>2. firing[s] \in Firing
  BY <1>1 DEF CronInv, CronTypeOK, NotFiring
<1>3. /\ firing' \in [Schedulers -> Firing \cup {NotFiring}]
      /\ \A r \in Schedulers :
           /\ firing'[r] = NotFiring <=> firing[r] = NotFiring
           /\ firing[r] # NotFiring =>
                firing'[r].id = firing[r].id /\ firing'[r].next = firing[r].next
  BY <1>1, <1>2 DEF CronInv, CronTypeOK, Firing, NotFiring
<1>4. FiresNothing
  BY <1>1, <1>3, Zenon DEF FiresNothing, Active
<1>5. CronTypeOK'
  BY <1>1, <1>3, Zenon DEF CronInv, CronTypeOK
<1>6. LoopIsLeaders'
  BY <1>1, <1>3, Zenon DEF CronInv, LoopIsLeaders
<1> QED
  BY <1>4, <1>5, <1>6, FiresNothingStep, Zenon

\* Winning an election, the end of a dead leader's lease and the clock leave the
\* table, the loops and the jobs alone.
LEMMA QuietStep ==
  ASSUME "lease" \notin FaultKinds, CronInv,
         \/ \E s \in Schedulers : Campaign(s) /\ UNCHANGED cronVars
         \/ LeaseExpires /\ UNCHANGED cronVars
         \/ Minute
         \/ UNCHANGED allVars
  PROVE  CronInv'
<1>1. /\ UNCHANGED <<schedules, todo, firing, origin, late, faults>>
      /\ now' \in {now, now + 1}
  BY Zenon DEF Campaign, LeaseExpires, Minute, NoFault, Fault, cronVars, allVars
<1>2. FiresNothing
  BY <1>1, Zenon DEF FiresNothing, Active
<1>3. CronTypeOK'
  BY <1>1 DEF CronInv, CronTypeOK
<1>4. LoopIsLeaders'
  <2>1. CASE \E s \in Schedulers : Campaign(s) /\ UNCHANGED cronVars
    BY <1>1, <2>1, SchedulerAssumption, Zenon DEF CronInv, LoopIsLeaders, Campaign
  <2>2. CASE LeaseExpires /\ UNCHANGED cronVars
    BY <1>1, <2>2, Zenon DEF CronInv, LoopIsLeaders, LeaseExpires, Fault
  <2>3. CASE Minute \/ UNCHANGED allVars
    BY <1>1, <2>3, Zenon DEF CronInv, LoopIsLeaders, Minute, schedVars, allVars
  <2> QED
    BY <2>1, <2>2, <2>3, Zenon
<1> QED
  BY <1>2, <1>3, <1>4, FiresNothingStep, Zenon

\* TakeDue removes one occurrence from the snapshot of the one instance that has
\* one, and the rest of the snapshot is of other schedules.
LEMMA TakeFacts ==
  ASSUME CronInv, NEW s \in Schedulers, NEW e \in todo[s], TakeDue(s, e)
  PROVE  /\ e \in Occurrence
         /\ schedules[e.id] \in ScheduleRow
         /\ e = [id |-> e.id, due |-> schedules[e.id].nextRunAt]
         /\ todo' \in [Schedulers -> SUBSET Occurrence]
         /\ s \in leading
         /\ \A r \in Schedulers : firing[r] = NotFiring
         /\ \A r \in Schedulers : todo'[r] \subseteq todo[r]
         /\ \A r \in Schedulers : r # s => todo'[r] = {}
         /\ \A f \in todo'[s] : f.id # e.id
<1>0. s \in leading /\ firing[s] = NotFiring /\ todo' = [todo EXCEPT ![s] = @ \ {e}]
  BY Zenon DEF TakeDue
<1>1. e \in Occurrence /\ schedules[e.id] \in ScheduleRow
  BY DEF CronInv, CronTypeOK, SnapshotIsCurrent, Occurrence
<1>2. e = [id |-> e.id, due |-> schedules[e.id].nextRunAt]
  BY <1>1, Zenon DEF CronInv, SnapshotIsCurrent, Occurrence
<1>3. /\ todo' \in [Schedulers -> SUBSET Occurrence]
      /\ \A r \in Schedulers : todo'[r] \subseteq todo[r]
  BY <1>0, Zenon DEF CronInv, CronTypeOK
<1>4. \A r \in Schedulers : r # s => firing[r] = NotFiring /\ todo[r] = {}
  BY Zenon DEF CronInv, LoopIsLeaders
<1>5. \A r \in Schedulers : r # s => todo'[r] = {}
  BY <1>3, <1>4, Zenon
<1>6. \A f \in todo'[s] : f.id # e.id
  <2> SUFFICES ASSUME NEW f \in todo'[s], f.id = e.id PROVE FALSE
    BY Zenon
  <2>1. f \in todo[s] /\ f # e
    BY <1>0, Zenon DEF CronInv, CronTypeOK
  <2>2. f \in Occurrence /\ f.due = schedules[f.id].nextRunAt
    BY <2>1, Zenon DEF CronInv, CronTypeOK, SnapshotIsCurrent
  <2>3. f = e
    BY <1>2, <2>2, Zenon DEF Occurrence
  <2> QED
    BY <2>1, <2>3, Zenon
<1> QED
  BY <1>0, <1>1, <1>2, <1>3, <1>4, <1>6, Zenon

\* A template that does not parse makes no job and leaves next_run_at as it is.
LEMMA MalformedStep ==
  ASSUME CronInv, NEW s \in Schedulers, NEW e \in todo[s], FireMalformed(s, e)
  PROVE  CronInv'
<1>1. /\ TakeDue(s, e)
      /\ UNCHANGED <<lease, leading, schedules, now, firing, origin, late, faults>>
  BY Zenon DEF FireMalformed, NoFault, schedVars
<1>2. /\ todo' \in [Schedulers -> SUBSET Occurrence]
      /\ \A r \in Schedulers : todo'[r] \subseteq todo[r]
  BY <1>1, TakeFacts, Zenon
<1>3. FiresNothing
  BY <1>1, <1>2, Zenon DEF FiresNothing, Active
<1>4. CronTypeOK'
  BY <1>1, <1>2, Zenon DEF CronInv, CronTypeOK
<1>5. LoopIsLeaders'
  BY <1>1, <1>2, Zenon DEF CronInv, LoopIsLeaders
<1> QED
  BY <1>3, <1>4, <1>5, FiresNothingStep, Zenon

\* fireSchedule makes a job for the occurrence, and computes a next run for it that
\* lies in the future.
LEMMA FireFacts ==
  ASSUME CronInv, NEW s \in Schedulers, NEW e \in todo[s], FireInsert(s, e)
  PROVE  \E j \in JobIds, x \in Firing :
           /\ InsertCronJob(e, j)
           /\ x.id = e.id /\ x.next > now
           /\ firing' = [firing EXCEPT ![s] = x]
<1>1. PICK j \in JobIds :
        /\ InsertCronJob(e, j)
        /\ firing' = [firing EXCEPT ![s] =
             [id |-> e.id, job |-> j, step |-> "enqueue",
              next |-> NextMatch(schedules[e.id].period, 0, now)]]
  BY Zenon DEF FireInsert
<1>2. e.id \in ScheduleIds /\ schedules[e.id] \in ScheduleRow
  BY DEF CronInv, CronTypeOK, SnapshotIsCurrent, Occurrence
<1>3. schedules[e.id].period \in Nat \ {0} /\ now \in Nat
  BY <1>2, CronAssumption, Zenon DEF CronInv, CronTypeOK, ScheduleRow
<1>4. PICK n \in Nat : n = NextMatch(schedules[e.id].period, 0, now) /\ n > now
  BY <1>3, NextMatchIsLater, Zenon
<1>5. [id |-> e.id, job |-> j, step |-> "enqueue", next |-> n] \in Firing
  BY <1>2, Zenon DEF Firing
<1> QED
  BY <1>1, <1>4, <1>5, Zenon

\* So the loop is at the schedule of the occurrence, and will move it forward.
LEMMA InsertFires ==
  ASSUME CronInv, NEW s \in Schedulers, NEW e \in todo[s], TakeDue(s, e),
         UNCHANGED <<lease, leading, schedules, now>>,
         NEW x \in Firing, x.id = e.id, x.next > now, firing' = [firing EXCEPT ![s] = x]
  PROVE  /\ firing' \in [Schedulers -> Firing \cup {NotFiring}]
         /\ firing'[s] # NotFiring /\ firing'[s].id = e.id
         /\ LoopIsLeaders' /\ FiringMovesOn'
<1>1. /\ s \in leading
      /\ \A r \in Schedulers : firing[r] = NotFiring
      /\ \A r \in Schedulers : todo'[r] \subseteq todo[r]
      /\ \A f \in todo'[s] : f.id # e.id
  BY TakeFacts, Zenon
<1>2. x # NotFiring
  BY DEF Firing, NotFiring
<1>3. /\ firing' \in [Schedulers -> Firing \cup {NotFiring}]
      /\ firing'[s] = x
      /\ \A r \in Schedulers : r # s => firing'[r] = NotFiring
  BY <1>1, Zenon DEF CronInv, CronTypeOK
<1>4. LoopIsLeaders'
  BY <1>1, <1>3, Zenon DEF CronInv, LoopIsLeaders
<1>5. schedules[e.id] # NoSchedule /\ schedules[e.id].nextRunAt < x.next
  <2>1. schedules[e.id] # NoSchedule /\ schedules[e.id].nextRunAt <= now
    BY Zenon DEF CronInv, SnapshotIsCurrent
  <2>2. schedules[e.id].nextRunAt \in Nat /\ now \in Nat /\ x.next \in Nat
    BY <2>1, Zenon DEF CronInv, CronTypeOK, ScheduleRow, Occurrence, Firing
  <2> QED
    BY <2>1, <2>2
<1>6. FiringMovesOn'
  BY <1>1, <1>3, <1>5, Zenon DEF FiringMovesOn
<1> QED
  BY <1>2, <1>3, <1>4, <1>6, Zenon

\* handleCreateSchedule adds a row that no snapshot and no job knows of yet.
LEMMA CreateStep ==
  ASSUME CronInv, NEW i \in ScheduleIds, handleCreateSchedule(i)
  PROVE  CronInv'
<1>1. PICK p \in Periods, z \in Zones, row \in ScheduleRow :
        /\ row.status = "active"
        /\ row.nextRunAt = NextMatch(p, z, now)
        /\ row.nextRunAt \in Nat
        /\ schedules' = [schedules EXCEPT ![i] = row]
  <2>1. PICK t \in Tenants, n \in Names, p \in Periods, z \in Zones,
             tmpl \in Template \cup {Malformed} :
          schedules' = [schedules EXCEPT ![i] =
              [status |-> "active", tenant |-> t, name |-> n, period |-> p, zone |-> z,
               template |-> tmpl, nextRunAt |-> NextMatch(p, z, now)]]
    BY Zenon DEF handleCreateSchedule
  <2>2. NextMatch(p, z, now) \in Nat
    BY NextMatchIsLater, CronAssumption, Zenon DEF CronInv, CronTypeOK
  <2> QED
    BY <2>1, <2>2, Zenon DEF ScheduleRow
<1>2. /\ schedules[i] = NoSchedule
      /\ UNCHANGED <<lease, leading, now, todo, firing, origin, late, faults>>
  BY Zenon DEF handleCreateSchedule, NoFault, schedVars
<1>3. \A f : JobsOf(f)' = JobsOf(f)
  BY <1>2, SameJobs, Zenon
<1>4. /\ schedules' \in [ScheduleIds -> ScheduleRow \cup {NoSchedule}]
      /\ schedules'[i] = row
      /\ \A k \in ScheduleIds : k # i => schedules'[k] = schedules[k]
  BY <1>1, Zenon DEF CronInv, CronTypeOK
<1>5. CronTypeOK' /\ faults' \in Nat
  BY <1>2, <1>4, Zenon DEF CronInv, CronTypeOK
<1>6. LoopIsLeaders'
  BY <1>2, Zenon DEF CronInv, LoopIsLeaders
<1>7. SnapshotIsCurrent'
  <2>1. \A s \in Schedulers : \A e \in todo[s] : e.id \in ScheduleIds /\ e.id # i
    BY <1>2 DEF CronInv, CronTypeOK, SnapshotIsCurrent, Occurrence
  <2> QED
    BY <1>2, <1>3, <1>4, <2>1, Zenon DEF CronInv, SnapshotIsCurrent
<1>8. FiringMovesOn'
  <2>1. \A s \in Schedulers : firing[s] # NotFiring => firing[s].id \in ScheduleIds /\ firing[s].id # i
    BY <1>2, Zenon DEF CronInv, CronTypeOK, FiringMovesOn, Firing
  <2> QED
    BY <1>2, <1>4, <2>1, Zenon DEF CronInv, FiringMovesOn
<1>9. DueTimesInOrder'
  <2>1. \A j \in JobIds : origin[j] # NoOrigin => origin[j].id \in ScheduleIds /\ origin[j].id # i
    BY <1>2, Zenon DEF CronInv, CronTypeOK, DueTimesInOrder, Occurrence
  <2>2. \A f : f = [id |-> i, due |-> row.nextRunAt] => JobsOf(f) = {}
    BY <2>1 DEF JobsOf, NoOrigin
  <2>3. \A f : f = [id |-> i, due |-> row.nextRunAt] => AtMost(faults, JobsOf(f))
    BY <2>2, AtMostNone, Zenon DEF CronInv
  <2>4. ASSUME NEW k \in ScheduleIds, Active(k)'
        PROVE  /\ late[k] = 0
               /\ \/ \E s \in Schedulers : firing[s] # NotFiring /\ firing[s].id = k
                  \/ AtMost(faults, JobsOf([id |-> k, due |-> schedules'[k].nextRunAt]))
    <3>1. CASE k = i
      BY <1>2, <1>4, <2>3, <3>1, Zenon DEF CronInv, DueTimesInOrder
    <3>2. CASE k # i
      BY <1>4, <2>4, <3>2, Zenon DEF CronInv, DueTimesInOrder, Active
    <3> QED
      BY <3>1, <3>2, Zenon
  <2>5. \A k \in ScheduleIds : schedules'[k] = NoSchedule => late[k] = 0
    BY <1>2, <1>4, Zenon DEF CronInv, DueTimesInOrder
  <2>6. row # NoSchedule
    BY <1>1 DEF NoSchedule
  <2> QED
    BY <1>2, <1>3, <1>4, <2>1, <2>4, Zenon DEF CronInv, DueTimesInOrder
<1>10. OncePerOccurrence' /\ DeletedFiresOnce'
  BY <1>2, <1>3, Zenon DEF CronInv, OncePerOccurrence, DeletedFiresOnce
<1> QED
  BY <1>5, <1>6, <1>7, <1>8, <1>9, <1>10, Zenon DEF CronInv

\* expandCron's snapshot is taken from the table, so it is current, and only the
\* holder of the lease takes one.
LEMMA ExpandStep ==
  ASSUME CronInv, NEW s \in Schedulers, expandCron(s)
  PROVE  CronInv'
<1>1. PICK found \in SUBSET ScheduleIds :
        /\ found \subseteq Due
        /\ todo' = [todo EXCEPT ![s] =
                     {[id |-> i, due |-> schedules[i].nextRunAt] : i \in found}]
  BY Zenon DEF expandCron, GetDueSchedules
<1>2. /\ s \in leading /\ firing[s] = NotFiring
      /\ UNCHANGED <<lease, leading, schedules, now, firing, origin, late, faults>>
  BY Zenon DEF expandCron, NoFault, schedVars
<1>3. \A i \in found : Active(i) /\ schedules[i].nextRunAt \in Nat /\ schedules[i].nextRunAt <= now
  BY <1>1 DEF CronInv, CronTypeOK, Due, Active, ScheduleRow, NoSchedule
<1>4. \A e \in todo'[s] :
        /\ e \in Occurrence
        /\ Active(e.id)
        /\ e = [id |-> e.id, due |-> schedules[e.id].nextRunAt]
        /\ e.due <= now
  BY <1>1, <1>3 DEF CronInv, CronTypeOK, Occurrence
<1>5. \A r \in Schedulers : r # s => todo'[r] = todo[r]
  BY <1>1
<1>6. \A f : JobsOf(f)' = JobsOf(f)
  BY <1>2, SameJobs, Zenon
<1>7. CronTypeOK' /\ faults' \in Nat
  <2>1. todo' \in [Schedulers -> SUBSET Occurrence]
    BY <1>1, <1>4, Zenon DEF CronInv, CronTypeOK
  <2> QED
    BY <1>2, <2>1, Zenon DEF CronInv, CronTypeOK
<1>8. LoopIsLeaders'
  BY <1>2, <1>5, Zenon DEF CronInv, LoopIsLeaders
<1>9. SnapshotIsCurrent'
  <2>1. \A r \in Schedulers : firing[r] = NotFiring
    BY <1>2, Zenon DEF CronInv, LoopIsLeaders
  <2>2. \A e \in todo'[s] : AtMost(faults, JobsOf(e)) /\ late[e.id] = 0
    BY <1>4, <2>1, Zenon DEF CronInv, DueTimesInOrder, Occurrence
  <2>3. \A e \in todo'[s] : schedules[e.id] # NoSchedule /\ e.due = schedules[e.id].nextRunAt
    BY <1>4 DEF Active, NoSchedule
  <2> QED
    BY <1>2, <1>4, <1>5, <1>6, <2>2, <2>3, Zenon DEF CronInv, SnapshotIsCurrent
<1>10. FiringMovesOn'
  BY <1>2, <1>5, Zenon DEF CronInv, FiringMovesOn
<1>11. DueTimesInOrder'
  BY <1>2, <1>6, Zenon DEF CronInv, DueTimesInOrder, Active
<1>12. OncePerOccurrence' /\ DeletedFiresOnce'
  BY <1>2, <1>6, Zenon DEF CronInv, OncePerOccurrence, DeletedFiresOnce
<1> QED
  BY <1>7, <1>8, <1>9, <1>10, <1>11, <1>12, Zenon DEF CronInv

\* A leader that crashes or is shut down leaves its round where it is: the one
\* fault pays for the one schedule that may be fired again.
LEMMA LeaveStep ==
  ASSUME CronInv, NEW s \in Schedulers, LeaveCron(s)
  PROVE  CronInv'
<1>1. /\ todo' = [todo EXCEPT ![s] = {}]
      /\ firing' = [firing EXCEPT ![s] = NotFiring]
      /\ UNCHANGED <<schedules, now, origin, late>>
      /\ s \in leading /\ leading' = leading \ {s}
  BY Zenon DEF LeaveCron, NoticeLoss, CrashScheduler, TerminateScheduler, Quit
<1>2. lease = s
  BY <1>1, Zenon DEF CronInv, LoopIsLeaders
<1>3. faults \in Nat /\ faults' = faults + 1
  BY <1>2, Zenon DEF LeaveCron, NoticeLoss, CrashScheduler, TerminateScheduler, Fault, CronInv
<1>4. \A r \in Schedulers : r # s => todo[r] = {} /\ firing[r] = NotFiring /\ r \notin leading
  BY <1>2, Zenon DEF CronInv, LoopIsLeaders
<1>5. \A f : AtMost(faults + 1, JobsOf(f)) => AtMost(faults' + 1, JobsOf(f)')
  BY <1>1, <1>3, MoreFaults, Zenon
<1>6. \A r \in Schedulers : todo'[r] = {} /\ firing'[r] = NotFiring
  BY <1>1, <1>4, Zenon DEF CronInv, CronTypeOK
<1>7. CronTypeOK' /\ faults' \in Nat
  <2>1. CronTypeOK
    BY Zenon DEF CronInv
  <2>2. faults' \in Nat
    BY <1>3
  <2>3. /\ todo' \in [Schedulers -> SUBSET Occurrence]
        /\ firing' \in [Schedulers -> Firing \cup {NotFiring}]
    BY <1>1, <2>1, Zenon DEF CronTypeOK
  <2> QED
    BY <1>1, <2>1, <2>2, <2>3, Zenon DEF CronTypeOK
<1>8. LoopIsLeaders' /\ SnapshotIsCurrent' /\ FiringMovesOn'
  BY <1>1, <1>4, <1>6, Zenon DEF LoopIsLeaders, SnapshotIsCurrent, FiringMovesOn
<1>9. OncePerOccurrence' /\ DeletedFiresOnce'
  BY <1>1, <1>5, Zenon DEF CronInv, OncePerOccurrence, DeletedFiresOnce
<1>10. DueTimesInOrder'
  <2>1. ASSUME NEW f, f # NoOrigin
        PROVE  AtMost(faults', JobsOf(f)')
    <3>1. JobsOf(f)' = JobsOf(f)
      BY <1>1, SameJobs, Zenon
    <3>2. CASE \E j \in JobIds : origin[j] = f
      <4>1. AtMost(faults + 1, JobsOf(f))
        BY <2>1, <3>2, Zenon DEF CronInv, OncePerOccurrence
      <4> QED
        BY <1>3, <3>1, <4>1, Zenon
    <3>3. CASE ~\E j \in JobIds : origin[j] = f
      <4>1. JobsOf(f) = {} /\ faults' \in Nat
        BY <1>3, <3>3 DEF JobsOf
      <4> QED
        BY <3>1, <4>1, AtMostNone, Zenon
    <3> QED
      BY <3>2, <3>3, Zenon
  <2>2. \A i \in ScheduleIds : [id |-> i, due |-> schedules[i].nextRunAt] # NoOrigin
    BY Zenon DEF NoOrigin
  <2>3. \A i \in ScheduleIds :
          AtMost(faults', JobsOf([id |-> i, due |-> schedules[i].nextRunAt])')
    BY <1>1, <2>1, <2>2, Zenon
  <2> QED
    BY <1>1, <2>3, Zenon DEF CronInv, DueTimesInOrder, Active
<1> QED
  BY <1>7, <1>8, <1>9, <1>10, Zenon DEF CronInv

\* What UpdateScheduleAfterRun does to the rows when schedule i is fired and n is
\* its next run: it moves next_run_at forward, or the schedule is deleted, or the
\* call failed.
MovesOn(i, n) ==
  /\ schedules[i] # NoSchedule
  /\ schedules[i].nextRunAt \in Nat /\ schedules[i].nextRunAt < n
  /\ schedules' \in [ScheduleIds -> ScheduleRow \cup {NoSchedule}]
  /\ \A k \in ScheduleIds : k # i => schedules'[k] = schedules[k]
  /\ schedules'[i].status = schedules[i].status
  /\ schedules'[i] # NoSchedule
  /\ \/ schedules'[i].nextRunAt = n
     \/ schedules'[i].nextRunAt = schedules[i].nextRunAt /\ (Active(i) => faults' = faults + 1)

\* That is what it does.
LEMMA UpdateFacts ==
  ASSUME CronInv, NEW s \in Schedulers, FireUpdate(s)
  PROVE  \E i \in ScheduleIds, n \in Nat :
           i = firing[s].id /\ firing[s] # NotFiring /\ MovesOn(i, n)
<1>1. PICK i \in ScheduleIds, n \in Nat :
        /\ i = firing[s].id /\ n = firing[s].next /\ firing[s] # NotFiring
        /\ \/ UpdateScheduleAfterRun(i, n) /\ faults' = faults
           \/ UNCHANGED schedules /\ faults' = faults + 1
  <2>1. firing[s] \in Firing /\ firing[s] # NotFiring
    BY DEF FireUpdate, CronInv, CronTypeOK, NotFiring
  <2>2. firing[s].id \in ScheduleIds /\ firing[s].next \in Nat
    BY <2>1, Zenon DEF Firing
  <2> QED
    BY <2>1, <2>2, Zenon DEF FireUpdate, Fault, NoFault
<1>2. schedules[i] # NoSchedule /\ schedules[i].nextRunAt < n
  BY <1>1, Zenon DEF CronInv, FiringMovesOn
<1>3. /\ schedules \in [ScheduleIds -> ScheduleRow \cup {NoSchedule}]
      /\ schedules[i] \in ScheduleRow
  BY <1>2, Zenon DEF CronInv, CronTypeOK
<1>4. schedules[i].nextRunAt \in Nat
  BY <1>3, Zenon DEF ScheduleRow
<1>5. [schedules[i] EXCEPT !.nextRunAt = n] \in ScheduleRow
  BY <1>3, Zenon DEF ScheduleRow
<1>6. \A row \in ScheduleRow : row # NoSchedule
  <2>1. \A row \in ScheduleRow : row.status # "absent"
    BY Zenon DEF ScheduleRow
  <2> QED
    BY <2>1 DEF NoSchedule
<1>7. /\ [schedules[i] EXCEPT !.nextRunAt = n].status = schedules[i].status
      /\ [schedules[i] EXCEPT !.nextRunAt = n].nextRunAt = n
  BY <1>3, Zenon DEF ScheduleRow
<1>8. CASE UNCHANGED schedules /\ (Active(i) => faults' = faults + 1)
  BY <1>1, <1>2, <1>3, <1>4, <1>8, Zenon DEF MovesOn
<1>9. CASE UpdateScheduleAfterRun(i, n) /\ Active(i)
  <2>1. schedules' = [schedules EXCEPT ![i] = [schedules[i] EXCEPT !.nextRunAt = n]]
    BY <1>9, Zenon DEF UpdateScheduleAfterRun, Active
  <2>2. MovesOn(i, n)
    BY <1>2, <1>3, <1>4, <1>5, <1>6, <1>7, <2>1, Zenon DEF MovesOn
  <2> QED
    BY <1>1, <2>2, Zenon
<1>10. UpdateScheduleAfterRun(i, n) /\ ~Active(i) => UNCHANGED schedules
  BY Zenon DEF UpdateScheduleAfterRun, Active
<1> QED
  BY <1>1, <1>8, <1>9, <1>10, Zenon

\* The due times that have jobs stay behind next_run_at.
LEMMA UpdateKeepsOrder ==
  ASSUME CronInv, NEW i \in ScheduleIds, NEW n \in Nat, MovesOn(i, n),
         NEW j \in JobIds, origin[j] # NoOrigin
  PROVE  /\ schedules'[origin[j].id] # NoSchedule
         /\ origin[j].due <= schedules'[origin[j].id].nextRunAt
<1>1. origin[j].id \in ScheduleIds /\ origin[j].due \in Nat
  BY Zenon DEF CronInv, CronTypeOK, Occurrence
<1>2. schedules[origin[j].id] # NoSchedule /\ origin[j].due <= schedules[origin[j].id].nextRunAt
  BY Zenon DEF CronInv, DueTimesInOrder
<1>3. CASE origin[j].id # i
  BY <1>1, <1>2, <1>3, Zenon DEF MovesOn
<1>4. CASE origin[j].id = i
  <2>1. origin[j].due <= schedules[i].nextRunAt
    BY <1>2, <1>4, Zenon
  <2> QED
    BY <1>1, <1>4, <2>1 DEF MovesOn
<1> QED
  BY <1>3, <1>4, Zenon

\* A schedule that has been moved on has no job for its new due time; one that has
\* not been has the fault to pay for the one it has.
LEMMA UpdateKeepsBound ==
  ASSUME CronInv, NEW i \in ScheduleIds, NEW n \in Nat, MovesOn(i, n),
         origin' = origin, faults' \in {faults, faults + 1},
         \A r \in Schedulers : firing[r] # NotFiring => firing[r].id = i,
         NEW k \in ScheduleIds, schedules'[k].status = "active",
         NEW f, f = [id |-> k, due |-> schedules'[k].nextRunAt]
  PROVE  AtMost(faults', JobsOf(f)')
<1>1. faults \in Nat /\ faults + 1 \in Nat
  BY DEF CronInv
<1>2. Active(k)
  BY Zenon DEF Active, MovesOn
<1>3. f # NoOrigin /\ f.id = k /\ f.due = schedules'[k].nextRunAt
  BY Zenon DEF NoOrigin
<1>4. JobsOf(f)' = JobsOf(f)
  BY SameJobs, Zenon
<1>5. CASE k # i
  <2>1. f = [id |-> k, due |-> schedules[k].nextRunAt]
    BY <1>5, Zenon DEF MovesOn
  <2>2. ~\E r \in Schedulers : firing[r] # NotFiring /\ firing[r].id = k
    BY <1>5, Zenon
  <2>3. AtMost(faults, JobsOf(f))
    BY <1>2, <2>1, <2>2, Zenon DEF CronInv, DueTimesInOrder
  <2> QED
    BY <1>1, <2>3, MoreFaults, Zenon
<1>6. CASE k = i /\ schedules'[i].nextRunAt = n
  <2>1. \A j \in JobIds : origin[j] = f => n <= schedules[i].nextRunAt
    BY <1>3, <1>6, Zenon DEF CronInv, DueTimesInOrder
  <2>2. ~(n <= schedules[i].nextRunAt)
    BY DEF MovesOn
  <2>3. JobsOf(f) = {}
    BY <2>1, <2>2, Zenon DEF JobsOf
  <2> QED
    BY <1>1, <2>3, AtMostNone, MoreFaults, Zenon
<1>7. CASE k = i /\ schedules'[i].nextRunAt # n
  <2>1. faults' = faults + 1
    BY <1>2, <1>7, Zenon DEF MovesOn
  <2>2. CASE \E j \in JobIds : origin[j] = f
    BY <1>3, <1>4, <2>1, <2>2, Zenon DEF CronInv, OncePerOccurrence
  <2>3. CASE ~\E j \in JobIds : origin[j] = f
    <3>1. JobsOf(f) = {}
      BY <2>3, Zenon DEF JobsOf
    <3> QED
      BY <1>1, <1>4, <2>1, <3>1, AtMostNone, Zenon
  <2> QED
    BY <2>2, <2>3, Zenon
<1> QED
  BY <1>5, <1>6, <1>7, Zenon

\* UpdateScheduleAfterRun moves next_run_at past the due time that was fired; if it
\* fails the fault pays for the repetition.
LEMMA UpdateStep ==
  ASSUME CronInv, NEW s \in Schedulers, FireUpdate(s)
  PROVE  CronInv'
<1>1. /\ firing' = [firing EXCEPT ![s] = NotFiring]
      /\ UNCHANGED <<lease, leading, now, todo, origin, late>>
      /\ faults \in Nat /\ faults' \in {faults, faults + 1}
  BY Zenon DEF FireUpdate, schedVars, CronInv, Fault, NoFault
<1>2. \A f : /\ AtMost(faults, JobsOf(f)) => AtMost(faults', JobsOf(f)')
             /\ AtMost(faults + 1, JobsOf(f)) => AtMost(faults' + 1, JobsOf(f)')
  BY <1>1, MoreFaults, Zenon
<1>3. PICK i \in ScheduleIds, n \in Nat :
        i = firing[s].id /\ firing[s] # NotFiring /\ MovesOn(i, n)
  BY UpdateFacts, Zenon
<1>4. \A r \in Schedulers :
        firing'[r] = NotFiring /\ (r # s => todo[r] = {} /\ firing[r] = NotFiring)
  BY <1>1, <1>3, Zenon DEF CronInv, CronTypeOK, LoopIsLeaders
<1>5. CronTypeOK' /\ faults' \in Nat
  BY <1>1, <1>3 DEF CronInv, CronTypeOK, MovesOn
<1>6. LoopIsLeaders' /\ FiringMovesOn'
  BY <1>1, <1>4, Zenon DEF CronInv, LoopIsLeaders, FiringMovesOn
<1>7. SnapshotIsCurrent'
  <2>1. \A r \in Schedulers : \A e \in todo[r] : e.id \in ScheduleIds /\ e.id # i
    BY <1>3, <1>4 DEF CronInv, CronTypeOK, Occurrence, FiringMovesOn
  <2>2. \A r \in Schedulers : \A e \in todo[r] : schedules'[e.id] = schedules[e.id]
    BY <1>3, <2>1, Zenon DEF MovesOn
  <2> QED
    BY <1>1, <1>2, <2>2, Zenon DEF CronInv, SnapshotIsCurrent
<1>8. OncePerOccurrence' /\ DeletedFiresOnce'
  BY <1>1, <1>2, Zenon DEF CronInv, OncePerOccurrence, DeletedFiresOnce
<1>9. \A j \in JobIds : origin[j] # NoOrigin =>
        /\ schedules'[origin[j].id] # NoSchedule
        /\ origin[j].due <= schedules'[origin[j].id].nextRunAt
  BY <1>3, UpdateKeepsOrder, Zenon
<1>10. ASSUME NEW k \in ScheduleIds, schedules'[k].status = "active",
              NEW f, f = [id |-> k, due |-> schedules'[k].nextRunAt]
       PROVE  AtMost(faults', JobsOf(f)')
  <2>1. \A r \in Schedulers : firing[r] # NotFiring => firing[r].id = i
    BY <1>3, <1>4, Zenon
  <2> QED
    BY <1>1, <1>3, <1>10, <2>1, UpdateKeepsBound, Zenon
<1>11. \A k \in ScheduleIds :
         schedules'[k] = NoSchedule \/ schedules'[k].status = "active" => late[k] = 0
  BY <1>3, Zenon DEF CronInv, DueTimesInOrder, Active, MovesOn
<1>12. DueTimesInOrder'
  BY <1>1, <1>9, <1>10, <1>11, Zenon DEF DueTimesInOrder, Active
<1> QED
  BY <1>5, <1>6, <1>7, <1>8, <1>12, Zenon DEF CronInv

\* What InsertJob adds to the jobs and to the count of late ones, for the occurrence
\* e that fireSchedule has at hand.
InsertsFor(e) ==
  /\ origin' \in [JobIds -> Occurrence \cup {NoOrigin}]
  /\ late' \in [ScheduleIds -> Nat]
  /\ \A k \in JobIds : origin'[k] = e \/ origin'[k] = origin[k]
  /\ AtMost(faults + 1, JobsOf(e)')
  /\ \A f : f # e => JobsOf(f)' \subseteq JobsOf(f)
  /\ late'[e.id] \in {0, 1}
  /\ Active(e.id) => late'[e.id] = 0
  /\ \A i \in ScheduleIds : i # e.id => late'[i] = late[i]

\* The occurrence gets one job more, a late one if its schedule is deleted.
LEMMA InsertFacts ==
  ASSUME CronInv, NEW s \in Schedulers, NEW e \in todo[s], NEW j \in JobIds,
         InsertCronJob(e, j)
  PROVE  InsertsFor(e)
<1>1. /\ origin' = [origin EXCEPT ![j] = e]
      /\ late' = IF Active(e.id) THEN late ELSE [late EXCEPT ![e.id] = @ + 1]
  BY Zenon DEF InsertCronJob
<1>2. e \in Occurrence /\ e.id \in ScheduleIds /\ e # NoOrigin
  BY DEF CronInv, CronTypeOK, Occurrence, NoOrigin
<1>3. late[e.id] = 0 /\ AtMost(faults, JobsOf(e)) /\ faults \in Nat /\ CronTypeOK
  BY Zenon DEF CronInv, SnapshotIsCurrent
<1>4. /\ \A f : f # e => JobsOf(f)' \subseteq JobsOf(f)
      /\ AtMost(faults + 1, JobsOf(e)')
  BY <1>1, <1>2, <1>3, OneMoreJob, Zenon
<1>5. /\ origin' \in [JobIds -> Occurrence \cup {NoOrigin}]
      /\ \A i \in JobIds : origin'[i] = e \/ origin'[i] = origin[i]
  BY <1>1, <1>2, <1>3, Zenon DEF CronTypeOK
<1>6. /\ late' \in [ScheduleIds -> Nat]
      /\ late'[e.id] \in {0, 1}
      /\ Active(e.id) => late'[e.id] = 0
      /\ \A i \in ScheduleIds : i # e.id => late'[i] = late[i]
  BY <1>1, <1>2, <1>3 DEF CronTypeOK
<1> QED
  BY <1>4, <1>5, <1>6, Zenon DEF InsertsFor

\* The snapshot without that occurrence is as current as before, and the bounds on
\* jobs allow for the one that was made.
LEMMA InsertKeeps ==
  ASSUME CronInv, NEW s \in Schedulers, NEW e \in todo[s], TakeDue(s, e), InsertsFor(e),
         UNCHANGED <<schedules, now>>, faults' \in {faults, faults + 1}
  PROVE  SnapshotIsCurrent' /\ OncePerOccurrence' /\ DeletedFiresOnce'
<1>1. /\ \A r \in Schedulers : r # s => todo'[r] = {}
      /\ \A f \in todo'[s] : f.id # e.id /\ f \in todo[s]
  BY TakeFacts, Zenon
<1>2. faults \in Nat
  BY Zenon DEF CronInv
<1>3. SnapshotIsCurrent'
  <2> SUFFICES ASSUME NEW r \in Schedulers, NEW f \in todo'[r]
               PROVE  /\ schedules[f.id] # NoSchedule
                      /\ f.due = schedules[f.id].nextRunAt
                      /\ f.due <= now
                      /\ late'[f.id] = 0
                      /\ AtMost(faults', JobsOf(f)')
    BY Zenon DEF SnapshotIsCurrent
  <2>1. f.id # e.id /\ f \in todo[s]
    BY <1>1, Zenon
  <2>2. f.id \in ScheduleIds
    BY <2>1 DEF CronInv, CronTypeOK, Occurrence
  <2>3. /\ schedules[f.id] # NoSchedule
        /\ f.due = schedules[f.id].nextRunAt
        /\ f.due <= now
        /\ late[f.id] = 0
        /\ AtMost(faults, JobsOf(f))
    BY <2>1, Zenon DEF CronInv, SnapshotIsCurrent
  <2>4. f # e
    BY <2>1, Zenon
  <2>5. AtMost(faults', JobsOf(f)') /\ late'[f.id] = 0
    BY <1>2, <2>1, <2>2, <2>3, <2>4, BoundsLoosen, Zenon DEF InsertsFor
  <2> QED
    BY <2>3, <2>5, Zenon
<1>4. OncePerOccurrence'
  <2> SUFFICES ASSUME NEW i \in JobIds, NEW f, f = origin'[i], f # NoOrigin
               PROVE  AtMost(faults' + 1, JobsOf(f)')
    BY Zenon DEF OncePerOccurrence
  <2>1. CASE f = e
    <3>1. faults + 1 \in Nat /\ faults' + 1 \in Nat /\ faults + 1 <= faults' + 1
      BY <1>2, OneMore, Zenon
    <3>2. AtMost(faults + 1, JobsOf(f)') /\ JobsOf(f)' \subseteq JobsOf(f)'
      BY <2>1, Zenon DEF InsertsFor
    <3> QED
      BY <3>1, <3>2, AtMostFewer, Zenon
  <2>2. CASE f # e
    <3>1. f = origin[i]
      BY <2>2, Zenon DEF InsertsFor
    <3>2. AtMost(faults + 1, JobsOf(f))
      BY <3>1, Zenon DEF CronInv, OncePerOccurrence
    <3> QED
      BY <1>2, <2>2, <3>2, BoundsLoosen, Zenon DEF InsertsFor
  <2> QED
    BY <2>1, <2>2, Zenon
<1>5. DeletedFiresOnce'
  BY DEF CronInv, CronTypeOK, DeletedFiresOnce, InsertsFor
<1> QED
  BY <1>3, <1>4, <1>5, Zenon

\* The due times stay in order if the loop is at every schedule that now has more
\* jobs than there were faults.
LEMMA InsertInOrder ==
  ASSUME CronInv, NEW s \in Schedulers, NEW e \in todo[s], InsertsFor(e),
         UNCHANGED schedules,
         \A i \in ScheduleIds : Active(i) =>
           \/ \E r \in Schedulers : firing'[r] # NotFiring /\ firing'[r].id = i
           \/ AtMost(faults', JobsOf([id |-> i, due |-> schedules[i].nextRunAt])')
  PROVE  DueTimesInOrder'
<1>1. /\ e \in Occurrence
      /\ schedules[e.id] # NoSchedule
      /\ e.due = schedules[e.id].nextRunAt
  BY Zenon DEF CronInv, CronTypeOK, SnapshotIsCurrent
<1>2. e.due \in Nat /\ e.id \in ScheduleIds
  BY <1>1, Zenon DEF Occurrence
<1>3. ASSUME NEW k \in JobIds, origin'[k] # NoOrigin
      PROVE  /\ schedules[origin'[k].id] # NoSchedule
             /\ origin'[k].due <= schedules[origin'[k].id].nextRunAt
  <2>1. CASE origin'[k] = e
    <3>1. e.due <= e.due
      BY <1>2
    <3> QED
      BY <1>1, <2>1, <3>1, Zenon
  <2>2. CASE origin'[k] = origin[k]
    BY <1>3, <2>2, Zenon DEF CronInv, DueTimesInOrder
  <2> QED
    BY <2>1, <2>2, Zenon DEF InsertsFor
<1>4. ASSUME NEW i \in ScheduleIds, Active(i) \/ schedules[i] = NoSchedule
      PROVE  late'[i] = 0
  <2>1. late[i] = 0
    BY <1>4, Zenon DEF CronInv, DueTimesInOrder
  <2> QED
    BY <1>1, <1>4, <2>1, Zenon DEF InsertsFor
<1> QED
  BY <1>3, <1>4, Zenon DEF DueTimesInOrder, Active

\* fireSchedule's InsertJob: the due time has one job more, and the loop is now at
\* that schedule.
LEMMA InsertStep ==
  ASSUME CronInv, NEW s \in Schedulers, NEW e \in todo[s], FireInsert(s, e)
  PROVE  CronInv'
<1>1. /\ TakeDue(s, e)
      /\ UNCHANGED <<lease, leading, schedules, now, faults>>
      /\ faults \in Nat
  BY Zenon DEF FireInsert, NoFault, schedVars, CronInv
<1>2. PICK j \in JobIds, x \in Firing :
        /\ InsertCronJob(e, j)
        /\ x.id = e.id /\ x.next > now
        /\ firing' = [firing EXCEPT ![s] = x]
  BY FireFacts, Zenon
<1>3. InsertsFor(e)
  BY <1>2, InsertFacts, Zenon
<1>4. /\ firing' \in [Schedulers -> Firing \cup {NotFiring}]
      /\ firing'[s] # NotFiring /\ firing'[s].id = e.id
      /\ LoopIsLeaders' /\ FiringMovesOn'
  BY <1>1, <1>2, InsertFires, Zenon
<1>5. SnapshotIsCurrent' /\ OncePerOccurrence' /\ DeletedFiresOnce'
  BY <1>1, <1>3, InsertKeeps, Zenon
<1>6. todo' \in [Schedulers -> SUBSET Occurrence] /\ \A r \in Schedulers : firing[r] = NotFiring
  BY <1>1, TakeFacts, Zenon
<1>7. CronTypeOK'
  BY <1>1, <1>3, <1>4, <1>6, Zenon DEF CronInv, CronTypeOK, InsertsFor
<1>8. ASSUME NEW i \in ScheduleIds, Active(i), i # e.id,
             NEW f, f = [id |-> i, due |-> schedules[i].nextRunAt]
      PROVE  AtMost(faults', JobsOf(f)')
  <2>1. f # e
    <3>1. f.id = i
      BY <1>8, Zenon
    <3> QED
      BY <1>8, <3>1, Zenon
  <2>2. AtMost(faults, JobsOf(f))
    BY <1>6, <1>8, Zenon DEF CronInv, DueTimesInOrder
  <2> QED
    BY <1>1, <1>3, <2>1, <2>2, BoundsLoosen, Zenon DEF InsertsFor
<1>9. DueTimesInOrder'
  BY <1>1, <1>3, <1>4, <1>8, InsertInOrder, Zenon
<1> QED
  BY <1>1, <1>4, <1>5, <1>7, <1>9, Zenon DEF CronInv

\* An InsertJob that returns an error, row written or not: the fault pays for the
\* job that the next round makes for the same due time.
LEMMA InsertErroredStep ==
  ASSUME CronInv, NEW s \in Schedulers, NEW e \in todo[s], FireInsertErrored(s, e)
  PROVE  CronInv'
<1>1. /\ TakeDue(s, e)
      /\ UNCHANGED <<lease, leading, schedules, now, firing>>
      /\ faults \in Nat /\ faults' = faults + 1
  BY Zenon DEF FireInsertErrored, Fault, schedVars, CronInv
<1>2. /\ todo' \in [Schedulers -> SUBSET Occurrence]
      /\ \A r \in Schedulers : todo'[r] \subseteq todo[r]
  BY <1>1, TakeFacts, Zenon
<1>3. LoopIsLeaders' /\ FiringMovesOn'
  BY <1>1, <1>2, Zenon DEF CronInv, LoopIsLeaders, FiringMovesOn
<1>4. ASSUME InsertsFor(e) PROVE CronInv'
  <2>1. SnapshotIsCurrent' /\ OncePerOccurrence' /\ DeletedFiresOnce'
    BY <1>1, <1>4, InsertKeeps, Zenon
  <2>2. CronTypeOK' /\ faults' \in Nat
    BY <1>1, <1>2, <1>4 DEF CronInv, CronTypeOK, InsertsFor
  <2>3. ASSUME NEW f, AtMost(faults, JobsOf(f)) PROVE AtMost(faults', JobsOf(f)')
    <3>1. CASE f = e
      BY <1>1, <1>4, <3>1, Zenon DEF InsertsFor
    <3>2. CASE f # e
      BY <1>1, <1>4, <2>3, <3>2, BoundsLoosen, Zenon DEF InsertsFor
    <3> QED
      BY <3>1, <3>2, Zenon
  <2>4. ASSUME NEW i \in ScheduleIds, Active(i)
        PROVE  \/ \E r \in Schedulers : firing'[r] # NotFiring /\ firing'[r].id = i
               \/ AtMost(faults', JobsOf([id |-> i, due |-> schedules[i].nextRunAt])')
    BY <1>1, <2>3, <2>4, Zenon DEF CronInv, DueTimesInOrder
  <2>5. DueTimesInOrder'
    BY <1>1, <1>4, <2>4, InsertInOrder, Zenon
  <2> QED
    BY <1>3, <2>1, <2>2, <2>5, Zenon DEF CronInv
<1>5. ASSUME UNCHANGED <<origin, late>> PROVE CronInv'
  <2>1. CronTypeOK'
    BY <1>1, <1>2, <1>5, Zenon DEF CronInv, CronTypeOK
  <2>2. FiresNothing
    BY <1>1, <1>2, <1>5, Zenon DEF FiresNothing, Active
  <2> QED
    BY <1>3, <2>1, <2>2, FiresNothingStep, Zenon
<1> QED
  BY <1>4, <1>5, InsertFacts, Zenon DEF FireInsertErrored

--------------------------------------------------------------------------------
(* The theorems *)

\* With no schedules, no leader and no jobs the invariant holds.
LEMMA InitCron ==
  ASSUME CronInit
  PROVE  CronInv
<1> USE DEF CronInit
<1>1. CronTypeOK /\ faults \in Nat
  BY Zenon DEF CronTypeOK, FaultsInit
<1>2. LoopIsLeaders /\ SnapshotIsCurrent /\ FiringMovesOn
  BY Zenon DEF LoopIsLeaders, SnapshotIsCurrent, FiringMovesOn, SchedInit
<1>3. DueTimesInOrder
  BY Zenon DEF DueTimesInOrder, Active, NoSchedule
<1>4. OncePerOccurrence /\ DeletedFiresOnce
  BY DEF OncePerOccurrence, DeletedFiresOnce
<1> QED
  BY <1>1, <1>2, <1>3, <1>4, Zenon DEF CronInv

\* Every step of the cron system keeps CronInv.
LEMMA CronStep ==
  ASSUME "lease" \notin FaultKinds, CronInv, [CronNext]_allVars
  PROVE  CronInv'
<1>1. CASE UNCHANGED allVars
  BY <1>1, QuietStep, Zenon
<1>2. CASE CronNext
  BY <1>2, CreateStep, DeleteStep, ExpandStep, MalformedStep, InsertStep,
     InsertErroredStep, EnqueueStep, UpdateStep, LeaveStep, QuietStep, Zenon
     DEF CronNext, runCronExpander
<1> QED
  BY <1>1, <1>2, Zenon

\* So CronInv holds as long as the scheduler runs.
LEMMA CronHolds ==
  ASSUME "lease" \notin FaultKinds
  PROVE  CronSpec => []CronInv
<1>1. CronInit => CronInv
  BY InitCron, Zenon
<1>2. CronInv /\ [CronNext]_allVars => CronInv'
  BY CronStep, Zenon
<1> QED
  BY <1>1, <1>2, PTL DEF CronSpec

\* fireSchedule makes one job for each due time of a schedule, and one more at most
\* for every fault: for any number of schedules, instances, periods and faults.
THEOREM SchedulesFireOnce ==
  ASSUME "lease" \notin FaultKinds
  PROVE  CronSpec => []OncePerOccurrence
<1>1. CronSpec => []CronInv
  BY CronHolds, Zenon
<1>2. CronInv => OncePerOccurrence
  BY Zenon DEF CronInv
<1> QED
  BY <1>1, <1>2, PTL

\* A schedule that handleDeleteSchedule has deleted fires at most once more, the
\* run that expandCron had read before, whatever interleaves.
THEOREM DeletedSchedulesStop ==
  ASSUME "lease" \notin FaultKinds
  PROVE  CronSpec => []DeletedFiresOnce
<1>1. CronSpec => []CronInv
  BY CronHolds, Zenon
<1>2. CronInv => DeletedFiresOnce
  BY Zenon DEF CronInv
<1> QED
  BY <1>1, <1>2, PTL

\* The rows of cron_schedules, what expandCron has still to fire and the jobs it made
\* have the shape that the code relies on.
THEOREM CronIsTyped ==
  ASSUME "lease" \notin FaultKinds
  PROVE  CronSpec => []CronTypeOK
<1>1. CronSpec => []CronInv
  BY CronHolds, Zenon
<1>2. CronInv => CronTypeOK
  BY Zenon DEF CronInv
<1> QED
  BY <1>1, <1>2, PTL

\* No step takes next_run_at back: UpdateScheduleAfterRun, which does not look at
\* what it overwrites, always finds an earlier time there.
THEOREM NextRunNeverGoesBack ==
  ASSUME "lease" \notin FaultKinds
  PROVE  CronSpec => NextRunAdvances
<1> DEFINE Forward ==
      \A i \in ScheduleIds :
        Active(i) /\ schedules[i]'.status = "active"
          => schedules[i].nextRunAt <= schedules[i]'.nextRunAt
<1>1. CronSpec => []CronInv
  BY CronHolds, Zenon
<1>2. ASSUME CronInv, CronNext
      PROVE  Forward
  <2>0. \A i \in ScheduleIds : Active(i) => schedules[i].nextRunAt \in Nat
    <3> SUFFICES ASSUME NEW i \in ScheduleIds, Active(i) PROVE schedules[i].nextRunAt \in Nat
      BY Zenon
    <3>1. schedules[i] # NoSchedule
      BY DEF Active, NoSchedule
    <3>2. schedules[i] \in ScheduleRow
      BY <1>2, <3>1, Zenon DEF CronInv, CronTypeOK
    <3> QED
      BY <3>2, Zenon DEF ScheduleRow
  <2>1. ASSUME NEW i \in ScheduleIds, handleCreateSchedule(i) \/ handleDeleteSchedule(i)
        PROVE  Forward
    <3>1. Active(i) => schedules[i] \in ScheduleRow /\ handleDeleteSchedule(i)
      <4>1. handleCreateSchedule(i) => ~Active(i)
        <5>1. handleCreateSchedule(i) => schedules[i] = NoSchedule
          BY Zenon DEF handleCreateSchedule
        <5> QED
          BY <5>1 DEF Active, NoSchedule
      <4>2. Active(i) => schedules[i] \in ScheduleRow
        BY <1>2 DEF Active, NoSchedule, CronInv, CronTypeOK
      <4> QED
        BY <2>1, <4>1, <4>2, Zenon
    <3>2. \A k \in ScheduleIds : k # i => schedules'[k] = schedules[k]
      BY <1>2, <2>1, Zenon DEF handleCreateSchedule, handleDeleteSchedule, CronInv, CronTypeOK
    <3>3. Active(i) => schedules'[i].status # "active"
      BY <1>2, <3>1 DEF handleDeleteSchedule, ScheduleRow, CronInv, CronTypeOK
    <3> QED
      BY <2>0, <3>2, <3>3
  <2>2. ASSUME NEW s \in Schedulers, FireUpdate(s)
        PROVE  Forward
    <3>1. firing[s] \in Firing /\ firing[s] # NotFiring
      BY <1>2, <2>2 DEF FireUpdate, CronInv, CronTypeOK, NotFiring
    <3>2. schedules[firing[s].id].nextRunAt < firing[s].next
      BY <1>2, <3>1, Zenon DEF CronInv, FiringMovesOn
    <3>3. firing[s].id \in ScheduleIds /\ firing[s].next \in Nat
      BY <3>1, Zenon DEF Firing
    <3>4. \A k \in ScheduleIds :
            \/ schedules'[k] = schedules[k]
            \/ k = firing[s].id /\ schedules'[k].nextRunAt = firing[s].next
      BY <1>2, <2>2 DEF FireUpdate, UpdateScheduleAfterRun, CronInv, CronTypeOK,
         ScheduleRow, NoSchedule
    <3> SUFFICES ASSUME NEW k \in ScheduleIds, Active(k)
                 PROVE  schedules[k].nextRunAt <= schedules'[k].nextRunAt
      BY Zenon
    <3>5. schedules[k].nextRunAt \in Nat
      BY <2>0, Zenon
    <3>6. CASE schedules'[k] = schedules[k]
      BY <3>5, <3>6
    <3>7. CASE k = firing[s].id /\ schedules'[k].nextRunAt = firing[s].next
      BY <3>2, <3>3, <3>5, <3>7
    <3> QED
      BY <3>4, <3>6, <3>7, Zenon
  <2>3. CASE UNCHANGED schedules
    BY <2>0, <2>3
  <2>4. \/ \E i \in ScheduleIds : handleCreateSchedule(i) \/ handleDeleteSchedule(i)
        \/ \E s \in Schedulers : FireUpdate(s)
        \/ UNCHANGED schedules
    BY <1>2, Zenon DEF CronNext, runCronExpander, LeaveCron, Minute, cronVars, expandCron,
       FireMalformed, FireInsert, FireInsertErrored, FireEnqueue
  <2> QED
    BY <2>1, <2>2, <2>3, <2>4, Zenon
<1>3. CronInv /\ [CronNext]_allVars => [Forward]_allVars
  BY <1>2, Zenon
<1> QED
  BY <1>1, <1>3, PTL DEF CronSpec, NextRunAdvances
================================================================================
