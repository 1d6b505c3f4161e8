---------------------------- MODULE JobStoreProofs -----------------------------
(* Proofs about the tables, for any set of jobs, tokens, tenants and limits. *)
EXTENDS JobStore, TLAPS

\* A row that is not absent is a full row of the jobs table.
LEMMA RowOf ==
  ASSUME StoreTypeOK, NEW j \in JobIds, jobs[j].state # "absent"
  PROVE  jobs[j] \in Row /\ Inserted(j)
BY DEF StoreTypeOK, Absent, Inserted

\* A run that is not missing is a full row of job_runs.
LEMMA RunOf ==
  ASSUME StoreTypeOK, NEW c \in Tokens, runs[c] # NoRun
  PROVE  runs[c] \in Run
BY Zenon DEF StoreTypeOK

\* Every statement preserves the types of the tables.
LEMMA TypeStep == StoreTypeOK /\ SuccessOnce /\ [StoreNext]_storeVars => StoreTypeOK'
<1> SUFFICES ASSUME StoreTypeOK, SuccessOnce, [StoreNext]_storeVars
             PROVE  StoreTypeOK'
  BY Zenon
<1> USE StoreAssumption
<1>1. ASSUME NEW j \in JobIds, NEW t \in Tenants, NEW p \in Priorities,
             NEW k \in IdemKeys \cup {NoKey}, NEW mr \in RetryLimits,
             NEW ra \in {"future", "due"}, InsertJob(j, NewJob(t, p, k, mr, ra))
      PROVE  StoreTypeOK'
  <2>1. NewJob(t, p, k, mr, ra) \in Row
    BY Zenon DEF NewJob, Row, JobStates, Errors
  <2>. QED
    BY <1>1, <2>1, Zenon DEF StoreTypeOK, InsertJob
<1>2. ASSUME NEW j \in JobIds, NEW c \in Tokens, TryClaim(j, c)
      PROVE  StoreTypeOK'
  <2>1. jobs[j] \in Row
    BY <1>2, RowOf, Zenon DEF TryClaim
  <2>2. [jobs[j] EXCEPT !.state = "claimed", !.token = c, !.deadline = "live"] \in Row
    BY <2>1, Zenon DEF Row, JobStates
  <2>3. [job |-> j, attempt |-> jobs[j].attempt, state |-> "claimed"] \in Run
    BY <2>1, Zenon DEF Row, Run
  <2>. QED
    BY <1>2, <2>2, <2>3 DEF StoreTypeOK, TryClaim
<1>3. ASSUME NEW j \in JobIds, NEW c \in Tokens, WorkerStatement(j, c)
      PROVE  StoreTypeOK'
  <2>1. runs[c] \in Run
    BY <1>3, RunOf, Zenon DEF WorkerStatement
  <2>2. CASE MarkRunning(j, c)
    <3>1. jobs[j] \in Row
      BY <2>2, RowOf, Zenon DEF MarkRunning
    <3>. QED
      BY <2>2, <3>1, Zenon DEF StoreTypeOK, MarkRunning, Row, JobStates
  <2>3. CASE ExtendDeadline(j, c)
    <3>1. jobs[j] \in Row
      BY <2>3, RowOf, Zenon DEF ExtendDeadline, Fenced, InFlight
    <3>. QED
      BY <2>3, <3>1, Zenon DEF StoreTypeOK, ExtendDeadline, Row
  <2>4. CASE CompleteJob(j, c)
    <3>1. jobs[j] \in Row
      BY <2>4, RowOf, Zenon DEF CompleteJob, Fenced, InFlight
    <3>. QED
      BY <2>4, <3>1, ZenonT(30) DEF StoreTypeOK, CompleteJob, Row, JobStates
  <2>5. ASSUME NEW n \in {"null", "due", "future"}, FailJob(j, c, n)
        PROVE  StoreTypeOK'
    <3>1. jobs[j] \in Row
      BY <2>5, RowOf, Zenon DEF FailJob, Fenced, InFlight
    <3>2. FailState(j) \in {"dead", "failed"}
      BY Zenon DEF FailState
    <3> DEFINE ra == IF Exhausted(j) \/ n = "null" THEN jobs[j].runAt ELSE n
               st == FailState(j)
    <3>3. jobs'[j] \in Row
      <4>1. ra \in {"future", "due", "overdue"} /\ jobs[j].attempt + 1 \in Nat
        BY <2>5, <3>1 DEF Row
      <4>2. jobs'[j] = [jobs[j] EXCEPT !.state = st, !.attempt = jobs[j].attempt + 1,
                          !.lastError = "execution", !.runAt = ra,
                          !.token = NoToken, !.deadline = "none"]
        BY <2>5, Zenon DEF FailJob, StoreTypeOK
      <4> HIDE DEF ra
      <4>3. /\ jobs'[j].state \in JobStates /\ jobs'[j].attempt \in Nat
            /\ jobs'[j].lastError \in Errors /\ jobs'[j].runAt = ra
            /\ jobs'[j].token = NoToken /\ jobs'[j].deadline = "none"
        BY <3>1, <3>2, <4>1, <4>2 DEF Row, JobStates, Errors
      <4> HIDE DEF st
      <4>. QED
        BY <3>1, <4>1, <4>2, <4>3, Zenon DEF Row
    <3>4. runs'[c] \in Run
      BY <2>5, <2>1, <3>2, Zenon DEF StoreTypeOK, FailJob, Run
    <3>. QED
      BY <2>5, <3>3, <3>4, Zenon DEF StoreTypeOK, FailJob
  <2>. QED
    BY <1>3, <2>2, <2>3, <2>4, <2>5, Zenon DEF WorkerStatement
<1>4. ASSUME NEW j \in JobIds, RequeueStaleJob(j)
      PROVE  StoreTypeOK'
  <2>1. runs' \in [Tokens -> Run \cup {NoRun}]
    BY <1>4 DEF StoreTypeOK, RequeueStaleJob, Run, NoRun
  <2>2. ASSUME Stale(j)
        PROVE  jobs'[j] \in Row
    <3>1. jobs[j] \in Row
      BY <2>2, RowOf, Zenon DEF Stale, InFlight
    <3> DEFINE st == IF Exhausted(j) THEN "dead" ELSE "pending"
    <3>2. st \in JobStates /\ jobs[j].attempt + 1 \in Nat
      BY <3>1 DEF Row, JobStates
    <3>3. jobs'[j] = [jobs[j] EXCEPT !.state = st, !.attempt = jobs[j].attempt + 1,
                        !.token = NoToken, !.deadline = "none",
                        !.lastError = "heartbeat"]
      BY <1>4, <2>2, Zenon DEF RequeueStaleJob, StoreTypeOK
    <3> HIDE DEF st
    <3>. QED
      BY <3>1, <3>2, <3>3, ZenonT(30) DEF Row, Errors
  <2>. QED
    BY <1>4, <2>1, <2>2, Zenon DEF StoreTypeOK, RequeueStaleJob
<1>5. ASSUME NEW j \in JobIds, MoveToDeadLetter(j)
      PROVE  StoreTypeOK'
  <2>1. jobs[j] \in Row
    BY <1>5, RowOf, Zenon DEF MoveToDeadLetter
  <2>. QED
    BY <1>5, <2>1, Zenon DEF StoreTypeOK, MoveToDeadLetter, Row, Letter
<1>6. ASSUME NEW j \in JobIds, NEW t \in Tenants, CancelJob(j, t)
      PROVE  StoreTypeOK'
  <2>1. jobs[j] \in Row
    BY <1>6, RowOf, Zenon DEF CancelJob
  <2>. QED
    BY <1>6, <2>1, Zenon DEF StoreTypeOK, CancelJob, Row
<1>7. ASSUME NEW j \in JobIds, NEW t \in Tenants, ReplayJob(j, t)
      PROVE  StoreTypeOK'
  <2>1. jobs[j] \in Row
    BY <1>7, RowOf, Zenon DEF ReplayJob
  <2>. QED
    BY <1>7, <2>1, Zenon DEF StoreTypeOK, ReplayJob, Row, JobStates, Errors
<1>8. ASSUME NEW j \in JobIds, ForceFail(j)
      PROVE  StoreTypeOK'
  <2>1. jobs[j] \in Row
    BY <1>8, RowOf, Zenon DEF ForceFail
  <2>. QED
    BY <1>8, <2>1, ZenonT(30) DEF StoreTypeOK, ForceFail, Row, JobStates, Errors
<1>9. ASSUME NEW j \in JobIds, PromoteScheduledToPending(j)
      PROVE  StoreTypeOK'
  <2>1. jobs[j] \in Row
    BY <1>9, RowOf, Zenon DEF PromoteScheduledToPending
  <2>. QED
    BY <1>9, <2>1, Zenon DEF StoreTypeOK, PromoteScheduledToPending, Row, JobStates
<1>10. ASSUME NEW j \in JobIds, PromoteFailedToPending(j)
       PROVE  StoreTypeOK'
  <2>1. jobs[j] \in Row
    BY <1>10, RowOf, Zenon DEF PromoteFailedToPending
  <2>. QED
    BY <1>10, <2>1, Zenon DEF StoreTypeOK, PromoteFailedToPending, Row, JobStates
<1>11. ASSUME NEW j \in JobIds, DeadlinePasses(j)
       PROVE  StoreTypeOK'
  <2>1. jobs[j] \in Row
    BY <1>11, RowOf, Zenon DEF DeadlinePasses, InFlight
  <2>. QED
    BY <1>11, <2>1, Zenon DEF StoreTypeOK, DeadlinePasses, Row
<1>12. ASSUME NEW j \in JobIds, RunAtPasses(j)
       PROVE  StoreTypeOK'
  <2>1. jobs[j] \in Row
    BY <1>12, RowOf, Zenon DEF RunAtPasses
  <2>. QED
    BY <1>12, <2>1, Zenon DEF StoreTypeOK, RunAtPasses, Row
<1>13. ASSUME NEW c \in Tokens, CompleteRun(c)
       PROVE  StoreTypeOK'
  <2>1. runs[c] \in Run
    BY <1>13, RunOf, Zenon DEF CompleteRun, SuccessOnce, Accepted
  <2>. QED
    BY <1>13, <2>1, Zenon DEF StoreTypeOK, CompleteRun, Run
<1>14. ASSUME NEW c \in Tokens, AbandonRun(c)
       PROVE  StoreTypeOK'
  BY <1>14, Zenon DEF StoreTypeOK, AbandonRun
<1>15. CASE UNCHANGED storeVars
  BY <1>15, Zenon DEF StoreTypeOK, storeVars
<1>. QED
  BY <1>1, <1>2, <1>3, <1>4, <1>5, <1>6, <1>7, <1>8, <1>9, <1>10, <1>11, <1>12,
     <1>13, <1>14, <1>15, Zenon DEF StoreNext, JobStatement

\* The reaper clears the whole claim, and reopens no run.
LEMMA ReaperHolder ==
  ASSUME StoreTypeOK, StoreTypeOK', HolderHasRun, NEW j \in JobIds, RequeueStaleJob(j)
  PROVE  HolderHasRun'
<1>1. \A c \in Tokens : runs[c] # NoRun =>
        /\ runs'[c] # NoRun
        /\ runs'[c].job = runs[c].job /\ runs'[c].attempt = runs[c].attempt
        /\ runs'[c].state \in {runs[c].state, "failed"}
  BY DEF RequeueStaleJob, StoreTypeOK, Run, NoRun
<1>2. \A i \in JobIds : jobs'[i] # jobs[i] =>
        /\ jobs'[i].state \in {"dead", "pending"}
        /\ jobs'[i].token = NoToken /\ jobs'[i].deadline = "none"
  <2>1. \A i \in JobIds \ {j} : jobs'[i] = jobs[i]
    BY Zenon DEF RequeueStaleJob, StoreTypeOK
  <2>2. Stale(j) => /\ jobs'[j].state \in {"dead", "pending"}
                    /\ jobs'[j].token = NoToken /\ jobs'[j].deadline = "none"
    BY RowOf DEF RequeueStaleJob, Stale, InFlight, StoreTypeOK, Row
  <2>3. ~Stale(j) => jobs' = jobs
    BY Zenon DEF RequeueStaleJob
  <2>. QED
    BY <2>1, <2>2, <2>3, Zenon
<1>3. ASSUME NEW i \in JobIds, Inserted(i)', jobs'[i] = jobs[i], jobs'[i].state \in InFlight
      PROVE  jobs[i].token \in Tokens /\ Inserted(i)
  BY <1>3, RowOf, StoreAssumption, Zenon DEF HolderHasRun, Inserted, StoreTypeOK, Row, InFlight
<1>. QED
  BY <1>1, <1>2, <1>3 DEF HolderHasRun, Inserted, InFlight

\* HolderHasRun is preserved: one step per statement.
LEMMA HolderStep == StoreInv /\ StoreTypeOK' /\ [StoreNext]_storeVars => HolderHasRun'
<1> SUFFICES ASSUME StoreInv, StoreTypeOK', [StoreNext]_storeVars
             PROVE  HolderHasRun'
  BY Zenon
<1> USE StoreAssumption
    DEF StoreInv, HolderHasRun, Inserted, Absent, NoRun, InFlight, StoreTypeOK, Row, Run
<1>1. ASSUME NEW j \in JobIds, NEW t \in Tenants, NEW p \in Priorities,
             NEW k \in IdemKeys \cup {NoKey}, NEW mr \in RetryLimits,
             NEW ra \in {"future", "due"}, InsertJob(j, NewJob(t, p, k, mr, ra))
      PROVE  HolderHasRun'
  BY <1>1 DEF InsertJob, NewJob
<1>2. ASSUME NEW j \in JobIds, NEW c \in Tokens, TryClaim(j, c)
      PROVE  HolderHasRun'
  BY <1>2 DEF TryClaim
<1>3. ASSUME NEW j \in JobIds, NEW c \in Tokens, MarkRunning(j, c)
      PROVE  HolderHasRun'
  BY <1>3 DEF MarkRunning, Fenced
<1>4. ASSUME NEW j \in JobIds, NEW c \in Tokens, ExtendDeadline(j, c)
      PROVE  HolderHasRun'
  BY <1>4 DEF ExtendDeadline, Fenced
<1>5. ASSUME NEW j \in JobIds, NEW c \in Tokens, CompleteJob(j, c),
             runs[c] # NoRun, runs[c].job = j
      PROVE  HolderHasRun'
  BY <1>5 DEF CompleteJob, Fenced
<1>6. ASSUME NEW j \in JobIds, NEW c \in Tokens, NEW n \in {"null", "due", "future"},
             FailJob(j, c, n), runs[c] # NoRun, runs[c].job = j
      PROVE  HolderHasRun'
  BY <1>6 DEF FailJob, Fenced, FailState
<1>7. ASSUME NEW j \in JobIds, RequeueStaleJob(j)
      PROVE  HolderHasRun'
  BY <1>7, ReaperHolder, Zenon
<1>8. ASSUME NEW j \in JobIds, MoveToDeadLetter(j)
      PROVE  HolderHasRun'
  BY <1>8, Zenon DEF MoveToDeadLetter
<1>9. ASSUME NEW j \in JobIds, NEW t \in Tenants, CancelJob(j, t)
      PROVE  HolderHasRun'
  BY <1>9 DEF CancelJob
<1>10. ASSUME NEW j \in JobIds, NEW t \in Tenants, ReplayJob(j, t)
       PROVE  HolderHasRun'
  BY <1>10 DEF ReplayJob
<1>11. ASSUME NEW j \in JobIds, ForceFail(j)
       PROVE  HolderHasRun'
  BY <1>11 DEF ForceFail
<1>12. ASSUME NEW j \in JobIds, PromoteScheduledToPending(j)
       PROVE  HolderHasRun'
  BY <1>12 DEF PromoteScheduledToPending
<1>13. ASSUME NEW j \in JobIds, PromoteFailedToPending(j)
       PROVE  HolderHasRun'
  BY <1>13 DEF PromoteFailedToPending
<1>14. ASSUME NEW j \in JobIds, DeadlinePasses(j)
       PROVE  HolderHasRun'
  BY <1>14 DEF DeadlinePasses
<1>15. ASSUME NEW j \in JobIds, RunAtPasses(j)
       PROVE  HolderHasRun'
  BY <1>15 DEF RunAtPasses
<1>16. ASSUME NEW c \in Tokens, CompleteRun(c)
       PROVE  HolderHasRun'
  BY <1>16 DEF CompleteRun, SuccessOnce, Accepted
<1>17. ASSUME NEW c \in Tokens, AbandonRun(c)
       PROVE  HolderHasRun'
  BY <1>17, Zenon DEF AbandonRun
<1>18. CASE UNCHANGED storeVars
  BY <1>18, Zenon DEF storeVars
<1> HIDE DEF HolderHasRun
<1>. QED
  BY <1>1, <1>2, <1>3, <1>4, <1>5, <1>6, <1>7, <1>8, <1>9, <1>10, <1>11,
     <1>12, <1>13, <1>14, <1>15, <1>16, <1>17, <1>18
  DEF StoreNext, JobStatement, WorkerStatement

\* A statement about one job leaves the rows of the others alone.
LEMMA Frame ==
  ASSUME StoreTypeOK, NEW j \in JobIds, JobStatement(j), NEW i \in JobIds, i # j
  PROVE  jobs'[i] = jobs[i] /\ handed'[i] = handed[i]
BY ZenonT(30) DEF StoreTypeOK, JobStatement, WorkerStatement, InsertJob, TryClaim, MarkRunning,
       ExtendDeadline, CompleteJob, FailJob, RequeueStaleJob, MoveToDeadLetter,
       CancelJob, ReplayJob, ForceFail, PromoteScheduledToPending,
       PromoteFailedToPending, DeadlinePasses, RunAtPasses

\* Every statement about a job keeps its attempt column and its grants in step.
LEMMA AccountingOfJob ==
  ASSUME StoreInv, StoreTypeOK', NEW j \in JobIds, JobStatement(j)
  PROVE  Accounted(j)'
<1> USE StoreAssumption
    DEF StoreInv, AttemptAccounting, Accounted,
        Budget, Exhausted, InFlight, StoreTypeOK, Row, Inserted, Absent
<1>1. ASSUME NEW t \in Tenants, NEW p \in Priorities,
             NEW k \in IdemKeys \cup {NoKey}, NEW mr \in RetryLimits,
             NEW ra \in {"future", "due"}, InsertJob(j, NewJob(t, p, k, mr, ra))
      PROVE  Accounted(j)'
  <2>1. /\ jobs'[j].state \in {"pending", "scheduled"} /\ jobs'[j].attempt = 0
        /\ jobs'[j].maxRetries \in Int
    BY <1>1, Zenon DEF InsertJob, NewJob
  <2>2. handed'[j] = 0
    BY <1>1 DEF InsertJob
  <2>. QED
    BY <2>1, <2>2
<1>2. ASSUME NEW c \in Tokens, TryClaim(j, c)
      PROVE  Accounted(j)'
  BY <1>2 DEF TryClaim
<1>3. ASSUME NEW c \in Tokens, MarkRunning(j, c)
      PROVE  Accounted(j)'
  BY <1>3 DEF MarkRunning, Fenced
<1>4. ASSUME NEW c \in Tokens, ExtendDeadline(j, c)
      PROVE  Accounted(j)'
  BY <1>4 DEF ExtendDeadline, Fenced
<1>5. ASSUME NEW c \in Tokens, CompleteJob(j, c)
      PROVE  Accounted(j)'
  BY <1>5 DEF CompleteJob, Fenced
<1>6. ASSUME NEW c \in Tokens, NEW n \in {"null", "due", "future"}, FailJob(j, c, n)
      PROVE  Accounted(j)'
  BY <1>6 DEF FailJob, Fenced, FailState
<1>7. ASSUME RequeueStaleJob(j)
      PROVE  Accounted(j)'
  BY <1>7 DEF RequeueStaleJob, Stale
<1>8. ASSUME MoveToDeadLetter(j)
      PROVE  Accounted(j)'
  BY <1>8, Zenon DEF MoveToDeadLetter
<1>9. ASSUME NEW t \in Tenants, CancelJob(j, t)
      PROVE  Accounted(j)'
  BY <1>9 DEF CancelJob
<1>10. ASSUME NEW t \in Tenants, ReplayJob(j, t)
       PROVE  Accounted(j)'
  BY <1>10 DEF ReplayJob
<1>11. ASSUME ForceFail(j)
       PROVE  Accounted(j)'
  BY <1>11 DEF ForceFail
<1>12. ASSUME PromoteScheduledToPending(j)
       PROVE  Accounted(j)'
  BY <1>12 DEF PromoteScheduledToPending
<1>13. ASSUME PromoteFailedToPending(j)
       PROVE  Accounted(j)'
  BY <1>13 DEF PromoteFailedToPending
<1>14. ASSUME DeadlinePasses(j)
       PROVE  Accounted(j)'
  BY <1>14 DEF DeadlinePasses
<1>15. ASSUME RunAtPasses(j)
       PROVE  Accounted(j)'
  BY <1>15 DEF RunAtPasses
<1>. QED
  BY <1>1, <1>2, <1>3, <1>4, <1>5, <1>6, <1>7, <1>8, <1>9, <1>10, <1>11,
     <1>12, <1>13, <1>14, <1>15, ZenonT(30) DEF JobStatement, WorkerStatement

\* The reaper leaves a job within its budget, and buries it only at the end of it.
LEMMA ReaperBudget ==
  ASSUME StoreInv, NEW j \in JobIds, RequeueStaleJob(j)
  PROVE  WithinBudget(j)'
<1> USE StoreAssumption DEF StoreInv
<1>1. CASE Stale(j)
  <2>1. /\ jobs[j] \in Row /\ handed[j] = jobs[j].attempt + 1
        /\ jobs[j].attempt < Budget(j) /\ handed'[j] = handed[j]
    BY <1>1, RowOf, Zenon
    DEF RequeueStaleJob, Stale, InFlight, AttemptAccounting, Accounted
  <2>2. /\ jobs'[j].maxRetries = jobs[j].maxRetries
        /\ jobs'[j].state = "dead" => Exhausted(j)
    BY <1>1, <2>1, Zenon DEF RequeueStaleJob, StoreTypeOK, Row
  <2>3. jobs[j].attempt \in Nat /\ jobs[j].maxRetries \in Int
    BY <2>1, Zenon DEF Row
  <2>4. handed'[j] <= Budget(j)' /\ (Exhausted(j) => handed'[j] = Budget(j)')
    BY <2>1, <2>2, <2>3 DEF Exhausted, Budget
  <2>. QED
    BY <2>2, <2>4, Zenon DEF WithinBudget
<1>2. CASE ~Stale(j)
  BY <1>2, Zenon DEF RequeueStaleJob, RetryBudget, WithinBudget, Budget, Inserted
<1>. QED
  BY <1>1, <1>2, Zenon

\* So does FailJob.
LEMMA FailureBudget ==
  ASSUME StoreInv, NEW j \in JobIds, NEW c \in Tokens,
         NEW n \in {"null", "due", "future"}, FailJob(j, c, n)
  PROVE  WithinBudget(j)'
<1>1. /\ jobs[j] \in Row /\ handed[j] = jobs[j].attempt + 1
      /\ jobs[j].attempt < Budget(j) /\ handed'[j] = handed[j]
  BY RowOf, Zenon DEF StoreInv, FailJob, Fenced, InFlight, AttemptAccounting, Accounted
<1>2. /\ jobs'[j].maxRetries = jobs[j].maxRetries
      /\ jobs'[j].state = "dead" => Exhausted(j)
  BY <1>1, Zenon DEF StoreInv, FailJob, FailState, StoreTypeOK, Row
<1>3. jobs[j].attempt \in Nat /\ jobs[j].maxRetries \in Int
  BY <1>1, StoreAssumption, Zenon DEF Row
<1>4. handed'[j] <= Budget(j)' /\ (Exhausted(j) => handed'[j] = Budget(j)')
  BY <1>1, <1>2, <1>3 DEF Exhausted, Budget
<1>. QED
  BY <1>2, <1>4, Zenon DEF WithinBudget

\* No statement hands a job out beyond its budget, or buries it too early.
LEMMA BudgetOfJob ==
  ASSUME StoreInv, StoreTypeOK', NEW j \in JobIds, JobStatement(j)
  PROVE  WithinBudget(j)'
<1>6. ASSUME NEW c \in Tokens, NEW n \in {"null", "due", "future"}, FailJob(j, c, n)
      PROVE  WithinBudget(j)'
  BY <1>6, FailureBudget, Zenon
<1>7. ASSUME RequeueStaleJob(j)
      PROVE  WithinBudget(j)'
  BY <1>7, ReaperBudget, Zenon
<1> USE StoreAssumption
    DEF StoreInv, AttemptAccounting, Accounted, RetryBudget,
        WithinBudget, Budget, Exhausted, InFlight, StoreTypeOK, Row, Inserted, Absent
<1>1. ASSUME NEW t \in Tenants, NEW p \in Priorities,
             NEW k \in IdemKeys \cup {NoKey}, NEW mr \in RetryLimits,
             NEW ra \in {"future", "due"}, InsertJob(j, NewJob(t, p, k, mr, ra))
      PROVE  WithinBudget(j)'
  <2>1. /\ jobs'[j].state \in {"pending", "scheduled"} /\ jobs'[j].attempt = 0
        /\ jobs'[j].maxRetries \in Int
    BY <1>1, Zenon DEF InsertJob, NewJob
  <2>2. handed'[j] = 0
    BY <1>1 DEF InsertJob
  <2>. QED
    BY <2>1, <2>2
<1>2. ASSUME NEW c \in Tokens, TryClaim(j, c)
      PROVE  WithinBudget(j)'
  BY <1>2 DEF TryClaim
<1>3. ASSUME NEW c \in Tokens, MarkRunning(j, c)
      PROVE  WithinBudget(j)'
  BY <1>3 DEF MarkRunning, Fenced
<1>4. ASSUME NEW c \in Tokens, ExtendDeadline(j, c)
      PROVE  WithinBudget(j)'
  BY <1>4 DEF ExtendDeadline, Fenced
<1>5. ASSUME NEW c \in Tokens, CompleteJob(j, c)
      PROVE  WithinBudget(j)'
  <2>1. /\ jobs'[j].state = "succeeded" /\ jobs'[j].maxRetries = jobs[j].maxRetries
        /\ Inserted(j) /\ handed'[j] = handed[j]
    BY <1>5 DEF CompleteJob, Fenced
  <2>. QED
    BY <2>1, Zenon
<1>8. ASSUME MoveToDeadLetter(j)
      PROVE  WithinBudget(j)'
  BY <1>8, Zenon DEF MoveToDeadLetter
<1>9. ASSUME NEW t \in Tenants, CancelJob(j, t)
      PROVE  WithinBudget(j)'
  BY <1>9 DEF CancelJob
<1>10. ASSUME NEW t \in Tenants, ReplayJob(j, t)
       PROVE  WithinBudget(j)'
  BY <1>10 DEF ReplayJob
<1>11. ASSUME ForceFail(j)
       PROVE  WithinBudget(j)'
  BY <1>11 DEF ForceFail
<1>12. ASSUME PromoteScheduledToPending(j)
       PROVE  WithinBudget(j)'
  BY <1>12 DEF PromoteScheduledToPending
<1>13. ASSUME PromoteFailedToPending(j)
       PROVE  WithinBudget(j)'
  BY <1>13 DEF PromoteFailedToPending
<1>14. ASSUME DeadlinePasses(j)
       PROVE  WithinBudget(j)'
  BY <1>14 DEF DeadlinePasses
<1>15. ASSUME RunAtPasses(j)
       PROVE  WithinBudget(j)'
  BY <1>15 DEF RunAtPasses
<1>. QED
  BY <1>1, <1>2, <1>3, <1>4, <1>5, <1>6, <1>7, <1>8, <1>9, <1>10, <1>11,
     <1>12, <1>13, <1>14, <1>15, Zenon DEF JobStatement, WorkerStatement

\* No statement touches the row of a succeeded job: a step of any one leaves it.
LEMMA SucceededStep ==
  ASSUME StoreTypeOK, [StoreNext]_storeVars, NEW j \in JobIds, jobs[j].state = "succeeded"
  PROVE  jobs'[j] = jobs[j]
<1>1. ASSUME JobStatement(j)
      PROVE  jobs'[j] = jobs[j]
  BY <1>1 DEF JobStatement, WorkerStatement, InsertJob, TryClaim, MarkRunning,
       ExtendDeadline, CompleteJob, FailJob, RequeueStaleJob, MoveToDeadLetter,
       CancelJob, ReplayJob, ForceFail, PromoteScheduledToPending,
       PromoteFailedToPending, DeadlinePasses, RunAtPasses, Fenced, Stale, InFlight,
       Inserted, Absent
<1>2. ASSUME NEW i \in JobIds, JobStatement(i), i # j
      PROVE  jobs'[j] = jobs[j]
  BY <1>2, Frame, Zenon
<1>. QED
  BY <1>1, <1>2, Zenon DEF StoreNext, CompleteRun, AbandonRun, storeVars

\* The statements that write job_runs, or leave CompleteJob half done.
LEMMA RunWriters ==
  ASSUME [StoreNext]_storeVars
  PROVE  \/ UNCHANGED <<runs, completing>>
         \/ \E j \in JobIds, c \in Tokens : TryClaim(j, c)
         \/ \E j \in JobIds, c \in Tokens :
              CompleteJob(j, c) /\ runs[c] # NoRun /\ runs[c].job = j
         \/ \E c \in Tokens : CompleteRun(c) \/ AbandonRun(c)
         \/ \E j \in JobIds, c \in Tokens, n \in {"null", "due", "future"} :
              FailJob(j, c, n) /\ runs[c] # NoRun
         \/ \E j \in JobIds : RequeueStaleJob(j)
<1>1. ASSUME NEW j \in JobIds, NEW c \in Tokens, WorkerStatement(j, c)
      PROVE  \/ UNCHANGED <<runs, completing>>
             \/ CompleteJob(j, c) /\ runs[c] # NoRun /\ runs[c].job = j
             \/ \E n \in {"null", "due", "future"} : FailJob(j, c, n) /\ runs[c] # NoRun
  BY <1>1, Zenon DEF WorkerStatement, MarkRunning, ExtendDeadline
<1>2. ASSUME NEW j \in JobIds, JobStatement(j)
      PROVE  \/ UNCHANGED <<runs, completing>>
             \/ \E c \in Tokens : TryClaim(j, c) \/ WorkerStatement(j, c)
             \/ RequeueStaleJob(j)
  BY <1>2, Zenon DEF JobStatement, InsertJob, MoveToDeadLetter, CancelJob, ReplayJob, ForceFail,
       PromoteScheduledToPending, PromoteFailedToPending, DeadlinePasses, RunAtPasses
<1>3. CASE UNCHANGED storeVars
  BY <1>3, Zenon DEF storeVars
<1>. QED
  BY <1>1, <1>2, <1>3, Zenon DEF StoreNext

\* SuccessOnce is preserved: CompleteJob accepts only the run of a job in flight, so
\* of a job that has no accepted run, and no other statement accepts one.
LEMMA SuccessStep == StoreInv /\ [StoreNext]_storeVars => SuccessOnce'
<1> SUFFICES ASSUME StoreInv, [StoreNext]_storeVars
             PROVE  SuccessOnce'
  BY Zenon
<1> DEFINE Kept(c) == /\ runs[c] # NoRun => runs'[c] # NoRun
                      /\ runs[c] # NoRun => runs'[c].job = runs[c].job
                      /\ runs[c] # NoRun => runs'[c].attempt = runs[c].attempt
<1> USE DEF StoreInv
<1>1. \A j \in JobIds : jobs[j].state = "succeeded" => jobs'[j] = jobs[j]
  BY SucceededStep, Zenon
<1>2. \A c \in Accepted : runs[c] \in Run /\ runs[c] # NoRun /\ runs[c].job \in JobIds
  BY RunOf, Zenon DEF SuccessOnce, Accepted, Run
<1>3. ASSUME NEW j \in JobIds, NEW c \in Tokens, CompleteJob(j, c), runs[c] # NoRun,
             runs[c].job = j
      PROVE  SuccessOnce'
  <2>1. /\ jobs[j].state \in InFlight /\ jobs[j].token = c /\ Inserted(j)
        /\ jobs[j].attempt = runs[c].attempt
    BY <1>3, RowOf, Zenon DEF CompleteJob, Fenced, InFlight, HolderHasRun
  <2>2. jobs'[j].state = "succeeded" /\ jobs'[j].attempt = jobs[j].attempt
    BY <1>3, <2>1, RowOf DEF CompleteJob, StoreTypeOK, Row, InFlight
  <2>3. \A d \in Accepted : runs[d].job # j
    BY <2>1, Zenon DEF SuccessOnce, InFlight
  <2>4. runs' = runs /\ Accepted' = Accepted \cup {c}
    BY <1>3, Zenon DEF CompleteJob, Accepted
  <2>. QED
    BY <1>1, <1>2, <1>3, <2>1, <2>2, <2>3, <2>4 DEF SuccessOnce
<1>4. ASSUME Accepted' \subseteq Accepted, \A c \in Tokens : Kept(c)
      PROVE  SuccessOnce'
  BY <1>1, <1>2, <1>4 DEF SuccessOnce, Accepted
<1>5. CASE UNCHANGED <<runs, completing>>
  BY <1>4, <1>5, Zenon DEF Accepted
<1>6. ASSUME NEW j \in JobIds, NEW c \in Tokens, TryClaim(j, c)
      PROVE  SuccessOnce'
  <2>1. \A d \in Tokens : Kept(d)
    BY <1>6, Zenon DEF TryClaim, StoreTypeOK, Run, NoRun
  <2>2. Accepted' \subseteq Accepted
    BY <1>6, Zenon DEF TryClaim, StoreTypeOK, Accepted
  <2>. QED
    BY <1>4, <2>1, <2>2, Zenon
<1>7. ASSUME NEW c \in Tokens, CompleteRun(c) \/ AbandonRun(c)
      PROVE  SuccessOnce'
  <2>1. c \in Accepted /\ runs[c] \in Run
    BY <1>2, <1>7, Zenon DEF CompleteRun, AbandonRun, Accepted
  <2>2. \A d \in Tokens : Kept(d)
    BY <1>7, <2>1 DEF CompleteRun, AbandonRun, StoreTypeOK, Run, NoRun
  <2>3. Accepted' \subseteq Accepted
    BY <1>7, <2>1, Zenon DEF CompleteRun, AbandonRun, StoreTypeOK, Accepted
  <2>. QED
    BY <1>4, <2>2, <2>3, Zenon
<1>8. ASSUME NEW j \in JobIds, NEW c \in Tokens, NEW n \in {"null", "due", "future"},
             FailJob(j, c, n), runs[c] # NoRun
      PROVE  SuccessOnce'
  <2>1. runs[c] \in Run /\ FailState(j) \in {"dead", "failed"}
    BY <1>8, RunOf, Zenon DEF FailState
  <2>2. \A d \in Tokens : Kept(d)
    BY <1>8, <2>1, Zenon DEF FailJob, StoreTypeOK, Run, NoRun
  <2>3. Accepted' \subseteq Accepted
    BY <1>8, <2>1, Zenon DEF FailJob, StoreTypeOK, Accepted, Run
  <2>. QED
    BY <1>4, <2>2, <2>3, Zenon
<1>9. ASSUME NEW j \in JobIds, RequeueStaleJob(j)
      PROVE  SuccessOnce'
  <2>1. \A d \in Tokens : Kept(d)
    BY <1>9, Zenon DEF RequeueStaleJob, StoreTypeOK, Run, NoRun
  <2>2. Accepted' \subseteq Accepted
    BY <1>9 DEF RequeueStaleJob, StoreTypeOK, Accepted, Run, NoRun
  <2>. QED
    BY <1>4, <2>1, <2>2, Zenon
<1>. QED
  BY <1>3, <1>5, <1>6, <1>7, <1>8, <1>9, RunWriters, Zenon

\* StoreInv holds of the empty tables.
LEMMA StoreInvInit == StoreInit => StoreInv
BY StoreAssumption
DEF StoreInit, StoreInv, StoreTypeOK, HolderHasRun, AttemptAccounting, Accounted,
    RetryBudget, WithinBudget, SuccessOnce, Accepted, Inserted, Absent, NoRun, InFlight

\* StoreInv is inductive.
LEMMA StoreInvStep == StoreInv /\ [StoreNext]_storeVars => StoreInv'
<1> SUFFICES ASSUME StoreInv, [StoreNext]_storeVars
             PROVE  StoreInv'
  BY Zenon
<1>1. StoreTypeOK'
  BY TypeStep, Zenon DEF StoreInv
<1>2. HolderHasRun' /\ SuccessOnce'
  BY <1>1, HolderStep, SuccessStep, Zenon
<1>3. ASSUME NEW j \in JobIds, JobStatement(j)
      PROVE  AttemptAccounting' /\ RetryBudget'
  <2>1. Accounted(j)' /\ WithinBudget(j)'
    BY <1>1, <1>3, AccountingOfJob, BudgetOfJob, Zenon
  <2>2. ASSUME NEW i \in JobIds, i # j
        PROVE  Accounted(i)' /\ WithinBudget(i)'
    <3>1. jobs'[i] = jobs[i] /\ handed'[i] = handed[i]
      BY <1>3, <2>2, Frame, Zenon DEF StoreInv
    <3>2. Accounted(i) /\ WithinBudget(i)
      BY Zenon DEF StoreInv, AttemptAccounting, RetryBudget
    <3>. QED
      BY <3>1, <3>2, Zenon DEF Accounted, WithinBudget, Inserted, Budget
  <2>. QED
    BY <2>1, <2>2, Zenon DEF AttemptAccounting, RetryBudget
<1>4. ASSUME UNCHANGED <<jobs, handed>>
      PROVE  AttemptAccounting' /\ RetryBudget'
  BY <1>4, Zenon DEF StoreInv, AttemptAccounting, Accounted, RetryBudget, WithinBudget,
              Inserted, Budget
<1>. QED
  BY <1>1, <1>2, <1>3, <1>4, Zenon DEF StoreInv, StoreNext, CompleteRun, AbandonRun, storeVars

\* Whatever the callers do, the tables keep their types, claims are whole, retries
\* stay within the budget and at most one run of a job is accepted.
THEOREM StoreInvariant == StoreSpec => []StoreInv
BY StoreInvInit, StoreInvStep, PTL DEF StoreSpec

\* A job has a token and a deadline exactly while TryClaim's claim stands, and the
\* token names a run of this job and attempt.
THEOREM ClaimsAreWhole == StoreSpec => []HolderHasRun
BY StoreInvariant, PTL DEF StoreInv

\* No interleaving of FailJob, RequeueStaleJob, ForceFail and ReplayJob hands a job
\* out more than max(1, max_retries) times, or buries it before that.
THEOREM RetriesAreBounded == StoreSpec => []RetryBudget
BY StoreInvariant, PTL DEF StoreInv

\* CompleteJob accepts at most one run of a job, whatever stale workers send.
THEOREM SuccessIsUnique == StoreSpec => []SuccessOnce
BY StoreInvariant, PTL DEF StoreInv

\* Once CompleteJob has set a job to succeeded, nothing changes its row again.
THEOREM SucceededFinal == StoreSpec => SucceededIsFinal
<1>1. StoreInv /\ [StoreNext]_storeVars
        => [\A j \in JobIds : jobs[j].state = "succeeded" => jobs'[j] = jobs[j]]_storeVars
  BY SucceededStep, Zenon DEF StoreInv
<1>. QED
  BY <1>1, StoreInvariant, PTL DEF StoreSpec, SucceededIsFinal

\* TryClaim, FailJob, RequeueStaleJob and ReplayJob keep the attempt column in step
\* with the claims that were granted.
THEOREM AttemptsAreCounted == StoreSpec => []AttemptAccounting
BY StoreInvariant, PTL DEF StoreInv

\* A statement gives a job a key only by inserting its row, which the unique index
\* allows only while no row of the tenant has that key.
LEMMA KeyOfJob ==
  ASSUME StoreTypeOK, NEW j \in JobIds, JobStatement(j), Live(j)'
  PROVE  \/ Live(j) /\ jobs'[j].key = jobs[j].key /\ jobs'[j].tenant = jobs[j].tenant
         \/ jobs[j] = Absent /\ ~KeyTaken(jobs'[j].tenant, jobs'[j].key)
<1> DEFINE Kept == Live(j) /\ jobs'[j].key = jobs[j].key /\ jobs'[j].tenant = jobs[j].tenant
<1> USE DEF InFlight, Live, JobStates, StoreTypeOK, Row, Absent, Inserted
<1>1. ASSUME NEW t \in Tenants, NEW p \in Priorities,
             NEW k \in IdemKeys \cup {NoKey}, NEW mr \in RetryLimits,
             NEW ra \in {"future", "due"}, InsertJob(j, NewJob(t, p, k, mr, ra))
      PROVE  jobs[j] = Absent /\ ~KeyTaken(jobs'[j].tenant, jobs'[j].key)
  BY <1>1, Zenon DEF InsertJob, NewJob
<1>2. ASSUME NEW c \in Tokens, TryClaim(j, c) PROVE Kept
  BY <1>2 DEF TryClaim
<1>3. ASSUME NEW c \in Tokens, MarkRunning(j, c) PROVE Kept
  BY <1>3 DEF MarkRunning, Fenced
<1>4. ASSUME NEW c \in Tokens, ExtendDeadline(j, c) PROVE Kept
  BY <1>4 DEF ExtendDeadline, Fenced
<1>5. ASSUME NEW c \in Tokens, CompleteJob(j, c) PROVE Kept
  BY <1>5 DEF CompleteJob, Fenced
<1>6. ASSUME NEW c \in Tokens, NEW n \in {"null", "due", "future"}, FailJob(j, c, n) PROVE Kept
  BY <1>6 DEF FailJob, Fenced
<1>7. ASSUME RequeueStaleJob(j) PROVE Kept
  BY <1>7 DEF RequeueStaleJob, Stale
<1>8. ASSUME MoveToDeadLetter(j) PROVE Kept
  BY <1>8, Zenon DEF MoveToDeadLetter
<1>9. ASSUME NEW t \in Tenants, CancelJob(j, t) PROVE Kept
  BY <1>9 DEF CancelJob
<1>10. ASSUME NEW t \in Tenants, ReplayJob(j, t) PROVE Kept
  BY <1>10 DEF ReplayJob
<1>11. ASSUME ForceFail(j) PROVE Kept
  BY <1>11 DEF ForceFail
<1>12. ASSUME PromoteScheduledToPending(j) PROVE Kept
  BY <1>12 DEF PromoteScheduledToPending
<1>13. ASSUME PromoteFailedToPending(j) PROVE Kept
  BY <1>13 DEF PromoteFailedToPending
<1>14. ASSUME DeadlinePasses(j) PROVE Kept
  BY <1>14 DEF DeadlinePasses
<1>15. ASSUME RunAtPasses(j) PROVE Kept
  BY <1>15 DEF RunAtPasses
<1>. QED
  BY <1>1, <1>2, <1>3, <1>4, <1>5, <1>6, <1>7, <1>8, <1>9, <1>10, <1>11, <1>12,
     <1>13, <1>14, <1>15, Zenon DEF JobStatement, WorkerStatement

\* No statement makes two rows of one tenant and key.
LEMMA KeyStep == StoreTypeOK /\ KeyNamesOneJob /\ [StoreNext]_storeVars => KeyNamesOneJob'
<1>1. SUFFICES ASSUME StoreTypeOK, KeyNamesOneJob, [StoreNext]_storeVars
               PROVE  KeyNamesOneJob'
  BY Zenon
<1>2. ASSUME NEW j \in JobIds, JobStatement(j) PROVE KeyNamesOneJob'
  <2>1. SUFFICES ASSUME NEW i \in JobIds, Live(i)', Live(j)', jobs'[i].key # NoKey,
                        jobs'[i].key = jobs'[j].key, jobs'[i].tenant = jobs'[j].tenant, i # j
                 PROVE  FALSE
    <3>1. ASSUME NEW h \in JobIds, h # j PROVE jobs'[h] = jobs[h]
      BY <1>1, <1>2, <3>1, Frame, Zenon
    <3>. QED
      BY <1>1, <3>1 DEF KeyNamesOneJob, Live
  <2>2. jobs'[i] = jobs[i] /\ Live(i)
    BY <1>1, <1>2, <2>1, Frame, Zenon DEF Live
  <2>3. CASE Live(j) /\ jobs'[j].key = jobs[j].key /\ jobs'[j].tenant = jobs[j].tenant
    BY <1>1, <2>1, <2>2, <2>3, Zenon DEF KeyNamesOneJob
  <2>4. CASE ~KeyTaken(jobs'[j].tenant, jobs'[j].key)
    BY <2>1, <2>2, <2>4, Zenon DEF KeyTaken
  <2>. QED
    BY <1>1, <1>2, <2>1, <2>3, <2>4, KeyOfJob, Zenon
<1>3. ASSUME UNCHANGED jobs PROVE KeyNamesOneJob'
  BY <1>1, <1>3, Zenon DEF KeyNamesOneJob, Live
<1>. QED
  BY <1>1, <1>2, <1>3, Zenon DEF StoreNext, CompleteRun, AbandonRun, storeVars

--------------------------------------------------------------------------------
(* The tables implement JobContract, for any set of jobs, tokens and limits. *)

\* What a job contributes to the state of the contract.
HolderOf(j) == IF Inserted(j) THEN jobs[j].token ELSE NoToken
LimitOf(j) == IF Inserted(j) THEN Budget(j) ELSE 0

phaseBar == [j \in JobIds |-> Phase(j)]
holderBar == [j \in JobIds |-> HolderOf(j)]
issuedBar == {c \in Tokens : runs[c] # NoRun}
limitBar == [j \in JobIds |-> LimitOf(j)]

\* What each state of a job counts as.
LEMMA PhaseOf ==
  ASSUME StoreTypeOK, NEW j \in JobIds
  PROVE  /\ Phase(j) = "absent" <=> jobs[j].state = "absent"
         /\ Phase(j) = "held" <=> jobs[j].state \in InFlight
         /\ Phase(j) = "done" <=> jobs[j].state = "succeeded"
         /\ Phase(j) = "dead" <=> jobs[j].state = "dead"
         /\ Phase(j) = "withdrawn" <=> jobs[j].state = "deleted"
         /\ Phase(j) = "waiting" <=> jobs[j].state \in {"pending", "scheduled", "failed"}
BY DEF StoreTypeOK, Phase, Row, Absent, JobStates, InFlight

\* The same of the state after a step.
LEMMA PhaseOfNext ==
  ASSUME StoreTypeOK', NEW j \in JobIds
  PROVE  /\ Phase(j)' = "held" <=> jobs'[j].state \in InFlight
         /\ Phase(j)' = "done" <=> jobs'[j].state = "succeeded"
         /\ Phase(j)' = "dead" <=> jobs'[j].state = "dead"
         /\ Phase(j)' = "withdrawn" <=> jobs'[j].state = "deleted"
         /\ Phase(j)' = "waiting" <=> jobs'[j].state \in {"pending", "scheduled", "failed"}
BY DEF StoreTypeOK, Phase, Row, Absent, JobStates, InFlight

\* A statement about job j moves the contract's state at j alone.
LEMMA BarFrame ==
  ASSUME StoreTypeOK, StoreTypeOK', NEW j \in JobIds, JobStatement(j)
  PROVE  /\ phaseBar' = [phaseBar EXCEPT ![j] = Phase(j)']
         /\ holderBar' = [holderBar EXCEPT ![j] = HolderOf(j)']
         /\ limitBar' = [limitBar EXCEPT ![j] = LimitOf(j)']
         /\ handed' = [handed EXCEPT ![j] = handed'[j]]
<1>1. ASSUME NEW i \in JobIds, i # j
      PROVE  /\ Phase(i)' = Phase(i)
             /\ HolderOf(i)' = HolderOf(i)
             /\ LimitOf(i)' = LimitOf(i)
             /\ handed'[i] = handed[i]
  <2>1. jobs'[i] = jobs[i] /\ handed'[i] = handed[i]
    BY <1>1, Frame, Zenon
  <2>. QED
    BY <2>1, Zenon DEF Phase, HolderOf, LimitOf, Inserted, Budget
<1>. QED
  BY <1>1, Zenon DEF phaseBar, holderBar, limitBar, StoreTypeOK

\* The empty tables are an initial state of the contract.
LEMMA InitImplements == StoreInit => Contract!ContractInit
<1> SUFFICES ASSUME StoreInit
             PROVE  Contract!ContractInit
  BY Zenon
<1>1. \A j \in JobIds : Phase(j) = "absent" /\ ~Inserted(j)
  BY StoreInvInit, PhaseOf, Zenon DEF StoreInit, StoreInv, Inserted, Absent
<1>2. {c \in Tokens : runs[c] # NoRun} = {}
  BY Zenon DEF StoreInit
<1>. QED
  BY <1>1, <1>2, Zenon DEF StoreInit, Contract!ContractInit

\* A job in flight that is not exhausted has a grant to spare.
LEMMA SpareGrant ==
  ASSUME StoreInv, NEW j \in JobIds, jobs[j].state \in InFlight, ~Exhausted(j)
  PROVE  handed[j] < Budget(j)
<1>1. jobs[j] \in Row /\ Accounted(j)
  BY RowOf, Zenon DEF StoreInv, AttemptAccounting, InFlight
<1>2. jobs[j].attempt \in Nat /\ jobs[j].maxRetries \in Int
  BY <1>1, StoreAssumption, Zenon DEF Row
<1>3. handed[j] = jobs[j].attempt + 1
  BY <1>1, Zenon DEF Accounted
<1>. QED
  BY <1>2, <1>3 DEF Exhausted, Budget

\* Every statement is a step of the contract or leaves its state alone.
LEMMA StepImplements ==
  ASSUME StoreInv, StoreInv', [StoreNext]_storeVars
  PROVE  [Contract!ContractNext]_(Contract!contractVars)
<1> DEFINE Vars == <<phaseBar, holderBar, issuedBar, handed, limitBar>>
<1>1. ASSUME NEW j \in JobIds, JobStatement(j)
      PROVE  Contract!ContractNext \/ UNCHANGED Vars
  <2> USE StoreAssumption DEF StoreInv
  <2>0. /\ phaseBar' = [phaseBar EXCEPT ![j] = Phase(j)']
        /\ holderBar' = [holderBar EXCEPT ![j] = HolderOf(j)']
        /\ limitBar' = [limitBar EXCEPT ![j] = LimitOf(j)']
        /\ handed' = [handed EXCEPT ![j] = handed'[j]]
    BY <1>1, BarFrame, Zenon
  <2>1. /\ Accounted(j) /\ WithinBudget(j)
        /\ jobs[j].state # "absent" => jobs[j] \in Row /\ Inserted(j)
        /\ phaseBar[j] = Phase(j) /\ holderBar[j] = HolderOf(j) /\ limitBar[j] = LimitOf(j)
    BY RowOf, Zenon DEF AttemptAccounting, RetryBudget, phaseBar, holderBar, limitBar
  <2>L. LimitOf(j)' = LimitOf(j) => limitBar' = limitBar
    BY <2>0, <2>1, Zenon DEF limitBar
  <2>S. ASSUME Phase(j)' = Phase(j), HolderOf(j)' = HolderOf(j), LimitOf(j)' = LimitOf(j),
               issuedBar' = issuedBar, handed' = handed
        PROVE  UNCHANGED Vars
    BY <2>0, <2>1, <2>L, <2>S, Zenon DEF phaseBar, holderBar
  <2>2. ASSUME NEW c \in Tokens, TryClaim(j, c)
        PROVE  Contract!Grant(j, c)
    <3>1. /\ jobs[j].state = "pending" /\ jobs'[j].state = "claimed"
          /\ jobs'[j].token = c /\ jobs'[j].maxRetries = jobs[j].maxRetries
          /\ Inserted(j) /\ Inserted(j)'
      BY <2>1, <2>2, Zenon DEF TryClaim, StoreTypeOK, Row, Inserted, Absent
    <3>2. Phase(j) = "waiting" /\ Phase(j)' = "held"
      BY <3>1, PhaseOf, PhaseOfNext, Zenon DEF InFlight
    <3>3. HolderOf(j)' = c /\ LimitOf(j)' = LimitOf(j)
      BY <3>1, Zenon DEF HolderOf, LimitOf, Budget
    <3>4. handed[j] < LimitOf(j)
      BY <3>1, <2>1, Zenon DEF LimitOf, Accounted
    <3>5. c \notin issuedBar /\ issuedBar' = issuedBar \cup {c}
      BY <2>2 DEF TryClaim, issuedBar, StoreTypeOK, NoRun
    <3>6. handed' = [handed EXCEPT ![j] = handed[j] + 1]
      BY <2>2, Zenon DEF TryClaim
    <3>. QED
      BY <2>0, <2>1, <3>2, <3>3, <3>4, <3>5, <3>6, <2>L, Zenon
      DEF Contract!Grant, phaseBar, holderBar, limitBar, issuedBar, HolderOf, LimitOf
  <2>3. ASSUME NEW c \in Tokens, CompleteJob(j, c)
        PROVE  Contract!Finish(j)
    <3>1. /\ jobs[j].state \in InFlight /\ jobs'[j].state = "succeeded"
          /\ jobs'[j].token = NoToken /\ jobs'[j].maxRetries = jobs[j].maxRetries
          /\ Inserted(j) /\ Inserted(j)' /\ handed' = handed
      BY <2>1, <2>3, Zenon DEF CompleteJob, Fenced, InFlight, StoreTypeOK, Row, Inserted, Absent
    <3>2. Phase(j) = "held" /\ Phase(j)' = "done"
      BY <3>1, PhaseOf, PhaseOfNext, Zenon
    <3>3. HolderOf(j)' = NoToken /\ LimitOf(j)' = LimitOf(j) /\ issuedBar' = issuedBar
      BY <2>3, <3>1, Zenon DEF HolderOf, LimitOf, Budget, issuedBar, CompleteJob
    <3>. QED
      BY <2>0, <2>1, <2>L, <3>1, <3>2, <3>3, Zenon
      DEF Contract!Finish, phaseBar, holderBar, limitBar, issuedBar, HolderOf, LimitOf
  <2>4. ASSUME NEW c \in Tokens, NEW n \in {"null", "due", "future"}, FailJob(j, c, n),
               runs[c] # NoRun
        PROVE  Contract!GiveBack(j) \/ Contract!Bury(j)
    <3>1. /\ jobs[j].state \in InFlight
          /\ jobs'[j].state = FailState(j)
          /\ jobs'[j].token = NoToken /\ jobs'[j].maxRetries = jobs[j].maxRetries
          /\ Inserted(j) /\ Inserted(j)' /\ handed' = handed
      BY <2>1, <2>4, ZenonT(30) DEF FailJob, Fenced, InFlight, StoreTypeOK, Row, Inserted, Absent
    <3>2. /\ Phase(j) = "held"
          /\ Exhausted(j) => Phase(j)' = "dead"
          /\ ~Exhausted(j) => Phase(j)' = "waiting"
      BY <3>1, PhaseOf, PhaseOfNext, Zenon DEF FailState
    <3>3. HolderOf(j)' = NoToken /\ LimitOf(j)' = LimitOf(j)
      BY <3>1, Zenon DEF HolderOf, LimitOf, Budget
    <3>4. issuedBar' = issuedBar
      <4>1. runs'[c] # NoRun /\ \A d \in Tokens \ {c} : runs'[d] = runs[d]
        BY <2>4, RunOf DEF FailJob, StoreTypeOK, NoRun, Run
      <4>. QED
        BY <2>4, <4>1, Zenon DEF issuedBar
    <3>5. ~Exhausted(j) => handed[j] < LimitOf(j)
      BY <3>1, SpareGrant, Zenon DEF LimitOf
    <3>. QED
      BY <2>0, <2>1, <2>L, <3>1, <3>2, <3>3, <3>4, <3>5, Zenon
      DEF Contract!GiveBack, Contract!Bury, phaseBar, holderBar, limitBar, issuedBar,
          HolderOf, LimitOf
  <2>5. ASSUME RequeueStaleJob(j)
        PROVE  Contract!GiveBack(j) \/ Contract!Bury(j) \/ UNCHANGED Vars
    <3>1. issuedBar' = issuedBar /\ handed' = handed
      <4>1. \A c \in Tokens : runs'[c] = NoRun <=> runs[c] = NoRun
        BY <2>5, Zenon DEF RequeueStaleJob, StoreTypeOK, NoRun, Run
      <4>. QED
        BY <2>5, <4>1, Zenon DEF issuedBar, RequeueStaleJob
    <3>2. CASE Stale(j)
      <4>1. /\ jobs[j].state \in InFlight
            /\ jobs'[j].state = IF Exhausted(j) THEN "dead" ELSE "pending"
            /\ jobs'[j].token = NoToken /\ jobs'[j].maxRetries = jobs[j].maxRetries
            /\ Inserted(j) /\ Inserted(j)'
        BY <2>1, <2>5, <3>2, Zenon
        DEF RequeueStaleJob, Stale, InFlight, StoreTypeOK, Row, Inserted, Absent
      <4>2. /\ Phase(j) = "held"
            /\ Exhausted(j) => Phase(j)' = "dead"
            /\ ~Exhausted(j) => Phase(j)' = "waiting"
        BY <4>1, PhaseOf, PhaseOfNext, Zenon
      <4>3. HolderOf(j)' = NoToken /\ LimitOf(j)' = LimitOf(j)
        BY <4>1, Zenon DEF HolderOf, LimitOf, Budget
      <4>4. ~Exhausted(j) => handed[j] < LimitOf(j)
        BY <4>1, SpareGrant, Zenon DEF LimitOf
      <4>. QED
        BY <2>0, <2>1, <2>L, <3>1, <4>2, <4>3, <4>4, Zenon
        DEF Contract!GiveBack, Contract!Bury, phaseBar, holderBar, limitBar, issuedBar,
            HolderOf, LimitOf
    <3>3. CASE ~Stale(j)
      BY <2>5, <2>S, <3>1, <3>3, Zenon
      DEF RequeueStaleJob, Phase, HolderOf, LimitOf, Inserted, Budget
    <3>. QED
      BY <3>2, <3>3, Zenon
  <2>6. ASSUME ForceFail(j)
        PROVE  Contract!Bury(j)
    <3>1. /\ jobs[j].state \in {"claimed", "running", "pending", "failed"}
          /\ jobs'[j].state = "dead"
          /\ jobs'[j].token = NoToken /\ jobs'[j].maxRetries = jobs[j].maxRetries
          /\ Inserted(j) /\ Inserted(j)' /\ handed' = handed
      BY <2>1, <2>6, Zenon DEF ForceFail, StoreTypeOK, Row, Inserted, Absent
    <3>2. Phase(j) \in {"held", "waiting"} /\ Phase(j)' = "dead"
      BY <3>1, PhaseOf, PhaseOfNext, Zenon DEF InFlight
    <3>3. HolderOf(j)' = NoToken /\ LimitOf(j)' = LimitOf(j) /\ issuedBar' = issuedBar
      BY <2>6, <3>1, Zenon DEF HolderOf, LimitOf, Budget, issuedBar, ForceFail
    <3>. QED
      BY <2>0, <2>1, <2>L, <3>1, <3>2, <3>3, Zenon
      DEF Contract!Bury, phaseBar, holderBar, limitBar, issuedBar, HolderOf, LimitOf
  <2>7. ASSUME NEW t \in Tenants, ReplayJob(j, t)
        PROVE  Contract!Revive(j)
    <3>1. /\ jobs[j].state = "dead" /\ jobs'[j].state = "pending"
          /\ jobs'[j].token = NoToken /\ jobs'[j].maxRetries = jobs[j].maxRetries
          /\ Inserted(j) /\ Inserted(j)' /\ handed' = [handed EXCEPT ![j] = 0]
      BY <2>1, <2>7, Zenon DEF ReplayJob, StoreTypeOK, Row, Inserted, Absent
    <3>2. Phase(j) = "dead" /\ Phase(j)' = "waiting"
      BY <3>1, PhaseOf, PhaseOfNext, Zenon
    <3>3. jobs[j].token = NoToken
      BY <3>1, Zenon DEF HolderHasRun, InFlight
    <3>4. HolderOf(j)' = HolderOf(j) /\ LimitOf(j)' = LimitOf(j) /\ issuedBar' = issuedBar
      BY <2>7, <3>1, <3>3, Zenon DEF HolderOf, LimitOf, Budget, issuedBar, ReplayJob
    <3>5. holderBar' = holderBar
      BY <2>0, <2>1, <3>4, Zenon DEF holderBar
    <3>. QED
      BY <2>0, <2>1, <2>L, <3>1, <3>2, <3>4, <3>5, Zenon
      DEF Contract!Revive, phaseBar, holderBar, limitBar, issuedBar, HolderOf, LimitOf
  <2>8. ASSUME NEW t \in Tenants, CancelJob(j, t)
        PROVE  Contract!Withdraw(j)
    <3>1. /\ jobs[j].state \in {"pending", "scheduled"} /\ jobs'[j].state = "deleted"
          /\ jobs'[j].token = jobs[j].token /\ jobs'[j].maxRetries = jobs[j].maxRetries
          /\ Inserted(j) /\ Inserted(j)' /\ handed' = handed
      BY <2>1, <2>8, Zenon DEF CancelJob, StoreTypeOK, Row, Inserted, Absent
    <3>2. Phase(j) = "waiting" /\ Phase(j)' = "withdrawn"
      BY <3>1, PhaseOf, PhaseOfNext, Zenon
    <3>3. HolderOf(j)' = HolderOf(j) /\ LimitOf(j)' = LimitOf(j) /\ issuedBar' = issuedBar
      BY <2>8, <3>1, Zenon DEF HolderOf, LimitOf, Budget, issuedBar, CancelJob
    <3>4. holderBar' = holderBar
      BY <2>0, <2>1, <3>3, Zenon DEF holderBar
    <3>. QED
      BY <2>0, <2>1, <2>L, <3>1, <3>2, <3>3, <3>4, Zenon
      DEF Contract!Withdraw, phaseBar, holderBar, limitBar, issuedBar, HolderOf, LimitOf
  <2>9. ASSUME NEW t \in Tenants, NEW p \in Priorities, NEW k \in IdemKeys \cup {NoKey},
               NEW mr \in RetryLimits, NEW ra \in {"future", "due"},
               InsertJob(j, NewJob(t, p, k, mr, ra))
        PROVE  Contract!Submit(j)
    <3>1. /\ jobs[j] = Absent /\ jobs'[j].state \in {"pending", "scheduled"}
          /\ jobs'[j].token = NoToken /\ jobs'[j].maxRetries \in Int
          /\ ~Inserted(j) /\ Inserted(j)' /\ handed' = handed
      BY <2>9, Zenon DEF InsertJob, NewJob, StoreTypeOK, Inserted, Absent
    <3>2. Phase(j) = "absent" /\ Phase(j)' = "waiting"
      BY <3>1, PhaseOf, PhaseOfNext DEF Absent
    <3>3. /\ HolderOf(j)' = HolderOf(j) /\ LimitOf(j)' \in Nat \ {0}
          /\ issuedBar' = issuedBar
      BY <2>9, <3>1 DEF HolderOf, LimitOf, Budget, issuedBar, InsertJob
    <3>4. holderBar' = holderBar /\ limitBar'[j] = LimitOf(j)'
      BY <2>0, <2>1, <3>3, Zenon DEF holderBar, limitBar
    <3>. QED
      BY <2>0, <2>1, <3>1, <3>2, <3>3, <3>4, Zenon
      DEF Contract!Submit, phaseBar, holderBar, limitBar, issuedBar, HolderOf, LimitOf
  <2>10. ASSUME \/ \E c \in Tokens : MarkRunning(j, c) \/ ExtendDeadline(j, c)
                \/ MoveToDeadLetter(j)
                \/ PromoteScheduledToPending(j)
                \/ PromoteFailedToPending(j)
                \/ DeadlinePasses(j)
                \/ RunAtPasses(j)
         PROVE  UNCHANGED Vars
    <3> DEFINE Waits == {"pending", "scheduled", "failed"}
               Keeps ==
                 /\ jobs'[j].token = jobs[j].token
                 /\ jobs'[j].maxRetries = jobs[j].maxRetries
                 /\ Inserted(j) /\ Inserted(j)' /\ handed' = handed /\ runs' = runs
                 /\ \/ jobs[j].state \in InFlight /\ jobs'[j].state \in InFlight
                    \/ jobs[j].state = "dead" /\ jobs'[j].state = "dead"
                    \/ jobs[j].state \in Waits /\ jobs'[j].state \in Waits
    <3>1. Keeps
      <4>1. jobs[j] \in Row /\ jobs[j].state # "absent"
        BY <2>1, <2>10, Zenon
        DEF MarkRunning, ExtendDeadline, MoveToDeadLetter, PromoteScheduledToPending,
            PromoteFailedToPending, DeadlinePasses, RunAtPasses, Fenced, InFlight
      <4>2. handed' = handed /\ runs' = runs
        BY <2>10, Zenon
        DEF MarkRunning, ExtendDeadline, MoveToDeadLetter, PromoteScheduledToPending,
            PromoteFailedToPending, DeadlinePasses, RunAtPasses
      <4> USE <2>1, <4>1, <4>2 DEF StoreTypeOK, Row, Inserted, Absent
      <4>3. ASSUME NEW c \in Tokens, MarkRunning(j, c) \/ ExtendDeadline(j, c)
            PROVE  Keeps
        BY <4>3 DEF MarkRunning, ExtendDeadline, Fenced, InFlight
      <4>4. CASE MoveToDeadLetter(j)
        BY <4>4, Zenon DEF MoveToDeadLetter
      <4>5. CASE PromoteScheduledToPending(j)
        BY <4>5, Zenon DEF PromoteScheduledToPending
      <4>8. CASE PromoteFailedToPending(j)
        BY <4>8, Zenon DEF PromoteFailedToPending
      <4>6. CASE DeadlinePasses(j)
        BY <4>6, Zenon DEF DeadlinePasses, InFlight
      <4>7. CASE RunAtPasses(j)
        BY <4>7, Zenon DEF RunAtPasses
      <4> HIDE DEF Keeps
      <4>. QED
        BY <2>10, <4>3, <4>4, <4>5, <4>6, <4>7, <4>8, Zenon
    <3>2. Phase(j)' = Phase(j)
      BY <3>1, PhaseOf, PhaseOfNext, Zenon
    <3>. QED
      BY <2>S, <3>1, <3>2, Zenon DEF HolderOf, LimitOf, Budget, issuedBar
  <2> HIDE DEF Vars
  <2>. QED
    BY <1>1, <2>2, <2>3, <2>4, <2>5, <2>6, <2>7, <2>8, <2>9, <2>10, Zenon
    DEF JobStatement, WorkerStatement, Contract!ContractNext
<1>2. ASSUME NEW c \in Tokens, CompleteRun(c) \/ AbandonRun(c)
      PROVE  UNCHANGED Vars
  <2>1. issuedBar' = issuedBar
    BY <1>2, RunOf
    DEF CompleteRun, AbandonRun, issuedBar, StoreInv, StoreTypeOK, SuccessOnce,
        Accepted, Run, NoRun
  <2>. QED
    BY <1>2, <2>1
    DEF CompleteRun, AbandonRun, phaseBar, holderBar, limitBar, Phase, HolderOf, LimitOf,
        Inserted, Budget
<1>3. ASSUME UNCHANGED storeVars
      PROVE  UNCHANGED Vars
  BY <1>3 DEF storeVars, phaseBar, holderBar, issuedBar, limitBar, Phase, HolderOf,
              LimitOf, Inserted, Budget
<1>4. Contract!ContractNext \/ UNCHANGED Vars
  BY <1>1, <1>2, <1>3, Zenon DEF StoreNext
<1>. QED
  BY <1>4, Zenon DEF Contract!contractVars, phaseBar, holderBar, issuedBar, limitBar,
              HolderOf, LimitOf

\* The SQL of internal/storage and cmd/sluice-cli implements the job contract: at
\* most one holder at a time, no token issued twice, bounded grants, and nothing
\* leaves the done phase.
THEOREM StoreImplementsContract == StoreSpec => ImplementsContract
<1>1. StoreInv /\ StoreInv' /\ [StoreNext]_storeVars
        => [Contract!ContractNext]_(Contract!contractVars)
  BY StepImplements, Zenon
<1>. QED
  BY InitImplements, <1>1, StoreInvariant, PTL
  DEF StoreSpec, ImplementsContract, Contract!ContractSpec
================================================================================
