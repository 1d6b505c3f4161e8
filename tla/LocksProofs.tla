------------------------------ MODULE LocksProofs ------------------------------
(***************************************************************************)
(* The transactions of TryClaim, FailJob and RequeueStaleJob, statement by *)
(* statement: for any number of sessions, jobs and claims, what each has   *)
(* read is still so when it commits, or no longer matters, and to a caller *)
(* the tables are as if each statement list had run at once.               *)
(***************************************************************************)
EXTENDS RowLocks, JobStoreProofs

\* A transaction has the fields of its kind.
LEMMA TxOf ==
  ASSUME LocksTypeOK, NEW s \in Sessions
  PROVE  /\ tx[s].kind \in {"none", "claim", "fail", "requeue"}
         /\ tx[s].kind = "none" <=> ~Open(s)
         /\ tx[s].kind = "claim" => tx[s] \in Claiming
         /\ tx[s].kind = "fail" => tx[s] \in Failing
         /\ tx[s].kind = "requeue" => tx[s] \in Requeueing
<1>1. tx[s] \in {NoTx} \cup Claiming \cup Failing \cup Requeueing
  BY Zenon DEF LocksTypeOK
<1>2. NoTx.kind = "none"
  BY Zenon DEF NoTx
<1>3. tx[s] \in Claiming => tx[s].kind = "claim"
  BY Zenon DEF Claiming
<1>4. tx[s] \in Failing => tx[s].kind = "fail"
  BY Zenon DEF Failing
<1>5. tx[s] \in Requeueing => tx[s].kind = "requeue"
  BY Zenon DEF Requeueing
<1> QED
  BY <1>1, <1>2, <1>3, <1>4, <1>5, Zenon DEF Open

\* Under its lock TryClaim is the one step that JobStore has for it.
LEMMA ClaimIsAtomic ==
  ASSUME LocksInv, NEW s \in Sessions, ClaimCommit(s)
  PROVE  /\ tx[s].job \in JobIds /\ tx[s].token \in Tokens
         /\ TryClaim(tx[s].job, tx[s].token)
<1>1. tx[s].job \in JobIds /\ tx[s].token \in Tokens
  BY TxOf, Zenon DEF LocksInv, ClaimCommit, Claiming
<1>2. jobs[tx[s].job].state = "pending" /\ runs[tx[s].token] = NoRun
  BY Zenon DEF LocksInv, TxStands, Stands, ClaimStands, ClaimCommit
<1> QED
  BY <1>1, <1>2, Zenon DEF ClaimCommit, TryClaim

\* And so is FailJob: the attempt that its SELECT returned is still that of the job.
LEMMA FailIsAtomic ==
  ASSUME LocksInv, NEW s \in Sessions, FailCommit(s)
  PROVE  /\ tx[s].job \in JobIds /\ tx[s].token \in Tokens
         /\ tx[s].nextRunAt \in {"null", "due", "future"}
         /\ runs[tx[s].token] # NoRun /\ runs[tx[s].token].job = tx[s].job
         /\ FailJob(tx[s].job, tx[s].token, tx[s].nextRunAt)
<1>1. /\ tx[s].job \in JobIds /\ tx[s].token \in Tokens
      /\ tx[s].nextRunAt \in {"null", "due", "future"}
  BY TxOf, Zenon DEF LocksInv, FailCommit, Failing
<1>2. /\ Fenced(tx[s].job, tx[s].token) /\ jobs[tx[s].job].attempt = tx[s].attempt
      /\ runs[tx[s].token] # NoRun /\ runs[tx[s].token].job = tx[s].job
  BY Zenon DEF LocksInv, TxStands, Stands, FailStands, FailCommit
<1>3. /\ FailedState(s) = FailState(tx[s].job)
      /\ FailedState(s) = "dead" <=> Exhausted(tx[s].job)
  BY <1>2, Zenon DEF FailedState, FailState, Exhausted
<1> QED
  BY <1>1, <1>2, <1>3, Zenon DEF FailCommit, FailJob

\* A statement outside a transaction is one of JobStore.
LEMMA StatementIsAtomic ==
  ASSUME Autocommit
  PROVE  StoreNext
<1>1. ASSUME NEW j \in JobIds, RowWrite(j) PROVE JobStatement(j)
  BY <1>1, Zenon DEF RowWrite, JobStatement, WorkerStatement
<1>2. ASSUME NEW j \in JobIds, Unlocked(j) PROVE JobStatement(j)
  BY <1>2, Zenon DEF Unlocked, JobStatement
<1> QED
  BY <1>1, <1>2, Zenon DEF Autocommit, StoreNext

--------------------------------------------------------------------------------
(* What RequeueStaleJob may do to the tables, whatever came in between *)

ClosesRuns ==
  /\ runs' = [c \in Tokens |-> runs'[c]]
  /\ \A c \in Tokens :
       \/ runs'[c] = runs[c]
       \/ runs[c].state = "claimed" /\ runs'[c] = [runs[c] EXCEPT !.state = "failed"]

Requeues(j) ==
  /\ Stale(j)
  /\ jobs' = [jobs EXCEPT ![j] =
                [@ EXCEPT !.state     = IF Exhausted(j) THEN "dead" ELSE "pending",
                          !.attempt   = jobs[j].attempt + 1,
                          !.token     = NoToken,
                          !.deadline  = "none",
                          !.lastError = "heartbeat"]]

Reaps(j) ==
  /\ ClosesRuns
  /\ UNCHANGED jobs \/ Requeues(j)
  /\ UNCHANGED <<deadLetter, completing, handed>>

\* What a requeued row is.
LEMMA RequeuedRow ==
  ASSUME StoreTypeOK, NEW j \in JobIds, Requeues(j)
  PROVE  /\ jobs[j] \in Row /\ jobs'[j] \in Row
         /\ jobs' = [jobs EXCEPT ![j] = jobs'[j]]
         /\ jobs'[j].state = (IF Exhausted(j) THEN "dead" ELSE "pending")
         /\ jobs'[j].attempt = jobs[j].attempt + 1
         /\ jobs'[j].token = NoToken /\ jobs'[j].deadline = "none"
         /\ jobs'[j].lastError = "heartbeat"
         /\ jobs'[j].maxRetries = jobs[j].maxRetries
<1>1. jobs[j] \in Row
  BY RowOf, Zenon DEF Requeues, Stale, InFlight
<1> DEFINE st == IF Exhausted(j) THEN "dead" ELSE "pending"
<1>2. st \in JobStates /\ jobs[j].attempt + 1 \in Nat
  BY <1>1 DEF Row, JobStates
<1>3. jobs'[j] = [jobs[j] EXCEPT !.state = st, !.attempt = jobs[j].attempt + 1,
                    !.token = NoToken, !.deadline = "none", !.lastError = "heartbeat"]
  BY Zenon DEF Requeues, StoreTypeOK
<1>4. jobs' = [jobs EXCEPT ![j] = jobs'[j]]
  BY <1>3, Zenon DEF Requeues, StoreTypeOK
<1> HIDE DEF st
<1>5. jobs'[j] \in Row
  BY <1>1, <1>2, <1>3, ZenonT(30) DEF Row, Errors
<1>6. /\ jobs'[j].state = st /\ jobs'[j].attempt = jobs[j].attempt + 1
      /\ jobs'[j].token = NoToken /\ jobs'[j].deadline = "none"
      /\ jobs'[j].lastError = "heartbeat" /\ jobs'[j].maxRetries = jobs[j].maxRetries
  BY <1>1, <1>3, Zenon DEF Row
<1> QED
  BY <1>1, <1>4, <1>5, <1>6, Zenon DEF st

\* Closing runs keeps what they are runs of, and accepts none.
LEMMA ClosedRuns ==
  ASSUME StoreTypeOK, ClosesRuns
  PROVE  /\ runs' \in [Tokens -> Run \cup {NoRun}]
         /\ \A c \in Tokens :
              /\ runs'[c] = NoRun <=> runs[c] = NoRun
              /\ runs[c] # NoRun =>
                   /\ runs'[c].job = runs[c].job /\ runs'[c].attempt = runs[c].attempt
                   /\ runs'[c].state \in {runs[c].state, "failed"}
<1>1. ASSUME NEW c \in Tokens
      PROVE  /\ runs'[c] \in Run \cup {NoRun}
             /\ runs'[c] = NoRun <=> runs[c] = NoRun
             /\ runs[c] # NoRun =>
                  /\ runs'[c].job = runs[c].job /\ runs'[c].attempt = runs[c].attempt
                  /\ runs'[c].state \in {runs[c].state, "failed"}
  <2>1. CASE runs'[c] = runs[c]
    BY <2>1, Zenon DEF StoreTypeOK
  <2>2. CASE runs[c].state = "claimed" /\ runs'[c] = [runs[c] EXCEPT !.state = "failed"]
    <3>1. runs[c] # NoRun
      BY <2>2 DEF NoRun
    <3> QED
      BY <2>2, <3>1, RunOf, Zenon DEF Run, NoRun
  <2> QED
    BY <2>1, <2>2, Zenon DEF ClosesRuns
<1> QED
  BY <1>1, Zenon DEF ClosesRuns

\* So RequeueStaleJob keeps the tables in order, although it commits what it found
\* at different times.
LEMMA ReapsKeep ==
  ASSUME StoreInv, NEW j \in JobIds, Reaps(j)
  PROVE  StoreInv'
<1> USE StoreAssumption DEF StoreInv
<1>1. ClosesRuns /\ UNCHANGED <<deadLetter, completing, handed>>
  BY Zenon DEF Reaps
<1>2. StoreTypeOK'
  <2>1. jobs' \in [JobIds -> Row \cup {Absent}]
    BY RequeuedRow, Zenon DEF Reaps, StoreTypeOK
  <2> QED
    BY <1>1, <2>1, ClosedRuns, Zenon DEF StoreTypeOK
<1>3. HolderHasRun'
  <2> SUFFICES ASSUME NEW i \in JobIds, jobs'[i] # Absent
               PROVE  /\ jobs'[i].token # NoToken <=> jobs'[i].state \in InFlight
                      /\ jobs'[i].deadline # "none" <=> jobs'[i].state \in InFlight
                      /\ jobs'[i].state \in InFlight =>
                           /\ runs'[jobs'[i].token] # NoRun
                           /\ runs'[jobs'[i].token].job = i
                           /\ runs'[jobs'[i].token].attempt = jobs'[i].attempt
                           /\ runs'[jobs'[i].token].state \in {"claimed", "failed"}
    BY Zenon DEF HolderHasRun, Inserted
  <2>1. CASE jobs'[i] = jobs[i]
    <3>1. jobs[i].token \in Tokens \cup {NoToken}
      BY <2>1, Zenon DEF StoreTypeOK, Row
    <3>2. Inserted(i)
      BY <2>1, Zenon DEF Inserted
    <3> QED
      BY <1>1, <2>1, <3>1, <3>2, ClosedRuns DEF HolderHasRun
  <2>2. CASE i = j /\ Requeues(j)
    BY <2>2, RequeuedRow, Zenon DEF InFlight
  <2> QED
    BY <2>1, <2>2, RequeuedRow, Zenon DEF Reaps, StoreTypeOK
<1>4. ASSUME NEW i \in JobIds
      PROVE  Accounted(i)' /\ WithinBudget(i)'
  <2>0. Accounted(i) /\ WithinBudget(i) /\ handed'[i] = handed[i] /\ handed[i] \in Nat
    BY <1>1, Zenon DEF AttemptAccounting, RetryBudget, StoreTypeOK
  <2>1. CASE jobs'[i] = jobs[i]
    BY <2>0, <2>1, Zenon DEF Accounted, WithinBudget, Inserted, Budget
  <2>2. CASE i = j /\ Requeues(j)
    <3>1. /\ jobs[j].attempt \in Nat /\ jobs[j].maxRetries \in Int
          /\ jobs[j].state \in InFlight
      BY <2>2, RequeuedRow, Zenon DEF Row, Requeues, Stale
    <3>2. handed[j] = jobs[j].attempt + 1 /\ jobs[j].attempt < Budget(j)
      BY <2>0, <2>2, <3>1, Zenon DEF Accounted
    <3>3. Budget(j)' = Budget(j)
      BY <2>2, RequeuedRow, Zenon DEF Budget
    <3>4. /\ Exhausted(j) => handed[j] = Budget(j)
          /\ ~Exhausted(j) => handed[j] < Budget(j)
      BY <3>1, <3>2 DEF Exhausted, Budget
    <3>5. /\ jobs'[j].state = (IF Exhausted(j) THEN "dead" ELSE "pending")
          /\ jobs'[j].attempt = jobs[j].attempt + 1
      BY <2>2, RequeuedRow, Zenon
    <3>6. handed[j] <= Budget(j)
      BY <3>1, <3>2, <3>4 DEF Budget
    <3>7. Accounted(j)'
      BY <2>0, <2>2, <3>2, <3>3, <3>4, <3>5, Zenon DEF Accounted, InFlight
    <3>8. WithinBudget(j)'
      BY <2>0, <2>2, <3>3, <3>4, <3>5, <3>6, Zenon DEF WithinBudget
    <3> QED
      BY <2>2, <3>7, <3>8, Zenon
  <2> QED
    BY <2>1, <2>2, RequeuedRow, Zenon DEF Reaps, StoreTypeOK
<1>5. SuccessOnce'
  <2>1. ASSUME NEW c \in Tokens, c \in completing' \/ runs'[c].state = "succeeded"
        PROVE  /\ c \in Accepted /\ runs[c] # NoRun /\ runs'[c] # NoRun
               /\ runs'[c].job = runs[c].job /\ runs'[c].attempt = runs[c].attempt
               /\ runs[c].job \in JobIds
               /\ jobs'[runs[c].job] = jobs[runs[c].job]
    <3>1. c \in Accepted /\ runs[c] # NoRun
      <4>1. CASE c \in completing
        BY <4>1, Zenon DEF SuccessOnce, Accepted
      <4>2. CASE runs'[c].state = "succeeded"
        BY <1>1, <4>2 DEF ClosesRuns, Accepted, SuccessOnce, StoreTypeOK, Run, NoRun
      <4> QED
        BY <1>1, <2>1, <4>1, <4>2, Zenon
    <3>2. runs[c].job \in JobIds
      BY <3>1, RunOf, Zenon DEF Run
    <3>3. jobs[runs[c].job].state = "succeeded"
      BY <3>1, Zenon DEF SuccessOnce
    <3>4. jobs'[runs[c].job] = jobs[runs[c].job]
      BY <3>2, <3>3, RequeuedRow, Zenon DEF Reaps, Requeues, Stale, InFlight, StoreTypeOK
    <3> QED
      BY <1>1, <3>1, <3>2, <3>4, ClosedRuns, Zenon
  <2> QED
    BY <2>1 DEF SuccessOnce, Accepted
<1> QED
  BY <1>2, <1>3, <1>4, <1>5, Zenon DEF AttemptAccounting, RetryBudget

\* And is a step of the contract: the job is given back or buried, or nothing
\* happens that the contract speaks of.
LEMMA ReapsImplement ==
  ASSUME StoreInv, StoreInv', NEW j \in JobIds, Reaps(j)
  PROVE  [Contract!ContractNext]_(Contract!contractVars)
<1> DEFINE Vars == <<phaseBar, holderBar, issuedBar, handed, limitBar>>
<1> USE DEF StoreInv
<1>1. issuedBar' = issuedBar /\ handed' = handed
  BY ClosedRuns, Zenon DEF Reaps, issuedBar
<1>2. CASE UNCHANGED jobs
  <2>1. UNCHANGED Vars
    BY <1>1, <1>2 DEF phaseBar, holderBar, limitBar, Phase, HolderOf, LimitOf, Inserted, Budget
  <2> QED
    BY <2>1, Zenon DEF Contract!contractVars, phaseBar, holderBar, issuedBar, limitBar,
                HolderOf, LimitOf
<1>3. CASE Requeues(j)
  <2>1. /\ jobs[j].state \in InFlight /\ jobs[j] \in Row
        /\ jobs'[j].state = (IF Exhausted(j) THEN "dead" ELSE "pending")
        /\ jobs'[j].token = NoToken /\ jobs'[j].maxRetries = jobs[j].maxRetries
    BY <1>3, RequeuedRow, Zenon DEF Requeues, Stale
  <2>2. Inserted(j) /\ Inserted(j)'
    BY <2>1 DEF Inserted, Absent, InFlight
  <2>3. /\ Phase(j) = "held"
        /\ Exhausted(j) => Phase(j)' = "dead"
        /\ ~Exhausted(j) => Phase(j)' = "waiting"
    BY <2>1, PhaseOf, PhaseOfNext, Zenon
  <2>4. HolderOf(j)' = NoToken /\ LimitOf(j)' = LimitOf(j)
    BY <2>1, <2>2, Zenon DEF HolderOf, LimitOf, Budget
  <2>5. ~Exhausted(j) => handed[j] < LimitOf(j)
    BY <2>1, <2>2, SpareGrant, Zenon DEF LimitOf
  <2>6. \A i \in JobIds \ {j} :
          Phase(i)' = Phase(i) /\ HolderOf(i)' = HolderOf(i) /\ LimitOf(i)' = LimitOf(i)
    <3>1. \A i \in JobIds \ {j} : jobs'[i] = jobs[i]
      BY <1>3, RequeuedRow, Zenon DEF StoreTypeOK
    <3> QED
      BY <3>1, Zenon DEF Phase, HolderOf, LimitOf, Inserted, Budget
  <2>7. /\ phaseBar' = [phaseBar EXCEPT ![j] = Phase(j)']
        /\ holderBar' = [holderBar EXCEPT ![j] = NoToken]
        /\ limitBar' = limitBar
        /\ phaseBar[j] = Phase(j) /\ limitBar[j] = LimitOf(j)
    BY <2>4, <2>6, Zenon DEF phaseBar, holderBar, limitBar
  <2>8. Contract!GiveBack(j) \/ Contract!Bury(j)
    BY <1>1, <2>3, <2>5, <2>7, Zenon
    DEF Contract!GiveBack, Contract!Bury, phaseBar, holderBar, limitBar, issuedBar,
        HolderOf, LimitOf
  <2> QED
    BY <2>8, Zenon DEF Contract!ContractNext
<1> QED
  BY <1>2, <1>3, Zenon DEF Reaps

\* What RequeueStaleJob commits.
LEMMA RequeueReaps ==
  ASSUME LocksInv, NEW s \in Sessions, RequeueCommit(s)
  PROVE  tx[s].job \in JobIds /\ Reaps(tx[s].job)
<1>1. tx[s] \in Requeueing
  BY TxOf, Zenon DEF LocksInv, RequeueCommit
<1>2. tx[s].job \in JobIds
  BY <1>1, Zenon DEF Requeueing
<1>3. \A c \in tx[s].runLocks : runs[c].state = "claimed"
  BY Zenon DEF LocksInv, TxStands, Stands, RequeueStands, RequeueCommit
<1>4. runs' = [c \in Tokens |->
                 IF c \in tx[s].runLocks THEN [runs[c] EXCEPT !.state = "failed"] ELSE runs[c]]
  BY Zenon DEF RequeueCommit, RequeueWrites
<1>5. ClosesRuns
  BY <1>3, <1>4, Zenon DEF ClosesRuns
<1>6. UNCHANGED jobs \/ Requeues(tx[s].job)
  BY Zenon DEF RequeueCommit, RequeueWrites, Takes, Requeues
<1> QED
  BY <1>2, <1>5, <1>6, Zenon DEF RequeueCommit, Reaps

\* A transaction changes the tables as one statement of JobStore would, or as the
\* reaper may; in between it changes nothing.
StoreOrReap ==
  \/ [StoreNext]_storeVars
  \/ \E j \in JobIds : Reaps(j)

\* Every step of the sessions is one of those.
LEMMA StepsOfTables == LocksInv /\ [LocksNext]_lockVars => StoreOrReap
<1> SUFFICES ASSUME LocksInv, [LocksNext]_lockVars PROVE StoreOrReap
  BY Zenon
<1>1. CASE Autocommit
  BY <1>1, StatementIsAtomic, Zenon DEF StoreOrReap
<1>2. ASSUME NEW s \in Sessions, ClaimCommit(s) PROVE StoreNext
  BY <1>2, ClaimIsAtomic, Zenon DEF StoreNext, JobStatement
<1>3. ASSUME NEW s \in Sessions, FailCommit(s) PROVE StoreNext
  BY <1>3, FailIsAtomic, Zenon DEF StoreNext, JobStatement, WorkerStatement
<1>4. ASSUME NEW s \in Sessions, RequeueCommit(s) PROVE StoreOrReap
  BY <1>4, RequeueReaps, Zenon DEF StoreOrReap
<1>5. ASSUME NEW s \in Sessions, TxStep(s) PROVE StoreOrReap
  <2>1. \/ UNCHANGED storeVars
        \/ ClaimCommit(s) \/ FailCommit(s) \/ RequeueCommit(s)
    BY <1>5, Zenon DEF TxStep, ClaimSelect, FailSelect, RequeueBegin, RequeueRun, Rollback
  <2> QED
    BY <1>2, <1>3, <1>4, <2>1, Zenon DEF StoreOrReap
<1>6. CASE UNCHANGED lockVars
  BY <1>6, Zenon DEF lockVars, storeVars, StoreOrReap
<1> QED
  BY <1>1, <1>5, <1>6, Zenon DEF LocksNext

\* So the tables stay in order.
LEMMA TablesStep == StoreInv /\ StoreOrReap => StoreInv'
BY StoreInvStep, ReapsKeep, Zenon DEF StoreOrReap

--------------------------------------------------------------------------------
(* The locks *)

\* What a step of somebody else leaves to the transaction of session r: the row of
\* the job that it has locked, the runs that it has locked, and the token that it
\* is about to use.  No run is reopened.
Spares(r) ==
  /\ tx'[r] = tx[r]
  /\ tx[r].kind \in {"claim", "fail"} =>
       /\ jobs'[tx[r].job].state = jobs[tx[r].job].state
       /\ jobs'[tx[r].job].token = jobs[tx[r].job].token
       /\ jobs'[tx[r].job].attempt = jobs[tx[r].job].attempt
  /\ tx[r].kind = "claim" => runs'[tx[r].token] = NoRun
  /\ \A c \in Tokens :
       /\ LocksRun(r, c) => runs'[c] = runs[c]
       /\ runs[c] # NoRun =>
            /\ runs'[c] # NoRun /\ runs'[c].job = runs[c].job
            /\ runs'[c].state = "claimed" => runs[c].state = "claimed"

\* Then the transaction of r is as good as before.
LEMMA SparedStands ==
  ASSUME LocksTypeOK, NEW r \in Sessions, Stands(r), Spares(r)
  PROVE  Stands(r)'
<1>1. ClaimStands(r)'
  BY TxOf, Zenon DEF Stands, ClaimStands, Spares
<1>2. FailStands(r)'
  <2> SUFFICES ASSUME tx[r].kind = "fail" PROVE FailStands(r)'
    BY Zenon DEF Spares, FailStands
  <2>1. tx[r] \in Failing /\ Open(r)
    BY TxOf, Zenon
  <2>2. tx[r].token \in Tokens
    BY <2>1, Zenon DEF Failing
  <2> QED
    BY <2>1, <2>2 DEF Stands, FailStands, Spares, Fenced
<1>3. RequeueStands(r)'
  <2> SUFFICES ASSUME tx[r].kind = "requeue" PROVE RequeueStands(r)'
    BY Zenon DEF Spares, RequeueStands
  <2>1. tx[r] \in Requeueing /\ Open(r)
    BY TxOf, Zenon
  <2>2. tx[r].claim \in Tokens \cup {NoToken} /\ tx[r].runLocks \subseteq Tokens
    BY <2>1, Zenon DEF Requeueing
  <2>3. \A c \in tx[r].runLocks : runs'[c] = runs[c]
    BY <2>1, <2>2, Zenon DEF Spares, LocksRun
  <2> QED
    BY <2>1, <2>2, <2>3 DEF Stands, RequeueStands, Spares
<1> QED
  BY <1>1, <1>2, <1>3, Zenon DEF Stands

\* What the locks of a transaction tell of the rows.
LEMMA LocksOf ==
  ASSUME LocksTypeOK, NEW r \in Sessions, Stands(r)
  PROVE  /\ tx[r].kind \in {"claim", "fail"} =>
              tx[r].job \in JobIds /\ LocksJob(r, tx[r].job) /\ jobs[tx[r].job] # Absent
         /\ tx[r].kind = "claim" => tx[r].token \in Tokens /\ runs[tx[r].token] = NoRun
         /\ \A c \in Tokens : LocksRun(r, c) => runs[c].state = "claimed"
<1>1. CASE tx[r].kind = "claim"
  <2>1. tx[r] \in Claiming /\ Open(r)
    BY <1>1, TxOf, Zenon
  <2>2. tx[r].job \in JobIds /\ tx[r].token \in Tokens /\ tx[r].runLocks = {}
    BY <2>1, Zenon DEF Claiming
  <2> QED
    BY <1>1, <2>1, <2>2 DEF Stands, ClaimStands, LocksJob, LocksRun, Absent
<1>2. CASE tx[r].kind = "fail"
  <2>1. tx[r] \in Failing /\ Open(r)
    BY <1>2, TxOf, Zenon
  <2>2. tx[r].job \in JobIds /\ tx[r].runLocks = {}
    BY <2>1, Zenon DEF Failing
  <2> QED
    BY <1>2, <2>1, <2>2
    DEF Stands, FailStands, LocksJob, LocksRun, Absent, Fenced, InFlight
<1>3. CASE tx[r].kind = "requeue"
  BY <1>3, Zenon DEF Stands, RequeueStands, LocksRun
<1> QED
  BY <1>1, <1>2, <1>3, TxOf, Zenon DEF LocksRun

\* A statement on a row of jobs waits for those that have locked it, and leaves
\* job_runs alone.
LEMMA RowWriteSpares ==
  ASSUME LocksInv, NEW j \in JobIds, RowWrite(j), UNCHANGED tx, NEW r \in Sessions
  PROVE  Spares(r)
<1>1. JobStatement(j)
  BY Zenon DEF RowWrite, JobStatement, WorkerStatement
<1>2. \A i \in JobIds \ {j} : jobs'[i] = jobs[i]
  BY <1>1, Frame, Zenon DEF LocksInv, StoreInv
<1>3. UNCHANGED runs
  BY Zenon DEF RowWrite, MarkRunning, ExtendDeadline, CompleteJob, CancelJob, ReplayJob,
     ForceFail, PromoteScheduledToPending, PromoteFailedToPending
<1>4. ~LocksJob(r, j)
  BY Zenon DEF RowWrite, JobFree
<1>5. Stands(r)
  BY Zenon DEF LocksInv, TxStands
<1> QED
  BY <1>2, <1>3, <1>4, <1>5, LocksOf, Zenon DEF Spares, LocksInv

\* An insert is of a row that nobody can have locked, and a deadline that passes
\* changes nothing that a transaction relies on.
LEMMA UnlockedSpares ==
  ASSUME LocksInv, NEW j \in JobIds, Unlocked(j), UNCHANGED tx, NEW r \in Sessions
  PROVE  Spares(r)
<1>1. JobStatement(j)
  BY Zenon DEF Unlocked, JobStatement
<1>2. \A i \in JobIds \ {j} : jobs'[i] = jobs[i]
  BY <1>1, Frame, Zenon DEF LocksInv, StoreInv
<1>3. UNCHANGED runs
  BY Zenon DEF Unlocked, InsertJob, MoveToDeadLetter, DeadlinePasses
<1>4. \/ jobs[j] = Absent
      \/ UNCHANGED jobs
      \/ /\ jobs'[j].state = jobs[j].state /\ jobs'[j].token = jobs[j].token
         /\ jobs'[j].attempt = jobs[j].attempt
  <2>1. CASE DeadlinePasses(j)
    <3>1. jobs[j] \in Row
      BY <2>1, RowOf, Zenon DEF LocksInv, StoreInv, DeadlinePasses, InFlight
    <3> QED
      BY <2>1, <3>1, Zenon DEF DeadlinePasses, Row, LocksInv, StoreInv, StoreTypeOK
  <2> QED
    BY <2>1, Zenon DEF Unlocked, InsertJob, MoveToDeadLetter, Inserted
<1>5. Stands(r)
  BY Zenon DEF LocksInv, TxStands
<1> QED
  BY <1>2, <1>3, <1>4, <1>5, LocksOf, Zenon DEF Spares, LocksInv

\* The second statement of CompleteJob waits for the run.
LEMMA RunWriteSpares ==
  ASSUME LocksInv, NEW c \in Tokens, AbandonRun(c) \/ (RunFree(c) /\ CompleteRun(c)),
         UNCHANGED tx, NEW r \in Sessions
  PROVE  Spares(r)
<1>1. UNCHANGED jobs
  BY Zenon DEF AbandonRun, CompleteRun
<1>2. Stands(r)
  BY Zenon DEF LocksInv, TxStands
<1>3. CASE AbandonRun(c)
  BY <1>1, <1>2, <1>3, LocksOf, Zenon DEF Spares, LocksInv, AbandonRun
<1>4. CASE RunFree(c) /\ CompleteRun(c)
  <2>1. runs[c] \in Run /\ runs[c] # NoRun
    BY <1>4, RunOf, Zenon DEF LocksInv, StoreInv, SuccessOnce, Accepted, CompleteRun
  <2>2. /\ runs'[c] # NoRun /\ runs'[c].job = runs[c].job /\ runs'[c].state = "succeeded"
        /\ \A d \in Tokens \ {c} : runs'[d] = runs[d]
    BY <1>4, <2>1, Zenon DEF CompleteRun, Run, NoRun, LocksInv, StoreInv, StoreTypeOK
  <2>3. ~LocksRun(r, c)
    BY <1>4, Zenon DEF RunFree
  <2> QED
    BY <1>1, <1>2, <2>1, <2>2, <2>3, LocksOf, Zenon DEF Spares, LocksInv
<1> QED
  BY <1>3, <1>4, Zenon

\* The commit of TryClaim writes the job that it has locked, and a run nobody has.
LEMMA ClaimSpares ==
  ASSUME LocksInv, NEW s \in Sessions, ClaimCommit(s), NEW r \in Sessions, r # s
  PROVE  Spares(r)
<1> DEFINE j == tx[s].job
           c == tx[s].token
<1>1. Stands(r) /\ Stands(s)
  BY Zenon DEF LocksInv, TxStands
<1>2. TryClaim(j, c) /\ j \in JobIds /\ c \in Tokens
  BY ClaimIsAtomic, Zenon
<1>3. LocksJob(s, j) /\ tx[s].kind = "claim"
  BY <1>1, LocksOf, Zenon DEF LocksInv, ClaimCommit
<1>4. ~LocksJob(r, j) /\ (tx[r].kind = "claim" => tx[r].token # c)
  BY <1>2, <1>3, Zenon DEF LocksInv, LocksExclude, Apart
<1>5. tx'[r] = tx[r]
  BY Zenon DEF ClaimCommit, Commit, LocksInv, LocksTypeOK
<1> HIDE DEF j, c
<1>6. /\ \A i \in JobIds \ {j} : jobs'[i] = jobs[i]
      /\ runs[c] = NoRun /\ \A d \in Tokens \ {c} : runs'[d] = runs[d]
  BY <1>2, Zenon DEF TryClaim, LocksInv, StoreInv, StoreTypeOK
<1>7. ~LocksRun(r, c)
  BY <1>1, <1>2, <1>6, LocksOf DEF LocksInv, NoRun
<1> QED
  BY <1>1, <1>4, <1>5, <1>6, <1>7, LocksOf, Zenon DEF Spares, LocksInv

\* The commit of FailJob writes the job that it has locked, and waits for the run.
LEMMA FailSpares ==
  ASSUME LocksInv, NEW s \in Sessions, FailCommit(s), NEW r \in Sessions, r # s
  PROVE  Spares(r)
<1> DEFINE j == tx[s].job
           c == tx[s].token
           n == tx[s].nextRunAt
<1>1. Stands(r) /\ Stands(s)
  BY Zenon DEF LocksInv, TxStands
<1>2. FailJob(j, c, n) /\ j \in JobIds /\ c \in Tokens /\ runs[c] # NoRun
  BY FailIsAtomic, Zenon
<1>3. LocksJob(s, j)
  BY <1>1, LocksOf, Zenon DEF LocksInv, FailCommit
<1>4. ~LocksJob(r, j) /\ ~LocksRun(r, c)
  BY <1>2, <1>3, Zenon DEF LocksInv, LocksExclude, Apart, FailCommit, RunFree
<1>5. tx'[r] = tx[r]
  BY Zenon DEF FailCommit, Commit, LocksInv, LocksTypeOK
<1> HIDE DEF j, c, n
<1>6. /\ \A i \in JobIds \ {j} : jobs'[i] = jobs[i]
      /\ \A d \in Tokens \ {c} : runs'[d] = runs[d]
  BY <1>2, Zenon DEF FailJob, LocksInv, StoreInv, StoreTypeOK
<1>7. /\ runs'[c] # NoRun /\ runs'[c].job = runs[c].job
      /\ runs'[c].state \in {"dead", "failed"}
  <2>1. runs[c] \in Run
    BY <1>2, RunOf, Zenon DEF LocksInv, StoreInv
  <2>2. runs'[c] = [runs[c] EXCEPT !.state = FailState(j)]
    BY <1>2, Zenon DEF FailJob, LocksInv, StoreInv, StoreTypeOK
  <2>3. FailState(j) \in {"dead", "failed"}
    BY Zenon DEF FailState
  <2> QED
    BY <2>1, <2>2, <2>3, Zenon DEF Run, NoRun
<1> QED
  BY <1>1, <1>2, <1>4, <1>5, <1>6, <1>7, LocksOf, Zenon DEF Spares, LocksInv

\* The commit of RequeueStaleJob closes runs that it has locked, and writes the job
\* only if nobody has locked it.
LEMMA RequeueSpares ==
  ASSUME LocksInv, NEW s \in Sessions, RequeueCommit(s), NEW r \in Sessions, r # s
  PROVE  Spares(r)
<1> DEFINE j == tx[s].job
<1>1. Stands(r) /\ StoreTypeOK
  BY Zenon DEF LocksInv, TxStands, StoreInv
<1>2. j \in JobIds /\ Reaps(j)
  BY RequeueReaps, Zenon
<1>3. tx'[r] = tx[r]
  BY Zenon DEF RequeueCommit, Commit, LocksInv, LocksTypeOK
<1>4. UNCHANGED jobs \/ ~LocksJob(r, j)
  BY Zenon DEF RequeueCommit, RequeueWrites, JobFree
<1>5. \A c \in Tokens : LocksRun(r, c) => runs'[c] = runs[c]
  <2> SUFFICES ASSUME NEW c \in Tokens, LocksRun(r, c) PROVE runs'[c] = runs[c]
    BY Zenon
  <2>1. ~LocksRun(s, c)
    BY Zenon DEF LocksInv, LocksExclude, Apart
  <2>2. c \notin tx[s].runLocks
    BY <2>1, TxOf, Zenon DEF LocksInv, LocksRun, RequeueCommit
  <2> QED
    BY <2>2, Zenon DEF RequeueCommit, RequeueWrites
<1> HIDE DEF j
<1>6. \A i \in JobIds \ {j} : jobs'[i] = jobs[i]
  BY <1>1, <1>2, RequeuedRow, Zenon DEF Reaps, StoreTypeOK
<1>7. \A c \in Tokens :
        /\ runs'[c] = NoRun <=> runs[c] = NoRun
        /\ runs[c] # NoRun =>
             runs'[c].job = runs[c].job /\ runs'[c].state \in {runs[c].state, "failed"}
  BY <1>1, <1>2, ClosedRuns, Zenon DEF Reaps
<1> QED
  BY <1>1, <1>3, <1>4, <1>5, <1>6, <1>7, LocksOf, Zenon DEF Spares, LocksInv

\* A step that leaves the tables and the transaction of r alone spares it.
LEMMA StillSpares ==
  ASSUME LocksInv, NEW r \in Sessions, UNCHANGED storeVars, tx'[r] = tx[r]
  PROVE  Spares(r)
<1>1. Stands(r)
  BY Zenon DEF LocksInv, TxStands
<1> QED
  BY <1>1, LocksOf, Zenon DEF Spares, LocksInv, storeVars

\* A step that only moves the transaction of s is such a step.
LEMMA QuietSpares ==
  ASSUME LocksInv, NEW s \in Sessions, NEW t, tx' = [tx EXCEPT ![s] = t],
         UNCHANGED storeVars, NEW r \in Sessions, r # s
  PROVE  Spares(r)
<1>1. tx'[r] = tx[r]
  BY Zenon DEF LocksInv, LocksTypeOK
<1> QED
  BY <1>1, StillSpares, Zenon

\* So every step spares the transactions of the sessions that do not take it.
LEMMA OthersAreSpared ==
  ASSUME LocksInv, NEW s \in Sessions, TxStep(s), NEW r \in Sessions, r # s
  PROVE  Spares(r)
<1>1. CASE ClaimCommit(s) \/ FailCommit(s) \/ RequeueCommit(s)
  BY <1>1, ClaimSpares, FailSpares, RequeueSpares, Zenon
<1>2. ASSUME UNCHANGED storeVars, \E t : tx' = [tx EXCEPT ![s] = t] PROVE Spares(r)
  BY <1>2, QuietSpares, Zenon
<1>3. ASSUME NEW j \in JobIds, NEW c \in Tokens, ClaimSelect(s, j, c) PROVE Spares(r)
  BY <1>2, <1>3, Zenon DEF ClaimSelect, Start
<1>4. ASSUME NEW j \in JobIds, NEW c \in Tokens, NEW n \in {"null", "due", "future"},
             FailSelect(s, j, c, n)
      PROVE  Spares(r)
  BY <1>2, <1>4, Zenon DEF FailSelect, Start
<1>5. ASSUME NEW j \in JobIds, RequeueBegin(s, j) PROVE Spares(r)
  BY <1>2, <1>5, Zenon DEF RequeueBegin, Start
<1>6. ASSUME NEW c \in Tokens, RequeueRun(s, c) PROVE Spares(r)
  BY <1>2, <1>6, Zenon DEF RequeueRun
<1>7. CASE Rollback(s)
  BY <1>2, <1>7, Zenon DEF Rollback, Commit
<1> QED
  BY <1>1, <1>3, <1>4, <1>5, <1>6, <1>7, Zenon DEF TxStep

\* A session that takes no lock that is taken keeps the locks apart.
LEMMA ApartStep ==
  ASSUME LocksInv, NEW s \in Sessions, \A r \in Sessions \ {s} : tx'[r] = tx[r],
         \A r \in Sessions \ {s} : Apart(s, r)'
  PROVE  LocksExclude'
<1>1. ASSUME NEW q \in Sessions, NEW r \in Sessions, q # s, r # s, q # r PROVE Apart(q, r)'
  <2>1. Apart(q, r)
    BY <1>1, Zenon DEF LocksInv, LocksExclude
  <2>2. tx'[q] = tx[q] /\ tx'[r] = tx[r]
    BY <1>1, Zenon
  <2> QED
    BY <2>1, <2>2, Zenon DEF Apart, LocksJob, LocksRun, Open
<1>2. ASSUME NEW q \in Sessions \ {s} PROVE Apart(q, s)'
  BY <1>2, Zenon DEF Apart
<1> QED
  BY <1>1, <1>2, Zenon DEF LocksExclude

\* What a step of its own may not lose to a session: what its transaction has read,
\* and that its locks are apart from those of the others.
OwnStands(s) ==
  /\ tx'[s] \in {NoTx} \cup Claiming \cup Failing \cup Requeueing
  /\ Stands(s)'
  /\ \A r \in Sessions \ {s} : tx'[r] = tx[r] => Apart(s, r)'

\* TryClaim locks a job that is free, and takes a token that nobody is to use.
LEMMA ClaimBegins ==
  ASSUME LocksInv, NEW s \in Sessions, NEW j \in JobIds, NEW c \in Tokens, ClaimSelect(s, j, c)
  PROVE  OwnStands(s)
<1> DEFINE t == [kind |-> "claim", job |-> j, token |-> c, jobLock |-> TRUE, runLocks |-> {}]
<1>1. tx'[s] = t /\ jobs' = jobs /\ runs' = runs
  BY Zenon DEF ClaimSelect, Start, storeVars, LocksInv, LocksTypeOK
<1>2. t \in Claiming
  BY Zenon DEF Claiming
<1>3. Stands(s)'
  BY <1>1 DEF Stands, ClaimStands, FailStands, RequeueStands, ClaimSelect
<1>4. ASSUME NEW r \in Sessions \ {s}, tx'[r] = tx[r] PROVE Apart(s, r)'
  <2>1. ~LocksJob(r, j) /\ (tx[r].kind = "claim" => tx[r].token # c)
    BY Zenon DEF ClaimSelect, JobFree, Reserved
  <2> QED
    BY <1>1, <1>4, <2>1 DEF Apart, LocksJob, LocksRun, Open
<1> QED
  BY <1>1, <1>2, <1>3, <1>4, Zenon DEF OwnStands

\* FailJob waits for its job, and reads it under the lock.
LEMMA FailBegins ==
  ASSUME LocksInv, NEW s \in Sessions, NEW j \in JobIds, NEW c \in Tokens,
         NEW n \in {"null", "due", "future"}, FailSelect(s, j, c, n)
  PROVE  OwnStands(s)
<1> DEFINE t == [kind |-> "fail", job |-> j, token |-> c, jobLock |-> TRUE, runLocks |-> {},
                 attempt |-> jobs[j].attempt, nextRunAt |-> n]
<1>1. tx'[s] = t /\ jobs' = jobs /\ runs' = runs
  BY Zenon DEF FailSelect, Start, storeVars, LocksInv, LocksTypeOK
<1>2. t \in Failing
  <2>1. jobs[j].attempt \in Nat
    BY RowOf, Zenon DEF FailSelect, Fenced, InFlight, LocksInv, StoreInv, Row
  <2> QED
    BY <2>1, Zenon DEF Failing
<1>3. Stands(s)'
  BY <1>1 DEF Stands, ClaimStands, FailStands, RequeueStands, FailSelect, Fenced
<1>4. ASSUME NEW r \in Sessions \ {s}, tx'[r] = tx[r] PROVE Apart(s, r)'
  <2>1. ~LocksJob(r, j)
    BY Zenon DEF FailSelect, JobFree
  <2> QED
    BY <1>1, <1>4, <2>1 DEF Apart, LocksJob, LocksRun, Open
<1> QED
  BY <1>1, <1>2, <1>3, <1>4, Zenon DEF OwnStands

\* The claim that is stale has a run of the job.
LEMMA StaleClaim ==
  ASSUME LocksInv, NEW j \in JobIds, Stale(j), NEW claim, claim = jobs[j].token,
         claim # NoToken
  PROVE  claim \in Tokens /\ runs[claim] # NoRun /\ runs[claim].job = j
<1>1. jobs[j] \in Row /\ Inserted(j) /\ jobs[j].state \in InFlight
  BY RowOf, Zenon DEF Stale, InFlight, LocksInv, StoreInv
<1>2. jobs[j].token \in Tokens \cup {NoToken}
  BY <1>1, Zenon DEF Row
<1> QED
  BY <1>1, <1>2, Zenon DEF LocksInv, StoreInv, HolderHasRun

\* RequeueStaleJob begins with the claim that is stale and the runs that are open,
\* the claim's own among them.
LEMMA RequeueBegins ==
  ASSUME LocksInv, NEW s \in Sessions, NEW j \in JobIds, RequeueBegin(s, j)
  PROVE  OwnStands(s)
<1>1. PICK claim \in {NoToken} \cup (IF Stale(j) THEN {jobs[j].token} ELSE {}) :
        Start(s, [kind |-> "requeue", job |-> j, claim |-> claim, todo |-> OpenRuns(j),
                  jobLock |-> FALSE, runLocks |-> {}])
  BY Zenon DEF RequeueBegin
<1> DEFINE t == [kind |-> "requeue", job |-> j, claim |-> claim, todo |-> OpenRuns(j),
                 jobLock |-> FALSE, runLocks |-> {}]
<1>2. tx'[s] = t /\ jobs' = jobs /\ runs' = runs
  BY <1>1, Zenon DEF RequeueBegin, Start, storeVars, LocksInv, LocksTypeOK
<1>3. claim # NoToken =>
        claim \in Tokens /\ runs[claim] # NoRun /\ runs[claim].job = j
  BY <1>1, StaleClaim, Zenon
<1>4. t \in Requeueing
  <2>1. claim \in Tokens \cup {NoToken} /\ OpenRuns(j) \subseteq Tokens
    BY <1>3, Zenon DEF OpenRuns
  <2> QED
    BY <2>1, Zenon DEF Requeueing
<1>5. Stands(s)'
  BY <1>2, <1>3 DEF Stands, ClaimStands, FailStands, RequeueStands, OpenRuns
<1>6. ASSUME NEW r \in Sessions \ {s}, tx'[r] = tx[r] PROVE Apart(s, r)'
  BY <1>2, <1>6 DEF Apart, LocksJob, LocksRun, Open
<1> QED
  BY <1>2, <1>4, <1>5, <1>6, Zenon DEF OwnStands

\* The first UPDATE locks a run that is free, if it is still open.
LEMMA RequeueProceeds ==
  ASSUME LocksInv, NEW s \in Sessions, NEW c \in Tokens, RequeueRun(s, c)
  PROVE  OwnStands(s)
<1>1. tx[s] \in Requeueing /\ Open(s) /\ tx[s].kind = "requeue"
  BY TxOf, Zenon DEF LocksInv, RequeueRun
<1> DEFINE more == tx[s].runLocks \cup (IF runs[c].state = "claimed" THEN {c} ELSE {})
           left == tx[s].todo \ {c}
<1>2. tx'[s] = [tx[s] EXCEPT !.todo = left, !.runLocks = more]
  BY <1>1, Zenon DEF RequeueRun, LocksInv, LocksTypeOK
<1>3. jobs' = jobs /\ runs' = runs
  BY Zenon DEF RequeueRun, storeVars
<1>4. /\ tx[s].todo \subseteq Tokens /\ tx[s].runLocks \subseteq Tokens
      /\ more \subseteq Tokens /\ left \subseteq Tokens
  BY <1>1, Zenon DEF Requeueing
<1>5. /\ \A d \in more : runs[d].state = "claimed"
      /\ more \subseteq tx[s].runLocks \cup {c}
      /\ tx[s].claim # NoToken =>
           /\ runs[tx[s].claim] # NoRun
           /\ runs[tx[s].claim].state = "claimed" => tx[s].claim \in left \cup more
  BY <1>1, Zenon DEF LocksInv, TxStands, Stands, RequeueStands
<1> HIDE DEF more, left
<1>6. /\ tx'[s] \in Requeueing /\ tx'[s].kind = "requeue" /\ tx'[s].todo = left
      /\ tx'[s].runLocks = more
      /\ tx'[s].claim = tx[s].claim /\ tx'[s].job = tx[s].job /\ tx'[s].jobLock = tx[s].jobLock
  BY <1>1, <1>2, <1>4, Zenon DEF Requeueing
<1>7. Stands(s)'
  BY <1>3, <1>5, <1>6, Zenon DEF Stands, ClaimStands, FailStands, RequeueStands
<1>8. ASSUME NEW r \in Sessions \ {s}, tx'[r] = tx[r] PROVE Apart(s, r)'
  <2>1. Apart(s, r) /\ ~LocksRun(r, c)
    BY Zenon DEF LocksInv, LocksExclude, RequeueRun, RunFree
  <2>2. \A d \in Tokens : LocksRun(s, d)' => LocksRun(s, d) \/ d = c
    BY <1>1, <1>5, <1>6, Zenon DEF LocksRun
  <2>3. \A j \in JobIds : LocksJob(s, j)' => LocksJob(s, j)
    BY <1>1, <1>6, Zenon DEF LocksJob
  <2>4. /\ \A d \in Tokens : LocksRun(r, d)' <=> LocksRun(r, d)
        /\ \A j \in JobIds : LocksJob(r, j)' <=> LocksJob(r, j)
    BY <1>8, Zenon DEF LocksRun, LocksJob, Open
  <2> QED
    BY <1>6, <2>1, <2>2, <2>3, <2>4, Zenon DEF Apart
<1> QED
  BY <1>6, <1>7, <1>8, Zenon DEF OwnStands

\* At its end a transaction gives up its locks.
LEMMA TxEnds ==
  ASSUME LocksInv, NEW s \in Sessions, Commit(s)
  PROVE  OwnStands(s)
<1>1. tx'[s] = NoTx
  BY Zenon DEF Commit, LocksInv, LocksTypeOK
<1> QED
  BY <1>1 DEF NoTx, Stands, ClaimStands, FailStands, RequeueStands, Apart, LocksJob,
              LocksRun, Open, OwnStands

\* So a step of a session keeps what its transaction has read, and its locks apart
\* from those of the others.
LEMMA OwnStep ==
  ASSUME LocksInv, NEW s \in Sessions, TxStep(s)
  PROVE  OwnStands(s)
BY ClaimBegins, FailBegins, RequeueBegins, RequeueProceeds, TxEnds, Zenon
DEF TxStep, ClaimCommit, FailCommit, RequeueCommit, Rollback

\* LocksInv is inductive.
LEMMA LocksInvStep == LocksInv /\ [LocksNext]_lockVars => LocksInv'
<1> SUFFICES ASSUME LocksInv, [LocksNext]_lockVars PROVE LocksInv'
  BY Zenon
<1>1. StoreInv'
  BY StepsOfTables, TablesStep, Zenon DEF LocksInv
<1>2. CASE Autocommit \/ UNCHANGED lockVars
  <2>1. UNCHANGED tx
    BY <1>2, Zenon DEF Autocommit, lockVars
  <2>2. LocksTypeOK'
    BY <1>1, <2>1, Zenon DEF LocksInv, LocksTypeOK, StoreInv
  <2>3. LocksExclude'
    BY <2>1 DEF LocksInv, LocksExclude, Apart, LocksJob, LocksRun, Open
  <2>4. ASSUME NEW r \in Sessions PROVE Stands(r)'
    <3>1. Spares(r)
      <4>1. CASE Autocommit
        BY <2>1, <4>1, RowWriteSpares, UnlockedSpares, RunWriteSpares, Zenon DEF Autocommit
      <4>2. CASE UNCHANGED lockVars
        <5>1. UNCHANGED storeVars /\ tx'[r] = tx[r]
          BY <2>1, <4>2, Zenon DEF lockVars, storeVars
        <5> QED
          BY <5>1, StillSpares, Zenon
      <4> QED
        BY <1>2, <4>1, <4>2, Zenon
    <3>2. Stands(r) /\ LocksTypeOK
      BY Zenon DEF LocksInv, TxStands
    <3> QED
      BY <3>1, <3>2, SparedStands, Zenon
  <2> QED
    BY <1>1, <2>2, <2>3, <2>4, Zenon DEF LocksInv, TxStands
<1>3. ASSUME NEW s \in Sessions, TxStep(s) PROVE LocksInv'
  <2>1. \A r \in Sessions \ {s} : Spares(r)
    BY <1>3, OthersAreSpared, Zenon
  <2>2. \A r \in Sessions \ {s} : tx'[r] = tx[r]
    BY <2>1, Zenon DEF Spares
  <2>3. /\ tx'[s] \in {NoTx} \cup Claiming \cup Failing \cup Requeueing
        /\ Stands(s)'
        /\ \A r \in Sessions \ {s} : Apart(s, r)'
    BY <1>3, <2>2, OwnStep, Zenon DEF OwnStands
  <2>4. LocksExclude'
    BY <2>2, <2>3, ApartStep, Zenon
  <2>5. ASSUME NEW r \in Sessions PROVE Stands(r)'
    <3>1. Stands(r) /\ LocksTypeOK
      BY Zenon DEF LocksInv, TxStands
    <3>2. r # s => Stands(r)'
      BY <2>1, <3>1, SparedStands, Zenon
    <3> QED
      BY <2>3, <3>2, Zenon
  <2>6. \E t : tx' = [tx EXCEPT ![s] = t]
    BY <1>3, Zenon DEF TxStep, ClaimSelect, FailSelect, RequeueBegin, RequeueRun, ClaimCommit,
       FailCommit, RequeueCommit, Rollback, Start, Commit
  <2>7. LocksTypeOK'
    <3>1. tx' \in [Sessions -> {NoTx} \cup Claiming \cup Failing \cup Requeueing]
      BY <2>2, <2>3, <2>6, Zenon DEF LocksInv, LocksTypeOK
    <3> QED
      BY <1>1, <3>1, Zenon DEF LocksTypeOK, StoreInv
  <2> QED
    BY <1>1, <2>4, <2>5, <2>7, Zenon DEF LocksInv, TxStands
<1> QED
  BY <1>2, <1>3, Zenon DEF LocksNext

\* And holds from the start.
LEMMA LocksInvInit == LocksInit => LocksInv
<1> SUFFICES ASSUME LocksInit PROVE LocksInv
  BY Zenon
<1>1. StoreInv
  BY StoreInvInit, Zenon DEF LocksInit
<1>2. \A s \in Sessions : tx[s] = NoTx
  BY Zenon DEF LocksInit
<1>3. LocksTypeOK
  BY <1>1, Zenon DEF LocksInit, LocksTypeOK, StoreInv
<1> QED
  BY <1>1, <1>2, <1>3 DEF LocksInv, LocksExclude, Apart, TxStands, Stands, ClaimStands,
     FailStands, RequeueStands, LocksJob, LocksRun, Open, NoTx

\* So LocksInv holds, however the sessions interleave.
LEMMA LocksHold == LocksSpec => []LocksInv
BY LocksInvInit, LocksInvStep, PTL DEF LocksSpec

\* No statement but the reaper's takes a claim away in the name of the heartbeat.
LEMMA StatementsTakeNoClaim ==
  ASSUME StoreTypeOK, NEW j \in JobIds, RowWrite(j) \/ Unlocked(j), jobs[j].state \in InFlight,
         jobs'[j].state \in {"pending", "dead"}
  PROVE  jobs'[j].lastError = "operator"
<1>1. jobs[j] \in Row
  BY RowOf, Zenon DEF InFlight
<1>2. ASSUME NEW c \in Tokens, MarkRunning(j, c) \/ ExtendDeadline(j, c) \/ CompleteJob(j, c)
      PROVE  FALSE
  <2>1. CASE MarkRunning(j, c)
    BY <1>1, <2>1, Zenon DEF MarkRunning, InFlight, StoreTypeOK, Row
  <2>2. CASE ExtendDeadline(j, c)
    BY <1>1, <2>2, Zenon DEF ExtendDeadline, InFlight, StoreTypeOK, Row
  <2>3. CASE CompleteJob(j, c)
    <3>1. jobs'[j].state = "succeeded"
      BY <1>1, <2>3, Zenon DEF CompleteJob, StoreTypeOK, Row
    <3> QED
      BY <3>1, Zenon
  <2> QED
    BY <1>2, <2>1, <2>2, <2>3, Zenon
<1>3. ForceFail(j) => jobs'[j].lastError = "operator"
  BY <1>1, ZenonT(30) DEF ForceFail, StoreTypeOK, Row
<1>4. DeadlinePasses(j) => jobs'[j].state = jobs[j].state
  BY <1>1 DEF DeadlinePasses, StoreTypeOK, Row
<1>5. ~MoveToDeadLetter(j) /\ (DeadlinePasses(j) => FALSE)
  BY <1>4, Zenon DEF MoveToDeadLetter, InFlight
<1>6. \A t \in Tenants : ~CancelJob(j, t) /\ ~ReplayJob(j, t)
  BY Zenon DEF CancelJob, ReplayJob, InFlight
<1>7. ~PromoteScheduledToPending(j) /\ ~PromoteFailedToPending(j)
  BY Zenon DEF PromoteScheduledToPending, PromoteFailedToPending, InFlight
<1>8. \A row : ~InsertJob(j, row)
  BY DEF InsertJob, Inserted, Absent, InFlight
<1> QED
  BY <1>2, <1>3, <1>5, <1>6, <1>7, <1>8, Zenon DEF RowWrite, Unlocked

\* The claim that RequeueStaleJob takes is the one that it saw at its beginning, so
\* that the claim's run is one that it has locked, or one that is closed.
LEMMA TakenRunIsClosed ==
  ASSUME LocksInv, NEW s \in Sessions, RequeueCommit(s), NEW j \in JobIds,
         jobs[j].state \in InFlight, jobs'[j] # jobs[j]
  PROVE  runs'[jobs[j].token].state # "claimed"
<1>1. tx[s] \in Requeueing /\ tx[s].kind = "requeue" /\ tx[s].todo = {}
  BY TxOf, Zenon DEF LocksInv, RequeueCommit
<1>2. tx[s].job = j /\ Takes(s)
  BY Zenon DEF RequeueCommit, RequeueWrites, LocksInv, StoreInv, StoreTypeOK
<1> DEFINE c == jobs[j].token
<1>3. jobs[j] \in Row /\ Inserted(j)
  BY RowOf, Zenon DEF LocksInv, StoreInv, InFlight
<1>4. c \in Tokens
  <2>1. c \in Tokens \cup {NoToken}
    BY <1>3, Zenon DEF Row
  <2> QED
    BY <1>3, <2>1, Zenon DEF LocksInv, StoreInv, HolderHasRun
<1>5. tx[s].claim = c
  BY <1>2, Zenon DEF Takes
<1>6. runs[c].state = "claimed" => c \in tx[s].runLocks
  BY <1>1, <1>4, <1>5, StoreAssumption, Zenon DEF LocksInv, TxStands, Stands, RequeueStands
<1>7. runs'[c] = IF c \in tx[s].runLocks THEN [runs[c] EXCEPT !.state = "failed"] ELSE runs[c]
  BY <1>4, Zenon DEF RequeueCommit, RequeueWrites
<1>8. c \in tx[s].runLocks => runs[c] \in Run
  BY <1>1, <1>4, RunOf DEF LocksInv, StoreInv, TxStands, Stands, RequeueStands, NoRun
<1> HIDE DEF c
<1>9. runs'[c].state # "claimed"
  BY <1>6, <1>7, <1>8, Zenon DEF Run
<1> QED
  BY <1>9, Zenon DEF c

\* The shape of a claim that the heartbeat ends, in one step.
Reaped(j) ==
  jobs[j].state \in InFlight /\ jobs'[j].state \in {"pending", "dead"}
    /\ jobs'[j].lastError = "heartbeat"

\* Only a commit of RequeueStaleJob ends a claim so.
LEMMA OnlyTheReaper ==
  ASSUME LocksInv, LocksNext, NEW j \in JobIds, Reaped(j)
  PROVE  \E s \in Sessions : RequeueCommit(s)
<1>1. jobs'[j] # jobs[j] /\ StoreTypeOK
  BY Zenon DEF Reaped, InFlight, LocksInv, StoreInv
<1>2. ~Autocommit
  <2>1. ASSUME NEW i \in JobIds, RowWrite(i) \/ Unlocked(i) PROVE FALSE
    <3>1. JobStatement(i)
      BY <2>1, Zenon DEF RowWrite, Unlocked, JobStatement, WorkerStatement
    <3>2. i = j
      BY <1>1, <3>1, Frame, Zenon
    <3> QED
      BY <1>1, <2>1, <3>2, StatementsTakeNoClaim, Zenon DEF Reaped
  <2>2. ASSUME NEW c \in Tokens, AbandonRun(c) \/ CompleteRun(c) PROVE FALSE
    BY <1>1, <2>2, Zenon DEF AbandonRun, CompleteRun
  <2> QED
    BY <2>1, <2>2, Zenon DEF Autocommit
<1>3. ASSUME NEW s \in Sessions, ClaimCommit(s) PROVE FALSE
  <2>1. jobs[tx[s].job].state = "pending"
    BY <1>3, Zenon DEF LocksInv, TxStands, Stands, ClaimStands, ClaimCommit
  <2>2. tx[s].job = j
    BY <1>1, <1>3, Zenon DEF ClaimCommit, StoreTypeOK
  <2> QED
    BY <2>1, <2>2, Zenon DEF Reaped, InFlight
<1>4. ASSUME NEW s \in Sessions, FailCommit(s) PROVE FALSE
  <2> DEFINE i == tx[s].job
             n == tx[s].nextRunAt
             c == tx[s].token
  <2>1. i \in JobIds /\ FailJob(i, c, n)
    BY <1>4, FailIsAtomic, Zenon
  <2> HIDE DEF i, n, c
  <2>2. i = j
    BY <1>1, <2>1, Zenon DEF FailJob, StoreTypeOK
  <2>3. jobs[j] \in Row
    BY <1>1, RowOf, Zenon DEF Reaped, InFlight
  <2>4. jobs'[j].lastError = "execution"
    BY <1>1, <2>1, <2>2, <2>3, Zenon DEF FailJob, StoreTypeOK, Row
  <2> QED
    BY <2>4, Zenon DEF Reaped
<1>5. ASSUME NEW s \in Sessions, TxStep(s) PROVE RequeueCommit(s)
  <2>1. \/ UNCHANGED storeVars
        \/ ClaimCommit(s) \/ FailCommit(s) \/ RequeueCommit(s)
    BY <1>5, Zenon DEF TxStep, ClaimSelect, FailSelect, RequeueBegin, RequeueRun, Rollback
  <2> QED
    BY <1>1, <1>3, <1>4, <2>1, Zenon DEF storeVars
<1> QED
  BY <1>2, <1>5, Zenon DEF LocksNext

--------------------------------------------------------------------------------
\* TryClaim, FailJob and RequeueStaleJob, statement by statement and with any other
\* session's statements in between, keep the tables' types, and their own.
THEOREM LocksAreTyped == LocksSpec => []LocksTypeOK
BY LocksHold, PTL DEF LocksInv

\* Row locks are enough: what the statements of internal/storage keep when each
\* transaction is one step, they keep under READ COMMITTED.
THEOREM TransactionsKeepPromises ==
  LocksSpec => [](SuccessOnce /\ HolderHasRun /\ RetryBudget /\ AttemptAccounting)
BY LocksHold, PTL DEF LocksInv, StoreInv

\* No two sessions have one row of jobs or job_runs locked, and what a SELECT ... FOR
\* UPDATE returned is still so when the transaction writes.
THEOREM LockedRowsStand == LocksSpec => [](LocksExclude /\ TxStands)
BY LocksHold, PTL DEF LocksInv

\* The transactions implement the job contract, although RequeueStaleJob writes what
\* it read in two statements and may close runs of a job that it does not requeue.
THEOREM TransactionsImplementContract == LocksSpec => ImplementsContract
<1>1. LocksInit => Contract!ContractInit
  BY InitImplements, Zenon DEF LocksInit
<1>2. LocksInv /\ LocksInv' /\ [LocksNext]_lockVars
        => [Contract!ContractNext]_(Contract!contractVars)
  <2> SUFFICES ASSUME LocksInv, LocksInv', [LocksNext]_lockVars
               PROVE  [Contract!ContractNext]_(Contract!contractVars)
    BY Zenon
  <2>1. StoreOrReap /\ StoreInv /\ StoreInv'
    BY StepsOfTables, Zenon DEF LocksInv
  <2> QED
    BY <2>1, StepImplements, ReapsImplement, Zenon DEF StoreOrReap
<1> QED
  BY <1>1, <1>2, LocksHold, PTL DEF LocksSpec, ImplementsContract, Contract!ContractSpec

\* RequeueStaleJob never takes a claim and leaves its run open.
THEOREM RequeuedRunsAreClosed == LocksSpec => RequeueClosesRun
<1> DEFINE Closed == \A j \in JobIds : Reaped(j) => runs'[jobs[j].token].state # "claimed"
<1>1. LocksInv /\ [LocksNext]_lockVars => [Closed]_lockVars
  <2> SUFFICES ASSUME LocksInv, LocksNext, NEW j \in JobIds, Reaped(j)
               PROVE  runs'[jobs[j].token].state # "claimed"
    BY Zenon
  <2>1. jobs[j].state \in InFlight /\ jobs'[j] # jobs[j]
    BY Zenon DEF Reaped, InFlight
  <2> QED
    BY <2>1, OnlyTheReaper, TakenRunIsClosed, Zenon
<1>2. LocksSpec => [][Closed]_lockVars
  BY <1>1, LocksHold, PTL DEF LocksSpec
<1>3. [][Closed]_lockVars => RequeueClosesRun
  BY PTL DEF RequeueClosesRun, Reaped
<1> QED
  BY <1>2, <1>3, PTL
================================================================================
