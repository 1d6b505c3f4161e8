------------------------------- MODULE RowLocks --------------------------------
(***************************************************************************)
(* The transactions of internal/storage, statement by statement.  JobStore *)
(* takes TryClaim, FailJob and RequeueStaleJob as one step each.  Here     *)
(* each is what it is under READ COMMITTED: statements that take row locks *)
(* one after the other and become visible when the transaction commits,    *)
(* with any other statement of any other session in between.  FailJob      *)
(* locks the job and then its run, RequeueStaleJob the runs and then the   *)
(* job, so the two can wait for each other until Postgres aborts one.      *)
(*                                                                         *)
(* A single statement outside a transaction is the step that JobStore has  *)
(* for it, and waits while another session holds the row that it writes.   *)
(***************************************************************************)
EXTENDS JobStore

CONSTANT Sessions   \* the database sessions that run transactions

VARIABLE tx         \* the transaction that each session has open

lockVars == <<jobs, runs, deadLetter, completing, handed, tx>>

--------------------------------------------------------------------------------
NoTx == [kind |-> "none"]

\* Every transaction has the job it is about, whether it has locked that job's
\* row, and the job_runs rows it has locked.
Claiming ==
  [kind : {"claim"}, job : JobIds, token : Tokens, jobLock : BOOLEAN, runLocks : {{}}]

\* FailJob computes its update from the attempt that its SELECT returned.
Failing ==
  [kind : {"fail"}, job : JobIds, token : Tokens, jobLock : BOOLEAN, runLocks : {{}},
   attempt : Nat, nextRunAt : {"null", "due", "future"}]

\* todo: the open runs that the first UPDATE found and has not come to yet;
\* claim: the token of the job if its deadline is before NOW(), which Postgres
\* fixes when the transaction begins.
Requeueing ==
  [kind : {"requeue"}, job : JobIds, claim : Tokens \cup {NoToken},
   todo : SUBSET Tokens, jobLock : BOOLEAN, runLocks : SUBSET Tokens]

\* Types of the tables and of the open transactions.
LocksTypeOK ==
  StoreTypeOK /\ tx \in [Sessions -> {NoTx} \cup Claiming \cup Failing \cup Requeueing]

LocksInit == StoreInit /\ tx = [s \in Sessions |-> NoTx]

--------------------------------------------------------------------------------
Open(s) == tx[s] # NoTx

LocksJob(s, j) == Open(s) /\ tx[s].jobLock /\ tx[s].job = j

LocksRun(s, c) == Open(s) /\ c \in tx[s].runLocks

JobFree(j) == \A s \in Sessions : ~LocksJob(s, j)

RunFree(c) == \A s \in Sessions : ~LocksRun(s, c)

\* The token that a TryClaim under way is going to write.
Reserved(c) == \E s \in Sessions : tx[s].kind = "claim" /\ tx[s].token = c

Start(s, t) == ~Open(s) /\ tx' = [tx EXCEPT ![s] = t]

Commit(s) == tx' = [tx EXCEPT ![s] = NoTx]

--------------------------------------------------------------------------------
(* TryClaim *)

\* A slip: the SELECT takes no lock.
ClaimSelectUnlocked(s, j, c) ==
  /\ jobs[j].state = "pending"
  /\ runs[c] = NoRun /\ ~Reserved(c)
  /\ Start(s, [kind |-> "claim", job |-> j, token |-> c, jobLock |-> FALSE, runLocks |-> {}])
  /\ UNCHANGED storeVars

\* SELECT ... FOR UPDATE SKIP LOCKED: a row that is locked is not there.
ClaimSelect(s, j, c) ==
  /\ jobs[j].state = "pending" /\ JobFree(j)
  /\ runs[c] = NoRun /\ ~Reserved(c)
  /\ Start(s, [kind |-> "claim", job |-> j, token |-> c, jobLock |-> TRUE, runLocks |-> {}])
  /\ UNCHANGED storeVars

\* The UPDATE finds the job by its id alone.
ClaimCommit(s) ==
  /\ tx[s].kind = "claim"
  /\ LET j == tx[s].job
         c == tx[s].token
     IN /\ jobs' = [jobs EXCEPT ![j] =
                      [@ EXCEPT !.state = "claimed", !.token = c, !.deadline = "live"]]
        /\ runs' = [runs EXCEPT ![c] =
                      [job |-> j, attempt |-> jobs[j].attempt, state |-> "claimed"]]
        /\ handed' = [handed EXCEPT ![j] = @ + 1]
  /\ Commit(s)
  /\ UNCHANGED <<deadLetter, completing>>

--------------------------------------------------------------------------------
(* FailJob *)

\* A slip: the SELECT takes no lock.
FailSelectUnlocked(s, j, c, nextRunAt) ==
  /\ runs[c] # NoRun /\ runs[c].job = j
  /\ Fenced(j, c)
  /\ Start(s, [kind |-> "fail", job |-> j, token |-> c, jobLock |-> FALSE, runLocks |-> {},
               attempt |-> jobs[j].attempt, nextRunAt |-> nextRunAt])
  /\ UNCHANGED storeVars

\* SELECT ... FOR UPDATE waits for the row.  It returns no row to a stale worker,
\* which then does nothing.
FailSelect(s, j, c, nextRunAt) ==
  /\ runs[c] # NoRun /\ runs[c].job = j
  /\ Fenced(j, c) /\ JobFree(j)
  /\ Start(s, [kind |-> "fail", job |-> j, token |-> c, jobLock |-> TRUE, runLocks |-> {},
               attempt |-> jobs[j].attempt, nextRunAt |-> nextRunAt])
  /\ UNCHANGED storeVars

\* A slip: a state that the enum job_state does not have.
FailedStateUnknown(s) ==
  IF tx[s].attempt + 1 >= jobs[tx[s].job].maxRetries THEN "dead" ELSE "retrying"

FailedState(s) ==
  IF tx[s].attempt + 1 >= jobs[tx[s].job].maxRetries THEN "dead" ELSE "failed"

\* Both UPDATEs find their row by its id alone; the second waits for the run.
FailCommit(s) ==
  /\ tx[s].kind = "fail"
  /\ RunFree(tx[s].token)
  /\ LET j == tx[s].job
         keep == FailedState(s) = "dead" \/ tx[s].nextRunAt = "null"
     IN /\ jobs' = [jobs EXCEPT ![j] =
                      [@ EXCEPT !.state     = FailedState(s),
                                !.attempt   = tx[s].attempt + 1,
                                !.lastError = "execution",
                                !.runAt     = IF keep THEN jobs[j].runAt ELSE tx[s].nextRunAt,
                                !.token     = NoToken,
                                !.deadline  = "none"]]
        /\ runs' = [runs EXCEPT ![tx[s].token] = [@ EXCEPT !.state = FailedState(s)]]
  /\ Commit(s)
  /\ UNCHANGED <<deadLetter, completing, handed>>

--------------------------------------------------------------------------------
(* RequeueStaleJob *)

OpenRuns(j) == {c \in Tokens : runs[c].state = "claimed" /\ runs[c].job = j}

\* BEGIN, and the snapshot of the first UPDATE.  A deadline that passes between
\* the two is not before NOW().
RequeueBegin(s, j) ==
  /\ Inserted(j)
  /\ \E claim \in {NoToken} \cup (IF Stale(j) THEN {jobs[j].token} ELSE {}) :
       Start(s, [kind |-> "requeue", job |-> j, claim |-> claim, todo |-> OpenRuns(j),
                 jobLock |-> FALSE, runLocks |-> {}])
  /\ UNCHANGED storeVars

\* The first UPDATE comes to a run, waits until it is free, and reads it again.
RequeueRun(s, c) ==
  /\ tx[s].kind = "requeue"
  /\ c \in tx[s].todo /\ RunFree(c)
  /\ tx' = [tx EXCEPT ![s] =
              [@ EXCEPT !.todo = tx[s].todo \ {c},
                        !.runLocks = tx[s].runLocks \cup
                                       (IF runs[c].state = "claimed" THEN {c} ELSE {})]]
  /\ UNCHANGED storeVars

\* A slip: the deadline is compared with the clock of the statement.
TakesByClock(s) == Stale(tx[s].job)

\* The WHERE clause of the second UPDATE.
Takes(s) == Stale(tx[s].job) /\ jobs[tx[s].job].token = tx[s].claim

RequeueWrites(s) ==
  LET j == tx[s].job
  IN /\ runs' = [c \in Tokens |->
                   IF c \in tx[s].runLocks THEN [runs[c] EXCEPT !.state = "failed"] ELSE runs[c]]
     /\ jobs' = IF ~Takes(s) THEN jobs ELSE
                  [jobs EXCEPT ![j] =
                     [@ EXCEPT !.state     = IF Exhausted(j) THEN "dead" ELSE "pending",
                               !.attempt   = jobs[j].attempt + 1,
                               !.token     = NoToken,
                               !.deadline  = "none",
                               !.lastError = "heartbeat"]]

\* A slip: no row, and the transaction is neither committed nor rolled back.
RequeueCommitTaken(s) ==
  /\ tx[s].kind = "requeue" /\ tx[s].todo = {}
  /\ Takes(s) /\ JobFree(tx[s].job)
  /\ RequeueWrites(s)
  /\ Commit(s)
  /\ UNCHANGED <<deadLetter, completing, handed>>

\* The second UPDATE waits for the job only if it is to be requeued; a
\* transaction that requeues nothing commits the closed runs.
RequeueCommit(s) ==
  /\ tx[s].kind = "requeue" /\ tx[s].todo = {}
  /\ Takes(s) => JobFree(tx[s].job)
  /\ RequeueWrites(s)
  /\ Commit(s)
  /\ UNCHANGED <<deadLetter, completing, handed>>

--------------------------------------------------------------------------------
(* Waiting, and the end of a transaction that does not commit *)

WaitsFor(s, r) ==
  \/ /\ tx[s].kind = "fail"
     /\ LocksRun(r, tx[s].token)
  \/ /\ tx[s].kind = "requeue" /\ tx[s].todo # {}
     /\ \A c \in tx[s].todo : ~RunFree(c)
     /\ \E c \in tx[s].todo : LocksRun(r, c)
  \/ /\ tx[s].kind = "requeue" /\ tx[s].todo = {} /\ Takes(s)
     /\ LocksJob(r, tx[s].job)

\* s is part of a circle of sessions that wait for each other.
Deadlocked(s) ==
  \E P \in SUBSET Sessions :
    /\ s \in P
    /\ \A p \in P : (\E r \in P : WaitsFor(p, r)) /\ (\E r \in P : WaitsFor(r, p))

\* defer tx.Rollback: the deadlock detector, a lost connection, a cancelled
\* context or the death of the process ends the transaction without a trace.
Rollback(s) ==
  /\ Open(s)
  /\ Commit(s)
  /\ UNCHANGED storeVars

--------------------------------------------------------------------------------
TxStep(s) ==
  \/ \E j \in JobIds, c \in Tokens : ClaimSelect(s, j, c)
  \/ \E j \in JobIds, c \in Tokens, nextRunAt \in {"null", "due", "future"} :
       FailSelect(s, j, c, nextRunAt)
  \/ \E j \in JobIds : RequeueBegin(s, j)
  \/ \E c \in Tokens : RequeueRun(s, c)
  \/ ClaimCommit(s) \/ FailCommit(s) \/ RequeueCommit(s)
  \/ Rollback(s)

\* A statement outside a transaction that writes a row of jobs.
RowWrite(j) ==
  /\ JobFree(j)
  /\ \/ \E c \in Tokens :
          /\ runs[c] # NoRun /\ runs[c].job = j
          /\ MarkRunning(j, c) \/ ExtendDeadline(j, c) \/ CompleteJob(j, c)
     \/ \E t \in Tenants : CancelJob(j, t) \/ ReplayJob(j, t)
     \/ ForceFail(j)
     \/ PromoteScheduledToPending(j)
     \/ PromoteFailedToPending(j)

\* A new row, a plain read and the clock wait for nobody.  The statements compare
\* no run_at, so it is left as it is.
Unlocked(j) ==
  \/ \E t \in Tenants, p \in Priorities, k \in IdemKeys \cup {NoKey},
        mr \in RetryLimits, ra \in {"future", "due"} :
       InsertJob(j, NewJob(t, p, k, mr, ra))
  \/ MoveToDeadLetter(j)
  \/ DeadlinePasses(j)

Autocommit ==
  /\ \/ \E j \in JobIds : RowWrite(j) \/ Unlocked(j)
     \/ \E c \in Tokens : AbandonRun(c) \/ (RunFree(c) /\ CompleteRun(c))
  /\ UNCHANGED tx

LocksNext == Autocommit \/ \E s \in Sessions : TxStep(s)

LocksSpec == LocksInit /\ [][LocksNext]_lockVars

\* A session goes on with its transaction.
Proceeds(s) ==
  \/ ClaimCommit(s) \/ FailCommit(s) \/ RequeueCommit(s)
  \/ \E c \in Tokens : RequeueRun(s, c)
  \/ Deadlocked(s) /\ Rollback(s)

\* Postgres serves those that wait for a row in the order they came, so one that
\* can go on again and again does; and its detector finds every deadlock.
FairLocksSpec == LocksSpec /\ \A s \in Sessions : SF_lockVars(Proceeds(s))

--------------------------------------------------------------------------------
(* Properties.  Those of JobStore are checked of this specification too. *)

\* The reaper never takes a claim away and leaves its job_runs row open: although
\* RequeueStaleJob closes the runs that its first statement saw and requeues the
\* job in a later one, the claim it ends is one whose run was among them.
RequeueClosesRun ==
  [][\A j \in JobIds :
       jobs[j].state \in InFlight /\ jobs'[j].state \in {"pending", "dead"}
         /\ jobs'[j].lastError = "heartbeat"
       => runs'[jobs[j].token].state # "claimed"]_lockVars

\* Every transaction ends, although FailJob and RequeueStaleJob take the locks on
\* a job and its run in opposite orders.
TransactionsEnd == \A s \in Sessions : Open(s) ~> ~Open(s)

--------------------------------------------------------------------------------
(* Why the properties hold, for the proofs *)

\* The two transactions hold no row both, nor are they to insert one run.
Apart(s, r) ==
  /\ \A j \in JobIds : ~(LocksJob(s, j) /\ LocksJob(r, j))
  /\ \A c \in Tokens : ~(LocksRun(s, c) /\ LocksRun(r, c))
  /\ tx[s].kind = "claim" /\ tx[r].kind = "claim" => tx[s].token # tx[r].token

LocksExclude == \A s, r \in Sessions : s = r \/ Apart(s, r)

\* What the SELECT of TryClaim found still stands when its UPDATE comes.
ClaimStands(s) ==
  tx[s].kind = "claim" =>
    tx[s].jobLock /\ jobs[tx[s].job].state = "pending" /\ runs[tx[s].token] = NoRun

\* So does what the SELECT of FailJob found.
FailStands(s) ==
  tx[s].kind = "fail" =>
    /\ tx[s].jobLock /\ Fenced(tx[s].job, tx[s].token)
    /\ jobs[tx[s].job].attempt = tx[s].attempt
    /\ runs[tx[s].token] # NoRun /\ runs[tx[s].token].job = tx[s].job

\* The runs that RequeueStaleJob has come to are open, and the run of the claim
\* that it saw is one of those, to come or closed by somebody else.
RequeueStands(s) ==
  tx[s].kind = "requeue" =>
    /\ \A c \in tx[s].runLocks : runs[c].state = "claimed"
    /\ tx[s].claim # NoToken =>
         /\ runs[tx[s].claim] # NoRun
         /\ runs[tx[s].claim].state = "claimed" => tx[s].claim \in tx[s].todo \cup tx[s].runLocks

Stands(s) == ClaimStands(s) /\ FailStands(s) /\ RequeueStands(s)

TxStands == \A s \in Sessions : Stands(s)

LocksInv == LocksTypeOK /\ StoreInv /\ LocksExclude /\ TxStands
================================================================================
