------------------------------- MODULE Submission ------------------------------
(***************************************************************************)
(* handleSubmitJob of internal/api, round trip by round trip, with the     *)
(* rate limiter of internal/ratelimit: the fixed window in Redis, the      *)
(* insert, the look-up after a duplicate key, the enqueue and the answer.  *)
(* Requests run side by side, those that resubmit a key whose answer got   *)
(* lost included, and the rest of the system goes on with the jobs in      *)
(* between: a worker, an operator, or a client who cancels.                *)
(***************************************************************************)
EXTENDS RedisQueue, FiniteSets

CONSTANTS
  Requests,    \* POST /jobs requests
  RateLimit,   \* rate_limit of a tenant, in jobs per second
  KeyTTL,      \* the TTL that Allow gives a window's counter, in seconds
  MaxStall,    \* bound: seconds between Allow's clock reading and its INCR
  MaxTime      \* bound: seconds that pass

ASSUME SubmissionAssumption ==
  /\ {RateLimit, KeyTTL, MaxStall, MaxTime} \subseteq Nat
  /\ MaxStall < KeyTTL

VARIABLES
  second,     \* the clock, in seconds
  counters,   \* ratelimit:{tenant}:{second}: its count and when it expires
  req         \* where each request is, and what it was answered

submitVars == <<storeVars, queueVars, faults, second, counters, req>>

--------------------------------------------------------------------------------
Seconds == 0..MaxTime

NoCounter == [count |-> 0, expires |-> 0]

Never == MaxTime + KeyTTL + 1

NotSent == [pc |-> "none"]

Steps == {"allow", "expire", "insert", "fetch", "enqueue", "answered", "gone"}

Statuses == {0, 200, 201, 409, 429, 500}

\* count is what INCR returned, 0 before, and after an error.
Request ==
  [pc     : Steps,
   tenant : Tenants,
   key    : IdemKeys \cup {NoKey},
   window : Seconds,
   count  : Nat,
   status : Statuses,
   job    : JobIds \cup {0}]

\* Types of the tables, the counters of the limiter and the requests under way.
SubmissionTypeOK ==
  /\ StoreTypeOK /\ QueueTypeOK /\ FaultsTypeOK
  /\ second \in Seconds
  /\ counters \in [Tenants \X Seconds -> [count : Nat, expires : 0..Never]]
  /\ req \in [Requests -> Request \cup {NotSent}]

SubmissionInit ==
  /\ StoreInit /\ QueueInit /\ FaultsInit
  /\ second = 0
  /\ counters = [k \in Tenants \X Seconds |-> NoCounter]
  /\ req = [r \in Requests |-> NotSent]

--------------------------------------------------------------------------------
In(r, pc) == req[r].pc = pc

Put(r, fields) == req' = [req EXCEPT ![r] = fields]

\* What a step makes of a request.
SentTo(r, pc) == [req[r] EXCEPT !.pc = pc]

Counted(r, pc, n) == [req[r] EXCEPT !.pc = pc, !.count = n]

Given(r, pc, j) == [req[r] EXCEPT !.pc = pc, !.job = j]

Answered(r, status, j) ==
  [req[r] EXCEPT !.pc = "answered", !.status = status, !.job = j]

Refused(r, n) == [Answered(r, 429, 0) EXCEPT !.count = n]

\* Allow reads the clock first.
Send(r) ==
  /\ In(r, "none")
  /\ \E t \in Tenants, k \in IdemKeys \cup {NoKey} :
       Put(r, [pc |-> "allow", tenant |-> t, key |-> k, window |-> second,
               count |-> 0, status |-> 0, job |-> 0])
  /\ NoFault
  /\ UNCHANGED <<storeVars, queueVars, second, counters>>

Counter(r) == <<req[r].tenant, req[r].window>>

\* INCR makes a counter that is not there.
Incremented(r) ==
  [counters EXCEPT ![Counter(r)] =
     [count |-> @.count + 1, expires |-> IF @.count = 0 THEN Never ELSE @.expires]]

WithinLimit(n) == n <= RateLimit

AfterAllow(r, n) ==
  IF WithinLimit(n)
  THEN Counted(r, "insert", n)
  ELSE Refused(r, n)

\* Only the request that made the counter gives it a TTL, in a second round trip.
Allow(r) ==
  /\ In(r, "allow")
  /\ counters' = Incremented(r)
  /\ LET n == counters[Counter(r)].count + 1
     IN Put(r, IF n = 1 THEN Counted(r, "expire", n) ELSE AfterAllow(r, n))
  /\ NoFault
  /\ UNCHANGED <<storeVars, queueVars, second>>

\* The handler logs an error of the limiter and lets the request through.
AllowErrored(r) ==
  /\ In(r, "allow")
  /\ Fault("redis")
  /\ counters' = Incremented(r) \/ UNCHANGED counters
  /\ Put(r, SentTo(r, "insert"))
  /\ UNCHANGED <<storeVars, queueVars, second>>

\* Two slips: the counter expires with its second; the TTL has the wrong unit.
ExpiryAtOnce == second + 1

ExpiryMillis == second + 1000 * KeyTTL

Expiry == second + KeyTTL

\* The result of EXPIRE is ignored.
Expire(r) ==
  /\ In(r, "expire")
  /\ \/ counters' = [counters EXCEPT ![Counter(r)] = [@ EXCEPT !.expires = Expiry]]
        /\ NoFault
     \/ UNCHANGED counters /\ Fault("redis")
  /\ Put(r, AfterAllow(r, 1))
  /\ UNCHANGED <<storeVars, queueVars, second>>

--------------------------------------------------------------------------------
\* Job ids are fresh; taking them in order loses nothing.
Fresh(j) == ~Inserted(j) /\ \A i \in JobIds : i < j => Inserted(i)

Created(r, j) ==
  /\ Fresh(j)
  /\ \E p \in Priorities, mr \in RetryLimits, ra \in {"future", "due"} :
       InsertJob(j, NewJob(req[r].tenant, p, req[r].key, mr, ra))

\* The row, or ErrDuplicate, or an error that does not say whether it committed.
Insert(r) ==
  /\ In(r, "insert")
  /\ \/ /\ \E j \in JobIds :
             /\ Created(r, j)
             /\ Put(r, IF jobs'[j].state = "pending"
                       THEN Given(r, "enqueue", j)
                       ELSE Answered(r, 201, j))
        /\ NoFault
     \/ /\ KeyTaken(req[r].tenant, req[r].key)
        /\ Put(r, SentTo(r, "fetch"))
        /\ NoFault
        /\ UNCHANGED storeVars
     \/ /\ Fault("db")
        /\ (\E j \in JobIds : Created(r, j)) \/ UNCHANGED storeVars
        /\ Put(r, Answered(r, 500, 0))
  /\ UNCHANGED <<queueVars, second, counters>>

\* A slip: the look-up knows only jobs that are not over.
HasKeyWhileOpen(j, t, k) ==
  /\ Live(j) /\ jobs[j].tenant = t /\ jobs[j].key = k
  /\ jobs[j].state \notin {"succeeded", "dead"}

\* The WHERE clause of GetJobByIdempotencyKey.
HasKey(j, t, k) == Live(j) /\ jobs[j].tenant = t /\ jobs[j].key = k

\* The job that has the key, or 409 if it is gone or the look-up fails.
Fetch(r) ==
  /\ In(r, "fetch")
  /\ LET found == {j \in JobIds : HasKey(j, req[r].tenant, req[r].key)}
     IN \/ (\E j \in found : Put(r, Answered(r, 200, j))) /\ NoFault
        \/ found = {} /\ Put(r, Answered(r, 409, 0)) /\ NoFault
        \/ Fault("db") /\ Put(r, Answered(r, 409, 0))
  /\ UNCHANGED <<storeVars, queueVars, second, counters>>

\* The handler's own copy of the job is enqueued, whatever became of the row.
EnqueueNew(r) ==
  /\ In(r, "enqueue")
  /\ Enqueue(req[r].job)
  /\ Put(r, Answered(r, 201, req[r].job))
  /\ UNCHANGED <<storeVars, second, counters>>

\* The API process dies, or the client stops waiting and the context is cancelled.
Abandon(r) ==
  /\ req[r].pc \notin {"none", "answered", "gone"}
  /\ Fault("crash")
  /\ Put(r, SentTo(r, "gone"))
  /\ UNCHANGED <<storeVars, queueVars, second, counters>>

--------------------------------------------------------------------------------
\* A second passes; counters whose TTL is over vanish.
Second ==
  /\ second < MaxTime
  /\ \A r \in Requests : In(r, "allow") => second < req[r].window + MaxStall
  /\ second' = second + 1
  /\ counters' = [k \in Tenants \X Seconds |->
                    IF counters[k].expires <= second + 1 THEN NoCounter ELSE counters[k]]
  /\ NoFault
  /\ UNCHANGED <<storeVars, queueVars, req>>

\* What becomes of a job meanwhile, as far as its key can tell: the row goes, or
\* the job is over, or it comes back.
Elsewhere(j) ==
  /\ \/ \E t \in Tenants : CancelJob(j, t) \/ ReplayJob(j, t)
     \/ ForceFail(j)
  /\ NoFault
  /\ UNCHANGED <<queueVars, second, counters, req>>

SubmissionNext ==
  \/ \E r \in Requests :
       \/ Send(r) \/ Allow(r) \/ AllowErrored(r) \/ Expire(r)
       \/ Insert(r) \/ Fetch(r) \/ EnqueueNew(r) \/ Abandon(r)
  \/ \E j \in JobIds : Elsewhere(j)
  \/ Second

SubmissionSpec == SubmissionInit /\ [][SubmissionNext]_submitVars

--------------------------------------------------------------------------------
(* Properties *)

\* The requests that Allow let through on the count it read.
Admitted(t, s) ==
  {r \in Requests : ~In(r, "none") /\ req[r].tenant = t /\ req[r].window = s
                      /\ req[r].count > 0 /\ req[r].status # 429}

\* In no second are more of a tenant's requests let through than its rate limit,
\* although the counter and its TTL are set in two round trips, handlers come to
\* INCR late, and the process may die between the two.
RateLimitHolds == \A t \in Tenants, s \in Seconds : Cardinality(Admitted(t, s)) <= RateLimit

\* Every answer that names a job for an idempotency key names the same job, be it
\* the answer of the request that made it, of one that raced with it, or of a
\* resubmission after a lost answer; only a cancel lets the key name another job.
AnswersAgree ==
  \A q, r \in Requests :
    /\ In(q, "answered") /\ req[q].job # 0
    /\ In(r, "answered") /\ req[r].job # 0
    /\ req[q].key # NoKey /\ req[q].key = req[r].key /\ req[q].tenant = req[r].tenant
    => \/ req[q].job = req[r].job
       \/ \E i \in {req[q].job, req[r].job} : jobs[i].state = "deleted"

\* Unless a database call failed, a client is told 409 only if the job that had
\* its key was cancelled between the two statements of the handler.
ConflictOnlyAfterCancel ==
  \A r \in Requests :
    In(r, "answered") /\ req[r].status = 409 /\ faults = 0 =>
      \E j \in JobIds :
        jobs[j].state = "deleted" /\ jobs[j].tenant = req[r].tenant /\ jobs[j].key = req[r].key

--------------------------------------------------------------------------------
(* Why the properties hold, for the proofs *)

Received == {r \in Requests : ~In(r, "none")}

\* A counter stays until no request that read the clock in its second can still
\* come to its INCR.
CountersOutlast ==
  \A k \in Tenants \X Seconds :
    counters[k].count > 0 => counters[k].expires > k[2] + MaxStall

\* Where a request stands with the limiter.
AllowSteps ==
  \A r \in Received :
    /\ req[r].window <= second
    /\ In(r, "allow") => second <= req[r].window + MaxStall /\ req[r].count = 0
    /\ In(r, "expire") => req[r].count = 1
    /\ ~In(r, "answered") => req[r].status = 0

\* No INCR of a second returns what an earlier one of that second returned.
CountsDiffer ==
  \A r \in Received :
    /\ req[r].count <= counters[Counter(r)].count \/ second > req[r].window + MaxStall
    /\ \A q \in Received :
         Counter(q) = Counter(r) /\ req[q].count = req[r].count /\ req[r].count > 0 => q = r

\* The first of a second is not refused before its EXPIRE.
MayPass(n) == n <= 1 \/ n <= RateLimit

\* A count above the limit was answered 429.
CountsChecked == \A r \in Received : req[r].status # 429 => MayPass(req[r].count)

LimiterInv == CountersOutlast /\ AllowSteps /\ CountsDiffer /\ CountsChecked

\* The row of job j, which may be cancelled by now, is one of tenant t and key k.
RowWith(j, t, k) ==
  j \in JobIds /\ Inserted(j) /\ jobs[j].tenant = t /\ jobs[j].key = k

\* The job of a request is one of its tenant and key, and so is the job whose key
\* stood in the way of its insert.
AnswerInv ==
  \A r \in Received :
    /\ In(r, "enqueue") \/ req[r].job # 0 => RowWith(req[r].job, req[r].tenant, req[r].key)
    /\ In(r, "fetch") => \E j \in JobIds : RowWith(j, req[r].tenant, req[r].key)

SubmissionInv ==
  /\ SubmissionTypeOK /\ StoreInv /\ KeyNamesOneJob
  /\ LimiterInv /\ AnswerInv /\ ConflictOnlyAfterCancel
================================================================================
