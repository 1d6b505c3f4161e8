---------------------------- MODULE SubmissionSteps ----------------------------
(***************************************************************************)
(* What the steps of handleSubmitJob and the rate limiter do to a request, *)
(* to the tables and to the counters, and that they keep the limiter's     *)
(* invariant.                                                              *)
(***************************************************************************)
EXTENDS Submission, TLAPS

\* A request's record after a step of its handler, which changes none of tenant,
\* key and window.
Turned(q, p, n, s, j) ==
  [pc |-> p, tenant |-> q.tenant, key |-> q.key, window |-> q.window,
   count |-> n, status |-> s, job |-> j]

Turns(r, p, n, s, j) == req' = [req EXCEPT ![r] = Turned(req[r], p, n, s, j)]

\* A request that was received has all the fields of a request.
LEMMA RequestOf ==
  ASSUME SubmissionTypeOK, NEW r \in Requests, req[r].pc # "none"
  PROVE  req[r] \in Request /\ r \in Received
BY DEF SubmissionTypeOK, NotSent, Received, In

\* The fields of a request's record after a step.
LEMMA TurnedFields ==
  ASSUME NEW q \in Request, NEW p, NEW n, NEW s, NEW j
  PROVE  /\ Turned(q, p, n, s, j).pc = p
         /\ Turned(q, p, n, s, j).tenant = q.tenant
         /\ Turned(q, p, n, s, j).key = q.key
         /\ Turned(q, p, n, s, j).window = q.window
         /\ Turned(q, p, n, s, j).count = n
         /\ Turned(q, p, n, s, j).status = s
         /\ Turned(q, p, n, s, j).job = j
BY Zenon DEF Turned

\* A request that only moves on to another step.
LEMMA SentToTurned ==
  ASSUME NEW r, req[r] \in Request, NEW p
  PROVE  SentTo(r, p) = Turned(req[r], p, req[r].count, req[r].status, req[r].job)
BY DEF SentTo, Turned, Request

\* A request that Allow counted.
LEMMA CountedTurned ==
  ASSUME NEW r, req[r] \in Request, NEW p, NEW n
  PROVE  Counted(r, p, n) = Turned(req[r], p, n, req[r].status, req[r].job)
<1> DEFINE b == Turned(req[r], p, req[r].count, req[r].status, req[r].job)
<1>1. Counted(r, p, n) = [SentTo(r, p) EXCEPT !.count = n]
  BY Zenon DEF Counted, SentTo
<1>2. SentTo(r, p) = b
  BY SentToTurned, Zenon
<1>3. [b EXCEPT !.count = n] = Turned(req[r], p, n, req[r].status, req[r].job)
  BY DEF Turned
<1> HIDE DEF b
<1> QED
  BY <1>1, <1>2, <1>3, Zenon

\* A request that was given a job.
LEMMA GivenTurned ==
  ASSUME NEW r, req[r] \in Request, NEW p, NEW j
  PROVE  Given(r, p, j) = Turned(req[r], p, req[r].count, req[r].status, j)
<1> DEFINE b == Turned(req[r], p, req[r].count, req[r].status, req[r].job)
<1>1. Given(r, p, j) = [SentTo(r, p) EXCEPT !.job = j]
  BY Zenon DEF Given, SentTo
<1>2. SentTo(r, p) = b
  BY SentToTurned, Zenon
<1>3. [b EXCEPT !.job = j] = Turned(req[r], p, req[r].count, req[r].status, j)
  BY DEF Turned
<1> HIDE DEF b
<1> QED
  BY <1>1, <1>2, <1>3, Zenon

\* A request that was answered.
LEMMA AnsweredTurned ==
  ASSUME NEW r, req[r] \in Request, NEW s, NEW j
  PROVE  Answered(r, s, j) = Turned(req[r], "answered", req[r].count, s, j)
<1> DEFINE b == Turned(req[r], "answered", req[r].count, req[r].status, j)
<1>1. Answered(r, s, j) = [Given(r, "answered", j) EXCEPT !.status = s]
  BY Zenon DEF Answered, Given
<1>2. Given(r, "answered", j) = b
  BY GivenTurned, Zenon
<1>3. [b EXCEPT !.status = s] = Turned(req[r], "answered", req[r].count, s, j)
  BY DEF Turned
<1> HIDE DEF b
<1> QED
  BY <1>1, <1>2, <1>3, Zenon

\* A request that Allow refused.
LEMMA RefusedTurned ==
  ASSUME NEW r, req[r] \in Request, NEW n
  PROVE  Refused(r, n) = Turned(req[r], "answered", n, 429, 0)
<1> DEFINE b == Turned(req[r], "answered", req[r].count, 429, 0)
<1>1. Answered(r, 429, 0) = b
  BY AnsweredTurned
<1>2. [b EXCEPT !.count = n] = Turned(req[r], "answered", n, 429, 0)
  BY DEF Turned
<1> HIDE DEF b
<1> QED
  BY <1>1, <1>2, Zenon DEF Refused

\* Allow lets a request through, sends it on to EXPIRE, or answers 429.
LEMMA AllowTurns ==
  ASSUME SubmissionTypeOK, NEW r \in Requests, Allow(r), NEW n,
         n = counters[Counter(r)].count + 1
  PROVE  \E p \in {"expire", "insert", "answered"}, s \in {req[r].status, 429},
            j \in {req[r].job, 0} :
           /\ Turns(r, p, n, s, j)
           /\ p = "expire" => n = 1
           /\ s # 429 => n = 1 \/ n <= RateLimit
           /\ p # "answered" => s = req[r].status
<1>1. req[r] \in Request
  BY RequestOf, Zenon DEF Allow, In
<1>2. CASE n = 1
  <2>1. req' = [req EXCEPT ![r] = Counted(r, "expire", n)]
    BY <1>2, Zenon DEF Allow, Put
  <2>2. Turns(r, "expire", n, req[r].status, req[r].job)
    BY <1>1, <2>1, CountedTurned, Zenon DEF Turns
  <2> QED
    BY <1>2, <2>2
<1>3. CASE n # 1 /\ n <= RateLimit
  <2>1. req' = [req EXCEPT ![r] = Counted(r, "insert", n)]
    BY <1>3, Zenon DEF Allow, Put, AfterAllow, WithinLimit
  <2>2. Turns(r, "insert", n, req[r].status, req[r].job)
    BY <1>1, <2>1, CountedTurned, Zenon DEF Turns
  <2> QED
    BY <1>3, <2>2
<1>4. CASE n # 1 /\ ~(n <= RateLimit)
  <2>1. req' = [req EXCEPT ![r] = Refused(r, n)]
    BY <1>4, Zenon DEF Allow, Put, AfterAllow, WithinLimit
  <2>2. Refused(r, n) = Turned(req[r], "answered", n, 429, 0)
    BY <1>1, RefusedTurned
  <2>3. Turns(r, "answered", n, 429, 0)
    BY <2>1, <2>2, Zenon DEF Turns
  <2> QED
    BY <1>4, <2>3
<1> QED
  BY <1>2, <1>3, <1>4, Zenon

\* Expire lets its request, which has count 1, through if the limit allows any.
LEMMA ExpireTurns ==
  ASSUME SubmissionTypeOK, NEW r \in Requests, Expire(r)
  PROVE  \E p \in {"insert", "answered"}, s \in {req[r].status, 429},
            j \in {req[r].job, 0} :
           Turns(r, p, 1, s, j) /\ (p # "answered" => s = req[r].status)
<1>1. req[r] \in Request
  BY RequestOf, Zenon DEF Expire, In
<1>2. CASE WithinLimit(1)
  <2>1. req' = [req EXCEPT ![r] = Counted(r, "insert", 1)]
    BY <1>2, Zenon DEF Expire, Put, AfterAllow
  <2>2. Turns(r, "insert", 1, req[r].status, req[r].job)
    BY <1>1, <2>1, CountedTurned, Zenon DEF Turns
  <2> QED
    BY <2>2
<1>3. CASE ~WithinLimit(1)
  <2>1. req' = [req EXCEPT ![r] = Refused(r, 1)]
    BY <1>3, Zenon DEF Expire, Put, AfterAllow
  <2>2. Refused(r, 1) = Turned(req[r], "answered", 1, 429, 0)
    BY <1>1, RefusedTurned
  <2>3. Turns(r, "answered", 1, 429, 0)
    BY <2>1, <2>2, Zenon DEF Turns
  <2> QED
    BY <2>3
<1> QED
  BY <1>2, <1>3, Zenon

\* An error of the limiter lets the request through; an abandoned one is gone.
LEMMA SentToTurns ==
  ASSUME NEW r \in Requests, req[r] \in Request, NEW p, Put(r, SentTo(r, p))
  PROVE  Turns(r, p, req[r].count, req[r].status, req[r].job)
BY SentToTurned, Zenon DEF Put, Turns

\* writeJSON and writeError answer a request, with a job or without.
LEMMA AnsweredTurns ==
  ASSUME NEW r \in Requests, req[r] \in Request, NEW s, NEW j, Put(r, Answered(r, s, j))
  PROVE  Turns(r, "answered", req[r].count, s, j)
BY AnsweredTurned, Zenon DEF Put, Turns

\* InsertJob gives a request its job.
LEMMA GivenTurns ==
  ASSUME NEW r \in Requests, req[r] \in Request, NEW p, NEW j, Put(r, Given(r, p, j))
  PROVE  Turns(r, p, req[r].count, req[r].status, j)
BY GivenTurned, Zenon DEF Put, Turns

\* What becomes of a request at its INSERT.
LEMMA InsertTurns ==
  ASSUME SubmissionTypeOK, NEW r \in Requests, Insert(r)
  PROVE  \/ \E j \in JobIds :
              /\ Created(r, j) /\ NoFault
              /\ \/ Turns(r, "enqueue", req[r].count, req[r].status, j)
                 \/ Turns(r, "answered", req[r].count, 201, j)
         \/ /\ KeyTaken(req[r].tenant, req[r].key) /\ NoFault /\ UNCHANGED storeVars
            /\ Turns(r, "fetch", req[r].count, req[r].status, req[r].job)
         \/ /\ Fault("db")
            /\ (\E j \in JobIds : Created(r, j)) \/ UNCHANGED storeVars
            /\ Turns(r, "answered", req[r].count, 500, 0)
<1>1. req[r] \in Request
  BY RequestOf, Zenon DEF Insert, In
<1>2. ASSUME NEW j \in JobIds, Created(r, j), NoFault,
             Put(r, IF jobs'[j].state = "pending"
                    THEN Given(r, "enqueue", j) ELSE Answered(r, 201, j))
      PROVE  \E i \in JobIds :
               /\ Created(r, i) /\ NoFault
               /\ \/ Turns(r, "enqueue", req[r].count, req[r].status, i)
                  \/ Turns(r, "answered", req[r].count, 201, i)
  <2>1. Put(r, Given(r, "enqueue", j)) \/ Put(r, Answered(r, 201, j))
    BY <1>2, Zenon
  <2>2. \/ Turns(r, "enqueue", req[r].count, req[r].status, j)
        \/ Turns(r, "answered", req[r].count, 201, j)
    BY <1>1, <2>1, GivenTurns, AnsweredTurns, Zenon
  <2> QED
    BY <1>2, <2>2, Zenon
<1>3. ASSUME Put(r, SentTo(r, "fetch"))
      PROVE  Turns(r, "fetch", req[r].count, req[r].status, req[r].job)
  BY <1>1, <1>3, SentToTurns, Zenon
<1>4. ASSUME Put(r, Answered(r, 500, 0))
      PROVE  Turns(r, "answered", req[r].count, 500, 0)
  BY <1>1, <1>4, AnsweredTurns
<1>5. \/ \E j \in JobIds :
           /\ Created(r, j) /\ NoFault
           /\ Put(r, IF jobs'[j].state = "pending"
                     THEN Given(r, "enqueue", j) ELSE Answered(r, 201, j))
      \/ /\ KeyTaken(req[r].tenant, req[r].key) /\ NoFault /\ UNCHANGED storeVars
         /\ Put(r, SentTo(r, "fetch"))
      \/ /\ Fault("db")
         /\ (\E j \in JobIds : Created(r, j)) \/ UNCHANGED storeVars
         /\ Put(r, Answered(r, 500, 0))
  BY ZenonT(30) DEF Insert
<1> QED
  BY <1>2, <1>3, <1>4, <1>5

\* What becomes of a request at its look-up.
LEMMA FetchTurns ==
  ASSUME SubmissionTypeOK, NEW r \in Requests, Fetch(r)
  PROVE  \/ \E j \in JobIds :
              /\ HasKey(j, req[r].tenant, req[r].key) /\ NoFault
              /\ Turns(r, "answered", req[r].count, 200, j)
         \/ /\ \A j \in JobIds : ~HasKey(j, req[r].tenant, req[r].key)
            /\ NoFault
            /\ Turns(r, "answered", req[r].count, 409, 0)
         \/ Fault("db") /\ Turns(r, "answered", req[r].count, 409, 0)
<1>1. req[r] \in Request
  BY RequestOf, Zenon DEF Fetch, In
<1>2. \A s, j : Put(r, Answered(r, s, j)) => Turns(r, "answered", req[r].count, s, j)
  BY <1>1, AnsweredTurns, Zenon
<1> QED
  BY <1>2 DEF Fetch

\* What becomes of a request at its LPUSH.
LEMMA EnqueueTurns ==
  ASSUME SubmissionTypeOK, NEW r \in Requests, EnqueueNew(r)
  PROVE  Turns(r, "answered", req[r].count, 201, req[r].job)
<1>1. req[r] \in Request
  BY RequestOf, Zenon DEF EnqueueNew, In
<1> QED
  BY <1>1, AnsweredTurns, Zenon DEF EnqueueNew

\* A step of its handler leaves a request one with the same tenant, key and window,
\* and the other requests as they are.
LEMMA TurnsFacts ==
  ASSUME SubmissionTypeOK, NEW r \in Requests, req[r] \in Request,
         NEW p \in Steps, NEW n \in Nat, NEW s \in Statuses, NEW j \in JobIds \cup {0},
         Turns(r, p, n, s, j)
  PROVE  /\ req' \in [Requests -> Request \cup {NotSent}]
         /\ \A q \in Requests : q # r => req'[q] = req[q]
         /\ req'[r].pc = p /\ req'[r].count = n /\ req'[r].status = s /\ req'[r].job = j
         /\ req'[r].tenant = req[r].tenant
         /\ req'[r].key = req[r].key
         /\ req'[r].window = req[r].window
<1> DEFINE x == Turned(req[r], p, n, s, j)
<1>1. x \in Request
  BY Zenon DEF Turned, Request
<1>2. /\ x.pc = p /\ x.count = n /\ x.status = s /\ x.job = j
      /\ x.tenant = req[r].tenant /\ x.key = req[r].key /\ x.window = req[r].window
  BY TurnedFields
<1>3. req \in [Requests -> Request \cup {NotSent}]
  BY Zenon DEF SubmissionTypeOK
<1>4. req' = [req EXCEPT ![r] = x]
  BY Zenon DEF Turns
<1> HIDE DEF x
<1>5. req'[r] = x
  BY <1>3, <1>4, Zenon
<1>6. req' \in [Requests -> Request \cup {NotSent}]
  BY <1>1, <1>3, <1>4, Zenon
<1>7. \A q \in Requests : q # r => req'[q] = req[q]
  BY <1>3, <1>4, Zenon
<1> QED
  BY <1>2, <1>5, <1>6, <1>7, Zenon

--------------------------------------------------------------------------------
(* The tables and the types *)

\* A request was received before it takes a step other than Send, and then it has
\* all its fields.
LEMMA StepOfReceived ==
  ASSUME SubmissionTypeOK, NEW r \in Requests,
         Allow(r) \/ AllowErrored(r) \/ Expire(r) \/ Insert(r) \/ Fetch(r)
           \/ EnqueueNew(r) \/ Abandon(r)
  PROVE  /\ r \in Received /\ req[r] \in Request
         /\ req[r].tenant \in Tenants /\ req[r].key \in IdemKeys \cup {NoKey}
         /\ req[r].window \in Seconds /\ Counter(r) \in Tenants \X Seconds
         /\ req[r].count \in Nat /\ req[r].status \in Statuses
         /\ req[r].job \in JobIds \cup {0}
<1>1. req[r].pc # "none"
  BY Zenon DEF Allow, AllowErrored, Expire, Insert, Fetch, EnqueueNew, Abandon, In
<1>2. req[r] \in Request /\ r \in Received
  BY <1>1, RequestOf, Zenon
<1> QED
  BY <1>2, Zenon DEF Request, Counter

\* Every step of the system is, for the tables, a statement of JobStore or nothing.
LEMMA StoreStep ==
  ASSUME SubmissionTypeOK, [SubmissionNext]_submitVars
  PROVE  [StoreNext]_storeVars
<1>1. ASSUME NEW r \in Requests, NEW j \in JobIds, Insert(r), Created(r, j)
      PROVE  StoreNext
  <2>1. req[r].tenant \in Tenants /\ req[r].key \in IdemKeys \cup {NoKey}
    BY <1>1, StepOfReceived, Zenon
  <2> QED
    BY <1>1, <2>1, Zenon DEF Created, StoreNext, JobStatement
<1>2. ASSUME NEW r \in Requests, Insert(r) PROVE StoreNext \/ UNCHANGED storeVars
  BY <1>1, <1>2, Zenon DEF Insert
<1>3. ASSUME NEW j \in JobIds, Elsewhere(j) PROVE StoreNext
  BY <1>3, Zenon DEF Elsewhere, StoreNext, JobStatement
<1> QED
  BY <1>2, <1>3, Zenon DEF SubmissionNext, Send, Allow, AllowErrored, Expire, Fetch, EnqueueNew,
     Abandon, Second, submitVars

\* Rows stay, with their tenant and key, and cancelled ones stay cancelled.
RowsKept ==
  \A i \in JobIds : Inserted(i) =>
    /\ Inserted(i)'
    /\ jobs'[i].tenant = jobs[i].tenant /\ jobs'[i].key = jobs[i].key
    /\ jobs[i].state = "deleted" => jobs'[i].state = "deleted"

\* Neither handleSubmitJob nor what an operator or a client does meanwhile changes
\* the tenant or the key of a row.
LEMMA RowsStay ==
  ASSUME StoreTypeOK, [SubmissionNext]_submitVars
  PROVE  RowsKept
<1>1. ASSUME NEW r \in Requests, NEW j \in JobIds, Created(r, j) PROVE RowsKept
  <2>1. ~Inserted(j) /\ \A i \in JobIds : i # j => jobs'[i] = jobs[i]
    BY <1>1, Zenon DEF Created, InsertJob, StoreTypeOK
  <2> QED
    BY <2>1, Zenon DEF RowsKept, Inserted
<1>2. ASSUME UNCHANGED jobs PROVE RowsKept
  BY <1>2, Zenon DEF RowsKept, Inserted
<1>3. ASSUME NEW j \in JobIds, Elsewhere(j) PROVE RowsKept
  <2>1. /\ jobs[j].state \notin {"absent", "deleted"}
        /\ \A i \in JobIds : i # j => jobs'[i] = jobs[i]
    BY <1>3, Zenon DEF Elsewhere, CancelJob, ReplayJob, ForceFail, StoreTypeOK
  <2>2. jobs[j] \in Row
    BY <2>1 DEF StoreTypeOK, Absent
  <2>3. /\ jobs'[j].state # "absent"
        /\ jobs'[j].tenant = jobs[j].tenant /\ jobs'[j].key = jobs[j].key
    <3>1. ASSUME NEW t \in Tenants, CancelJob(j, t)
          PROVE  /\ jobs'[j].state # "absent"
                 /\ jobs'[j].tenant = jobs[j].tenant /\ jobs'[j].key = jobs[j].key
      BY <2>2, <3>1, Zenon DEF CancelJob, StoreTypeOK, Row
    <3>2. ASSUME NEW t \in Tenants, ReplayJob(j, t)
          PROVE  /\ jobs'[j].state # "absent"
                 /\ jobs'[j].tenant = jobs[j].tenant /\ jobs'[j].key = jobs[j].key
      BY <2>2, <3>2, Zenon DEF ReplayJob, StoreTypeOK, Row
    <3>3. ASSUME ForceFail(j)
          PROVE  /\ jobs'[j].state # "absent"
                 /\ jobs'[j].tenant = jobs[j].tenant /\ jobs'[j].key = jobs[j].key
      BY <2>2, <3>3, Zenon DEF ForceFail, StoreTypeOK, Row
    <3> QED
      BY <1>3, <3>1, <3>2, <3>3, Zenon DEF Elsewhere
  <2> QED
    BY <2>1, <2>3 DEF RowsKept, Inserted, Absent
<1>4. ASSUME NEW r \in Requests, Insert(r) PROVE RowsKept
  BY <1>1, <1>2, <1>4, Zenon DEF Insert, storeVars
<1> QED
  BY <1>2, <1>3, <1>4, Zenon DEF SubmissionNext, Send, Allow, AllowErrored, Expire, Fetch,
     EnqueueNew, Abandon, Second, submitVars, storeVars

--------------------------------------------------------------------------------
(* The counters of the limiter *)

CounterTable == [Tenants \X Seconds -> [count : Nat, expires : 0..Never]]

\* What INCR does to the counters.
LEMMA IncrementedFacts ==
  ASSUME SubmissionTypeOK, NEW r, Counter(r) \in Tenants \X Seconds
  PROVE  /\ Incremented(r) \in CounterTable
         /\ Incremented(r)[Counter(r)].count = counters[Counter(r)].count + 1
         /\ Incremented(r)[Counter(r)].expires =
              IF counters[Counter(r)].count = 0 THEN Never
              ELSE counters[Counter(r)].expires
         /\ \A k \in Tenants \X Seconds : k # Counter(r) => Incremented(r)[k] = counters[k]
<1> DEFINE c == Counter(r)
           x == [count |-> counters[c].count + 1,
                 expires |-> IF counters[c].count = 0 THEN Never ELSE counters[c].expires]
<1>1. counters \in CounterTable /\ counters[c] \in [count : Nat, expires : 0..Never]
  BY Zenon DEF SubmissionTypeOK, CounterTable
<1>2. Never \in 0..Never
  BY SubmissionAssumption DEF Never
<1>3. x \in [count : Nat, expires : 0..Never]
  BY <1>1, <1>2
<1>4. /\ x.count = counters[c].count + 1
      /\ x.expires = IF counters[c].count = 0 THEN Never ELSE counters[c].expires
  BY Zenon
<1>5. Incremented(r) = [counters EXCEPT ![c] = x]
  BY Zenon DEF Incremented
<1> HIDE DEF x
<1>6. Incremented(r)[c] = x
  BY <1>1, <1>5, Zenon DEF CounterTable
<1>7. Incremented(r) \in CounterTable
  BY <1>1, <1>3, <1>5, Zenon DEF CounterTable
<1>8. \A k \in Tenants \X Seconds : k # c => Incremented(r)[k] = counters[k]
  BY <1>1, <1>5, Zenon DEF CounterTable
<1> QED
  BY <1>4, <1>6, <1>7, <1>8, Zenon

\* A counter that INCR makes has no TTL yet; one that is there keeps its TTL.
LEMMA IncrementedOutlasts ==
  ASSUME SubmissionTypeOK, CountersOutlast, NEW r, Counter(r) \in Tenants \X Seconds,
         counters' = Incremented(r)
  PROVE  /\ counters' \in CounterTable
         /\ CountersOutlast'
         /\ \A k \in Tenants \X Seconds : counters[k].count <= counters'[k].count
         /\ counters'[Counter(r)].count = counters[Counter(r)].count + 1
<1>1. \A k \in Tenants \X Seconds :
        /\ counters[k].count \in Nat /\ counters[k].expires \in Nat
        /\ k[2] \in 0..MaxTime
  BY DEF SubmissionTypeOK, Seconds
<1>2. ASSUME NEW k \in Tenants \X Seconds, k # Counter(r)
      PROVE  counters'[k] = counters[k]
  BY <1>2, IncrementedFacts, Zenon
<1>3. counters'[Counter(r)].count = counters[Counter(r)].count + 1
  BY IncrementedFacts, Zenon
<1>4. ASSUME NEW k \in Tenants \X Seconds, k = Counter(r)
      PROVE  counters'[k].expires > k[2] + MaxStall
  <2>1. CASE counters[k].count = 0
    <3>1. counters'[k].expires = Never
      BY <1>4, <2>1, IncrementedFacts, Zenon
    <3>2. Never > k[2] + MaxStall
      BY <1>1, SubmissionAssumption DEF Never
    <3> QED
      BY <3>1, <3>2, Zenon
  <2>2. CASE counters[k].count # 0
    <3>1. counters'[k].expires = counters[k].expires
      BY <1>4, <2>2, IncrementedFacts, Zenon
    <3>2. counters[k].count > 0
      BY <1>1, <2>2
    <3> QED
      BY <3>1, <3>2, Zenon DEF CountersOutlast
  <2> QED
    BY <2>1, <2>2, Zenon
<1>5. CountersOutlast'
  BY <1>2, <1>4, Zenon DEF CountersOutlast
<1>6. \A k \in Tenants \X Seconds : counters[k].count <= counters'[k].count
  BY <1>1, <1>2, <1>3
<1> QED
  BY <1>3, <1>5, <1>6, IncrementedFacts, Zenon

\* EXPIRE changes no count, and the TTL is longer than any request may stall.
LEMMA ExpireOutlasts ==
  ASSUME SubmissionTypeOK, CountersOutlast, AllowSteps, NEW r \in Requests, Expire(r)
  PROVE  /\ counters' \in CounterTable
         /\ CountersOutlast'
         /\ \A k \in Tenants \X Seconds : counters'[k].count = counters[k].count
<1>1. /\ r \in Received /\ Counter(r) \in Tenants \X Seconds
      /\ req[r].window \in Seconds
  BY StepOfReceived, Zenon
<1>2. CASE UNCHANGED counters
  BY <1>2, Zenon DEF CountersOutlast, SubmissionTypeOK, CounterTable
<1>3. CASE counters' = [counters EXCEPT ![Counter(r)] = [@ EXCEPT !.expires = Expiry]]
  <2> DEFINE c == Counter(r)
             x == [counters[c] EXCEPT !.expires = Expiry]
  <2>1. counters \in CounterTable /\ counters[c] \in [count : Nat, expires : 0..Never]
    BY <1>1, Zenon DEF SubmissionTypeOK, CounterTable
  <2>2. Expiry \in 0..Never /\ Expiry > req[r].window + MaxStall
    BY <1>1, SubmissionAssumption
       DEF Expiry, Never, Seconds, AllowSteps, SubmissionTypeOK
  <2>3. x \in [count : Nat, expires : 0..Never] /\ x.count = counters[c].count
          /\ x.expires = Expiry
    BY <2>1, <2>2, Zenon
  <2>4. counters' = [counters EXCEPT ![c] = x]
    BY <1>3, Zenon
  <2> HIDE DEF x
  <2>5. counters' \in CounterTable /\ counters'[c] = x
    BY <1>1, <2>1, <2>3, <2>4, Zenon DEF CounterTable
  <2>6. \A k \in Tenants \X Seconds : k # c => counters'[k] = counters[k]
    BY <2>1, <2>4, Zenon DEF CounterTable
  <2>7. c[2] = req[r].window
    BY Zenon DEF Counter
  <2>8. CountersOutlast'
    BY <2>2, <2>3, <2>5, <2>6, <2>7, Zenon DEF CountersOutlast
  <2> QED
    BY <2>3, <2>5, <2>6, <2>8, Zenon
<1> QED
  BY <1>2, <1>3, Zenon DEF Expire

\* A request as the limiter sees it after a step that leaves the counts alone: as
\* before, or just received.
SameForLimiter(q) ==
  \/ /\ q \in Received
     /\ Counter(q)' = Counter(q) /\ req'[q].window = req[q].window
     /\ req'[q].count = req[q].count
     /\ In(q, "allow")' => In(q, "allow")
     /\ In(q, "expire")' => In(q, "expire")
     /\ ~In(q, "answered")' => req'[q].status = 0
     /\ req'[q].status # 429 => MayPass(req[q].count)
  \/ /\ In(q, "allow")' /\ req'[q].window = second
     /\ req'[q].count = 0 /\ req'[q].status = 0

\* Steps that leave the counts of all requests alone keep the limiter's invariant.
LEMMA LimiterQuiet ==
  ASSUME SubmissionTypeOK, SubmissionTypeOK', LimiterInv, UNCHANGED second, CountersOutlast',
         \A k \in Tenants \X Seconds : counters[k].count <= counters'[k].count,
         \A q \in Received' : SameForLimiter(q)
  PROVE  LimiterInv'
<1> DEFINE New(q) == In(q, "allow")' /\ req'[q].window = second
                       /\ req'[q].count = 0 /\ req'[q].status = 0
           Old(q) == /\ q \in Received
                     /\ Counter(q)' = Counter(q) /\ req'[q].window = req[q].window
                     /\ req'[q].count = req[q].count
                     /\ In(q, "allow")' => In(q, "allow")
                     /\ In(q, "expire")' => In(q, "expire")
                     /\ ~In(q, "answered")' => req'[q].status = 0
                     /\ req'[q].status # 429 => MayPass(req[q].count)
<1>1. \A q \in Received' : Old(q) \/ New(q)
  BY DEF SameForLimiter
<1>2. second \in Nat /\ second' = second /\ MaxStall \in Nat
  BY SubmissionAssumption DEF SubmissionTypeOK, Seconds
<1>3. ASSUME NEW q \in Received'
      PROVE  /\ Counter(q)' \in Tenants \X Seconds
             /\ counters'[Counter(q)'].count \in Nat /\ req'[q].window \in Nat
  <2>1. req'[q] \in Request
    BY DEF SubmissionTypeOK, Received, In, NotSent
  <2>2. Counter(q)' \in Tenants \X Seconds /\ req'[q].window \in Nat
    BY <2>1 DEF Request, Counter, Seconds
  <2> QED
    BY <2>2, Zenon DEF SubmissionTypeOK
<1>4. ASSUME NEW q \in Received
      PROVE  /\ Counter(q) \in Tenants \X Seconds
             /\ counters[Counter(q)].count \in Nat
             /\ req[q].count \in Nat /\ req[q].window \in Nat
  <2>1. req[q] \in Request
    BY DEF SubmissionTypeOK, Received, In, NotSent
  <2>2. Counter(q) \in Tenants \X Seconds /\ req[q].window \in Nat /\ req[q].count \in Nat
    BY <2>1 DEF Request, Counter, Seconds
  <2> QED
    BY <2>2, Zenon DEF SubmissionTypeOK
<1>5. AllowSteps'
  <2> SUFFICES ASSUME NEW q \in Received'
               PROVE  /\ req'[q].window <= second
                      /\ In(q, "allow")' => second <= req'[q].window + MaxStall
                                              /\ req'[q].count = 0
                      /\ In(q, "expire")' => req'[q].count = 1
                      /\ ~In(q, "answered")' => req'[q].status = 0
    BY <1>2, Zenon DEF AllowSteps
  <2>1. CASE Old(q)
    BY <2>1, Zenon DEF LimiterInv, AllowSteps
  <2>2. CASE New(q)
    BY <1>2, <2>2 DEF In
  <2> QED
    BY <1>1, <2>1, <2>2
<1>6. CountsChecked'
  BY <1>1 DEF CountsChecked, MayPass
<1>7. ASSUME NEW q \in Received'
      PROVE  req'[q].count <= counters'[Counter(q)'].count \/ second > req'[q].window + MaxStall
  <2>1. CASE Old(q)
    <3>1. req[q].count <= counters[Counter(q)].count \/ second > req[q].window + MaxStall
      BY <2>1, Zenon DEF LimiterInv, CountsDiffer
    <3>2. counters[Counter(q)].count <= counters'[Counter(q)'].count
      BY <1>4, <2>1, Zenon
    <3> QED
      BY <1>3, <1>4, <2>1, <3>1, <3>2
  <2>2. CASE New(q)
    BY <1>3, <2>2
  <2> QED
    BY <1>1, <2>1, <2>2
<1>8. ASSUME NEW q \in Received', NEW r \in Received', Counter(q)' = Counter(r)',
             req'[q].count = req'[r].count, req'[r].count > 0
      PROVE  q = r
  <2>1. Old(q) /\ Old(r)
    BY <1>1, <1>8
  <2> QED
    BY <1>8, <2>1, Zenon DEF LimiterInv, CountsDiffer
<1>9. CountsDiffer'
  BY <1>2, <1>7, <1>8, Zenon DEF CountsDiffer
<1> QED
  BY <1>5, <1>6, <1>9, Zenon DEF LimiterInv

\* A request that was received, and the counter of its second.
LEMMA ReceivedTyped ==
  ASSUME SubmissionTypeOK, NEW q \in Received
  PROVE  /\ q \in Requests /\ req[q] \in Request
         /\ Counter(q) \in Tenants \X Seconds /\ Counter(q)[2] = req[q].window
         /\ counters[Counter(q)].count \in Nat /\ counters[Counter(q)].expires \in Nat
         /\ req[q].count \in Nat /\ req[q].window \in Nat
<1>1. q \in Requests /\ req[q] \in Request
  BY DEF SubmissionTypeOK, Received, In, NotSent
<1>2. Counter(q) \in Tenants \X Seconds /\ req[q].window \in Nat /\ req[q].count \in Nat
  BY <1>1 DEF Request, Counter, Seconds
<1>3. Counter(q)[2] = req[q].window
  BY Zenon DEF Counter
<1>4. counters[Counter(q)] \in [count : Nat, expires : 0..Never]
  BY <1>2, Zenon DEF SubmissionTypeOK
<1> QED
  BY <1>1, <1>2, <1>3, <1>4

\* INCR returns a count that no other request of the second has, as the counter
\* has been there since the first of them.
LEMMA LimiterAllow ==
  ASSUME SubmissionTypeOK, SubmissionTypeOK', LimiterInv, NEW r \in Requests, Allow(r)
  PROVE  LimiterInv'
<1> DEFINE c == Counter(r)
           n == counters[c].count + 1
<1>1. /\ r \in Received /\ req[r] \in Request /\ c \in Tenants \X Seconds
      /\ req[r].status \in Statuses /\ req[r].job \in JobIds \cup {0}
      /\ counters[c].count \in Nat /\ req[r].window \in Nat
  BY StepOfReceived, ReceivedTyped, Zenon
<1>2. second \in Nat /\ second' = second /\ MaxStall \in Nat
  BY SubmissionAssumption DEF SubmissionTypeOK, Seconds, Allow
<1>3. /\ second <= req[r].window + MaxStall /\ req[r].window <= second
      /\ req[r].status = 0
  BY <1>1, Zenon DEF LimiterInv, AllowSteps, Allow, In
<1>4. n \in Nat /\ n >= 1
  BY <1>1
<1>5. PICK p \in {"expire", "insert", "answered"}, s \in {req[r].status, 429},
           j \in {req[r].job, 0} :
        /\ Turns(r, p, n, s, j)
        /\ p = "expire" => n = 1
        /\ s # 429 => n = 1 \/ n <= RateLimit
        /\ p # "answered" => s = req[r].status
  BY AllowTurns
<1>6. /\ \A q \in Requests : q # r => req'[q] = req[q]
      /\ req'[r].pc = p /\ req'[r].count = n /\ req'[r].status = s
      /\ req'[r].tenant = req[r].tenant /\ req'[r].window = req[r].window
  <2>1. s \in Statuses /\ j \in JobIds \cup {0}
    BY <1>1 DEF Statuses
  <2>2. p \in Steps
    BY Zenon DEF Steps
  <2> HIDE DEF n
  <2> QED
    BY <1>1, <1>4, <1>5, <2>1, <2>2, TurnsFacts
<1>7. /\ CountersOutlast'
      /\ \A k \in Tenants \X Seconds : counters[k].count <= counters'[k].count
      /\ counters'[c].count = n
  BY <1>1, IncrementedOutlasts DEF Allow, LimiterInv
<1> HIDE DEF c, n
<1>8. /\ Counter(r)' = c /\ Counter(r) = c
      /\ \A q \in Requests : q # r => Counter(q)' = Counter(q)
  BY <1>6 DEF Counter, c
<1>9. \A q \in Received' : q # r => q \in Received /\ req'[q] = req[q]
  BY <1>6 DEF Received, In
<1>10. AllowSteps'
  <2> SUFFICES ASSUME NEW q \in Received'
               PROVE  /\ req'[q].window <= second
                      /\ In(q, "allow")' => second <= req'[q].window + MaxStall
                                              /\ req'[q].count = 0
                      /\ In(q, "expire")' => req'[q].count = 1
                      /\ ~In(q, "answered")' => req'[q].status = 0
    BY <1>2 DEF AllowSteps
  <2>1. CASE q = r
    BY <1>3, <1>5, <1>6, <2>1 DEF In
  <2>2. CASE q # r
    BY <1>9, <2>2 DEF LimiterInv, AllowSteps, In
  <2> QED
    BY <2>1, <2>2, Zenon
<1>11. CountsChecked'
  <2> SUFFICES ASSUME NEW q \in Received', req'[q].status # 429
               PROVE  MayPass(req'[q].count)
    BY Zenon DEF CountsChecked, MayPass
  <2>1. CASE q = r
    BY <1>2, <1>4, <1>5, <1>6, <2>1 DEF MayPass
  <2>2. CASE q # r
    BY <1>9, <2>2 DEF LimiterInv, CountsChecked
  <2> QED
    BY <2>1, <2>2, Zenon
<1>12. ASSUME NEW q \in Received'
       PROVE  req'[q].count <= counters'[Counter(q)'].count \/ second > req'[q].window + MaxStall
  <2>1. CASE q = r
    BY <1>4, <1>6, <1>7, <1>8, <2>1
  <2>2. CASE q # r
    <3>0. q \in Received /\ req'[q] = req[q]
      BY <1>9, <2>2
    <3>1. /\ q \in Requests /\ Counter(q) \in Tenants \X Seconds
          /\ counters[Counter(q)].count \in Nat /\ req[q].count \in Nat
      BY <3>0, ReceivedTyped
    <3>2. req[q].count <= counters[Counter(q)].count \/ second > req[q].window + MaxStall
      BY <3>0 DEF LimiterInv, CountsDiffer
    <3>3. /\ counters[Counter(q)].count <= counters'[Counter(q)'].count
          /\ counters'[Counter(q)'].count \in Nat
      BY <1>7, <1>8, <2>2, <3>1 DEF SubmissionTypeOK
    <3> QED
      BY <3>0, <3>1, <3>2, <3>3
  <2> QED
    BY <2>1, <2>2, Zenon
<1>13. ASSUME NEW q \in Received, q # r, Counter(q) = c
       PROVE  req[q].count < n /\ req[q].count \in Nat
  <2>1. /\ req[q].count \in Nat /\ req[q].window = req[r].window
        /\ counters[Counter(q)].count = n - 1 /\ n \in Int
    BY <1>1, <1>13, ReceivedTyped DEF c, n
  <2>2. req[q].count <= counters[Counter(q)].count \/ second > req[q].window + MaxStall
    BY DEF LimiterInv, CountsDiffer
  <2> QED
    BY <1>1, <1>2, <1>3, <2>1, <2>2
<1>14. ASSUME NEW q \in Received', NEW i \in Received', Counter(q)' = Counter(i)',
              req'[q].count = req'[i].count, req'[i].count > 0
       PROVE  q = i
  <2>0. q \in Requests /\ i \in Requests
    BY Zenon DEF Received
  <2>1. CASE q # r /\ i # r
    BY <1>8, <1>9, <1>14, <2>0, <2>1, Zenon DEF LimiterInv, CountsDiffer
  <2>2. CASE q # r /\ i = r
    BY <1>4, <1>6, <1>8, <1>9, <1>13, <1>14, <2>0, <2>2
  <2>3. CASE q = r /\ i # r
    BY <1>4, <1>6, <1>8, <1>9, <1>13, <1>14, <2>0, <2>3
  <2> QED
    BY <2>1, <2>2, <2>3, Zenon
<1>15. CountsDiffer'
  BY <1>2, <1>12, <1>14 DEF CountsDiffer
<1> QED
  BY <1>7, <1>10, <1>11, <1>15, Zenon DEF LimiterInv

\* A counter that vanishes leaves no request of its second before INCR.
LEMMA LimiterSecond ==
  ASSUME SubmissionTypeOK, LimiterInv, Second
  PROVE  LimiterInv'
<1>1. /\ second \in Nat /\ second' = second + 1 /\ MaxStall \in Nat
      /\ req' = req /\ Received' = Received
      /\ \A r \in Requests : In(r, "allow") => second < req[r].window + MaxStall
  BY SubmissionAssumption DEF SubmissionTypeOK, Seconds, Second, Received, In
<1>2. \A k \in Tenants \X Seconds :
        /\ counters'[k] = IF counters[k].expires <= second + 1 THEN NoCounter ELSE counters[k]
        /\ k[2] \in Nat /\ counters[k].count \in Nat /\ counters[k].expires \in Nat
  BY DEF Second, SubmissionTypeOK, Seconds
<1>3. NoCounter.count = 0
  BY Zenon DEF NoCounter
<1>4. CountersOutlast'
  BY <1>2, <1>3 DEF LimiterInv, CountersOutlast
<1>5. AllowSteps'
  <2> SUFFICES ASSUME NEW r \in Received
               PROVE  /\ req[r].window <= second + 1
                      /\ In(r, "allow") => second + 1 <= req[r].window + MaxStall
                                             /\ req[r].count = 0
                      /\ In(r, "expire") => req[r].count = 1
                      /\ ~In(r, "answered") => req[r].status = 0
    BY <1>1, Zenon DEF AllowSteps, In
  <2>1. req[r].window \in Nat /\ r \in Requests
    BY ReceivedTyped, Zenon
  <2> QED
    BY <1>1, <2>1 DEF LimiterInv, AllowSteps
<1>6. CountsDiffer'
  <2>1. ASSUME NEW r \in Received
        PROVE  \/ req[r].count <= counters'[Counter(r)].count
               \/ second + 1 > req[r].window + MaxStall
    <3>1. /\ Counter(r) \in Tenants \X Seconds /\ Counter(r)[2] = req[r].window
          /\ counters[Counter(r)].count \in Nat /\ counters[Counter(r)].expires \in Nat
          /\ req[r].count \in Nat /\ req[r].window \in Nat
      BY ReceivedTyped, Zenon
    <3>2. req[r].count <= counters[Counter(r)].count \/ second > req[r].window + MaxStall
      BY Zenon DEF LimiterInv, CountsDiffer
    <3>3. CASE counters'[Counter(r)] = counters[Counter(r)]
      BY <1>1, <3>1, <3>2, <3>3
    <3>4. CASE counters[Counter(r)].expires <= second + 1 /\ counters[Counter(r)].count > 0
      <4>1. counters[Counter(r)].expires > req[r].window + MaxStall
        BY <3>1, <3>4, Zenon DEF LimiterInv, CountersOutlast
      <4> QED
        BY <1>1, <3>1, <3>4, <4>1
    <3>5. CASE counters[Counter(r)].count = 0 /\ counters'[Counter(r)] = NoCounter
      BY <1>1, <1>3, <3>1, <3>2, <3>5
    <3> QED
      BY <1>2, <3>1, <3>3, <3>4, <3>5
  <2>2. \A r \in Received : Counter(r)' = Counter(r)
    BY <1>1, Zenon DEF Counter
  <2>3. \A q, r \in Received :
          Counter(q) = Counter(r) /\ req[q].count = req[r].count /\ req[r].count > 0 => q = r
    BY Zenon DEF LimiterInv, CountsDiffer
  <2> QED
    BY <1>1, <2>1, <2>2, <2>3 DEF CountsDiffer
<1>7. CountsChecked'
  BY <1>1, Zenon DEF LimiterInv, CountsChecked
<1> QED
  BY <1>4, <1>5, <1>6, <1>7, Zenon DEF LimiterInv

--------------------------------------------------------------------------------
(* The steps *)

LaterSteps == {"insert", "fetch", "enqueue", "answered", "gone"}

\* A request goes on without a new count: it is not at an earlier step than the
\* INSERT then, and has a status other than 0 only with its answer.
GoesOn(r) ==
  \E p \in LaterSteps, s \in Statuses, j \in JobIds \cup {0} :
    /\ Turns(r, p, req[r].count, s, j)
    /\ p # "answered" => s = req[r].status

\* All steps of a request after Allow's INCR are of this kind.
LEMMA StepsGoOn ==
  ASSUME SubmissionTypeOK, AllowSteps, NEW r \in Requests,
         AllowErrored(r) \/ Expire(r) \/ Insert(r) \/ Fetch(r) \/ EnqueueNew(r) \/ Abandon(r)
  PROVE  GoesOn(r)
<1>1. /\ r \in Received /\ req[r] \in Request
      /\ req[r].status \in Statuses /\ req[r].job \in JobIds \cup {0}
  BY StepOfReceived DEF Statuses
<1>2. ASSUME NEW p \in LaterSteps, NEW s \in Statuses, NEW j \in JobIds \cup {0},
             Turns(r, p, req[r].count, s, j), p # "answered" => s = req[r].status
      PROVE  GoesOn(r)
  BY <1>2, Zenon DEF GoesOn
<1>3. CASE AllowErrored(r)
  <2>1. Turns(r, "insert", req[r].count, req[r].status, req[r].job)
    BY <1>1, <1>3, SentToTurns, Zenon DEF AllowErrored
  <2> QED
    BY <1>1, <1>2, <2>1, Zenon DEF LaterSteps
<1>4. CASE Abandon(r)
  <2>1. Turns(r, "gone", req[r].count, req[r].status, req[r].job)
    BY <1>1, <1>4, SentToTurns, Zenon DEF Abandon
  <2> QED
    BY <1>1, <1>2, <2>1, Zenon DEF LaterSteps
<1>5. CASE Expire(r)
  <2>1. req[r].count = 1
    BY <1>1, <1>5, Zenon DEF AllowSteps, Expire
  <2>2. PICK p \in {"insert", "answered"}, s \in {req[r].status, 429}, j \in {req[r].job, 0} :
          Turns(r, p, req[r].count, s, j) /\ (p # "answered" => s = req[r].status)
    BY <1>5, <2>1, ExpireTurns
  <2>3. p \in LaterSteps /\ s \in Statuses /\ j \in JobIds \cup {0}
    BY <1>1 DEF LaterSteps, Statuses
  <2> QED
    BY <1>2, <2>2, <2>3, Zenon
<1>6. CASE Insert(r)
  <2>1. \/ \E j \in JobIds : \/ Turns(r, "enqueue", req[r].count, req[r].status, j)
                             \/ Turns(r, "answered", req[r].count, 201, j)
        \/ Turns(r, "fetch", req[r].count, req[r].status, req[r].job)
        \/ Turns(r, "answered", req[r].count, 500, 0)
    BY <1>6, InsertTurns, Zenon
  <2>2. /\ {"enqueue", "answered", "fetch"} \subseteq LaterSteps
        /\ 201 \in Statuses /\ 500 \in Statuses
    BY DEF LaterSteps, Statuses
  <2> QED
    BY <1>1, <1>2, <2>1, <2>2
<1>7. CASE Fetch(r)
  <2>1. \/ \E j \in JobIds : Turns(r, "answered", req[r].count, 200, j)
        \/ Turns(r, "answered", req[r].count, 409, 0)
    BY <1>7, FetchTurns, Zenon
  <2>2. "answered" \in LaterSteps /\ 200 \in Statuses /\ 409 \in Statuses
    BY DEF LaterSteps, Statuses
  <2> QED
    BY <1>2, <2>1, <2>2
<1>8. CASE EnqueueNew(r)
  BY <1>1, <1>2, <1>8, EnqueueTurns DEF LaterSteps, Statuses
<1> QED
  BY <1>3, <1>4, <1>5, <1>6, <1>7, <1>8, Zenon

\* The limiter sees no difference in a request that goes on.
LEMMA GoesOnSame ==
  ASSUME SubmissionTypeOK, LimiterInv, NEW r \in Received, ~In(r, "answered"), GoesOn(r)
  PROVE  /\ req' \in [Requests -> Request \cup {NotSent}]
         /\ \A q \in Received' : SameForLimiter(q)
<1>1. r \in Requests /\ req[r] \in Request /\ req[r].count \in Nat
  BY ReceivedTyped, Zenon
<1>2. PICK p \in LaterSteps, s \in Statuses, j \in JobIds \cup {0} :
        /\ Turns(r, p, req[r].count, s, j)
        /\ p # "answered" => s = req[r].status
  BY Zenon DEF GoesOn
<1>3. /\ req' \in [Requests -> Request \cup {NotSent}]
      /\ \A q \in Requests : q # r => req'[q] = req[q]
      /\ req'[r].pc = p /\ req'[r].count = req[r].count /\ req'[r].status = s
      /\ req'[r].tenant = req[r].tenant /\ req'[r].window = req[r].window
  <2>1. p \in Steps
    BY Zenon DEF LaterSteps, Steps
  <2> QED
    BY <1>1, <1>2, <2>1, TurnsFacts
<1>4. req[r].status = 0 /\ MayPass(req[r].count)
  BY DEF LimiterInv, AllowSteps, CountsChecked
<1>5. SameForLimiter(r)
  BY <1>2, <1>3, <1>4, Zenon DEF SameForLimiter, Counter, In, LaterSteps
<1>6. ASSUME NEW q \in Received', q # r PROVE SameForLimiter(q)
  <2>1. q \in Received /\ req'[q] = req[q]
    BY <1>3, <1>6, Zenon DEF Received, In
  <2> QED
    BY <2>1 DEF SameForLimiter, Counter, In, LimiterInv, AllowSteps, CountsChecked
<1> QED
  BY <1>3, <1>5, <1>6, Zenon

\* Nor in requests that stay as they are, or in a new one.
LEMMA SendSame ==
  ASSUME SubmissionTypeOK, LimiterInv, NEW r \in Requests, Send(r)
  PROVE  /\ req' \in [Requests -> Request \cup {NotSent}]
         /\ \A q \in Received' : SameForLimiter(q)
<1>1. PICK t \in Tenants, k \in IdemKeys \cup {NoKey} :
        req' = [req EXCEPT ![r] = [pc |-> "allow", tenant |-> t, key |-> k, window |-> second,
                                   count |-> 0, status |-> 0, job |-> 0]]
  BY Zenon DEF Send, Put
<1> DEFINE x == [pc |-> "allow", tenant |-> t, key |-> k, window |-> second,
                 count |-> 0, status |-> 0, job |-> 0]
<1>2. /\ x \in Request
      /\ x.pc = "allow" /\ x.window = second /\ x.count = 0 /\ x.status = 0
  BY DEF Request, Steps, Statuses, SubmissionTypeOK
<1>3. req' = [req EXCEPT ![r] = x] /\ req \in [Requests -> Request \cup {NotSent}]
  BY <1>1, Zenon DEF SubmissionTypeOK
<1> HIDE DEF x
<1>4. /\ req' \in [Requests -> Request \cup {NotSent}] /\ req'[r] = x
      /\ \A q \in Requests : q # r => req'[q] = req[q]
  BY <1>2, <1>3, Zenon
<1>5. SameForLimiter(r)
  BY <1>2, <1>4, Zenon DEF SameForLimiter, In
<1>6. ASSUME NEW q \in Received', q # r PROVE SameForLimiter(q)
  <2>1. q \in Received /\ req'[q] = req[q]
    BY <1>4, <1>6, Zenon DEF Received, In
  <2> QED
    BY <2>1 DEF SameForLimiter, Counter, In, LimiterInv, AllowSteps, CountsChecked
<1> QED
  BY <1>4, <1>5, <1>6, Zenon

\* The steps by what they do to the limiter: a second passes; Allow counts; a
\* request is received or goes on; or it is none of its business.
LEMMA StepKinds ==
  ASSUME SubmissionTypeOK, LimiterInv, [SubmissionNext]_submitVars
  PROVE  \/ Second
         \/ \E r \in Requests : Allow(r)
         \/ /\ UNCHANGED second
            /\ req' \in [Requests -> Request \cup {NotSent}]
            /\ \A q \in Received' : SameForLimiter(q)
            /\ \/ UNCHANGED counters
               \/ \E r \in Requests : Expire(r)
               \/ \E r \in Requests : AllowErrored(r) /\ counters' = Incremented(r)
<1> DEFINE Quiet == /\ UNCHANGED second
                    /\ req' \in [Requests -> Request \cup {NotSent}]
                    /\ \A q \in Received' : SameForLimiter(q)
                    /\ \/ UNCHANGED counters
                       \/ \E r \in Requests : Expire(r)
                       \/ \E r \in Requests : AllowErrored(r) /\ counters' = Incremented(r)
<1>1. ASSUME NEW r \in Requests, Send(r) PROVE Quiet
  BY <1>1, SendSame, Zenon DEF Send
<1>2. ASSUME NEW r \in Requests,
             AllowErrored(r) \/ Expire(r) \/ Insert(r) \/ Fetch(r) \/ EnqueueNew(r) \/ Abandon(r)
      PROVE  Quiet
  <2>1. r \in Received /\ ~In(r, "answered")
    <3>1. r \in Received
      BY <1>2, StepOfReceived, Zenon
    <3>2. ~In(r, "answered")
      BY <1>2, Zenon DEF AllowErrored, Expire, Insert, Fetch, EnqueueNew, Abandon, In
    <3> QED
      BY <3>1, <3>2, Zenon
  <2>2. GoesOn(r)
    BY <1>2, StepsGoOn, Zenon DEF LimiterInv
  <2>3. /\ req' \in [Requests -> Request \cup {NotSent}]
        /\ \A q \in Received' : SameForLimiter(q)
    BY <2>1, <2>2, GoesOnSame, Zenon
  <2>4. /\ UNCHANGED second
        /\ UNCHANGED counters \/ Expire(r) \/ (AllowErrored(r) /\ counters' = Incremented(r))
    BY <1>2, Zenon DEF AllowErrored, Expire, Insert, Fetch, EnqueueNew, Abandon
  <2> QED
    BY <2>3, <2>4, Zenon
<1>3. ASSUME UNCHANGED <<second, counters, req>> PROVE Quiet
  <2>1. ASSUME NEW q \in Received' PROVE SameForLimiter(q)
    <3>1. q \in Received /\ req'[q] = req[q]
      BY <1>3, <2>1, Zenon DEF Received, In
    <3> QED
      BY <1>3, <3>1 DEF SameForLimiter, Counter, In, LimiterInv, AllowSteps, CountsChecked
  <2> QED
    BY <1>3, <2>1, Zenon DEF SubmissionTypeOK
<1> HIDE DEF Quiet
<1>4. Second \/ (\E r \in Requests : Allow(r)) \/ Quiet
  BY <1>1, <1>2, <1>3, Zenon DEF SubmissionNext, Elsewhere, submitVars
<1> QED
  BY <1>4, Zenon DEF Quiet

\* The counters stay well-formed and outlast their seconds.
LEMMA CountersStep ==
  ASSUME SubmissionTypeOK, LimiterInv, [SubmissionNext]_submitVars
  PROVE  /\ counters' \in CounterTable
         /\ ~Second => /\ CountersOutlast'
                       /\ \A k \in Tenants \X Seconds : counters[k].count <= counters'[k].count
<1>1. CountersOutlast /\ AllowSteps /\ counters \in CounterTable
  BY Zenon DEF LimiterInv, SubmissionTypeOK, CounterTable
<1>2. \A k \in Tenants \X Seconds : counters[k].count \in Nat
  BY <1>1, Zenon DEF CounterTable
<1>3. CASE Second
  <2>1. NoCounter \in [count : Nat, expires : 0..Never]
    BY SubmissionAssumption DEF NoCounter, Never
  <2> QED
    BY <1>1, <1>3, <2>1, Zenon DEF Second, CounterTable
<1>4. ASSUME NEW r \in Requests, Allow(r) \/ (AllowErrored(r) /\ counters' = Incremented(r))
      PROVE  /\ counters' \in CounterTable /\ CountersOutlast'
             /\ \A k \in Tenants \X Seconds : counters[k].count <= counters'[k].count
  <2>1. Counter(r) \in Tenants \X Seconds
    BY <1>4, StepOfReceived, Zenon
  <2>2. counters' = Incremented(r)
    BY <1>4, Zenon DEF Allow
  <2> QED
    BY <1>1, <2>1, <2>2, IncrementedOutlasts, Zenon
<1>5. ASSUME NEW r \in Requests, Expire(r)
      PROVE  /\ counters' \in CounterTable /\ CountersOutlast'
             /\ \A k \in Tenants \X Seconds : counters[k].count <= counters'[k].count
  <2>1. /\ counters' \in CounterTable /\ CountersOutlast'
        /\ \A k \in Tenants \X Seconds : counters'[k].count = counters[k].count
    BY <1>1, <1>5, ExpireOutlasts, Zenon
  <2> QED
    BY <1>2, <2>1
<1>6. CASE UNCHANGED counters
  BY <1>1, <1>2, <1>6 DEF CountersOutlast
<1> QED
  BY <1>3, <1>4, <1>5, <1>6, StepKinds, Zenon

\* Every step keeps the limiter's invariant.
LEMMA LimiterStep ==
  ASSUME SubmissionTypeOK, SubmissionTypeOK', LimiterInv, [SubmissionNext]_submitVars
  PROVE  LimiterInv'
<1>1. CASE Second
  BY <1>1, LimiterSecond, Zenon
<1>2. ASSUME NEW r \in Requests, Allow(r) PROVE LimiterInv'
  BY <1>2, LimiterAllow, Zenon
<1>3. CASE ~Second /\ UNCHANGED second /\ \A q \in Received' : SameForLimiter(q)
  <2>1. /\ CountersOutlast'
        /\ \A k \in Tenants \X Seconds : counters[k].count <= counters'[k].count
    BY <1>3, CountersStep, Zenon
  <2> QED
    BY <1>3, <2>1, LimiterQuiet, Zenon
<1> QED
  BY <1>1, <1>2, <1>3, StepKinds, Zenon
================================================================================
