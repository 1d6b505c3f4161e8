---------------------------- MODULE SubmissionProofs ---------------------------
(***************************************************************************)
(* What handleSubmitJob and the rate limiter promise, proved for any       *)
(* number of requests, tenants, keys and faults, any rate limit, and any   *)
(* TTL of the counters that is longer than a request may stall.            *)
(***************************************************************************)
EXTENDS SubmissionSteps, JobStoreProofs, FiniteSetTheorems

\* A step has at most one fault.
LEMMA FaultsStep ==
  ASSUME [SubmissionNext]_submitVars
  PROVE  faults' \in {faults, faults + 1}
<1>1. faults' = faults \/ faults' = faults + 1
  BY ZenonT(40) DEF SubmissionNext, Send, Allow, AllowErrored, Expire, Insert, Fetch,
     EnqueueNew, Enqueue, Abandon, Elsewhere, Second, Fault, NoFault, submitVars
<1> QED
  BY <1>1, Zenon

\* Types are kept: Enqueue is given a row that is there.
LEMMA SubmissionTypesStep ==
  ASSUME SubmissionTypeOK, StoreTypeOK', LimiterInv, AnswerInv, [SubmissionNext]_submitVars
  PROVE  SubmissionTypeOK'
<1>1. faults' \in Nat
  BY FaultsStep DEF SubmissionTypeOK, FaultsTypeOK
<1>2. QueueTypeOK'
  <2>1. QueueTypeOK
    BY Zenon DEF SubmissionTypeOK
  <2>2. CASE UNCHANGED queueVars
    BY <2>1, <2>2, Zenon DEF QueueTypeOK, queueVars
  <2>3. ASSUME NEW r \in Requests, EnqueueNew(r) PROVE QueueTypeOK'
    <3> DEFINE j == req[r].job
               k == KeyOf(j)
    <3>1. r \in Received
      BY <2>3, StepOfReceived, Zenon
    <3>2. j \in JobIds /\ Inserted(j)
      BY <2>3, <3>1, Zenon DEF AnswerInv, RowWith, EnqueueNew
    <3>3. jobs[j] \in Row
      BY <3>2, Zenon DEF SubmissionTypeOK, StoreTypeOK, Inserted
    <3>4. k \in Keys
      BY <3>3, Zenon DEF Row, KeyOf, Keys, bucketForPriority
    <3> DEFINE v == Append(queues[k], j)
    <3>5. UNCHANGED processing /\ (UNCHANGED queues \/ queues' = [queues EXCEPT ![k] = v])
      BY <2>3, Zenon DEF EnqueueNew, Enqueue
    <3> HIDE DEF j, k
    <3>6. queues[k] \in Seq(JobIds)
      BY <2>1, <3>4, Zenon DEF QueueTypeOK
    <3>7. v \in Seq(JobIds)
      BY <3>2, <3>6
    <3> HIDE DEF v
    <3>8. queues' \in [Keys -> Seq(JobIds)]
      BY <2>1, <3>4, <3>5, <3>7, Zenon DEF QueueTypeOK
    <3> QED
      BY <2>1, <3>5, <3>8, Zenon DEF QueueTypeOK
  <2> QED
    BY <2>2, <2>3, Zenon DEF SubmissionNext, Send, Allow, AllowErrored, Expire, Insert, Fetch,
       Abandon, Elsewhere, Second, submitVars
<1>3. second' \in Seconds
  <2>1. CASE Second
    BY <2>1, SubmissionAssumption DEF Second, Seconds, SubmissionTypeOK
  <2>2. CASE UNCHANGED second
    BY <2>2, Zenon DEF SubmissionTypeOK
  <2> QED
    BY <2>1, <2>2, StepKinds, Zenon DEF Allow
<1>4. req' \in [Requests -> Request \cup {NotSent}]
  <2>1. CASE Second
    BY <2>1, Zenon DEF Second, SubmissionTypeOK
  <2>2. ASSUME NEW r \in Requests, Allow(r)
        PROVE  req' \in [Requests -> Request \cup {NotSent}]
    <3>1. /\ req[r] \in Request /\ Counter(r) \in Tenants \X Seconds
          /\ req[r].status \in Statuses /\ req[r].job \in JobIds \cup {0}
      BY <2>2, StepOfReceived DEF Statuses
    <3>2. counters[Counter(r)].count + 1 \in Nat
      BY <3>1 DEF SubmissionTypeOK
    <3>3. PICK p \in {"expire", "insert", "answered"}, s \in {req[r].status, 429},
               j \in {req[r].job, 0} : Turns(r, p, counters[Counter(r)].count + 1, s, j)
      BY <2>2, AllowTurns
    <3>4. p \in Steps /\ s \in Statuses /\ j \in JobIds \cup {0}
      BY <3>1 DEF Steps, Statuses
    <3> QED
      BY <3>1, <3>2, <3>3, <3>4, TurnsFacts
  <2> QED
    BY <2>1, <2>2, StepKinds, Zenon
<1> QED
  BY <1>1, <1>2, <1>3, <1>4, CountersStep, Zenon DEF SubmissionTypeOK, FaultsTypeOK, CounterTable

--------------------------------------------------------------------------------
(* The answers *)

\* Whose job and whose answer a step leaves as they are.
SameAnswer(q) ==
  /\ q \in Received
  /\ req'[q].tenant = req[q].tenant /\ req'[q].key = req[q].key
  /\ req'[q].job = req[q].job
  /\ In(q, "enqueue")' => In(q, "enqueue")
  /\ In(q, "fetch")' => In(q, "fetch")
  /\ In(q, "answered")' /\ req'[q].status = 409 => In(q, "answered") /\ req[q].status = 409

\* What the properties ask of one request.
Agreed(r) ==
  /\ In(r, "enqueue") \/ req[r].job # 0 => RowWith(req[r].job, req[r].tenant, req[r].key)
  /\ In(r, "fetch") => \E j \in JobIds : RowWith(j, req[r].tenant, req[r].key)
  /\ In(r, "answered") /\ req[r].status = 409 /\ faults = 0 =>
       \E j \in JobIds :
         jobs[j].state = "deleted" /\ jobs[j].tenant = req[r].tenant /\ jobs[j].key = req[r].key

AllAgree == \A r \in Received : Agreed(r)

\* Together they are what the invariant says of the answers.
LEMMA AllAgreed == AllAgree <=> AnswerInv /\ ConflictOnlyAfterCancel
<1>1. ASSUME NEW r \in Requests, In(r, "answered") PROVE r \in Received
  BY <1>1, Zenon DEF Received, In
<1>2. Received \subseteq Requests
  BY Zenon DEF Received
<1>3. AllAgree => AnswerInv
  BY Zenon DEF AllAgree, AnswerInv, Agreed
<1>4. AllAgree => ConflictOnlyAfterCancel
  BY <1>1, ZenonT(30) DEF AllAgree, ConflictOnlyAfterCancel, Agreed
<1>5. AnswerInv /\ ConflictOnlyAfterCancel => AllAgree
  BY <1>2, ZenonT(30) DEF AllAgree, AnswerInv, ConflictOnlyAfterCancel, Agreed
<1> QED
  BY <1>3, <1>4, <1>5, Zenon

\* No step takes a fault back, and rows stay, so what was agreed stays agreed.
LEMMA AgreedStays ==
  ASSUME faults \in Nat, faults' \in {faults, faults + 1}, RowsKept, NEW q, Agreed(q),
         SameAnswer(q)
  PROVE  Agreed(q)'
<1>0. PICK t, k, i : req[q].tenant = t /\ req[q].key = k /\ req[q].job = i
  BY Zenon
<1>1. faults' = 0 => faults = 0
  OBVIOUS
<1>2. \A j \in JobIds : RowWith(j, t, k) => RowWith(j, t, k)'
  BY Zenon DEF RowWith, RowsKept
<1>3. \A j \in JobIds : jobs[j].state = "deleted" => Inserted(j)
  BY DEF Inserted, Absent
<1>4. req'[q].tenant = t /\ req'[q].key = k /\ req'[q].job = i
  BY <1>0, Zenon DEF SameAnswer
<1>5. In(q, "enqueue")' \/ i # 0 => RowWith(i, t, k)'
  <2>1. In(q, "enqueue")' \/ i # 0 => RowWith(i, t, k)
    BY <1>0, Zenon DEF Agreed, SameAnswer
  <2>2. RowWith(i, t, k) => i \in JobIds
    BY Zenon DEF RowWith
  <2> QED
    BY <1>2, <2>1, <2>2, Zenon
<1>6. In(q, "fetch")' => \E j \in JobIds : RowWith(j, t, k)'
  BY <1>0, <1>2, Zenon DEF Agreed, SameAnswer
<1>7. In(q, "answered")' /\ req'[q].status = 409 /\ faults' = 0 =>
        \E j \in JobIds : jobs'[j].state = "deleted" /\ jobs'[j].tenant = t /\ jobs'[j].key = k
  BY <1>0, <1>1, <1>3 DEF Agreed, SameAnswer, RowsKept
<1> QED
  BY <1>4, <1>5, <1>6, <1>7 DEF Agreed, RowWith

\* What a step finds, and leaves alone, with respect to the answers.
Agreeing ==
  /\ SubmissionTypeOK /\ StoreTypeOK /\ AllowSteps /\ AllAgree
  /\ RowsKept
  /\ faults \in Nat /\ faults' \in {faults, faults + 1}

\* Requests whose answers a step leaves as they are stay agreed.
LEMMA OthersAgree ==
  ASSUME Agreeing, NEW r, Agreed(r)',
         \A q \in Requests : q # r => req'[q] = req[q]
  PROVE  AllAgree'
<1>1. ASSUME NEW q \in Received', q # r PROVE Agreed(q)'
  <2>1. q \in Received /\ req'[q] = req[q]
    BY <1>1, Zenon DEF Received, In
  <2>2. SameAnswer(q)
    BY <2>1, Zenon DEF SameAnswer, In
  <2>3. /\ Agreed(q) /\ RowsKept
        /\ faults \in Nat /\ faults' \in {faults, faults + 1}
    BY <2>1, Zenon DEF Agreeing, AllAgree
  <2> QED
    BY <2>2, <2>3, AgreedStays, Zenon
<1> QED
  BY <1>1, Zenon DEF AllAgree

\* A step of one request keeps all answers agreed if it does its own.
LEMMA TurnsAgreed ==
  ASSUME Agreeing,
         NEW r \in Received, NEW p \in Steps, NEW n \in Nat, NEW s \in Statuses,
         NEW j \in JobIds \cup {0}, Turns(r, p, n, s, j),
         NEW t, NEW k, req[r].tenant = t, req[r].key = k,
         p = "enqueue" \/ j # 0 => RowWith(j, t, k)',
         p = "fetch" => \E i \in JobIds : RowWith(i, t, k)',
         p = "answered" /\ s = 409 /\ faults' = 0 =>
           \E i \in JobIds : jobs'[i].state = "deleted" /\ jobs'[i].tenant = t /\ jobs'[i].key = k
  PROVE  AllAgree'
<1>1. SubmissionTypeOK
  BY Zenon DEF Agreeing
<1>2. r \in Requests /\ req[r] \in Request
  BY <1>1, ReceivedTyped, Zenon
<1>3. /\ \A q \in Requests : q # r => req'[q] = req[q]
      /\ req'[r].pc = p /\ req'[r].status = s /\ req'[r].job = j
      /\ req'[r].tenant = t /\ req'[r].key = k
  BY <1>1, <1>2, TurnsFacts
<1>4. Agreed(r)'
  BY <1>3 DEF Agreed, In, RowWith
<1> QED
  BY <1>3, <1>4, OthersAgree, Zenon

\* A request that turns neither to the look-up nor to 409.
LEMMA TurnsSettled ==
  ASSUME Agreeing,
         NEW r \in Received, NEW p \in Steps, NEW n \in Nat, NEW s \in Statuses,
         NEW j \in JobIds \cup {0}, Turns(r, p, n, s, j),
         NEW t, NEW k, req[r].tenant = t, req[r].key = k,
         p = "enqueue" \/ j # 0 => RowWith(j, t, k)',
         p # "fetch", s # 409 \/ p # "answered"
  PROVE  AllAgree'
BY TurnsAgreed

\* A request that turns to 409, after a fault or the cancel of the job with its key.
LEMMA TurnsConflict ==
  ASSUME Agreeing, NEW r \in Received, req[r].count \in Nat,
         Turns(r, "answered", req[r].count, 409, 0),
         NEW t, NEW k, req[r].tenant = t, req[r].key = k,
         faults' = 0 =>
           \E i \in JobIds : jobs'[i].state = "deleted" /\ jobs'[i].tenant = t /\ jobs'[i].key = k
  PROVE  AllAgree'
<1>1. "answered" \in Steps /\ 409 \in Statuses
  BY DEF Steps, Statuses
<1> QED
  BY <1>1, TurnsAgreed

\* The row of a request's job is still there after the step.
LEMMA OwnRow ==
  ASSUME Agreeing, NEW r \in Received,
         NEW t, NEW k, NEW i, req[r].tenant = t, req[r].key = k, req[r].job = i
  PROVE  /\ In(r, "enqueue") \/ i # 0 => RowWith(i, t, k)'
         /\ \A l \in JobIds : RowWith(l, t, k) => RowWith(l, t, k)'
<1>1. \A l \in JobIds : RowWith(l, t, k) => RowWith(l, t, k)'
  BY Zenon DEF Agreeing, RowWith, RowsKept
<1>2. In(r, "enqueue") \/ i # 0 => RowWith(i, t, k) /\ i \in JobIds
  BY Zenon DEF Agreeing, AllAgree, Agreed, RowWith
<1> QED
  BY <1>1, <1>2, Zenon

\* A row that was inserted is live until it is cancelled.
LEMMA LiveRows ==
  ASSUME StoreTypeOK, NEW j \in JobIds
  PROVE  Inserted(j) <=> Live(j) \/ jobs[j].state = "deleted"
BY DEF StoreTypeOK, Row, Inserted, Live, Absent, JobStates

\* A row that InsertJob makes is one of the request's tenant and key.
LEMMA CreatedRow ==
  ASSUME StoreTypeOK, NEW r \in Requests, NEW j \in JobIds, Created(r, j),
         NEW t, NEW k, req[r].tenant = t, req[r].key = k
  PROVE  RowWith(j, t, k)'
<1>1. PICK p \in Priorities, mr \in RetryLimits, ra \in {"future", "due"} :
        jobs' = [jobs EXCEPT ![j] = NewJob(t, p, k, mr, ra)]
  BY Zenon DEF Created, InsertJob
<1>2. jobs'[j] = NewJob(t, p, k, mr, ra)
  BY <1>1, Zenon DEF StoreTypeOK
<1>3. /\ NewJob(t, p, k, mr, ra).tenant = t /\ NewJob(t, p, k, mr, ra).key = k
      /\ NewJob(t, p, k, mr, ra).state # Absent.state
  BY Zenon DEF NewJob, Absent
<1> QED
  BY <1>2, <1>3, Zenon DEF RowWith, Inserted

\* A request that was just received has no job and no answer.
LEMMA SendAgrees ==
  ASSUME Agreeing, NEW r \in Requests, Send(r)
  PROVE  AllAgree'
<1>1. PICK t \in Tenants, k \in IdemKeys \cup {NoKey} :
        req' = [req EXCEPT ![r] = [pc |-> "allow", tenant |-> t, key |-> k, window |-> second,
                                   count |-> 0, status |-> 0, job |-> 0]]
  BY Zenon DEF Send, Put
<1> DEFINE x == [pc |-> "allow", tenant |-> t, key |-> k, window |-> second,
                 count |-> 0, status |-> 0, job |-> 0]
<1>2. x.pc = "allow" /\ x.job = 0
  BY Zenon
<1>3. req' = [req EXCEPT ![r] = x]
  BY <1>1, Zenon
<1> HIDE DEF x
<1>4. req'[r] = x /\ \A q \in Requests : q # r => req'[q] = req[q]
  BY <1>3, Zenon DEF Agreeing, SubmissionTypeOK
<1>5. Agreed(r)'
  BY <1>2, <1>4, Zenon DEF Agreed, In
<1> QED
  BY <1>4, <1>5, OthersAgree, Zenon

\* The limiter gives no job and answers nothing but 429.
LEMMA LimiterAgrees ==
  ASSUME Agreeing, NEW r \in Requests, Allow(r) \/ Expire(r)
  PROVE  AllAgree'
<1>1. SubmissionTypeOK /\ AllowSteps
  BY Zenon DEF Agreeing
<1>2. /\ r \in Received /\ req[r].status = 0
      /\ req[r].status \in Statuses /\ req[r].job \in JobIds \cup {0}
      /\ Counter(r) \in Tenants \X Seconds
  <2>1. ~In(r, "answered")
    BY Zenon DEF Allow, Expire, In
  <2> QED
    BY <1>1, <2>1, StepOfReceived, Zenon DEF AllowSteps
<1>3. PICK t, k, i : req[r].tenant = t /\ req[r].key = k /\ req[r].job = i
  BY Zenon
<1>4. i # 0 => RowWith(i, t, k)'
  BY <1>2, <1>3, OwnRow, Zenon
<1>5. counters[Counter(r)].count + 1 \in Nat
  BY <1>1, <1>2 DEF SubmissionTypeOK
<1>6. PICK n \in Nat, p \in {"expire", "insert", "answered"}, s \in {req[r].status, 429},
           j \in {i, 0} : Turns(r, p, n, s, j)
  <2>1. CASE Allow(r)
    BY <1>1, <1>3, <1>5, <2>1, AllowTurns
  <2>2. CASE Expire(r)
    BY <1>1, <1>3, <2>2, ExpireTurns
  <2> QED
    BY <2>1, <2>2, Zenon
<1>7. /\ p \in Steps /\ s \in Statuses /\ j \in JobIds \cup {0}
      /\ p \notin {"fetch", "enqueue"} /\ s # 409
  BY <1>2, <1>3 DEF Steps, Statuses
<1>8. j # 0 => RowWith(j, t, k)'
  BY <1>4, Zenon
<1> QED
  BY <1>2, <1>3, <1>6, <1>7, <1>8, TurnsSettled

\* InsertJob gives a request a job of its tenant and key, or meets one.
LEMMA InsertAgrees ==
  ASSUME Agreeing, NEW r \in Requests, Insert(r)
  PROVE  AllAgree'
<1>1. SubmissionTypeOK /\ StoreTypeOK /\ AllowSteps
  BY Zenon DEF Agreeing
<1>2. /\ r \in Received /\ req[r].count \in Nat /\ req[r].status \in Statuses
      /\ req[r].job \in JobIds \cup {0} /\ req[r].status = 0
  <2>1. ~In(r, "answered")
    BY Zenon DEF Insert, In
  <2> QED
    BY <1>1, <2>1, StepOfReceived, Zenon DEF AllowSteps
<1>3. PICK t, k, i : req[r].tenant = t /\ req[r].key = k /\ req[r].job = i
  BY Zenon
<1>4. "enqueue" \in Steps /\ "answered" \in Steps /\ "fetch" \in Steps
        /\ 201 \in Statuses /\ 500 \in Statuses
  BY DEF Steps, Statuses
<1>5. ASSUME NEW j \in JobIds, Created(r, j),
             \/ Turns(r, "enqueue", req[r].count, req[r].status, j)
             \/ Turns(r, "answered", req[r].count, 201, j)
      PROVE  AllAgree'
  <2>1. RowWith(j, t, k)'
    BY <1>1, <1>3, <1>5, CreatedRow, Zenon
  <2> QED
    BY <1>2, <1>3, <1>4, <1>5, <2>1, TurnsSettled
<1>6. ASSUME KeyTaken(t, k), Turns(r, "fetch", req[r].count, req[r].status, i)
      PROVE  AllAgree'
  <2>1. PICK j \in JobIds : RowWith(j, t, k)
    BY <1>1, <1>6, LiveRows, Zenon DEF KeyTaken, RowWith
  <2>2. \E l \in JobIds : RowWith(l, t, k)'
    BY <1>2, <1>3, <2>1, OwnRow
  <2>3. i # 0 => RowWith(i, t, k)'
    BY <1>2, <1>3, OwnRow, Zenon
  <2> QED
    BY <1>2, <1>3, <1>4, <1>6, <2>2, <2>3, TurnsAgreed
<1>7. ASSUME Turns(r, "answered", req[r].count, 500, 0) PROVE AllAgree'
  BY <1>2, <1>3, <1>4, <1>7, TurnsSettled
<1> QED
  BY <1>1, <1>3, <1>5, <1>6, <1>7, InsertTurns

\* The look-up gives a request a job of its tenant and key; if it finds none, the job
\* that the insert met was cancelled.
LEMMA FetchAgrees ==
  ASSUME Agreeing, NEW r \in Requests, Fetch(r)
  PROVE  AllAgree'
<1>1. SubmissionTypeOK /\ StoreTypeOK /\ faults \in Nat
  BY Zenon DEF Agreeing
<1>2. r \in Received /\ req[r].count \in Nat
  BY <1>1, StepOfReceived, Zenon
<1>3. PICK t, k, i : req[r].tenant = t /\ req[r].key = k /\ req[r].job = i
  BY Zenon
<1>4. "answered" \in Steps /\ 200 \in Statuses
  BY DEF Steps, Statuses
<1>5. ASSUME NEW j \in JobIds, HasKey(j, t, k), Turns(r, "answered", req[r].count, 200, j)
      PROVE  AllAgree'
  <2>1. RowWith(j, t, k)
    BY <1>1, <1>5, LiveRows, Zenon DEF HasKey, RowWith
  <2>2. RowWith(j, t, k)'
    BY <1>2, <1>3, <2>1, OwnRow, Zenon
  <2> QED
    BY <1>2, <1>3, <1>4, <1>5, <2>2, TurnsSettled
<1>6. ASSUME \A j \in JobIds : ~HasKey(j, t, k), Turns(r, "answered", req[r].count, 409, 0)
      PROVE  AllAgree'
  <2>1. PICK j \in JobIds : RowWith(j, t, k)
    BY <1>2, <1>3, Zenon DEF Agreeing, AllAgree, Agreed, Fetch
  <2>2. ~Live(j) /\ UNCHANGED jobs
    BY <1>6, <2>1, Zenon DEF HasKey, RowWith, Fetch, storeVars
  <2>3. jobs'[j].state = "deleted" /\ jobs'[j].tenant = t /\ jobs'[j].key = k
    BY <1>1, <2>1, <2>2, LiveRows, Zenon DEF RowWith
  <2> QED
    BY <1>2, <1>3, <1>6, <2>3, TurnsConflict, Zenon
<1>7. ASSUME Fault("db"), Turns(r, "answered", req[r].count, 409, 0) PROVE AllAgree'
  <2>1. faults' # 0
    BY <1>1, <1>7 DEF Fault
  <2> QED
    BY <1>2, <1>3, <1>7, <2>1, TurnsConflict
<1> QED
  BY <1>1, <1>3, <1>5, <1>6, <1>7, FetchTurns

\* Every step keeps the answers agreed.
LEMMA AnswersStep ==
  ASSUME SubmissionTypeOK, AllowSteps, AllAgree, [SubmissionNext]_submitVars
  PROVE  AllAgree'
<1>1. Agreeing
  BY RowsStay, FaultsStep, Zenon DEF Agreeing, SubmissionTypeOK, FaultsTypeOK
<1>2. CASE UNCHANGED req
  <2>1. ASSUME NEW r \in Received' PROVE SameAnswer(r) /\ Agreed(r)
    BY <1>2, <2>1, Zenon DEF SameAnswer, Received, In, AllAgree
  <2>2. faults \in Nat /\ faults' \in {faults, faults + 1} /\ RowsKept
    BY <1>1, Zenon DEF Agreeing
  <2> QED
    BY <2>1, <2>2, AgreedStays, Zenon DEF AllAgree
<1>3. ASSUME NEW r \in Requests, AllowErrored(r) \/ Abandon(r) \/ EnqueueNew(r)
      PROVE  AllAgree'
  <2>1. /\ r \in Received /\ req[r] \in Request /\ req[r].count \in Nat
        /\ req[r].status \in Statuses /\ req[r].job \in JobIds \cup {0}
    BY <1>3, StepOfReceived, Zenon
  <2>2. PICK t, k, i : req[r].tenant = t /\ req[r].key = k /\ req[r].job = i
    BY Zenon
  <2>3. In(r, "enqueue") \/ i # 0 => RowWith(i, t, k)'
    BY <1>1, <2>1, <2>2, OwnRow, Zenon
  <2>4. /\ "insert" \in Steps /\ "gone" \in Steps /\ "answered" \in Steps
        /\ 201 \in Statuses
    BY DEF Steps, Statuses
  <2>5. CASE EnqueueNew(r)
    <3>1. Turns(r, "answered", req[r].count, 201, i)
      BY <2>2, <2>5, EnqueueTurns, Zenon
    <3> QED
      BY <1>1, <2>1, <2>2, <2>3, <2>4, <3>1, TurnsSettled
  <2>6. CASE AllowErrored(r) \/ Abandon(r)
    <3>1. \/ Turns(r, "insert", req[r].count, req[r].status, i)
          \/ Turns(r, "gone", req[r].count, req[r].status, i)
      BY <2>1, <2>2, <2>6, SentToTurns, Zenon DEF AllowErrored, Abandon
    <3> QED
      BY <1>1, <2>1, <2>2, <2>3, <2>4, <3>1, TurnsSettled
  <2> QED
    BY <1>3, <2>5, <2>6, Zenon
<1> QED
  BY <1>1, <1>2, <1>3, SendAgrees, LimiterAgrees, InsertAgrees, FetchAgrees, Zenon
     DEF SubmissionNext, Elsewhere, Second, submitVars

--------------------------------------------------------------------------------
(* The theorems *)

\* Before the first request there is nothing to disagree about.
LEMMA SubmissionInvInit == SubmissionInit => SubmissionInv
<1> SUFFICES ASSUME SubmissionInit PROVE SubmissionInv
  BY Zenon
<1>1. StoreInv
  BY StoreInvInit, Zenon DEF SubmissionInit
<1>2. KeyNamesOneJob
  BY Zenon DEF SubmissionInit, StoreInit, KeyNamesOneJob, Live, Absent, JobStates
<1>3. QueueTypeOK /\ FaultsTypeOK
  BY DEF SubmissionInit, QueueInit, FaultsInit, QueueTypeOK, FaultsTypeOK
<1>4. second \in Seconds
  BY SubmissionAssumption DEF SubmissionInit, Seconds
<1>5. NoCounter.count = 0 /\ NoCounter \in [count : Nat, expires : 0..Never]
  BY SubmissionAssumption DEF NoCounter, Never
<1>6. \A r \in Requests : req[r] = NotSent
  BY Zenon DEF SubmissionInit
<1>7. Received = {} /\ req \in [Requests -> Request \cup {NotSent}]
  BY <1>6, Zenon DEF SubmissionInit, Received, In, NotSent
<1>8. /\ counters \in [Tenants \X Seconds -> [count : Nat, expires : 0..Never]]
      /\ CountersOutlast
  BY <1>5 DEF SubmissionInit, CountersOutlast
<1>9. LimiterInv /\ AnswerInv
  BY <1>7, <1>8, Zenon DEF LimiterInv, AllowSteps, CountsDiffer, CountsChecked, AnswerInv
<1>10. ConflictOnlyAfterCancel
  BY <1>7, AllAgreed, Zenon DEF AllAgree
<1> QED
  BY <1>1, <1>2, <1>3, <1>4, <1>7, <1>8, <1>9, <1>10
     DEF SubmissionInv, SubmissionTypeOK, StoreInv

\* No step breaks the invariant.
LEMMA SubmissionInvStep ==
  SubmissionInv /\ [SubmissionNext]_submitVars => SubmissionInv'
<1> SUFFICES ASSUME SubmissionInv, [SubmissionNext]_submitVars PROVE SubmissionInv'
  BY Zenon
<1>1. /\ SubmissionTypeOK /\ StoreInv /\ KeyNamesOneJob /\ LimiterInv /\ AnswerInv
      /\ StoreTypeOK /\ AllowSteps /\ AllAgree
  BY AllAgreed, Zenon DEF SubmissionInv, StoreInv, LimiterInv
<1>2. StoreInv' /\ KeyNamesOneJob' /\ StoreTypeOK'
  BY <1>1, StoreStep, StoreInvStep, KeyStep, Zenon DEF StoreInv
<1>3. SubmissionTypeOK'
  BY <1>1, <1>2, SubmissionTypesStep, Zenon
<1>4. LimiterInv'
  BY <1>1, <1>3, LimiterStep, Zenon
<1>5. AllAgree'
  BY <1>1, AnswersStep, Zenon
<1>6. AnswerInv' /\ ConflictOnlyAfterCancel'
  BY <1>5, AllAgreed, PTL
<1> QED
  BY <1>2, <1>3, <1>4, <1>6, Zenon DEF SubmissionInv

\* The invariant holds throughout.
LEMMA SubmissionHolds == SubmissionSpec => []SubmissionInv
BY SubmissionInvInit, SubmissionInvStep, PTL DEF SubmissionSpec

\* Types of the tables, of the limiter's counters and of the requests are kept.
THEOREM SubmissionsAreTyped == SubmissionSpec => []SubmissionTypeOK
<1>1. SubmissionInv => SubmissionTypeOK
  BY Zenon DEF SubmissionInv
<1> QED
  BY <1>1, SubmissionHolds, PTL

\* handleSubmitJob tells a client 409 only if the job that had the key was cancelled
\* between its two statements, or a call failed.
THEOREM ConflictsAreCancels == SubmissionSpec => []ConflictOnlyAfterCancel
<1>1. SubmissionInv => ConflictOnlyAfterCancel
  BY Zenon DEF SubmissionInv
<1> QED
  BY <1>1, SubmissionHolds, PTL

\* Two rows with one tenant and key are the same, unless one was cancelled.
LEMMA RowsAgree ==
  ASSUME StoreTypeOK, KeyNamesOneJob, NEW t, NEW k, k # NoKey,
         NEW i, NEW j, RowWith(i, t, k), RowWith(j, t, k)
  PROVE  i = j \/ \E l \in {i, j} : jobs[l].state = "deleted"
<1>1. /\ i \in JobIds /\ j \in JobIds /\ Inserted(i) /\ Inserted(j)
      /\ jobs[i].key # NoKey /\ jobs[i].key = jobs[j].key /\ jobs[i].tenant = jobs[j].tenant
  BY Zenon DEF RowWith
<1>2. CASE Live(i) /\ Live(j)
  BY <1>1, <1>2, Zenon DEF KeyNamesOneJob
<1>3. CASE ~(Live(i) /\ Live(j))
  BY <1>1, <1>3, LiveRows, Zenon
<1> QED
  BY <1>2, <1>3, Zenon

\* All answers of handleSubmitJob for one key name the same job, until a cancel
\* frees the key.
THEOREM AnswersNameOneJob == SubmissionSpec => []AnswersAgree
<1>1. SubmissionInv => AnswersAgree
  <2> SUFFICES ASSUME SubmissionInv, NEW q \in Requests, NEW r \in Requests,
                      In(q, "answered"), req[q].job # 0, In(r, "answered"), req[r].job # 0,
                      req[q].key # NoKey, req[q].key = req[r].key,
                      req[q].tenant = req[r].tenant
               PROVE  \/ req[q].job = req[r].job
                      \/ \E i \in {req[q].job, req[r].job} : jobs[i].state = "deleted"
    BY Zenon DEF AnswersAgree
  <2>1. q \in Received /\ r \in Received
    BY Zenon DEF Received, In
  <2>2. /\ RowWith(req[q].job, req[q].tenant, req[q].key)
        /\ RowWith(req[r].job, req[q].tenant, req[q].key)
    BY <2>1, Zenon DEF SubmissionInv, AnswerInv
  <2>3. StoreTypeOK /\ KeyNamesOneJob
    BY Zenon DEF SubmissionInv, StoreInv
  <2> QED
    BY <2>2, <2>3, RowsAgree
<1> QED
  BY <1>1, SubmissionHolds, PTL

\* Allow lets no more requests of a tenant through in a second than its rate limit,
\* if that allows any at all.
THEOREM RateLimitIsKept ==
  ASSUME RateLimit >= 1
  PROVE  SubmissionSpec => []RateLimitHolds
<1>1. SubmissionInv => RateLimitHolds
  <2> SUFFICES ASSUME SubmissionInv, NEW t \in Tenants, NEW s \in Seconds
               PROVE  Cardinality(Admitted(t, s)) <= RateLimit
    BY Zenon DEF RateLimitHolds
  <2> DEFINE A == Admitted(t, s)
             f == [r \in A |-> req[r].count]
  <2>1. RateLimit \in Nat
    BY SubmissionAssumption, Zenon
  <2>2. SubmissionTypeOK /\ CountsDiffer /\ CountsChecked
    BY Zenon DEF SubmissionInv, LimiterInv
  <2>3. ASSUME NEW r \in A
        PROVE  /\ r \in Received /\ Counter(r) = <<t, s>>
               /\ req[r].count > 0 /\ req[r].status # 429
    BY Zenon DEF Admitted, Received, Counter
  <2> HIDE DEF A
  <2>4. ASSUME NEW r \in A PROVE req[r].count \in 1..RateLimit
    <3>1. req[r].count \in Nat /\ MayPass(req[r].count) /\ req[r].count > 0
      BY <2>2, <2>3, ReceivedTyped DEF CountsChecked
    <3> QED
      BY <2>1, <3>1 DEF MayPass
  <2>5. ASSUME NEW q \in A, NEW r \in A, req[q].count = req[r].count PROVE q = r
    <3>1. /\ q \in Received /\ r \in Received
          /\ Counter(q) = Counter(r) /\ req[r].count > 0
      BY <2>3
    <3> QED
      BY <2>2, <2>5, <3>1, Zenon DEF CountsDiffer
  <2>6. f \in [A -> 1..RateLimit]
    BY <2>4, Zenon
  <2>7. IsInjective(f)
    BY <2>5, Zenon DEF IsInjective
  <2>8. f \in Injection(A, 1..RateLimit)
    BY <2>6, <2>7, Zenon DEF Injection
  <2>9. IsFiniteSet(1..RateLimit) /\ Cardinality(1..RateLimit) = RateLimit
    BY <2>1, FS_Interval
  <2> HIDE DEF f
  <2>10. Cardinality(A) <= Cardinality(1..RateLimit)
    BY <2>8, <2>9, FS_Injection, Zenon
  <2> QED
    BY <2>9, <2>10, Zenon DEF A
<1> QED
  BY <1>1, SubmissionHolds, PTL
================================================================================
