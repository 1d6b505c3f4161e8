------------------------------ MODULE RedisQueue -------------------------------
(***************************************************************************)
(* The Redis lists of internal/queue: one queue per priority bucket and    *)
(* tenant, and one processing list per worker.  Each operation is one      *)
(* Redis command.  The heartbeat:{job} keys are left out: the code sets    *)
(* them and never reads them.                                              *)
(***************************************************************************)
EXTENDS JobStore, Faults, Sequences

CONSTANT Workers

VARIABLES
  queues,       \* queue:{bucket}:{tenant}, oldest entry first
  processing    \* processing:{worker}, as a set: LREM removes every copy

queueVars == <<queues, processing>>

bucketForPriority(p) == IF p <= 1 THEN 1 ELSE IF p <= 5 THEN 5 ELSE 10

Keys == {1, 5, 10} \X Tenants

QueueTypeOK ==
  /\ queues \in [Keys -> Seq(JobIds)]
  /\ processing \in [Workers -> SUBSET JobIds]

QueueInit ==
  /\ queues = [k \in Keys |-> <<>>]
  /\ processing = [w \in Workers |-> {}]

\* The caller's copy of tenant and priority: no statement changes either.
KeyOf(j) == <<bucketForPriority(jobs[j].priority), jobs[j].tenant>>

\* LPUSH.  Every caller logs an error and carries on.
Enqueue(j) ==
  /\ \/ queues' = [queues EXCEPT ![KeyOf(j)] = Append(@, j)] /\ NoFault
     \/ Fault("redis") /\ UNCHANGED queues
  /\ UNCHANGED processing

\* LMOVE RIGHT LEFT from one queue.
Move(w, k) ==
  /\ queues[k] # <<>>
  /\ queues' = [queues EXCEPT ![k] = Tail(@)]
  /\ processing' = [processing EXCEPT ![w] = @ \cup {Head(queues[k])}]

\* LREM 0.  Every caller ignores the error.
RemoveFromProcessing(w, j) ==
  /\ \/ processing' = [processing EXCEPT ![w] = @ \ {j}] /\ NoFault
     \/ Fault("redis") /\ UNCHANGED processing
  /\ UNCHANGED queues

\* sluice-cli drain deletes the queues one key at a time.
DrainQueue(k) ==
  /\ queues[k] # <<>>
  /\ queues' = [queues EXCEPT ![k] = <<>>]
  /\ UNCHANGED processing

Queued(j) == \E k \in Keys : \E n \in 1..Len(queues[k]) : queues[k][n] = j
================================================================================
