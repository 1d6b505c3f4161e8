----------------------------------- MODULE Api ---------------------------------
(***************************************************************************)
(* The clients' and operators' ways in: the job handlers of internal/api   *)
(* and the commands of cmd/sluice-cli.  A handler that writes the job and  *)
(* then enqueues it takes two steps, and a failure in between leaves the   *)
(* write without the queue entry.                                          *)
(***************************************************************************)
EXTENDS RedisQueue

CONSTANT MaxRequests    \* bound: cancels, replays and force-fails

ASSUME ApiAssumption == MaxRequests \in Nat

VARIABLES
  requests,    \* how many of those there have been
  apiHand,     \* jobs that a handler has written and has still to enqueue
  cliSeen,     \* jobs that cmdReplay has read as dead and has still to reset
  cliHand      \* jobs that cmdReplay has reset and has still to enqueue

apiVars == <<requests, apiHand, cliSeen, cliHand>>

ApiTypeOK ==
  /\ requests \in 0..MaxRequests
  /\ apiHand \in SUBSET JobIds
  /\ cliSeen \in SUBSET JobIds
  /\ cliHand \in SUBSET JobIds

ApiInit == requests = 0 /\ apiHand = {} /\ cliSeen = {} /\ cliHand = {}

Request ==
  /\ requests < MaxRequests
  /\ requests' = requests + 1

\* Jobs come in the order of their numbers, which is that of created_at.  A
\* commit without an answer ends the request before the job is enqueued.
handleSubmitJob(j) ==
  /\ \A i \in JobIds : i < j => Inserted(i)
  /\ \E t \in Tenants, p \in Priorities, k \in IdemKeys \cup {NoKey},
        mr \in RetryLimits, ra \in {"future", "due"} :
       /\ InsertJob(j, NewJob(t, p, k, mr, ra))
       /\ \/ apiHand' = (IF ra = "future" THEN apiHand ELSE apiHand \cup {j}) /\ NoFault
          \/ UNCHANGED apiHand /\ Fault("db")
  /\ UNCHANGED <<queueVars, requests, cliSeen, cliHand>>

handleCancelJob(j) ==
  /\ Request
  /\ \E t \in Tenants : CancelJob(j, t)
  /\ NoFault
  /\ UNCHANGED <<queueVars, apiHand, cliSeen, cliHand>>

\* The read-back after the update may fail, and then nothing is enqueued.
handleReplayJob(j) ==
  /\ Request
  /\ \E t \in Tenants : ReplayJob(j, t)
  /\ \/ apiHand' = apiHand \cup {j} /\ NoFault
     \/ UNCHANGED apiHand /\ Fault("db")
  /\ UNCHANGED <<queueVars, cliSeen, cliHand>>

ApiEnqueue(j) ==
  /\ j \in apiHand
  /\ apiHand' = apiHand \ {j}
  /\ \/ Enqueue(j)
     \/ Fault("crash") /\ UNCHANGED queueVars
  /\ UNCHANGED <<storeVars, requests, cliSeen, cliHand>>

--------------------------------------------------------------------------------
(* sluice-cli *)

CliReplayCheck(j) ==
  /\ Request
  /\ j \notin cliSeen
  /\ jobs[j].state = "dead"
  /\ cliSeen' = cliSeen \cup {j}
  /\ NoFault
  /\ UNCHANGED <<storeVars, queueVars, apiHand, cliHand>>

\* The job is enqueued next whether or not it is still dead.
CliReplayReset(j) ==
  /\ j \in cliSeen
  /\ cliSeen' = cliSeen \ {j}
  /\ \/ /\ \/ \E t \in Tenants : ReplayJob(j, t)
           \/ jobs[j].state # "dead" /\ UNCHANGED storeVars
        /\ cliHand' = cliHand \cup {j}
        /\ NoFault
     \/ /\ \/ \E t \in Tenants : ReplayJob(j, t)
           \/ UNCHANGED storeVars
        /\ UNCHANGED cliHand
        /\ Fault("db")
  /\ UNCHANGED <<queueVars, requests, apiHand>>

CliEnqueue(j) ==
  /\ j \in cliHand
  /\ cliHand' = cliHand \ {j}
  /\ \/ Enqueue(j)
     \/ Fault("crash") /\ UNCHANGED queueVars
  /\ UNCHANGED <<storeVars, requests, apiHand, cliSeen>>

cmdForceFail(j) ==
  /\ Request
  /\ ForceFail(j)
  /\ NoFault
  /\ UNCHANGED <<queueVars, apiHand, cliSeen, cliHand>>

cmdDrain ==
  /\ Fault("drain")
  /\ \E k \in Keys : DrainQueue(k)
  /\ UNCHANGED <<storeVars, apiVars>>

ApiNext ==
  \/ \E j \in JobIds :
       \/ handleSubmitJob(j) \/ handleCancelJob(j) \/ handleReplayJob(j) \/ ApiEnqueue(j)
       \/ CliReplayCheck(j) \/ CliReplayReset(j) \/ CliEnqueue(j) \/ cmdForceFail(j)
  \/ cmdDrain
================================================================================
