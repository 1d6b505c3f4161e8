------------------------------ MODULE JobContract ------------------------------
(***************************************************************************)
(* What Sluice promises about one job, whoever asks and however often:     *)
(* an accepted job waits, is granted to one holder at a time under a token *)
(* that is never issued twice, is granted at most limit times between two  *)
(* (re)submissions, and once done stays done.  Queues, workers, deadlines  *)
(* and retries do not appear: module JobStore is shown to implement this.  *)
(***************************************************************************)
EXTENDS Integers

CONSTANTS JobIds, Tokens, NoToken

VARIABLES
  phase,    \* absent, waiting, held, done, dead or withdrawn, per job
  holder,   \* the token a held job is held under
  issued,   \* the tokens granted so far
  grants,   \* grants since the job was submitted or revived
  limit     \* how many grants the job is entitled to

contractVars == <<phase, holder, issued, grants, limit>>

ContractInit ==
  /\ phase  = [j \in JobIds |-> "absent"]
  /\ holder = [j \in JobIds |-> NoToken]
  /\ issued = {}
  /\ grants = [j \in JobIds |-> 0]
  /\ limit  = [j \in JobIds |-> 0]

Submit(j) ==
  /\ phase[j] = "absent"
  /\ phase' = [phase EXCEPT ![j] = "waiting"]
  /\ limit'[j] \in Nat \ {0}
  /\ limit' = [limit EXCEPT ![j] = limit'[j]]
  /\ UNCHANGED <<holder, issued, grants>>

Grant(j, c) ==
  /\ phase[j] = "waiting"
  /\ c \notin issued
  /\ grants[j] < limit[j]
  /\ phase'  = [phase EXCEPT ![j] = "held"]
  /\ holder' = [holder EXCEPT ![j] = c]
  /\ issued' = issued \cup {c}
  /\ grants' = [grants EXCEPT ![j] = @ + 1]
  /\ UNCHANGED limit

Finish(j) ==
  /\ phase[j] = "held"
  /\ phase'  = [phase EXCEPT ![j] = "done"]
  /\ holder' = [holder EXCEPT ![j] = NoToken]
  /\ UNCHANGED <<issued, grants, limit>>

GiveBack(j) ==
  /\ phase[j] = "held"
  /\ grants[j] < limit[j]
  /\ phase'  = [phase EXCEPT ![j] = "waiting"]
  /\ holder' = [holder EXCEPT ![j] = NoToken]
  /\ UNCHANGED <<issued, grants, limit>>

Bury(j) ==
  /\ phase[j] \in {"waiting", "held"}
  /\ phase'  = [phase EXCEPT ![j] = "dead"]
  /\ holder' = [holder EXCEPT ![j] = NoToken]
  /\ UNCHANGED <<issued, grants, limit>>

Revive(j) ==
  /\ phase[j] = "dead"
  /\ phase'  = [phase EXCEPT ![j] = "waiting"]
  /\ grants' = [grants EXCEPT ![j] = 0]
  /\ UNCHANGED <<holder, issued, limit>>

Withdraw(j) ==
  /\ phase[j] = "waiting"
  /\ phase' = [phase EXCEPT ![j] = "withdrawn"]
  /\ UNCHANGED <<holder, issued, grants, limit>>

ContractNext ==
  \E j \in JobIds :
    \/ Submit(j)
    \/ \E c \in Tokens : Grant(j, c)
    \/ Finish(j)
    \/ GiveBack(j)
    \/ Bury(j)
    \/ Revive(j)
    \/ Withdraw(j)

ContractSpec == ContractInit /\ [][ContractNext]_contractVars
================================================================================
