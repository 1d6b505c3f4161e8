--------------------------------- MODULE Lease ---------------------------------
(***************************************************************************)
(* One claim in real time.  The other modules say that a deadline may      *)
(* pass; this one says when, and whether the intervals that the code fixes *)
(* fit together: the deadline that process writes with the claim, the      *)
(* heartbeat that moves it, the reaper's ticker, the time limit of an      *)
(* execution and the delay of a retry.  Time advances in Tick, which may   *)
(* not pass a timer that is due, and every round trip takes any time up to *)
(* a bound.  Clocks of worker and database are taken to agree.             *)
(***************************************************************************)
EXTENDS Integers

CONSTANTS
  ClaimTTL,      \* visibilityTimeout + 30 s, the deadline of a new claim
  BeatEvery,     \* heartbeatInterval
  BeatTTL,       \* queue.HeartbeatTTL
  ReapEvery,     \* staleReapInterval
  MaxVacancy,    \* the longest that there is no leader after one has gone
  MaxPutOff,     \* bound: how much a round of the reaper is put off
  HttpTimeout,   \* the longest execution
  MaxLag,        \* the longest that process takes from one stage to the next
  MaxFlight,     \* the longest that a beat takes to be applied, if it ever is
  Backoffs,      \* the backoff_seconds of jobs
  Attempts,      \* the attempts that NextRetryAt is called for
  MaxBackoff,    \* its cap, in seconds
  IntBits        \* the width of an int

ASSUME LeaseAssumption ==
  /\ {ClaimTTL, BeatEvery, BeatTTL, ReapEvery, HttpTimeout} \subseteq Nat \ {0}
  /\ {MaxVacancy, MaxPutOff, MaxLag, MaxFlight} \subseteq Nat
  /\ Backoffs \subseteq Nat /\ Attempts \subseteq Nat

\* What the choice of the intervals has to ensure.
ASSUME IntervalsAssumption ==
  /\ ClaimTTL >= HttpTimeout + 3 * MaxLag
  /\ BeatTTL >= 3 * BeatEvery
  /\ MaxLag <= BeatEvery
  /\ MaxFlight <= BeatTTL

VARIABLES
  stage,     \* where process is
  spent,     \* time since it got there
  claim,     \* whether the claim still stands in table jobs
  left,      \* time until the deadline in table jobs
  next,      \* time until the heartbeat's ticker fires
  due,       \* the ticker has fired and heartbeat has not come to it
  flight,    \* age of the beat under way
  during,    \* firings since that beat was sent
  missed,    \* firings since the last beat that was applied was sent
  beaten,    \* some beat has been applied
  reapIn,    \* time until the ticker of the leader's reaper fires
  putOff,    \* history: how much this round of the reaper has been put off
  retry      \* the retry that FailJob was asked to schedule

leaseVars ==
  <<stage, spent, claim, left, next, due, flight, during, missed, beaten, reapIn, putOff, retry>>

NoBeat == -1

NoRetry == [attempt |-> 0, backoff |-> 0, delay |-> 0]

\* Types of the timers and of the claim, for the proof.
TimersOK ==
  /\ stage \in {"claimed", "executing", "recording", "over", "crashed"}
  /\ spent \in Nat
  /\ claim \in {"held", "recorded", "taken"}
  /\ left \in Int
  /\ next \in 0..BeatEvery
  /\ flight \in {NoBeat} \cup 0..MaxFlight
  /\ during \in Nat /\ missed \in Nat
  /\ reapIn \in 0..(MaxVacancy + ReapEvery) /\ putOff \in Nat

\* A slip: the claim is given the deadline of a beat.
ClaimDeadlineShort == BeatTTL

\* process computes the deadline before it calls TryClaim.
ClaimDeadline == ClaimTTL

LeaseInit ==
  /\ stage = "claimed" /\ spent = 0
  /\ claim = "held"
  /\ left \in (ClaimDeadline - MaxLag)..ClaimDeadline
  /\ next = BeatEvery /\ due = FALSE
  /\ flight = NoBeat /\ during = 0
  /\ missed = 0 /\ beaten = FALSE
  /\ reapIn \in 0..ReapEvery /\ putOff = 0
  /\ retry = NoRetry

--------------------------------------------------------------------------------
beatVars == <<next, due, flight, during, missed, beaten>>

reapVars == <<reapIn, putOff>>

\* The longest that process stays at a stage.
Patience ==
  CASE stage \in {"claimed", "recording"} -> MaxLag
    [] stage = "executing"                -> HttpTimeout

\* Time passes while the claim stands, and never past a timer.
Tick ==
  /\ claim = "held"
  /\ stage \in {"claimed", "executing", "recording"} => spent < Patience
  /\ stage = "executing" => next > 0 /\ (due => flight # NoBeat)
  /\ flight # MaxFlight
  /\ reapIn > 0
  /\ spent' = spent + 1
  /\ left' = left - 1
  /\ next' = IF stage = "executing" THEN next - 1 ELSE next
  /\ flight' = IF flight = NoBeat THEN NoBeat ELSE flight + 1
  /\ reapIn' = reapIn - 1
  /\ UNCHANGED <<stage, claim, due, during, missed, beaten, putOff, retry>>

Enter(s) == stage' = s /\ spent' = 0

\* GetJob and MarkRunning are done; heartbeat's ticker starts with the execution.
StartExecution ==
  /\ stage = "claimed"
  /\ Enter("executing")
  /\ UNCHANGED <<claim, left, beatVars, reapVars, retry>>

\* The channel of a ticker holds one firing; the next ones are dropped.
TickerFires ==
  /\ stage = "executing" /\ next = 0
  /\ next' = BeatEvery
  /\ due' = TRUE
  /\ missed' = missed + 1
  /\ during' = during + 1
  /\ UNCHANGED <<stage, spent, claim, left, flight, beaten, reapVars, retry>>

\* heartbeat sends one beat at a time.
SendBeat ==
  /\ stage = "executing" /\ due /\ flight = NoBeat
  /\ due' = FALSE
  /\ flight' = 0
  /\ during' = 0
  /\ UNCHANGED <<stage, spent, claim, left, next, missed, beaten, reapVars, retry>>

\* A slip: the deadline is as far away as that of a new claim.
ApplyBeatLong ==
  /\ flight # NoBeat
  /\ flight' = NoBeat
  /\ IF claim = "held"
     THEN left' = ClaimTTL - flight /\ missed' = during /\ beaten' = TRUE
     ELSE UNCHANGED <<left, missed, beaten>>
  /\ UNCHANGED <<stage, spent, claim, next, due, during, reapVars, retry>>

\* ExtendDeadline, with the deadline computed when the beat was sent.  It moves an
\* expired deadline too, and changes nothing under a token that is stale.
ApplyBeat ==
  /\ flight # NoBeat
  /\ flight' = NoBeat
  /\ IF claim = "held"
     THEN left' = BeatTTL - flight /\ missed' = during /\ beaten' = TRUE
     ELSE UNCHANGED <<left, missed, beaten>>
  /\ UNCHANGED <<stage, spent, claim, next, due, during, reapVars, retry>>

\* The statement fails; the error is logged.
LoseBeat ==
  /\ flight # NoBeat
  /\ flight' = NoBeat
  /\ UNCHANGED <<stage, spent, claim, left, next, due, during, missed, beaten, reapVars, retry>>

\* hbCancel: no further beat is sent; one under way may still be applied.
FinishExecution ==
  /\ stage = "executing"
  /\ Enter("recording")
  /\ due' = FALSE
  /\ UNCHANGED <<claim, left, next, flight, during, missed, beaten, reapVars, retry>>

--------------------------------------------------------------------------------
(* NextRetryAt *)

\* A slip: the loop doubles on, past the cap.
DoublingUncapped[d \in Nat, n \in Nat] ==
  IF n > 0 THEN DoublingUncapped[(2 * d) % 2^IntBits, n - 1] ELSE d

DoubledOn(d, n) == DoublingUncapped[d, n]

Doubling[d \in Nat, n \in Nat] ==
  IF n > 0 /\ d < MaxBackoff THEN Doubling[(2 * d) % 2^IntBits, n - 1] ELSE d

\* The loop of NextRetryAt.
Doubled(d, n) == Doubling[d, n]

\* The two ends of what rand.Intn spreads the delay over.
NextRetryAt(attempt, backoff) ==
  LET doubled == Doubled(backoff, attempt)
      delay   == IF doubled > MaxBackoff THEN MaxBackoff ELSE doubled
      jitter  == delay \div 5
  IN {delay - jitter, delay + jitter}

--------------------------------------------------------------------------------
\* CompleteJob and FailJob change nothing under a stale token.
Record(r) ==
  /\ stage = "recording"
  /\ Enter("over")
  /\ IF claim = "held"
     THEN claim' = "recorded" /\ retry' = r
     ELSE UNCHANGED <<claim, retry>>
  /\ UNCHANGED <<left, beatVars, reapVars>>

RecordSuccess == Record(NoRetry)

RecordFailure ==
  \E a \in Attempts, b \in Backoffs : \E d \in NextRetryAt(a, b) :
    Record([attempt |-> a, backoff |-> b, delay |-> d])

\* The reaper's ticker fires: it takes every claim whose deadline is past.
Reap ==
  /\ reapIn = 0
  /\ reapIn' = ReapEvery
  /\ putOff' = 0
  /\ claim' = IF claim = "held" /\ left < 0 THEN "taken" ELSE claim
  /\ UNCHANGED <<stage, spent, left, beatVars, retry>>

\* The query fails, or RequeueStaleJob does: the claim waits for the next round.
ReapFails ==
  /\ claim = "held" /\ reapIn = 0
  /\ putOff + ReapEvery <= MaxPutOff
  /\ putOff' = putOff + ReapEvery
  /\ reapIn' = ReapEvery
  /\ UNCHANGED <<stage, spent, claim, left, beatVars, retry>>

\* The leader is gone, with its ticker; the next one, elected within MaxVacancy,
\* starts its own.
LeaderChanges ==
  /\ claim = "held"
  /\ putOff + MaxVacancy + ReapEvery <= MaxPutOff
  /\ putOff' = putOff + MaxVacancy + ReapEvery
  /\ reapIn' \in ReapEvery..(MaxVacancy + ReapEvery)
  /\ UNCHANGED <<stage, spent, claim, left, beatVars, retry>>

\* A beat that is under way may still be applied.
Crash ==
  /\ stage \in {"claimed", "executing", "recording"}
  /\ Enter("crashed")
  /\ due' = FALSE
  /\ UNCHANGED <<claim, left, next, flight, during, missed, beaten, reapVars, retry>>

LeaseNext ==
  \/ Tick
  \/ StartExecution
  \/ TickerFires
  \/ SendBeat
  \/ ApplyBeat
  \/ LoseBeat
  \/ FinishExecution
  \/ RecordSuccess
  \/ RecordFailure
  \/ Reap
  \/ ReapFails
  \/ LeaderChanges
  \/ Crash

LeaseSpec == LeaseInit /\ [][LeaseNext]_leaseVars

--------------------------------------------------------------------------------
(* Properties *)

\* A worker that has not crashed loses its claim only when beats have got through
\* and then stayed away: three in a row while it executes (the third may be under
\* way), two while it records the result.  In particular a worker whose beats all
\* get lost keeps its claim, since the deadline written by process outlasts the
\* longest execution; a beat that is applied makes the deadline nearer.
LiveClaimKept ==
  claim = "taken" =>
    \/ stage = "crashed"
    \/ beaten /\ missed >= (IF stage = "executing" THEN 3 ELSE 2)

\* The claim of a worker that has crashed is taken away within one round of the
\* reaper after the heartbeat's TTL if a beat was ever applied, and otherwise after
\* the deadline that TryClaim wrote; later only by what errors and changes of leader
\* have put that round off.
CrashDetected ==
  stage = "crashed" /\ claim = "held" =>
    spent <= (IF beaten THEN BeatTTL ELSE ClaimTTL) + ReapEvery + putOff

\* The delay before attempt n is the backoff doubled n times, at most MaxBackoff,
\* give or take a fifth: the loop of NextRetryAt neither overflows for a job with
\* many attempts nor stops short of the cap.
RetryDelayInRange ==
  LET n       == retry.attempt
      b       == retry.backoff
      reaches == \E k \in 0..n : (\A i \in 0..(k - 1) : b * 2^i < MaxBackoff) /\ b * 2^k >= MaxBackoff
      exact   == IF reaches THEN MaxBackoff ELSE b * 2^n
  IN 5 * (exact - retry.delay) \in (-exact)..exact

\* README, performance targets: after the loss of a node all jobs in flight are
\* recovered in less than 30 seconds.  The code does not keep to this.
NodeLossRecovered == stage = "crashed" /\ claim = "held" => spent < 30

--------------------------------------------------------------------------------
(* Why they hold *)

Ended == {"over", "crashed"}

\* Before a beat is applied the deadline is the one that process wrote: what is
\* left of it covers what is left of the execution.
CoveredByClaim ==
  claim = "held" /\ ~beaten =>
    /\ stage = "claimed" => left + spent >= ClaimTTL - MaxLag
    /\ stage = "executing" => left + spent >= ClaimTTL - 2 * MaxLag
    /\ stage = "recording" => left + spent >= ClaimTTL - 2 * MaxLag - HttpTimeout

\* Afterwards the deadline is as near as the missed firings have brought it.
CoveredByBeats ==
  claim = "held" /\ beaten =>
    /\ stage = "executing" => left + missed * BeatEvery + BeatEvery - next >= BeatTTL
    /\ stage = "recording" => left + spent + missed * BeatEvery + BeatEvery >= BeatTTL

\* A beat under way is no older than the firings since it was sent account for.
FlightAccounted ==
  flight # NoBeat =>
    /\ stage = "executing" => flight <= during * BeatEvery + BeatEvery - next
    /\ stage = "recording" => flight <= during * BeatEvery + BeatEvery + spent
    /\ stage = "crashed" => spent <= flight

\* The next round of the reaper is at most an interval away, unless it was put off;
\* the deadline is never further away than its TTL, counted from a crash, and never
\* further past than the last round.
DeadlineInReach ==
  claim = "held" =>
    /\ reapIn <= ReapEvery + putOff
    /\ left >= reapIn - ReapEvery - putOff
    /\ left + (IF stage = "crashed" THEN spent ELSE 0) <= (IF beaten THEN BeatTTL ELSE ClaimTTL)

\* The inductive invariant.
LeaseInv ==
  /\ TimersOK
  /\ stage \notin Ended => spent <= Patience
  /\ stage = "claimed" => ~beaten /\ flight = NoBeat
  /\ stage = "over" => claim # "held"
  /\ CoveredByClaim
  /\ CoveredByBeats
  /\ FlightAccounted
  /\ DeadlineInReach
  /\ LiveClaimKept
================================================================================
