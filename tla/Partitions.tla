------------------------------- MODULE Partitions ------------------------------
(***************************************************************************)
(* The monthly partitions of job_runs: the leader's ensurePartitions,      *)
(* which every day, and at every change of leader, creates those of the    *)
(* months to come, TryClaim's inserts, and the default partition that      *)
(* takes the rows of a month without one.  Postgres refuses to create a    *)
(* partition for rows that the default partition has already.              *)
(*                                                                         *)
(* Months are numbered from January of BaseYear.  Of the partitions and of *)
(* the default partition's rows, those of the past are left out.           *)
(***************************************************************************)
EXTENDS Integers

CONSTANTS
  BaseYear,           \* the year of the first partition of the migration
  Seeded,             \* the months that the migration has partitions for
  StartMonths,        \* the months in which the system may be deployed
  LastMonth,          \* bound: the last month
  LookaheadMonths,    \* partitionLookaheadMonths
  MaxGap,             \* how many days the maintainer may fail or be away
  Warmup              \* how many days it has to have been so for

ASSUME PartitionsAssumption ==
  /\ {BaseYear, LastMonth, LookaheadMonths, MaxGap, Warmup} \subseteq Nat
  /\ Seeded \subseteq Nat /\ StartMonths \subseteq Nat

VARIABLES
  month, day,   \* the date
  partitions,   \* the months that have a partition
  backstop,     \* the months that the default partition has rows of
  gap,          \* days since the last round that created all it was to
  steady,       \* days since that was more than MaxGap, up to Warmup
  refused       \* history: a CREATE has failed for the default partition's rows

partVars == <<month, day, partitions, backstop, gap, steady, refused>>

--------------------------------------------------------------------------------
LeapYear(y) == y % 4 = 0 /\ (y % 100 # 0 \/ y % 400 = 0)

DaysIn(m) ==
  CASE m % 12 \in {3, 5, 8, 10} -> 30
    [] m % 12 = 1               -> IF LeapYear(BaseYear + m \div 12) THEN 29 ELSE 28
    [] OTHER                    -> 31

\* The month of now.AddDate(0, i, 0): a day that the month does not have is one of
\* the next month.
AddDate(i) == IF day > DaysIn(month + i) THEN month + i + 1 ELSE month + i

\* Two slips: the loop starts with this month; it leaves out the next.
LookaheadFromZero == 0..LookaheadMonths

LookaheadLate == 2..LookaheadMonths

Lookahead == 1..LookaheadMonths

PartitionsInit ==
  /\ month \in StartMonths /\ day \in 1..DaysIn(month)
  /\ partitions = {m \in Seeded : m >= month}
  /\ backstop = {}
  /\ gap = MaxGap + 1
  /\ steady = 0
  /\ refused = FALSE

--------------------------------------------------------------------------------
\* CREATE TABLE ... PARTITION OF job_runs, if Postgres answers.
EnsureJobRunsPartition(m) == m \notin backstop

\* Month after month, each IF NOT EXISTS; an error is logged and the next one is
\* tried, unless the leader is gone.
ensurePartitions ==
  /\ \E answered \in SUBSET Lookahead :
       LET asked   == {AddDate(i) : i \in answered} \ partitions
           created == {m \in asked : EnsureJobRunsPartition(m)}
       IN /\ partitions' = partitions \cup created
          /\ refused' = (refused \/ created # asked)
          /\ gap' = IF answered = Lookahead /\ created = asked THEN 0 ELSE gap
  /\ UNCHANGED <<month, day, backstop, steady>>

\* TryClaim's INSERT goes to the partition of its started_at, NOW().
InsertRun ==
  /\ month \notin partitions
  /\ backstop' = backstop \cup {month}
  /\ UNCHANGED <<month, day, partitions, gap, steady, refused>>

NextDay ==
  /\ month <= LastMonth
  /\ IF day = DaysIn(month)
     THEN month' = month + 1 /\ day' = 1
     ELSE month' = month /\ day' = day + 1
  /\ partitions' = {m \in partitions : m >= month'}
  /\ backstop' = {m \in backstop : m >= month'}
  /\ gap' = IF gap > MaxGap THEN gap ELSE gap + 1
  /\ steady' = IF gap' > MaxGap THEN 0 ELSE
               IF steady = Warmup THEN steady ELSE steady + 1
  /\ UNCHANGED refused

PartitionsNext == ensurePartitions \/ InsertRun \/ NextDay

PartitionsSpec == PartitionsInit /\ [][PartitionsNext]_partVars

--------------------------------------------------------------------------------
(* Properties *)

\* As long as the maintainer gets through once every MaxGap days, and has for
\* Warmup days, the runs of every month go to a partition of their own: although
\* AddDate passes over a short month from the 29th on, an earlier round had it.
MonthReady == steady = Warmup => month \in partitions

\* However long the maintainer was away, what it creates is never refused because
\* the default partition has rows of that month: ensurePartitions asks only for
\* months that have not begun.
NeverRefused == ~refused

--------------------------------------------------------------------------------
(* Why MonthReady holds, for the proof *)

DateOK ==
  /\ month \in Nat /\ day \in 1..DaysIn(month)
  /\ gap \in Nat /\ steady \in 0..Warmup

\* If the last full round was on a day of this month that the next month has too,
\* AddDate(1) was the next month.
RoundMadeNext ==
  gap <= MaxGap /\ gap < day /\ day - gap <= DaysIn(month + 1) => month + 1 \in partitions

\* If the days since the x-th count as steady, a full round fell on one of the 28
\* days up to it, and AddDate(1) was the next month if that has an x-th.
NextIsReady ==
  \A x \in 28..31 : x <= DaysIn(month + 1) /\ x < day /\ day - x <= steady =>
                     month + 1 \in partitions

\* The same, once the next month has become this month.
ThisIsReady ==
  \A x \in 28..31 : /\ x <= DaysIn(month - 1) /\ x <= DaysIn(month)
                    /\ DaysIn(month - 1) - x + day <= steady
                    => month \in partitions

\* The inductive invariant.
CalendarInv == DateOK /\ RoundMadeNext /\ NextIsReady /\ ThisIsReady
================================================================================
