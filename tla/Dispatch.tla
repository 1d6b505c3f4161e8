-------------------------------- MODULE Dispatch -------------------------------
(***************************************************************************)
(* How a worker finds its next job: the scan of Dequeue over the tenants   *)
(* that it knows and over the three lanes of each, and the goroutine that  *)
(* keeps the worker's list of tenants, on a ticker and on SIGHUP.  Module  *)
(* Worker takes from any lane; here is which lane, and when.               *)
(*                                                                         *)
(* One worker is modelled in full.  Of the others, what this one can see   *)
(* is that entries disappear.  The random order of weightedShuffle is      *)
(* drawn one tenant at a time: no draw depends on what happens meanwhile.  *)
(***************************************************************************)
EXTENDS Faults, Sequences

CONSTANTS
  Tenants,
  Weights,    \* the weights that a tenant may have in its table
  Inactive,   \* a tenant that is not there, or whose status is not active
  Entries,    \* queue entries
  Changing,   \* bound: the tenants whose row may change; the others are active
  Loaded,     \* bound: the buckets that entries are pushed to
  MaxPolls    \* how many scans Dequeue has time for

ASSUME DispatchAssumption ==
  /\ Weights \subseteq Int /\ Inactive \notin Int
  /\ Changing \subseteq Tenants /\ Loaded \subseteq {1, 5, 10}
  /\ MaxPolls \in Nat

VARIABLES
  tenants,    \* table tenants
  cache,      \* the worker's list
  refresher,  \* the goroutine that keeps it, with the rows it has read
  reload,     \* whether the channel of capacity 1 holds a signal
  lanes,      \* queue:{bucket}:{tenant}, oldest entry first
  scan,       \* where the worker is in Dequeue
  unread,     \* history: the table has changed since the goroutine last read it
  owed        \* history: it had when the last SIGHUP came

cacheVars == <<tenants, cache, refresher, reload, unread, owed>>

dispatchVars == <<cacheVars, faults, lanes, scan>>

\* A slip: the buckets in the order of their names.
bucketsByName == <<1, 10, 5>>

priorityBuckets == <<1, 5, 10>>

Buckets == {1, 5, 10}

Queued == {e \in Entries : \E k \in DOMAIN lanes : \E n \in 1..Len(lanes[k]) : lanes[k][n] = e}

InLanes(t) ==
  {e \in Entries : \E b \in Buckets : \E n \in 1..Len(lanes[<<t, b>>]) : lanes[<<t, b>>][n] = e}

\* Before the loop of Run, and in it, outside Dequeue.
Starting == [step |-> "start"]

Between == [step |-> "between"]

Table == [Tenants -> Weights \cup {Inactive}]

List == [Tenants -> (Nat \ {0}) \cup {Inactive}]

\* Before a draw: the list that this call of Dequeue goes by, the tenants that the
\* scan has still to visit, and how many scans there were before it.
Drawing ==
  [step : {"draw"}, known : List, rest : SUBSET Tenants, polls : 0..MaxPolls]

\* What is left of priorityBuckets when some have been passed.
BucketsLeft == {<<1, 5, 10>>, <<5, 10>>, <<10>>}

\* At a tenant: with the buckets left, and the entries that were there when the
\* scan came to this tenant and still are.
AtTenant ==
  [step : {"lanes"}, known : List, rest : SUBSET Tenants, polls : 0..MaxPolls,
   tenant : Tenants, buckets : BucketsLeft,
   older : SUBSET Entries]

\* Types: the table, the worker's list and its goroutine, the lanes, and where
\* Dequeue is.
DispatchTypeOK ==
  /\ tenants \in Table
  /\ cache \in List
  /\ refresher \in [step : {"select", "read"}] \cup [step : {"publish"}, rows : Table]
  /\ reload \in BOOLEAN /\ unread \in BOOLEAN /\ owed \in BOOLEAN
  /\ lanes \in [Tenants \X Buckets -> Seq(Entries)]
  /\ scan \in {Between, Starting} \cup Drawing \cup AtTenant

\* Run loads the list before it starts the goroutine and the loop.
DispatchInit ==
  /\ FaultsInit
  /\ tenants \in Table
  /\ \A t \in Tenants \ Changing : tenants[t] # Inactive
  /\ cache = [t \in Tenants |-> Inactive]
  /\ refresher = [step |-> "read"]
  /\ reload = FALSE
  /\ lanes = [k \in Tenants \X Buckets |-> <<>>]
  /\ scan = Starting
  /\ unread = FALSE /\ owed = FALSE

--------------------------------------------------------------------------------
(* The list of tenants *)

\* An administrator adds, removes or reweights a tenant.
ChangeTenant(t) ==
  /\ \E x \in Weights \cup {Inactive} :
       x # tenants[t] /\ tenants' = [tenants EXCEPT ![t] = x]
  /\ unread' = TRUE
  /\ NoFault
  /\ UNCHANGED <<cache, refresher, reload, owed, lanes, scan>>

\* A slip: a channel without a buffer takes only what is waited for.
ReloadUnbuffered ==
  /\ IF refresher.step = "select"
     THEN refresher' = [step |-> "read"]
     ELSE UNCHANGED refresher
  /\ owed' = unread
  /\ NoFault
  /\ UNCHANGED <<tenants, cache, reload, unread, lanes, scan>>

\* SIGHUP.  A full channel is left as it is.
Reload ==
  /\ reload' = TRUE
  /\ owed' = unread
  /\ NoFault
  /\ UNCHANGED <<tenants, cache, refresher, unread, lanes, scan>>

\* The ticker, or the channel.
Refresh ==
  /\ refresher.step = "select"
  /\ refresher' = [step |-> "read"]
  /\ \/ UNCHANGED reload
     \/ reload /\ reload' = FALSE
  /\ NoFault
  /\ UNCHANGED <<tenants, cache, unread, owed, lanes, scan>>

\* The first load is over: Run enters its loop.
Started == scan' = IF scan = Starting THEN Between ELSE scan

\* GetTenants: the active ones.
GetTenants ==
  /\ refresher.step = "read"
  /\ refresher' = [step |-> "publish", rows |-> tenants]
  /\ unread' = FALSE /\ owed' = FALSE
  /\ NoFault
  /\ UNCHANGED <<tenants, cache, reload, lanes, scan>>

\* The error is logged, and the list stays; a signal that led here is used up.
GetTenantsErrored ==
  /\ refresher.step = "read"
  /\ refresher' = [step |-> "select"]
  /\ owed' = FALSE
  /\ Fault("db")
  /\ Started
  /\ UNCHANGED <<tenants, cache, reload, unread, lanes>>

\* A slip: the weights as they are in the table.
WeightAsIs(x) == x

WeightOf(x) == IF x # Inactive /\ x <= 0 THEN 100 ELSE x

\* loadTenants, from the rows to the list.
Publish ==
  /\ refresher.step = "publish"
  /\ cache' = [t \in Tenants |-> WeightOf(refresher.rows[t])]
  /\ refresher' = [step |-> "select"]
  /\ NoFault
  /\ Started
  /\ UNCHANGED <<tenants, reload, unread, owed, lanes>>

runRefresher == Refresh \/ GetTenants \/ GetTenantsErrored \/ Publish

--------------------------------------------------------------------------------
(* The lanes *)

Known(list) == {t \in Tenants : list[t] # Inactive}

\* LPUSH by anybody.  A job that was taken may be back, on retry.
Enqueue(e, k) ==
  /\ e \notin Queued /\ k[2] \in Loaded
  /\ lanes' = [lanes EXCEPT ![k] = Append(@, e)]
  /\ NoFault
  /\ UNCHANGED <<cacheVars, scan>>

\* Another worker's LMOVE.
TakenElsewhere(k) ==
  /\ lanes[k] # <<>>
  /\ lanes' = [lanes EXCEPT ![k] = Tail(@)]
  /\ scan' = IF scan.step = "lanes"
             THEN [scan EXCEPT !.older = @ \ {Head(lanes[k])}]
             ELSE scan
  /\ NoFault
  /\ UNCHANGED cacheVars

Draws(known, rest, polls) ==
  [step |-> "draw", known |-> known, rest |-> rest, polls |-> polls]

\* The loop of Run calls Dequeue with the list as it is.
BeginDequeue ==
  /\ scan = Between
  /\ scan' = Draws(cache, Known(cache), 0)
  /\ NoFault
  /\ UNCHANGED <<cacheVars, lanes>>

\* weightedShuffle draws the next tenant: any whose weight is not zero.  With
\* nothing but zeroes left rand.Intn panics.
Draw(t) ==
  /\ scan.step = "draw"
  /\ t \in scan.rest
  /\ scan.known[t] > 0
  /\ scan' = [step |-> "lanes", known |-> scan.known, rest |-> scan.rest \ {t},
              tenant |-> t, buckets |-> priorityBuckets, older |-> InLanes(t),
              polls |-> scan.polls]
  /\ NoFault
  /\ UNCHANGED <<cacheVars, lanes>>

Lane == <<scan.tenant, Head(scan.buckets)>>

AtLane == scan.step = "lanes"

\* LMOVE from an empty lane: on to the next one, or to the next tenant.
LaneEmpty ==
  /\ AtLane
  /\ lanes[Lane] = <<>>
  /\ scan' = IF Len(scan.buckets) > 1
             THEN [scan EXCEPT !.buckets = Tail(@)]
             ELSE Draws(scan.known, scan.rest, scan.polls)
  /\ NoFault
  /\ UNCHANGED <<cacheVars, lanes>>

\* LMOVE finds an entry: Dequeue returns it, and process takes over.
TakeEntry ==
  /\ AtLane
  /\ lanes[Lane] # <<>>
  /\ lanes' = [lanes EXCEPT ![Lane] = Tail(@)]
  /\ scan' = Between
  /\ NoFault
  /\ UNCHANGED cacheVars

\* LMOVE fails: Dequeue returns the error, which Run logs.
LaneErrored ==
  /\ AtLane
  /\ Fault("redis")
  /\ scan' = Between
  /\ UNCHANGED <<cacheVars, lanes>>

\* A slip: the timeout is never looked at.
ScanUntilFound ==
  /\ scan.step = "draw" /\ scan.rest = {}
  /\ scan' = Draws(scan.known, Known(scan.known), scan.polls + 1)
  /\ NoFault
  /\ UNCHANGED <<cacheVars, lanes>>

\* Nothing anywhere: after pollInterval once more, by the same list, or, when the
\* timeout is over, back to Run.
ScanDone ==
  /\ scan.step = "draw" /\ scan.rest = {}
  /\ \/ /\ scan.polls < MaxPolls
        /\ scan' = Draws(scan.known, Known(scan.known), scan.polls + 1)
     \/ scan' = Between
  /\ NoFault
  /\ UNCHANGED <<cacheVars, lanes>>

Dequeue ==
  BeginDequeue \/ LaneEmpty \/ TakeEntry \/ LaneErrored \/ ScanDone

DispatchNext ==
  \/ \E t \in Changing : ChangeTenant(t)
  \/ \E t \in Tenants : Draw(t)
  \/ Reload \/ runRefresher \/ Dequeue
  \/ \E k \in Tenants \X Buckets : TakenElsewhere(k) \/ \E e \in Entries : Enqueue(e, k)

\* The goroutine and the loop go on, and a draw that always may fall on a tenant
\* some time does.
DispatchFairness ==
  /\ WF_dispatchVars(runRefresher)
  /\ WF_dispatchVars(Dequeue)
  /\ \A t \in Tenants : SF_dispatchVars(Draw(t))

DispatchSpec == DispatchInit /\ [][DispatchNext]_dispatchVars /\ DispatchFairness

--------------------------------------------------------------------------------
(* Properties *)

\* Whatever is pushed or taken during the scan: when the worker comes to a lane,
\* nothing of a higher lane of this tenant has waited since it came to the tenant.
HigherLaneFirst ==
  AtLane => \A b \in Buckets : b < Head(scan.buckets) =>
    \A n \in 1..Len(lanes[<<scan.tenant, b>>]) : lanes[<<scan.tenant, b>>][n] \notin scan.older

\* A change of the table before a SIGHUP is not missed, at whatever moment the
\* signal comes: as long as the goroutine has not read the change, the channel
\* holds the signal or the goroutine is about to read.
ReloadNotLost == owed => reload \/ refresher.step = "read"

\* No entry is first in its lane for ever while its tenant is active and nothing
\* waits in the higher lanes of that tenant, however many jobs other tenants have,
\* and whenever the tenant was added.
HeadOfLaneServed ==
  \A t \in Tenants, b \in Buckets, e \in Entries :
    []<>~(/\ tenants[t] # Inactive
          /\ \A c \in Buckets : c < b => lanes[<<t, c>>] = <<>>
          /\ lanes[<<t, b>>] # <<>> /\ Head(lanes[<<t, b>>]) = e)
================================================================================
