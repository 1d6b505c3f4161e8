------------------------------- MODULE LoopProofs ------------------------------
(***************************************************************************)
(* Proofs about the loops that run on their own and share no state: the    *)
(* dispatch of a worker, the beats and the reaper around one claim, and    *)
(* the leader's partition maintainer.  For any number of tenants, entries  *)
(* and errors, any weights and timeouts, any intervals that satisfy        *)
(* IntervalsAssumption, and any calendar.                                  *)
(***************************************************************************)
EXTENDS Dispatch, Lease, Partitions, SequenceTheorems, TLAPS

--------------------------------------------------------------------------------
(* The dispatch of a worker: its scan and its list of tenants *)

\* The entries that the scan holds to be older than itself are in the queues.
OlderIsQueued == scan.step = "lanes" => scan.older \subseteq Queued

DispatchInv == DispatchTypeOK /\ OlderIsQueued /\ HigherLaneFirst

\* loadTenants makes a list of positive weights of what GetTenants returned.
LEMMA WeightsArePositive ==
  ASSUME NEW rows \in Table
  PROVE  [t \in Tenants |-> WeightOf(rows[t])] \in List
<1>1. ASSUME NEW x \in Weights \cup {Inactive}
      PROVE  WeightOf(x) \in (Nat \ {0}) \cup {Inactive}
  <2>1. CASE x = Inactive
    BY <2>1, Zenon DEF WeightOf
  <2>2. CASE x # Inactive
    <3>1. x \in Int
      BY <2>2, DispatchAssumption, Zenon
    <3>2. CASE x <= 0
      BY <2>2, <3>2 DEF WeightOf
    <3>3. CASE ~(x <= 0)
      BY <3>1, <3>3 DEF WeightOf
    <3> QED
      BY <3>2, <3>3, Zenon
  <2> QED
    BY <2>1, <2>2, Zenon
<1> QED
  BY <1>1, Zenon DEF Table, List

\* What LMOVE takes from a lane, and what it leaves there.
LEMMA TailOfLane ==
  ASSUME NEW q \in Seq(Entries), q # <<>>
  PROVE  /\ Tail(q) \in Seq(Entries)
         /\ Len(Tail(q)) = Len(q) - 1
         /\ Len(q) \in Nat /\ Len(q) > 0
         /\ \A n \in 1..Len(Tail(q)) : n + 1 \in 1..Len(q) /\ Tail(q)[n] = q[n + 1]
         /\ Head(q) = q[1]
<1> QED
  OBVIOUS

\* What Enqueue adds to a lane.
LEMMA AppendToLane ==
  ASSUME NEW q \in Seq(Entries), NEW e \in Entries
  PROVE  /\ Append(q, e) \in Seq(Entries)
         /\ Len(Append(q, e)) = Len(q) + 1
         /\ Len(q) \in Nat
         /\ \A n \in 1..Len(Append(q, e)) :
              (n \in 1..Len(q) /\ Append(q, e)[n] = q[n]) \/ Append(q, e)[n] = e
         /\ \A n \in 1..Len(q) : n \in 1..Len(Append(q, e)) /\ Append(q, e)[n] = q[n]
<1> QED
  OBVIOUS

\* The steps of the goroutine and the signal leave the lanes alone, and the scan
\* too, except that the first load lets Run enter its loop.
LEMMA RefresherStep ==
  ASSUME DispatchInv,
         Reload \/ runRefresher \/ \E t \in Changing : ChangeTenant(t)
  PROVE  DispatchInv'
<1>1. /\ lanes' = lanes
      /\ scan' = scan \/ scan' = Between
  BY Zenon DEF Reload, runRefresher, ChangeTenant, Refresh, GetTenants, GetTenantsErrored, Publish,
         Started
<1>2. tenants' \in Table
  BY DispatchAssumption, Zenon DEF DispatchInv, DispatchTypeOK, Reload, runRefresher, ChangeTenant,
     Refresh, GetTenants, GetTenantsErrored, Publish, Table
<1>3. cache' \in List
  <2>1. CASE Publish
    BY <2>1, WeightsArePositive, Zenon DEF DispatchInv, DispatchTypeOK, Publish
  <2>2. CASE ~Publish
    BY <2>2, Zenon DEF DispatchInv, DispatchTypeOK, Reload, runRefresher, ChangeTenant, Refresh,
       GetTenants, GetTenantsErrored
  <2> QED
    BY <2>1, <2>2, Zenon
<1>4. refresher' \in [step : {"select", "read"}] \cup [step : {"publish"}, rows : Table]
  BY DEF DispatchInv, DispatchTypeOK, Reload, runRefresher, ChangeTenant,
     Refresh, GetTenants, GetTenantsErrored, Publish
<1>5. reload' \in BOOLEAN /\ unread' \in BOOLEAN /\ owed' \in BOOLEAN
  BY Zenon DEF DispatchInv, DispatchTypeOK, Reload, runRefresher, ChangeTenant,
     Refresh, GetTenants, GetTenantsErrored, Publish
<1>6. Between.step # "lanes"
  BY Zenon DEF Between
<1>7. CASE scan' = scan
  BY <1>1, <1>2, <1>3, <1>4, <1>5, <1>7
     DEF DispatchInv, DispatchTypeOK, OlderIsQueued, HigherLaneFirst, AtLane, Queued
<1>8. CASE scan' = Between
  BY <1>1, <1>2, <1>3, <1>4, <1>5, <1>6, <1>8, Zenon
     DEF DispatchInv, DispatchTypeOK, OlderIsQueued, HigherLaneFirst, AtLane
<1> QED
  BY <1>1, <1>7, <1>8, Zenon

\* The order of the buckets, as the scan goes through them.
LEMMA NextBucket ==
  ASSUME NEW bs \in BucketsLeft
  PROVE  /\ Head(bs) \in Buckets
         /\ Len(bs) > 1 =>
              /\ Tail(bs) \in BucketsLeft
              /\ \A b \in Buckets : b < Head(Tail(bs)) => b < Head(bs) \/ b = Head(bs)
<1>1. CASE bs = <<1, 5, 10>>
  BY <1>1 DEF Buckets, BucketsLeft
<1>2. CASE bs = <<5, 10>>
  BY <1>2 DEF Buckets, BucketsLeft
<1>3. CASE bs = <<10>>
  BY <1>3 DEF Buckets, BucketsLeft
<1> QED
  BY <1>1, <1>2, <1>3, Zenon DEF BucketsLeft

\* A step that leaves the lanes and the list alone keeps the invariant if it keeps
\* the part of it that is about the scan.
LEMMA ScanFrame ==
  ASSUME DispatchInv, UNCHANGED cacheVars,
         lanes' \in [Tenants \X Buckets -> Seq(Entries)],
         scan' \in {Between} \cup Drawing
  PROVE  DispatchInv'
<1>1. scan'.step # "lanes"
  BY DEF Between, Drawing
<1> QED
  BY <1>1, Zenon DEF DispatchInv, DispatchTypeOK, OlderIsQueued, HigherLaneFirst, AtLane, cacheVars

\* weightedShuffle draws a tenant: nothing is passed over yet.
LEMMA DrawStep ==
  ASSUME DispatchInv, NEW t \in Tenants, Draw(t)
  PROVE  DispatchInv'
<1>1. scan \in Drawing
  BY DEF DispatchInv, DispatchTypeOK, Draw, Between, Starting, AtTenant
<1>2. InLanes(t) \subseteq Queued /\ InLanes(t) \subseteq Entries
  BY Zenon DEF InLanes, Queued, DispatchInv, DispatchTypeOK
<1>3. scan' \in AtTenant /\ scan'.older = InLanes(t) /\ scan'.buckets = <<1, 5, 10>>
  BY <1>1, <1>2, Zenon DEF Draw, Drawing, AtTenant, priorityBuckets, BucketsLeft
<1>4. Head(scan'.buckets) = 1 /\ \A b \in Buckets : ~(b < 1)
  BY <1>3 DEF Buckets
<1>5. lanes' = lanes /\ UNCHANGED cacheVars
  BY Zenon DEF Draw
<1> QED
  BY <1>2, <1>3, <1>4, <1>5
     DEF DispatchInv, DispatchTypeOK, OlderIsQueued, HigherLaneFirst, AtLane, Queued, cacheVars

\* LMOVE from an empty lane: what is passed over now had nothing in it.
LEMMA EmptyStep ==
  ASSUME DispatchInv, LaneEmpty
  PROVE  DispatchInv'
<1>1. scan \in AtTenant
  BY DEF DispatchInv, DispatchTypeOK, LaneEmpty, AtLane, Between, Starting, Drawing
<1>2. lanes' = lanes /\ UNCHANGED cacheVars
  BY Zenon DEF LaneEmpty
<1>3. CASE Len(scan.buckets) > 1
  <2>1. scan' = [scan EXCEPT !.buckets = Tail(scan.buckets)]
    BY <1>3, Zenon DEF LaneEmpty
  <2>2. /\ Tail(scan.buckets) \in BucketsLeft
        /\ \A b \in Buckets :
             b < Head(Tail(scan.buckets)) => b < Head(scan.buckets) \/ b = Head(scan.buckets)
    BY <1>1, <1>3, NextBucket, Zenon DEF AtTenant
  <2>3. /\ scan' \in AtTenant
        /\ scan'.older = scan.older /\ scan'.tenant = scan.tenant
        /\ scan'.buckets = Tail(scan.buckets)
    BY <1>1, <2>1, <2>2, Zenon DEF AtTenant
  <2>4. lanes[<<scan.tenant, Head(scan.buckets)>>] = <<>>
    BY Zenon DEF LaneEmpty, Lane
  <2>5. HigherLaneFirst'
    <3> SUFFICES ASSUME NEW b \in Buckets, b < Head(Tail(scan.buckets)),
                        NEW n \in 1..Len(lanes[<<scan.tenant, b>>])
                 PROVE  lanes[<<scan.tenant, b>>][n] \notin scan.older
      BY <1>2, <2>3, Zenon DEF HigherLaneFirst, AtLane
    <3>1. CASE b < Head(scan.buckets)
      BY <3>1, Zenon DEF DispatchInv, HigherLaneFirst, LaneEmpty
    <3>2. CASE b = Head(scan.buckets)
      BY <3>2, <2>4
    <3> QED
      BY <2>2, <3>1, <3>2, Zenon
  <2> QED
    BY <1>1, <1>2, <2>3, <2>5
       DEF DispatchInv, DispatchTypeOK, OlderIsQueued, Queued, cacheVars, AtTenant
<1>4. CASE ~(Len(scan.buckets) > 1)
  <2>1. scan' \in Drawing
    BY <1>1, <1>4, Zenon DEF LaneEmpty, Draws, AtTenant, Drawing
  <2> QED
    BY <1>2, <2>1, ScanFrame, Zenon DEF DispatchInv, DispatchTypeOK
<1> QED
  BY <1>3, <1>4, Zenon

\* LPUSH: a new entry is not one that waited when the scan came to the tenant.
LEMMA EnqueueStep ==
  ASSUME DispatchInv, NEW k \in Tenants \X Buckets, NEW e \in Entries, Enqueue(e, k)
  PROVE  DispatchInv'
<1>1. /\ lanes \in [Tenants \X Buckets -> Seq(Entries)]
      /\ lanes' = [lanes EXCEPT ![k] = Append(lanes[k], e)]
      /\ scan' = scan /\ UNCHANGED cacheVars /\ e \notin Queued
  BY Zenon DEF DispatchInv, DispatchTypeOK, Enqueue
<1>2. /\ Append(lanes[k], e) \in Seq(Entries)
      /\ \A n \in 1..Len(Append(lanes[k], e)) :
           \/ n \in 1..Len(lanes[k]) /\ Append(lanes[k], e)[n] = lanes[k][n]
           \/ Append(lanes[k], e)[n] = e
      /\ \A n \in 1..Len(lanes[k]) :
           n \in 1..Len(Append(lanes[k], e)) /\ Append(lanes[k], e)[n] = lanes[k][n]
  BY <1>1, AppendToLane, Zenon
<1>3. lanes' \in [Tenants \X Buckets -> Seq(Entries)]
  BY <1>1, <1>2, Zenon
<1>4. DispatchTypeOK'
  BY <1>1, <1>3, Zenon DEF DispatchInv, DispatchTypeOK, cacheVars
<1>5. Queued \subseteq Queued'
  BY <1>1, <1>2, <1>3 DEF Queued
<1>6. OlderIsQueued'
  BY <1>1, <1>5, Zenon DEF DispatchInv, OlderIsQueued
<1>7. HigherLaneFirst'
  <2> SUFFICES ASSUME AtLane, NEW b \in Buckets, b < Head(scan.buckets),
                      NEW n \in 1..Len(lanes'[<<scan.tenant, b>>])
               PROVE  lanes'[<<scan.tenant, b>>][n] \notin scan.older
    BY <1>1, Zenon DEF HigherLaneFirst, AtLane
  <2>1. e \notin scan.older
    BY <1>1, Zenon DEF DispatchInv, OlderIsQueued, AtLane
  <2>2. CASE <<scan.tenant, b>> = k
    BY <1>1, <1>2, <2>1, <2>2, Zenon DEF DispatchInv, HigherLaneFirst
  <2>3. CASE <<scan.tenant, b>> # k
    <3>1. lanes'[<<scan.tenant, b>>] = lanes[<<scan.tenant, b>>]
      <4>1. scan.tenant \in Tenants
        BY DEF DispatchInv, DispatchTypeOK, AtLane, AtTenant, Between, Starting, Drawing
      <4> QED
        BY <1>1, <2>3, <4>1, Zenon
    <3> QED
      BY <3>1, Zenon DEF DispatchInv, HigherLaneFirst
  <2> QED
    BY <2>2, <2>3, Zenon
<1> QED
  BY <1>4, <1>6, <1>7, Zenon DEF DispatchInv

\* Another worker's LMOVE: the entry that it takes is not waited for any more.
LEMMA TakenStep ==
  ASSUME DispatchInv, NEW k \in Tenants \X Buckets, TakenElsewhere(k)
  PROVE  DispatchInv'
<1>1. /\ lanes \in [Tenants \X Buckets -> Seq(Entries)]
      /\ lanes[k] # <<>>
      /\ lanes' = [lanes EXCEPT ![k] = Tail(lanes[k])]
      /\ UNCHANGED cacheVars
  BY Zenon DEF DispatchInv, DispatchTypeOK, TakenElsewhere
<1>2. /\ Tail(lanes[k]) \in Seq(Entries)
      /\ Len(Tail(lanes[k])) = Len(lanes[k]) - 1 /\ Len(lanes[k]) \in Nat
      /\ \A n \in 1..Len(Tail(lanes[k])) :
           n + 1 \in 1..Len(lanes[k]) /\ Tail(lanes[k])[n] = lanes[k][n + 1]
      /\ Head(lanes[k]) = lanes[k][1]
  BY <1>1, TailOfLane, Zenon
<1>3. lanes' \in [Tenants \X Buckets -> Seq(Entries)]
  BY <1>1, <1>2, Zenon
<1>4. CASE scan.step # "lanes"
  BY <1>1, <1>3, <1>4, Zenon DEF DispatchInv, DispatchTypeOK, OlderIsQueued, HigherLaneFirst, AtLane,
     cacheVars, TakenElsewhere
<1>5. CASE scan.step = "lanes"
  <2>1. scan \in AtTenant
    BY <1>5 DEF DispatchInv, DispatchTypeOK, Between, Starting, Drawing
  <2>2. scan' = [scan EXCEPT !.older = scan.older \ {Head(lanes[k])}]
    BY <1>5, Zenon DEF TakenElsewhere
  <2>3. /\ scan' \in AtTenant
        /\ scan'.older = scan.older \ {lanes[k][1]}
        /\ scan'.tenant = scan.tenant /\ scan'.buckets = scan.buckets
    BY <1>2, <2>1, <2>2, Zenon DEF AtTenant
  <2>4. OlderIsQueued'
    <3> SUFFICES ASSUME NEW x \in scan.older, x # lanes[k][1]
                 PROVE  x \in Queued'
      BY <2>3, Zenon DEF OlderIsQueued
    <3>1. PICK l \in Tenants \X Buckets : \E n \in 1..Len(lanes[l]) : lanes[l][n] = x
      BY <1>1, <1>5, Zenon DEF DispatchInv, OlderIsQueued, Queued
    <3>2. x \in Entries
      BY <2>1, Zenon DEF AtTenant
    <3>3. PICK n \in 1..Len(lanes[l]) : lanes[l][n] = x
      BY <3>1, Zenon
    <3>4. CASE l = k
      <4>1. n # 1 /\ n \in Nat
        BY <1>1, <3>3, <3>4
      <4>2. n - 1 \in 1..Len(Tail(lanes[k]))
        BY <1>2, <3>3, <3>4, <4>1
      <4>3. Tail(lanes[k])[n - 1] = x
        BY <1>2, <3>3, <3>4, <4>1, <4>2
      <4> QED
        BY <1>1, <1>3, <3>2, <4>2, <4>3, Zenon DEF Queued
    <3>5. CASE l # k
      BY <1>1, <1>3, <3>2, <3>3, <3>5, Zenon DEF Queued
    <3> QED
      BY <3>4, <3>5, Zenon
  <2>5. HigherLaneFirst'
    <3> SUFFICES ASSUME NEW b \in Buckets, b < Head(scan.buckets),
                        NEW n \in 1..Len(lanes'[<<scan.tenant, b>>])
                 PROVE  lanes'[<<scan.tenant, b>>][n] \notin scan.older
      BY <2>3, Zenon DEF HigherLaneFirst, AtLane
    <3>1. <<scan.tenant, b>> \in Tenants \X Buckets
      BY <2>1, Zenon DEF AtTenant
    <3>2. CASE <<scan.tenant, b>> = k
      BY <1>1, <1>2, <1>5, <3>2, Zenon DEF DispatchInv, HigherLaneFirst, AtLane
    <3>3. CASE <<scan.tenant, b>> # k
      BY <1>1, <1>5, <3>1, <3>3, Zenon DEF DispatchInv, HigherLaneFirst, AtLane
    <3> QED
      BY <3>2, <3>3, Zenon
  <2> QED
    BY <1>1, <1>3, <2>3, <2>4, <2>5, Zenon DEF DispatchInv, DispatchTypeOK, cacheVars
<1> QED
  BY <1>4, <1>5, Zenon

\* The other steps of Dequeue end a look at a tenant, or the call.
LEMMA DequeueStep ==
  ASSUME DispatchInv, Dequeue
  PROVE  DispatchInv'
<1>1. CASE BeginDequeue
  <2>1. scan' \in Drawing
    BY <1>1, DispatchAssumption DEF BeginDequeue, Draws, Known, Drawing, DispatchInv, DispatchTypeOK
  <2> QED
    BY <1>1, <2>1, ScanFrame, Zenon DEF BeginDequeue, DispatchInv, DispatchTypeOK
<1>2. CASE LaneEmpty
  BY <1>2, EmptyStep, Zenon
<1>3. CASE TakeEntry
  <2>1. scan \in AtTenant
    BY <1>3 DEF DispatchInv, DispatchTypeOK, TakeEntry, AtLane, Between, Starting, Drawing
  <2>2. Lane \in Tenants \X Buckets
    BY <2>1, NextBucket, Zenon DEF Lane, AtTenant
  <2>3. lanes' \in [Tenants \X Buckets -> Seq(Entries)]
    BY <1>3, <2>2, TailOfLane, Zenon DEF TakeEntry, DispatchInv, DispatchTypeOK
  <2> QED
    BY <1>3, <2>3, ScanFrame, Zenon DEF TakeEntry
<1>4. CASE LaneErrored
  BY <1>4, ScanFrame, Zenon DEF LaneErrored, DispatchInv, DispatchTypeOK
<1>5. CASE ScanDone
  <2>1. scan \in Drawing
    BY <1>5 DEF ScanDone, DispatchInv, DispatchTypeOK, Between, Starting, AtTenant
  <2>2. CASE scan' = Between
    BY <1>5, <2>2, ScanFrame, Zenon DEF ScanDone, DispatchInv, DispatchTypeOK
  <2>3. CASE scan.polls < MaxPolls /\ scan' = Draws(scan.known, Known(scan.known), scan.polls + 1)
    <3>1. scan.polls + 1 \in 0..MaxPolls
      BY <2>1, <2>3, DispatchAssumption DEF Drawing
    <3>2. scan' \in Drawing
      BY <2>1, <2>3, <3>1, Zenon DEF Draws, Known, Drawing
    <3> QED
      BY <1>5, <3>2, ScanFrame, Zenon DEF ScanDone, DispatchInv, DispatchTypeOK
  <2> QED
    BY <1>5, <2>2, <2>3, Zenon DEF ScanDone
<1> QED
  BY <1>1, <1>2, <1>3, <1>4, <1>5, Zenon DEF Dequeue

\* Run starts with no list and no scan.
LEMMA DispatchStarts == DispatchInit => DispatchInv
<1> SUFFICES ASSUME DispatchInit PROVE DispatchInv
  BY Zenon
<1>1. scan.step # "lanes"
  BY Zenon DEF DispatchInit, Starting
<1>2. <<>> \in Seq(Entries)
  OBVIOUS
<1> QED
  BY <1>1, <1>2, Zenon DEF DispatchInit, DispatchInv, DispatchTypeOK, OlderIsQueued, HigherLaneFirst,
     AtLane, List

\* Every step of the worker, of the administrator and of the other processes.
LEMMA DispatchSteps == DispatchInv /\ [DispatchNext]_dispatchVars => DispatchInv'
<1> SUFFICES ASSUME DispatchInv, [DispatchNext]_dispatchVars PROVE DispatchInv'
  BY Zenon
<1>1. CASE UNCHANGED dispatchVars
  BY <1>1 DEF dispatchVars, cacheVars, DispatchInv, DispatchTypeOK, OlderIsQueued,
     HigherLaneFirst, AtLane, Queued
<1>2. CASE DispatchNext
  BY <1>2, RefresherStep, DrawStep, DequeueStep, EnqueueStep, TakenStep, Zenon DEF DispatchNext
<1> QED
  BY <1>1, <1>2, Zenon

\* Dequeue goes by priority: whoever pushes and takes during the scan, however
\* many tenants, entries and errors there are, no job of a higher lane that waited
\* when the scan came to its tenant is passed over, and every list of tenants that
\* weightedShuffle is given has positive weights only.
THEOREM ScansByPriority == DispatchSpec => []HigherLaneFirst
<1>1. DispatchInv => HigherLaneFirst
  BY Zenon DEF DispatchInv
<1> QED
  BY <1>1, DispatchStarts, DispatchSteps, PTL DEF DispatchSpec

\* The list that loadTenants publishes has positive weights for any weights in the
\* table, and the scan stays within that list and the three lanes.
THEOREM ScansAreTyped == DispatchSpec => []DispatchTypeOK
<1>1. DispatchInv => DispatchTypeOK
  BY Zenon DEF DispatchInv
<1> QED
  BY <1>1, DispatchStarts, DispatchSteps, PTL DEF DispatchSpec

\* Reload: a SIGHUP that came after a change of the table is in the channel until
\* the goroutine of Run turns to the table.
THEOREM ReloadsAreHeard == DispatchSpec => []ReloadNotLost
<1>1. DispatchInit => ReloadNotLost
  BY Zenon DEF DispatchInit, ReloadNotLost
<1>2. ReloadNotLost /\ [DispatchNext]_dispatchVars => ReloadNotLost'
  <2> SUFFICES ASSUME ReloadNotLost, [DispatchNext]_dispatchVars PROVE ReloadNotLost'
    BY Zenon
  <2>1. CASE Reload \/ GetTenants \/ GetTenantsErrored
    BY <2>1, Zenon DEF ReloadNotLost, Reload, GetTenants, GetTenantsErrored
  <2>2. CASE runRefresher /\ ~GetTenants /\ ~GetTenantsErrored
    <3>1. CASE Refresh
      BY <3>1, Zenon DEF ReloadNotLost, Refresh
    <3>2. CASE Publish
      <4>1. refresher.step # "read"
        BY <3>2, Zenon DEF Publish
      <4>2. owed' = owed /\ reload' = reload
        BY <3>2, Zenon DEF Publish
      <4> QED
        BY <4>1, <4>2, Zenon DEF ReloadNotLost
    <3> QED
      BY <2>2, <3>1, <3>2, Zenon DEF runRefresher
  <2>3. CASE \E t \in Changing : ChangeTenant(t)
    BY <2>3 DEF ReloadNotLost, ChangeTenant
  <2>4. CASE UNCHANGED cacheVars
    BY <2>4, Zenon DEF ReloadNotLost, cacheVars
  <2>5. ASSUME Dequeue \/ UNCHANGED dispatchVars
        PROVE  UNCHANGED cacheVars
    BY <2>5, Zenon DEF Dequeue, BeginDequeue, LaneEmpty, TakeEntry, LaneErrored, ScanDone, dispatchVars
  <2>6. ASSUME NEW t \in Tenants, Draw(t)
        PROVE  UNCHANGED cacheVars
    BY <2>6, Zenon DEF Draw
  <2>7. ASSUME NEW k \in Tenants \X Buckets,
               TakenElsewhere(k) \/ \E e \in Entries : Enqueue(e, k)
        PROVE  UNCHANGED cacheVars
    BY <2>7, Zenon DEF TakenElsewhere, Enqueue
  <2> QED
    BY <2>1, <2>2, <2>3, <2>4, <2>5, <2>6, <2>7, Zenon DEF DispatchNext, runRefresher
<1> QED
  BY <1>1, <1>2, PTL DEF DispatchSpec

--------------------------------------------------------------------------------
(* One claim in real time: LeaseInv is inductive *)

\* The intervals, one by one.
LEMMA Intervals ==
  /\ ClaimTTL \in Nat /\ ClaimTTL > 0
  /\ BeatEvery \in Nat /\ BeatEvery > 0
  /\ BeatTTL \in Nat /\ BeatTTL > 0
  /\ ReapEvery \in Nat /\ ReapEvery > 0
  /\ HttpTimeout \in Nat /\ HttpTimeout > 0
  /\ MaxLag \in Nat /\ MaxFlight \in Nat
  /\ MaxVacancy \in Nat /\ MaxPutOff \in Nat
BY LeaseAssumption

\* The deadline, the beats and the reaper start in step, as process leaves them.
LEMMA InitLease == LeaseInit => LeaseInv
<1> SUFFICES ASSUME LeaseInit PROVE LeaseInv
  BY Zenon
<1> USE Intervals, IntervalsAssumption DEF LeaseInit, NoBeat, ClaimDeadline
<1>1. TimersOK
  BY DEF TimersOK
<1>2. /\ CoveredByClaim /\ CoveredByBeats /\ FlightAccounted /\ DeadlineInReach
      /\ LiveClaimKept
  BY DEF CoveredByClaim, CoveredByBeats, FlightAccounted, DeadlineInReach, LiveClaimKept
<1> QED
  BY <1>1, <1>2 DEF LeaseInv, Ended, Patience

\* The passage of time, which no timer that is due lets by, keeps the invariant.
LEMMA TickStep == LeaseInv /\ Tick => LeaseInv'
<1> SUFFICES ASSUME LeaseInv, Tick PROVE LeaseInv'
  BY Zenon
<1> USE Intervals, IntervalsAssumption DEF LeaseInv, Tick, TimersOK, NoBeat
<1>1. TimersOK'
  OBVIOUS
<1>2. (stage \notin Ended => spent <= Patience)'
  BY DEF Ended, Patience
<1>3. CoveredByClaim'
  BY DEF CoveredByClaim
<1>4. CoveredByBeats'
  BY DEF CoveredByBeats
<1>5. FlightAccounted'
  BY DEF FlightAccounted
<1>6. DeadlineInReach'
  BY DEF DeadlineInReach
<1>7. LiveClaimKept'
  BY Zenon DEF LiveClaimKept
<1> QED
  BY <1>1, <1>2, <1>3, <1>4, <1>5, <1>6, <1>7, Zenon

\* What process does: it starts and ends the execution, records, or crashes.
LEMMA ProcessStep ==
  ASSUME LeaseInv,
         \/ StartExecution \/ FinishExecution \/ Crash
         \/ \E r : Record(r)
  PROVE  LeaseInv'
<1> USE Intervals, IntervalsAssumption DEF LeaseInv, TimersOK, NoBeat, Enter, beatVars, reapVars
<1>1. CASE StartExecution
  BY <1>1 DEF StartExecution, Ended, Patience, CoveredByClaim, CoveredByBeats,
    FlightAccounted, DeadlineInReach, LiveClaimKept
<1>2. CASE FinishExecution
  BY <1>2 DEF FinishExecution, Ended, Patience, CoveredByClaim, CoveredByBeats,
    FlightAccounted, DeadlineInReach, LiveClaimKept
<1>3. CASE Crash
  <2>1. FlightAccounted' /\ DeadlineInReach'
    BY <1>3 DEF Crash, FlightAccounted, DeadlineInReach
  <2>2. CoveredByClaim' /\ CoveredByBeats' /\ LiveClaimKept'
    BY <1>3, Zenon DEF Crash, CoveredByClaim, CoveredByBeats, LiveClaimKept
  <2>3. TimersOK'
    BY <1>3, Zenon DEF Crash
  <2> QED
    BY <1>3, <2>1, <2>2, <2>3, Zenon DEF Crash, Ended
<1>4. ASSUME NEW r, Record(r) PROVE LeaseInv'
  <2>1. FlightAccounted' /\ DeadlineInReach'
    BY <1>4, Zenon DEF Record, FlightAccounted, DeadlineInReach
  <2>2. CoveredByClaim' /\ CoveredByBeats' /\ LiveClaimKept'
    BY <1>4, Zenon DEF Record, CoveredByClaim, CoveredByBeats, LiveClaimKept
  <2>3. TimersOK'
    BY <1>4, Zenon DEF Record
  <2> QED
    BY <1>4, <2>1, <2>2, <2>3, Zenon DEF Record, Ended
<1> QED
  BY <1>1, <1>2, <1>3, <1>4, Zenon

\* What heartbeat does: its ticker fires, and it sends a beat that is applied by
\* ExtendDeadline or lost.
LEMMA BeatStep ==
  LeaseInv /\ (TickerFires \/ SendBeat \/ ApplyBeat \/ LoseBeat) => LeaseInv'
<1> SUFFICES ASSUME LeaseInv, TickerFires \/ SendBeat \/ ApplyBeat \/ LoseBeat
             PROVE  LeaseInv'
  BY Zenon
<1> USE Intervals, IntervalsAssumption DEF LeaseInv, TimersOK, NoBeat, reapVars
<1>1. CASE TickerFires
  <2>1. /\ missed' * BeatEvery = missed * BeatEvery + BeatEvery
        /\ during' * BeatEvery = during * BeatEvery + BeatEvery
    BY <1>1 DEF TickerFires
  <2>2. CoveredByBeats' /\ FlightAccounted'
    BY <1>1, <2>1 DEF TickerFires, CoveredByBeats, FlightAccounted
  <2> QED
    BY <1>1, <2>2 DEF TickerFires, Ended, Patience, CoveredByClaim, DeadlineInReach,
      LiveClaimKept
<1>2. CASE SendBeat
  BY <1>2 DEF SendBeat, Ended, Patience, CoveredByClaim, CoveredByBeats,
    FlightAccounted, DeadlineInReach, LiveClaimKept
<1>3. CASE ApplyBeat
  <2>1. CoveredByBeats'
    BY <1>3 DEF ApplyBeat, CoveredByBeats, FlightAccounted
  <2>2. DeadlineInReach'
    BY <1>3 DEF ApplyBeat, DeadlineInReach, FlightAccounted
  <2>3. CoveredByClaim' /\ FlightAccounted' /\ LiveClaimKept'
    BY <1>3, Zenon DEF ApplyBeat, CoveredByClaim, FlightAccounted, LiveClaimKept
  <2>4. TimersOK'
    BY <1>3 DEF ApplyBeat
  <2> QED
    BY <1>3, <2>1, <2>2, <2>3, <2>4, Zenon DEF ApplyBeat, Ended, Patience
<1>4. CASE LoseBeat
  BY <1>4, Zenon DEF LoseBeat, Ended, Patience, CoveredByClaim, CoveredByBeats,
    FlightAccounted, DeadlineInReach, LiveClaimKept
<1> QED
  BY <1>1, <1>2, <1>3, <1>4, Zenon

\* The reaper takes the claim of a worker that has not crashed only after the beats
\* have stayed away: this is where the intervals are compared.
LEMMA ReapStep == LeaseInv /\ Reap => LeaseInv'
<1> SUFFICES ASSUME LeaseInv, Reap PROVE LeaseInv'
  BY Zenon
<1> USE Intervals, IntervalsAssumption DEF LeaseInv, TimersOK, NoBeat, beatVars
<1>1. ASSUME claim = "held", left < 0, stage \notin Ended
      PROVE  beaten /\ missed >= (IF stage = "executing" THEN 3 ELSE 2)
  <2>1. beaten
    BY <1>1 DEF CoveredByClaim, Ended, Patience
  <2>2. CASE stage = "executing"
    <3>1. missed * BeatEvery > 2 * BeatEvery
      BY <1>1, <2>1, <2>2 DEF CoveredByBeats
    <3>2. missed \notin {0, 1, 2}
      BY <3>1
    <3> QED
      BY <2>1, <2>2, <3>2
  <2>3. CASE stage = "recording"
    <3>1. missed * BeatEvery > BeatEvery
      BY <1>1, <2>1, <2>3 DEF CoveredByBeats, Ended, Patience
    <3>2. missed \notin {0, 1}
      BY <3>1
    <3> QED
      BY <2>1, <2>3, <3>2
  <2> QED
    BY <1>1, <2>1, <2>2, <2>3, Zenon DEF Ended
<1>2. LiveClaimKept'
  BY <1>1, Zenon DEF Reap, LiveClaimKept, Ended
<1> QED
  BY <1>2 DEF Reap, Ended, Patience, CoveredByClaim, CoveredByBeats, FlightAccounted,
    DeadlineInReach

\* A round of the reaper that fails, or a new leader that starts its own, moves the
\* next round away by no more than it adds to putOff.
LEMMA PutOffStep == LeaseInv /\ (ReapFails \/ LeaderChanges) => LeaseInv'
<1> SUFFICES ASSUME LeaseInv, ReapFails \/ LeaderChanges PROVE LeaseInv'
  BY Zenon
<1>1. /\ UNCHANGED <<stage, spent, claim, left, beatVars, retry>>
      /\ claim = "held"
  BY Zenon DEF ReapFails, LeaderChanges
<1>2. TimersOK' /\ DeadlineInReach'
  BY Intervals DEF LeaseInv, ReapFails, LeaderChanges, TimersOK, DeadlineInReach, beatVars
<1>3. CoveredByClaim' /\ CoveredByBeats' /\ FlightAccounted' /\ LiveClaimKept'
  BY <1>1, Zenon
  DEF LeaseInv, CoveredByClaim, CoveredByBeats, FlightAccounted, LiveClaimKept, beatVars
<1> QED
  BY <1>1, <1>2, <1>3, Zenon DEF LeaseInv, Ended, Patience, beatVars

\* What the deadline, the beats and the reaper are to each other, LeaseInv, stays
\* so through every step of process, heartbeat and reapStaleClaims.
LEMMA LeaseHolds == LeaseSpec => []LeaseInv
<1>1. LeaseInv /\ [LeaseNext]_leaseVars => LeaseInv'
  <2> SUFFICES ASSUME LeaseInv, [LeaseNext]_leaseVars PROVE LeaseInv'
    BY Zenon
  <2>1. CASE UNCHANGED leaseVars
    BY <2>1, Zenon DEF leaseVars, LeaseInv, TimersOK, Ended, Patience, CoveredByClaim,
      CoveredByBeats, FlightAccounted, DeadlineInReach, LiveClaimKept
  <2>2. ASSUME RecordSuccess \/ RecordFailure PROVE \E r : Record(r)
    BY <2>2, Zenon DEF RecordSuccess, RecordFailure
  <2> QED
    BY <2>1, <2>2, TickStep, ProcessStep, BeatStep, ReapStep, PutOffStep, Zenon DEF LeaseNext
<1> QED
  BY <1>1, InitLease, PTL DEF LeaseSpec

\* For all intervals that satisfy IntervalsAssumption, as those of the code do, a
\* worker that has not crashed keeps its claim unless beats stay away after one
\* was applied.
THEOREM IntervalsFit == LeaseSpec => []LiveClaimKept
<1>1. LeaseInv => LiveClaimKept
  BY Zenon DEF LeaseInv
<1> QED
  BY <1>1, LeaseHolds, PTL

\* For the same intervals the reaper takes the claim of a crashed worker away
\* within the TTL of the last deadline that was written and one of its rounds, and
\* what failed rounds and changes of the leader put that round off by.
THEOREM CrashesAreDetected == LeaseSpec => []CrashDetected
<1>1. LeaseInv => CrashDetected
  BY Intervals DEF LeaseInv, TimersOK, DeadlineInReach, CrashDetected
<1> QED
  BY <1>1, LeaseHolds, PTL

--------------------------------------------------------------------------------
(* The partitions of job_runs *)

\* A month gets rows in the default partition only once it has begun.
BackstopIsPresent == month \in Nat /\ backstop \subseteq {month} /\ NeverRefused

\* Whatever the day, the loop of ensurePartitions asks for later months only.
LEMMA LookaheadIsLater ==
  ASSUME month \in Nat, NEW i \in Lookahead
  PROVE  AddDate(i) > month
BY PartitionsAssumption DEF AddDate, Lookahead

\* For any calendar, any number of months looked ahead and any gap between the
\* rounds of runPartitionMaintainer, no CREATE of ensurePartitions is refused
\* because of rows that TryClaim put into the default partition.
THEOREM CreatesAreNotRefused == PartitionsSpec => []NeverRefused
<1>1. PartitionsInit => BackstopIsPresent
  BY PartitionsAssumption, Zenon DEF PartitionsInit, BackstopIsPresent, NeverRefused
<1>2. BackstopIsPresent /\ [PartitionsNext]_partVars => BackstopIsPresent'
  <2> SUFFICES ASSUME BackstopIsPresent, [PartitionsNext]_partVars
               PROVE  BackstopIsPresent'
    BY Zenon
  <2>1. CASE ensurePartitions
    <3>1. PICK answered \in SUBSET Lookahead :
            LET asked == {AddDate(i) : i \in answered} \ partitions
            IN refused' = (refused \/ {m \in asked : EnsureJobRunsPartition(m)} # asked)
      BY <2>1, Zenon DEF ensurePartitions
    <3> DEFINE asked == {AddDate(i) : i \in answered} \ partitions
    <3>2. ASSUME NEW m \in asked
          PROVE  m \notin backstop
      <4>1. PICK i \in Lookahead : m = AddDate(i)
        BY Zenon
      <4>2. AddDate(i) > month
        BY LookaheadIsLater, Zenon DEF BackstopIsPresent
      <4>3. m # month
        BY <4>1, <4>2 DEF BackstopIsPresent
      <4> QED
        BY <4>3, Zenon DEF BackstopIsPresent
    <3>3. {m \in asked : EnsureJobRunsPartition(m)} = asked
      BY <3>2, Zenon DEF EnsureJobRunsPartition
    <3> QED
      BY <2>1, <3>1, <3>3, Zenon DEF ensurePartitions, BackstopIsPresent, NeverRefused
  <2>2. CASE InsertRun
    BY <2>2, Zenon DEF InsertRun, BackstopIsPresent, NeverRefused
  <2>3. CASE NextDay
    <3>1. month' \in Nat /\ month' >= month
      BY <2>3 DEF NextDay, BackstopIsPresent
    <3>2. backstop' \subseteq {month'}
      <4>1. backstop' = {m \in backstop : m >= month'}
        BY <2>3, Zenon DEF NextDay
      <4>2. month \in Nat /\ backstop \subseteq {month}
        BY Zenon DEF BackstopIsPresent
      <4>3. \A m \in backstop : m = month
        BY <4>2, Zenon
      <4>4. month >= month' => month' = month
        BY <3>1, <4>2
      <4> QED
        BY <4>1, <4>3, <4>4, Zenon
    <3>3. NeverRefused'
      BY <2>3, Zenon DEF NextDay, BackstopIsPresent, NeverRefused
    <3> QED
      BY <3>1, <3>2, <3>3, Zenon DEF BackstopIsPresent
  <2>4. CASE UNCHANGED partVars
    BY <2>4, Zenon DEF partVars, BackstopIsPresent, NeverRefused
  <2> QED
    BY <2>1, <2>2, <2>3, <2>4, Zenon DEF PartitionsNext
<1>3. BackstopIsPresent => NeverRefused
  BY Zenon DEF BackstopIsPresent
<1> QED
  BY <1>1, <1>2, <1>3, PTL DEF PartitionsSpec

\* A month has 28 to 31 days, in any year.
LEMMA DaysOfMonth ==
  ASSUME NEW m \in Int
  PROVE  DaysIn(m) \in 28..31
<1>1. m % 12 \in 0..11
  OBVIOUS
<1> QED
  BY <1>1 DEF DaysIn

\* No two short months follow each other: any two in a row have 59 days.
LEMMA DaysOfTwoMonths ==
  ASSUME NEW m \in Int
  PROVE  DaysIn(m - 1) + DaysIn(m) >= 59
<1>1. /\ m % 12 \in 0..11
      /\ (m - 1) % 12 = IF m % 12 = 0 THEN 11 ELSE (m % 12) - 1
  OBVIOUS
<1>2. DaysIn(m - 1) \in 28..31 /\ DaysIn(m) \in 28..31
  BY DaysOfMonth
<1>3. m % 12 = 1 => DaysIn(m - 1) = 31
  BY <1>1 DEF DaysIn
<1>4. m % 12 = 2 => DaysIn(m) = 31
  BY <1>1 DEF DaysIn
<1>5. m % 12 \notin {1, 2} => DaysIn(m - 1) >= 30 /\ DaysIn(m) >= 30
  BY <1>1 DEF DaysIn
<1> QED
  BY <1>2, <1>3, <1>4, <1>5

\* A round of ensurePartitions that creates all it is asked for makes the next
\* month's partition, if the next month has this day.
LEMMA RoundKeepsCalendar ==
  ASSUME LookaheadMonths >= 1, CalendarInv, ensurePartitions
  PROVE  CalendarInv'
<1>1. PICK answered \in SUBSET Lookahead :
        LET asked   == {AddDate(i) : i \in answered} \ partitions
            created == {m \in asked : EnsureJobRunsPartition(m)}
        IN /\ partitions' = partitions \cup created
           /\ gap' = IF answered = Lookahead /\ created = asked THEN 0 ELSE gap
  BY Zenon DEF ensurePartitions
<1>2. UNCHANGED <<month, day, steady>> /\ partitions \subseteq partitions' /\ gap' \in {0, gap}
  BY <1>1, Zenon DEF ensurePartitions
<1>3. ASSUME gap' # gap, day <= DaysIn(month + 1)
      PROVE  month + 1 \in partitions'
  <2>1. 1 \in Lookahead
    BY PartitionsAssumption DEF Lookahead
  <2>2. month \in Nat /\ day \in Int /\ DaysIn(month) \in Int /\ DaysIn(month + 1) \in Int
    BY DaysOfMonth DEF CalendarInv, DateOK
  <2>3. AddDate(1) = month + 1
    BY <1>3, <2>2 DEF AddDate
  <2>4. LET asked == {AddDate(i) : i \in Lookahead} \ partitions
        IN partitions' = partitions \cup asked
    BY <1>1, <1>3, Zenon
  <2>5. AddDate(1) \in partitions'
    BY <2>1, <2>4, Zenon
  <2> QED
    BY <2>3, <2>5, Zenon
<1>4. DateOK'
  BY <1>2 DEF CalendarInv, DateOK
<1>5. RoundMadeNext'
  <2>1. CASE gap' = gap
    BY <1>2, <2>1, Zenon DEF CalendarInv, RoundMadeNext
  <2>2. CASE gap' # gap
    BY <1>2, <1>3, <2>2 DEF CalendarInv, DateOK, RoundMadeNext
  <2> QED
    BY <2>1, <2>2, Zenon
<1>6. NextIsReady' /\ ThisIsReady'
  BY <1>2, Zenon DEF CalendarInv, NextIsReady, ThisIsReady
<1> QED
  BY <1>4, <1>5, <1>6, Zenon DEF CalendarInv

\* A day that counts as steady ends with a round in the 28 days before it.
LEMMA DayKeepsCalendar ==
  ASSUME MaxGap <= 28, Warmup >= 31, CalendarInv, NextDay
  PROVE  CalendarInv'
<1> DEFINE here == DaysIn(month)
           ahead == DaysIn(month + 1)
<1>1. /\ month \in Nat /\ day \in Nat /\ day >= 1 /\ day <= here
      /\ gap \in Nat /\ steady \in 0..Warmup
      /\ MaxGap \in Nat /\ Warmup \in Nat
  BY DaysOfMonth, PartitionsAssumption DEF CalendarInv, DateOK
<1>2. here \in 28..31 /\ ahead \in 28..31
  BY <1>1, DaysOfMonth
<1>3. /\ gap' = IF gap > MaxGap THEN gap ELSE gap + 1
      /\ gap' > MaxGap => steady' = 0
      /\ ~(gap' > MaxGap) => steady' = IF steady = Warmup THEN steady ELSE steady + 1
  BY Zenon DEF NextDay
<1>4. gap' \in Nat /\ gap' >= 1 /\ steady' \in 0..Warmup
  BY <1>1, <1>3, PartitionsAssumption
<1>5. \A m \in partitions : m >= month' => m \in partitions'
  BY Zenon DEF NextDay
<1>6. ASSUME steady' >= 1, day >= 28, day <= ahead
      PROVE  month + 1 \in partitions
  BY <1>1, <1>2, <1>3, <1>6 DEF CalendarInv, RoundMadeNext
<1>7. ASSUME NEW x \in 28..31, x <= ahead, x < day, day - x < steady'
      PROVE  month + 1 \in partitions
  <2>1. day - x <= steady
    BY <1>1, <1>2, <1>3, <1>7
  <2> QED
    BY <1>7, <2>1, Zenon DEF CalendarInv, NextIsReady
<1>8. CASE day # here
  <2>1. month' = month /\ day' = day + 1
    BY <1>8, Zenon DEF NextDay
  <2>2. month + 1 \in partitions => month + 1 \in partitions'
    BY <1>1, <1>5, <2>1
  <2>3. month \in partitions => month \in partitions'
    BY <1>1, <1>5, <2>1
  <2>4. DateOK'
    BY <1>1, <1>2, <1>4, <1>8, <2>1 DEF DateOK
  <2>5. RoundMadeNext'
    BY <1>1, <1>3, <2>1, <2>2 DEF CalendarInv, RoundMadeNext
  <2>6. NextIsReady'
    <3> SUFFICES ASSUME NEW x \in 28..31, x <= ahead, x < day + 1, day + 1 - x <= steady'
                 PROVE  month + 1 \in partitions
      BY <1>1, <2>1, <2>2 DEF NextIsReady
    <3>1. CASE x = day
      BY <1>1, <1>4, <1>6, <3>1
    <3>2. CASE x < day
      BY <1>1, <1>4, <1>7, <3>2
    <3> QED
      BY <1>1, <3>1, <3>2
  <2>7. ThisIsReady'
    <3> SUFFICES ASSUME NEW x \in 28..31, x <= DaysIn(month - 1), x <= here,
                        DaysIn(month - 1) - x + (day + 1) <= steady'
                 PROVE  month \in partitions
      BY <2>1, <2>3, Zenon DEF ThisIsReady
    <3>1. DaysIn(month - 1) \in 28..31
      BY <1>1, DaysOfMonth
    <3>2. DaysIn(month - 1) - x + day <= steady
      BY <1>1, <1>3, <1>4, <3>1
    <3> QED
      BY <3>2, Zenon DEF CalendarInv, ThisIsReady
  <2> QED
    BY <2>4, <2>5, <2>6, <2>7, Zenon DEF CalendarInv
<1>9. CASE day = here
  <2>1. month' = month + 1 /\ day' = 1
    BY <1>9, Zenon DEF NextDay
  <2>2. DateOK'
    BY <1>1, <1>2, <1>4, <2>1 DEF DateOK
  <2>3. RoundMadeNext' /\ NextIsReady'
    BY <1>4, <2>1 DEF RoundMadeNext, NextIsReady
  <2>4. ThisIsReady'
    <3>1. month + 1 - 1 = month
      BY <1>1
    <3> SUFFICES ASSUME NEW x \in 28..31, x <= here, x <= ahead, here - x + 1 <= steady'
                 PROVE  month + 1 \in partitions
      BY <1>1, <1>5, <2>1, <3>1 DEF ThisIsReady
    <3>2. CASE x = day
      BY <1>1, <1>2, <1>4, <1>6, <1>9, <3>2
    <3>3. CASE x < day
      BY <1>1, <1>2, <1>4, <1>7, <1>9, <3>3
    <3> QED
      BY <1>1, <1>2, <1>9, <3>2, <3>3
  <2> QED
    BY <2>2, <2>3, <2>4, Zenon DEF CalendarInv
<1> QED
  BY <1>8, <1>9, Zenon

\* As long as runPartitionMaintainer gets through at least once every 28 days, and
\* has for 31, TryClaim finds a partition for the month, in any year and for any
\* number of months looked ahead: although AddDate passes over a short month from
\* its day on, a round on an earlier day has made that month's partition.
THEOREM MonthsAreReady ==
  ASSUME MaxGap <= 28, Warmup >= 31, LookaheadMonths >= 1
  PROVE  PartitionsSpec => []MonthReady
<1>1. PartitionsInit => CalendarInv
  <2> SUFFICES ASSUME PartitionsInit PROVE CalendarInv
    BY Zenon
  <2>1. DateOK
    BY PartitionsAssumption DEF PartitionsInit, DateOK
  <2>2. DaysIn(month - 1) \in 28..31 /\ DaysIn(month) \in 28..31 /\ day \in Nat /\ day >= 1
    BY <2>1, DaysOfMonth DEF DateOK
  <2> QED
    BY <2>1, <2>2, PartitionsAssumption
       DEF PartitionsInit, CalendarInv, RoundMadeNext, NextIsReady, ThisIsReady
<1>2. CalendarInv /\ [PartitionsNext]_partVars => CalendarInv'
  <2> SUFFICES ASSUME CalendarInv, [PartitionsNext]_partVars PROVE CalendarInv'
    BY Zenon
  <2>1. CASE InsertRun \/ UNCHANGED partVars
    BY <2>1, Zenon DEF InsertRun, partVars, CalendarInv, DateOK, RoundMadeNext, NextIsReady, ThisIsReady
  <2> QED
    BY <2>1, RoundKeepsCalendar, DayKeepsCalendar, Zenon DEF PartitionsNext
<1>3. CalendarInv => MonthReady
  <2> SUFFICES ASSUME CalendarInv, steady = Warmup PROVE month \in partitions
    BY Zenon DEF MonthReady
  <2> DEFINE before == DaysIn(month - 1)
             here == DaysIn(month)
  <2>1. /\ month \in Nat /\ day \in Nat /\ day <= here
        /\ before \in 28..31 /\ here \in 28..31 /\ before + here >= 59
    BY DaysOfMonth, DaysOfTwoMonths DEF CalendarInv, DateOK
  <2>2. PICK x \in 28..31 : x = before + here - 31
    BY <2>1
  <2>3. x <= before /\ x <= here /\ before - x + day <= steady
    BY <2>1, <2>2, PartitionsAssumption
  <2> QED
    BY <2>3, Zenon DEF CalendarInv, ThisIsReady
<1> QED
  BY <1>1, <1>2, <1>3, PTL DEF PartitionsSpec
================================================================================
