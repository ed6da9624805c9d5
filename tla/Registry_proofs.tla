-------------------------- MODULE Registry_proofs --------------------------
(***************************************************************************)
(* Proofs about Registry for every set of tasks and registrations, every   *)
(* lease_ttl, every max_targets and an unbounded set of identifiers.       *)
(***************************************************************************)
EXTENDS Registry, FiniteSetTheorems, TLAPS

-----------------------------------------------------------------------------
(* The operators on the map.                                               *)

(* retain keeps exactly the entries that are live at the instant, as they  *)
(* were, and can only shrink a finite map.                                 *)
LEMMA RetainKeepsLive ==
  ASSUME NEW map, map \in [DOMAIN map -> Lease], NEW n \in Nat
  PROVE  /\ Retain(map, n) \in [DOMAIN Retain(map, n) -> Lease]
         /\ DOMAIN Retain(map, n) = LiveIds(map, n)
         /\ LiveIds(map, n) \subseteq DOMAIN map
         /\ \A i \in LiveIds(map, n) : /\ Retain(map, n)[i] = map[i]
                                       /\ map[i].expires_at > n
BY DEF Retain, LiveIds, IsLive

LEMMA RetainShrinks ==
  ASSUME NEW map, map \in [DOMAIN map -> Lease], NEW n \in Nat,
         IsFiniteSet(DOMAIN map)
  PROVE  /\ IsFiniteSet(DOMAIN Retain(map, n))
         /\ Cardinality(DOMAIN Retain(map, n)) \in Nat
         /\ Cardinality(DOMAIN map) \in Nat
         /\ Cardinality(DOMAIN Retain(map, n)) <= Cardinality(DOMAIN map)
BY RetainKeepsLive, FS_Subset, FS_CardinalityType

(* insert of a fresh identifier adds one entry and keeps the others.       *)
LEMMA InsertAdds ==
  ASSUME NEW map, map \in [DOMAIN map -> Lease], NEW i, i \notin DOMAIN map,
         NEW lease \in Lease
  PROVE  /\ Insert(map, i, lease) \in [DOMAIN Insert(map, i, lease) -> Lease]
         /\ DOMAIN Insert(map, i, lease) = DOMAIN map \cup {i}
         /\ Insert(map, i, lease)[i] = lease
         /\ \A j \in DOMAIN map : Insert(map, i, lease)[j] = map[j]
BY DEF Insert

LEMMA InsertGrowsByOne ==
  ASSUME NEW map, map \in [DOMAIN map -> Lease], NEW i, i \notin DOMAIN map,
         NEW lease \in Lease, IsFiniteSet(DOMAIN map)
  PROVE  /\ IsFiniteSet(DOMAIN Insert(map, i, lease))
         /\ Cardinality(DOMAIN Insert(map, i, lease))
              = Cardinality(DOMAIN map) + 1
<1>1. DOMAIN Insert(map, i, lease) = DOMAIN map \cup {i}
  BY InsertAdds
<1>2. /\ IsFiniteSet(DOMAIN map \cup {i})
      /\ Cardinality(DOMAIN map \cup {i}) = Cardinality(DOMAIN map) + 1
  BY FS_AddElement
<1> QED
  BY <1>1, <1>2

LEMMA WithoutShrinks ==
  ASSUME NEW map, map \in [DOMAIN map -> Lease], NEW i,
         IsFiniteSet(DOMAIN map)
  PROVE  /\ Without(map, i) \in [DOMAIN Without(map, i) -> Lease]
         /\ DOMAIN Without(map, i) = DOMAIN map \ {i}
         /\ \A j \in DOMAIN map \ {i} : Without(map, i)[j] = map[j]
         /\ IsFiniteSet(DOMAIN Without(map, i))
         /\ Cardinality(DOMAIN map) \in Nat
         /\ Cardinality(DOMAIN Without(map, i)) \in Nat
         /\ Cardinality(DOMAIN Without(map, i)) <= Cardinality(DOMAIN map)
<1>1. /\ Without(map, i) \in [DOMAIN Without(map, i) -> Lease]
      /\ DOMAIN Without(map, i) = DOMAIN map \ {i}
      /\ \A j \in DOMAIN map \ {i} : Without(map, i)[j] = map[j]
  BY DEF Without
<1>2. DOMAIN map \ {i} \subseteq DOMAIN map
  OBVIOUS
<1> QED
  BY <1>1, <1>2, FS_Subset, FS_CardinalityType

-----------------------------------------------------------------------------
(* The invariant.  MapOK gathers what it says about the map, so that each  *)
(* critical section shows it once for the map it leaves behind.            *)

MapOK(map, ids, instant) ==
  /\ map \in [DOMAIN map -> Lease]
  /\ DOMAIN map \subseteq ids
  /\ IsFiniteSet(DOMAIN map)
  /\ Cardinality(DOMAIN map) <= MaxTargets
  /\ \A i \in DOMAIN map : map[i].expires_at <= instant + LeaseTtl

CallsOK ==
  /\ op \in [Task -> Op]
  /\ now \in [Task -> Nat]
  /\ result \in [Task -> Result]
  /\ SnapshotInPast
  /\ PendingUnanswered

LEMMA InvariantSplits ==
  RegistryInvariant <=> /\ clock \in Nat
                        /\ issued \subseteq LeaseId
                        /\ MapOK(leases, issued, clock)
                        /\ CallsOK
BY DEF RegistryInvariant, TypeOK, CapacityBound, BoundedLifetime, MapOK, CallsOK

LEMMA RetainOK ==
  ASSUME NEW map, NEW ids, NEW instant \in Nat, NEW n \in Nat,
         MapOK(map, ids, instant)
  PROVE  MapOK(Retain(map, n), ids, instant)
<1>1. Cardinality(DOMAIN Retain(map, n)) <= MaxTargets
  BY RetainShrinks, RegistryAssumption DEF MapOK
<1>2. IsFiniteSet(DOMAIN Retain(map, n))
  BY RetainShrinks DEF MapOK
<1> QED
  BY <1>1, <1>2, RetainKeepsLive DEF MapOK

(* Returning from a call, whatever it answers.                             *)
LEMMA ReturnOK ==
  ASSUME CallsOK, clock \in Nat,
         NEW t \in Task, NEW value \in Result, Return(t, value)
  PROVE  CallsOK'
BY DEF CallsOK, Return, Forget, SnapshotInPast, PendingUnanswered, Op, NoOp

LEMMA InvariantInit == Init => RegistryInvariant
<1> SUFFICES ASSUME Init PROVE RegistryInvariant
  OBVIOUS
<1>1. DOMAIN leases = {}
  BY DEF Init
<1>2. MapOK(leases, issued, clock)
  <2>1. IsFiniteSet(DOMAIN leases) /\ Cardinality(DOMAIN leases) = 0
    BY <1>1, FS_EmptySet
  <2>2. leases \in [DOMAIN leases -> Lease]
    BY <1>1 DEF Init
  <2> QED
    BY <1>1, <2>1, <2>2, RegistryAssumption DEF MapOK
<1>3. CallsOK
  BY DEF Init, CallsOK, SnapshotInPast, PendingUnanswered, Op, NoOp, Result,
         NoResult, Code
<1> QED
  BY <1>2, <1>3, InvariantSplits DEF Init

LEMMA InvariantStep == RegistryInvariant /\ [Next]_vars => RegistryInvariant'
<1> SUFFICES ASSUME RegistryInvariant, [Next]_vars PROVE RegistryInvariant'
  OBVIOUS
<1> USE RegistryAssumption
<1>inv. /\ clock \in Nat
        /\ issued \subseteq LeaseId
        /\ MapOK(leases, issued, clock)
        /\ CallsOK
  BY InvariantSplits
<1>goal. SUFFICES /\ clock' \in Nat
                  /\ issued' \subseteq LeaseId
                  /\ MapOK(leases', issued', clock')
                  /\ CallsOK'
  BY DEF RegistryInvariant, TypeOK, CapacityBound, BoundedLifetime, MapOK, CallsOK
<1>now. \A t \in Task : now[t] \in Nat /\ now[t] <= clock
  BY <1>inv DEF CallsOK, SnapshotInPast
<1>result. /\ \A ids \in SUBSET LeaseId : Ok(ids) \in Result
           /\ \A code \in Code : Err(code) \in Result
  BY DEF Ok, Err, Result, Code
<1>1. CASE Tick
  <2>1. CallsOK'
    BY <1>1, <1>inv DEF Tick, CallsOK, SnapshotInPast, PendingUnanswered
  <2>2. MapOK(leases', issued', clock')
    BY <1>1, <1>inv DEF Tick, MapOK, Lease
  <2> QED
    BY <1>1, <1>inv, <2>1, <2>2 DEF Tick
<1>2. ASSUME NEW t \in Task, NEW o \in Op, CallRefused(t, o)
      PROVE  /\ clock' \in Nat
             /\ issued' \subseteq LeaseId
             /\ MapOK(leases', issued', clock')
             /\ CallsOK'
  <2>1. CallsOK'
    BY <1>2, <1>inv, <1>result
    DEF CallRefused, CallsOK, SnapshotInPast, PendingUnanswered, Code
  <2> QED
    BY <1>2, <1>inv, <2>1 DEF CallRefused
<1>3. ASSUME NEW t \in Task, NEW o \in Op, Call(t, o)
      PROVE  /\ clock' \in Nat
             /\ issued' \subseteq LeaseId
             /\ MapOK(leases', issued', clock')
             /\ CallsOK'
  <2>1. NoResult \in Result
    BY DEF NoResult, Result, Code
  <2>2. CallsOK'
    BY <1>3, <1>inv, <2>1
    DEF Call, CallsOK, SnapshotInPast, PendingUnanswered
  <2> QED
    BY <1>3, <1>inv, <2>2 DEF Call
<1>4. ASSUME NEW t \in Task, Cancel(t)
      PROVE  /\ clock' \in Nat
             /\ issued' \subseteq LeaseId
             /\ MapOK(leases', issued', clock')
             /\ CallsOK'
  <2>1. CallsOK'
    BY <1>4, <1>inv
    DEF Cancel, Forget, CallsOK, SnapshotInPast, PendingUnanswered, Op, NoOp
  <2> QED
    BY <1>4, <1>inv, <2>1 DEF Cancel, Forget
<1>5. ASSUME NEW t \in Task, Execute(t)
      PROVE  /\ clock' \in Nat
             /\ issued' \subseteq LeaseId
             /\ MapOK(leases', issued', clock')
             /\ CallsOK'
  <2> DEFINE kept == Retain(leases, now[t])
  <2>kept. MapOK(kept, issued, clock)
    BY <1>inv, <1>now, RetainOK
  <2> HIDE DEF kept
  <2>1. CASE CreateFull(t)
    <3>1. CallsOK'
      BY <2>1, <1>inv, <1>result, ReturnOK DEF CreateFull, Code
    <3> QED
      BY <2>1, <2>kept, <1>inv, <3>1 DEF CreateFull, Return, Forget, kept
  <2>2. CASE CreateGranted(t)
    <3>1. PICK i \in LeaseId \ issued :
            /\ leases' = Insert(kept, i, [request |-> op[t].request,
                                          expires_at |-> ExpiryAfter(now[t])])
            /\ issued' = issued \cup {i}
            /\ Return(t, Ok({i}))
      BY <2>2 DEF CreateGranted, kept
    <3> DEFINE lease == [request |-> op[t].request,
                         expires_at |-> ExpiryAfter(now[t])]
    <3>2. op[t].request \in Request
      BY <2>2, <1>inv DEF CreateGranted, Waiting, CallsOK, Op
    <3>3. lease \in Lease /\ lease.expires_at <= clock + LeaseTtl
      BY <3>2, <1>now, <1>inv DEF Lease, ExpiryAfter
    <3> HIDE DEF lease
    <3>4. i \notin DOMAIN kept
      BY <2>kept DEF MapOK
    <3>5. Cardinality(DOMAIN kept) < MaxTargets
      BY <2>2 DEF CreateGranted, HasRoom, kept
    <3>6. Cardinality(DOMAIN kept) \in Nat
      BY <2>kept, FS_CardinalityType DEF MapOK
    <3>7. leases' = Insert(kept, i, lease)
      BY <3>1 DEF lease
    <3>8. /\ leases' \in [DOMAIN leases' -> Lease]
          /\ DOMAIN leases' = DOMAIN kept \cup {i}
          /\ leases'[i] = lease
          /\ \A j \in DOMAIN kept : leases'[j] = kept[j]
      <4>1. kept \in [DOMAIN kept -> Lease]
        BY <2>kept DEF MapOK
      <4>2. /\ Insert(kept, i, lease)
                 \in [DOMAIN Insert(kept, i, lease) -> Lease]
            /\ DOMAIN Insert(kept, i, lease) = DOMAIN kept \cup {i}
            /\ Insert(kept, i, lease)[i] = lease
            /\ \A j \in DOMAIN kept : Insert(kept, i, lease)[j] = kept[j]
        BY <3>3, <3>4, <4>1 DEF Insert
      <4> QED
        BY <3>7, <4>2
    <3>9. /\ IsFiniteSet(DOMAIN leases')
          /\ Cardinality(DOMAIN leases') <= MaxTargets
      <4>1. /\ IsFiniteSet(DOMAIN leases')
            /\ Cardinality(DOMAIN leases') = Cardinality(DOMAIN kept) + 1
        BY <3>3, <3>4, <3>7, <2>kept, InsertGrowsByOne DEF MapOK
      <4> QED
        BY <4>1, <3>5, <3>6
    <3>10. clock' = clock
      BY <3>1 DEF Return, Forget
    <3>11. MapOK(leases', issued', clock')
      BY <3>1, <3>3, <3>8, <3>9, <3>10, <2>kept DEF MapOK
    <3>12. CallsOK'
      BY <3>1, <1>inv, <1>result, ReturnOK
    <3> QED
      BY <3>1, <3>10, <3>11, <3>12, <1>inv
  <2>3. CASE RenewMissing(t)
    <3>1. CallsOK'
      BY <2>3, <1>inv, <1>result, ReturnOK DEF RenewMissing, Code
    <3> QED
      BY <2>3, <2>kept, <1>inv, <3>1 DEF RenewMissing, Return, Forget, kept
  <2>4. CASE RenewFound(t)
    <3>0. op[t].lease_id \in LeaseId
      BY <2>4, <1>inv DEF RenewFound, Waiting, CallsOK, Op
    <3>1. CallsOK'
      BY <2>4, <3>0, <1>inv, <1>result, ReturnOK DEF RenewFound
    <3>2. ExpiryAfter(now[t]) \in Nat /\ ExpiryAfter(now[t]) <= clock + LeaseTtl
      BY <1>now, <1>inv DEF ExpiryAfter
    <3>3. /\ leases' = [kept EXCEPT ![op[t].lease_id].expires_at
                                      = ExpiryAfter(now[t])]
          /\ clock' = clock
          /\ issued' = issued
      BY <2>4 DEF RenewFound, Return, Forget, kept
    <3>4. MapOK(leases', issued', clock')
      BY <3>2, <3>3, <2>kept DEF MapOK, Lease
    <3> QED
      BY <3>1, <3>3, <3>4, <1>inv
  <2>5. CASE Remove(t)
    <3>0. op[t].lease_id \in LeaseId
      BY <2>5, <1>inv DEF Remove, Waiting, CallsOK, Op
    <3>1. CallsOK'
      BY <2>5, <3>0, <1>inv, <1>result, ReturnOK DEF Remove, Code
    <3>2. /\ leases' = Without(leases, op[t].lease_id)
          /\ clock' = clock
          /\ issued' = issued
      BY <2>5 DEF Remove, Return, Forget
    <3>3. MapOK(leases', issued', clock')
      <4> DEFINE i == op[t].lease_id
      <4>1. /\ leases \in [DOMAIN leases -> Lease]
            /\ IsFiniteSet(DOMAIN leases)
        BY <1>inv DEF MapOK
      <4>2. /\ Without(leases, i) \in [DOMAIN Without(leases, i) -> Lease]
            /\ DOMAIN Without(leases, i) = DOMAIN leases \ {i}
            /\ \A j \in DOMAIN leases \ {i} : Without(leases, i)[j] = leases[j]
            /\ IsFiniteSet(DOMAIN Without(leases, i))
            /\ Cardinality(DOMAIN leases) \in Nat
            /\ Cardinality(DOMAIN Without(leases, i)) \in Nat
            /\ Cardinality(DOMAIN Without(leases, i))
                 <= Cardinality(DOMAIN leases)
        BY <4>1, WithoutShrinks
      <4> HIDE DEF i
      <4>3. MapOK(Without(leases, i), issued, clock)
        BY <4>2, <1>inv DEF MapOK
      <4> QED
        BY <3>2, <4>3 DEF i
    <3> QED
      BY <3>1, <3>2, <3>3, <1>inv
  <2>6. CASE Matching(t)
    <3>1. {i \in LiveIds(leases, now[t]) :
             RouteMatches(leases[i].request, op[t].head)} \subseteq LeaseId
      BY <1>inv DEF LiveIds, MapOK
    <3>2. CallsOK'
      BY <2>6, <3>1, <1>inv, <1>result, ReturnOK DEF Matching
    <3> QED
      BY <2>6, <3>2, <1>inv DEF Matching, Return, Forget
  <2>7. CASE List(t)
    <3>1. LiveIds(leases, now[t]) \subseteq LeaseId
      BY <1>inv DEF LiveIds, MapOK
    <3>2. CallsOK'
      BY <2>7, <3>1, <1>inv, <1>result, ReturnOK DEF List
    <3> QED
      BY <2>7, <3>2, <1>inv DEF List, Return, Forget
  <2> QED
    BY <1>5, <2>1, <2>2, <2>3, <2>4, <2>5, <2>6, <2>7
    DEF Execute, Create, Renew
<1>6. CASE UNCHANGED vars
  <2>1. CallsOK'
    BY <1>6, <1>inv DEF vars, CallsOK, SnapshotInPast, PendingUnanswered
  <2> QED
    BY <1>6, <2>1, <1>inv DEF vars
<1> QED
  BY <1>1, <1>2, <1>3, <1>4, <1>5, <1>6 DEF Next

-----------------------------------------------------------------------------
(* The invariant holds of every reachable state, however the waiting calls *)
(* of create, renew, remove, matching and list interleave.                 *)
THEOREM RegistryInvariance == Spec => []RegistryInvariant
BY InvariantInit, InvariantStep, PTL DEF Spec

(* Every variable keeps its type; in particular the map only ever holds    *)
(* identifiers that create drew.                                           *)
THEOREM TypeCorrect == Spec => []TypeOK
<1>1. RegistryInvariant => TypeOK
  BY DEF RegistryInvariant
<1> QED
  BY <1>1, RegistryInvariance, PTL

(* The map never holds more than max_targets entries, expired ones         *)
(* included (src/registry.rs:85-88).                                       *)
THEOREM CapacityBounded == Spec => []CapacityBound
<1>1. RegistryInvariant => CapacityBound
  BY DEF RegistryInvariant
<1> QED
  BY <1>1, RegistryInvariance, PTL

(* No lease expires further than one lease_ttl from now.                   *)
THEOREM LifetimeBounded == Spec => []BoundedLifetime
<1>1. RegistryInvariant => BoundedLifetime
  BY DEF RegistryInvariant
<1> QED
  BY <1>1, RegistryInvariance, PTL

(* What each kind of step does to the map, for the action properties: it   *)
(* stays, it is pruned by one snapshot, and then possibly extended by a    *)
(* fresh lease or by a renewed one, or it loses the lease of a remove.     *)
MapKept == leases' = leases

MapPruned(t) == leases' = Retain(leases, now[t])

MapGrown(t) ==
  \E i \in LeaseId \ issued, lease \in Lease :
    leases' = Insert(Retain(leases, now[t]), i, lease)

MapRenewed(t) ==
  /\ Waiting(t, "renew")
  /\ op[t].lease_id \in DOMAIN Retain(leases, now[t])
  /\ leases' = [Retain(leases, now[t])
                  EXCEPT ![op[t].lease_id].expires_at = ExpiryAfter(now[t])]

MapRemoved(t) ==
  /\ Waiting(t, "remove")
  /\ leases' = Without(leases, op[t].lease_id)

LEMMA MapSteps ==
  ASSUME RegistryInvariant, [Next]_vars
  PROVE  \/ MapKept
         \/ \E t \in Task : \/ MapPruned(t)
                            \/ MapGrown(t)
                            \/ MapRenewed(t)
                            \/ MapRemoved(t)
<1>1. CASE UNCHANGED vars
  BY <1>1 DEF vars, MapKept
<1>2. CASE Tick
  BY <1>2 DEF Tick, MapKept
<1>3. ASSUME NEW t \in Task, NEW o \in Op, CallRefused(t, o) \/ Call(t, o)
      PROVE  MapKept
  BY <1>3 DEF CallRefused, Call, MapKept
<1>4. ASSUME NEW t \in Task, Cancel(t)
      PROVE  MapKept
  BY <1>4 DEF Cancel, MapKept
<1>5. ASSUME NEW t \in Task, Execute(t)
      PROVE  MapKept \/ MapPruned(t) \/ MapGrown(t) \/ MapRenewed(t)
               \/ MapRemoved(t)
  <2>1. CASE CreateGranted(t)
    <3>1. op[t].request \in Request /\ now[t] \in Nat
      BY <2>1 DEF CreateGranted, Waiting, RegistryInvariant, TypeOK, Op
    <3>2. [request |-> op[t].request, expires_at |-> ExpiryAfter(now[t])]
            \in Lease
      BY <3>1, RegistryAssumption DEF Lease, ExpiryAfter
    <3> QED
      BY <2>1, <3>2 DEF CreateGranted, MapGrown
  <2>2. CASE CreateFull(t) \/ RenewMissing(t)
    BY <2>2 DEF CreateFull, RenewMissing, MapPruned
  <2>3. CASE RenewFound(t)
    BY <2>3 DEF RenewFound, MapRenewed
  <2>4. CASE Remove(t)
    BY <2>4 DEF Remove, MapRemoved
  <2>5. CASE Matching(t) \/ List(t)
    BY <2>5 DEF Matching, List, MapKept
  <2> QED
    BY <1>5, <2>1, <2>2, <2>3, <2>4, <2>5 DEF Execute, Create, Renew
<1> QED
  BY <1>1, <1>2, <1>3, <1>4, <1>5 DEF Next

(* A prune with a stale snapshot drops only leases that are expired now.   *)
LEMMA StalePruneIsSafe ==
  ASSUME RegistryInvariant, NEW t \in Task
  PROVE  LiveIds(leases, clock) \subseteq DOMAIN Retain(leases, now[t])
<1>1. /\ clock \in Nat
      /\ now[t] \in Nat
      /\ now[t] <= clock
      /\ leases \in [DOMAIN leases -> Lease]
  BY DEF RegistryInvariant, TypeOK, SnapshotInPast
<1> QED
  BY <1>1 DEF Retain, LiveIds, IsLive, Lease

(* A live registration is never pruned: whatever instant a create or a     *)
(* renew read before it waited, only the lease's own remove takes it out.  *)
THEOREM LiveLeasesStay == Spec => NoLiveEviction
<1>1. RegistryInvariant /\ [Next]_vars => [LeavesOnlyDeadOrRemoved]_vars
  <2> SUFFICES ASSUME RegistryInvariant, [Next]_vars
               PROVE  LeavesOnlyDeadOrRemoved
    OBVIOUS
  <2>1. CASE MapKept
    BY <2>1 DEF MapKept, LeavesOnlyDeadOrRemoved, LiveIds
  <2>2. ASSUME NEW t \in Task,
               MapPruned(t) \/ MapGrown(t) \/ MapRenewed(t)
        PROVE  LeavesOnlyDeadOrRemoved
    <3>1. DOMAIN Retain(leases, now[t]) \subseteq DOMAIN leases'
      BY <2>2 DEF MapPruned, MapGrown, MapRenewed, Insert
    <3> QED
      BY <3>1, StalePruneIsSafe DEF LeavesOnlyDeadOrRemoved
  <2>3. ASSUME NEW t \in Task, MapRemoved(t)
        PROVE  LeavesOnlyDeadOrRemoved
    BY <2>3 DEF MapRemoved, LeavesOnlyDeadOrRemoved, Without, LiveIds
  <2> QED
    BY <2>1, <2>2, <2>3, MapSteps
<1> QED
  BY <1>1, RegistryInvariance, PTL DEF Spec, NoLiveEviction

(* A lease that left the map never comes back and never changes what it    *)
(* registers.                                                              *)
THEOREM GoneLeasesStayGone == Spec => GoneForGood
<1>1. RegistryInvariant /\ [Next]_vars => [NothingReturns]_vars
  <2> SUFFICES ASSUME RegistryInvariant, [Next]_vars
               PROVE  NothingReturns
    OBVIOUS
  <2>typed. leases \in [DOMAIN leases -> Lease] /\ now \in [Task -> Nat]
    BY DEF RegistryInvariant, TypeOK
  <2>1. CASE MapKept
    BY <2>1 DEF MapKept, NothingReturns
  <2>2. ASSUME NEW t \in Task, MapPruned(t)
        PROVE  NothingReturns
    BY <2>2, <2>typed DEF MapPruned, NothingReturns, Retain, LiveIds
  <2>3. ASSUME NEW t \in Task, MapGrown(t)
        PROVE  NothingReturns
    BY <2>3, <2>typed DEF MapGrown, NothingReturns, Retain, LiveIds, Insert
  <2>4. ASSUME NEW t \in Task, MapRenewed(t)
        PROVE  NothingReturns
    BY <2>4, <2>typed DEF MapRenewed, NothingReturns, Retain, LiveIds, Lease
  <2>5. ASSUME NEW t \in Task, MapRemoved(t)
        PROVE  NothingReturns
    BY <2>5, <2>typed DEF MapRemoved, NothingReturns, Without
  <2> QED
    BY <2>1, <2>2, <2>3, <2>4, <2>5, MapSteps
<1> QED
  BY <1>1, RegistryInvariance, PTL DEF Spec, GoneForGood

(* Only a renew that read the clock while the lease was live extends it.   *)
THEOREM OnlyLiveRenewsExtend == Spec => RenewedWhileLive
<1>1. RegistryInvariant /\ [Next]_vars => [ExtendedByLiveRenew]_vars
  <2> SUFFICES ASSUME RegistryInvariant, [Next]_vars
               PROVE  ExtendedByLiveRenew
    OBVIOUS
  <2>typed. /\ leases \in [DOMAIN leases -> Lease]
            /\ now \in [Task -> Nat]
            /\ DOMAIN leases \subseteq issued
    BY DEF RegistryInvariant, TypeOK
  <2>nat. \A i \in DOMAIN leases : leases[i].expires_at \in Nat
    BY <2>typed DEF Lease
  <2>1. CASE MapKept
    BY <2>1, <2>nat DEF MapKept, ExtendedByLiveRenew
  <2>2. ASSUME NEW t \in Task, MapPruned(t)
        PROVE  ExtendedByLiveRenew
    BY <2>2, <2>nat DEF MapPruned, ExtendedByLiveRenew, Retain, LiveIds
  <2>3. ASSUME NEW t \in Task, MapGrown(t)
        PROVE  ExtendedByLiveRenew
    BY <2>3, <2>typed, <2>nat
    DEF MapGrown, ExtendedByLiveRenew, Retain, LiveIds, Insert
  <2>4. ASSUME NEW t \in Task, MapRenewed(t)
        PROVE  ExtendedByLiveRenew
    BY <2>4, <2>typed, <2>nat
    DEF MapRenewed, ExtendedByLiveRenew, Retain, LiveIds, Lease
  <2>5. ASSUME NEW t \in Task, MapRemoved(t)
        PROVE  ExtendedByLiveRenew
    BY <2>5, <2>nat DEF MapRemoved, ExtendedByLiveRenew, Without
  <2> QED
    BY <2>1, <2>2, <2>3, <2>4, <2>5, MapSteps
<1> QED
  BY <1>1, RegistryInvariance, PTL DEF Spec, RenewedWhileLive

(* A create refused for capacity met max_targets leases that were live at  *)
(* the instant it read.                                                    *)
THEOREM RefusalsAreHonest == Spec => CapacityRefusalHonest
<1>1. RegistryInvariant /\ [Next]_vars => [RefusedWhenFull]_vars
  <2> SUFFICES ASSUME RegistryInvariant, [Next]_vars,
                      NEW t \in Task, op[t] # NoOp, result'[t].code = "capacity"
               PROVE  Cardinality(LiveIds(leases, now[t])) >= MaxTargets
    BY DEF RefusedWhenFull
  <2>pending. result[t] = NoResult /\ result \in [Task -> Result]
    BY DEF RegistryInvariant, PendingUnanswered, TypeOK
  <2>1. ~(UNCHANGED result)
    BY <2>pending DEF NoResult
  <2>2. PICK u \in Task : (\E o \in Op \ {NoOp} : CallRefused(u, o) \/ Call(u, o))
                           \/ Execute(u)
    BY <2>1 DEF Next, vars, Tick, Cancel
  <2>3. u = t
    <3>1. \E value : result' = [result EXCEPT ![u] = value]
      BY <2>2 DEF CallRefused, Call, Execute, Create, CreateFull,
         CreateGranted, Renew, RenewMissing, RenewFound, Remove, Matching,
         List, Return
    <3> QED
      BY <3>1, <2>pending DEF NoResult
  <2>4. CreateFull(t)
    BY <2>2, <2>3, <2>pending DEF CallRefused, Call, Execute, Create,
       CreateGranted, Renew, RenewMissing, RenewFound, Remove, Matching, List,
       Return, Ok, Err
  <2> QED
    BY <2>4 DEF CreateFull, Retain
<1> QED
  BY <1>1, RegistryInvariance, PTL DEF Spec, CapacityRefusalHonest
=============================================================================
