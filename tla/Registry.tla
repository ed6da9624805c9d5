------------------------------ MODULE Registry ------------------------------
(***************************************************************************)
(* The lease registry of src/registry.rs, called concurrently by the       *)
(* handlers of the control server and of the ingress server.               *)
(*                                                                         *)
(* Every operation but remove reads Instant::now() BEFORE it awaits the    *)
(* RwLock and uses that instant once it has the lock, so a call is two     *)
(* steps: Call takes the snapshot and queues for the lock, and the action  *)
(* of the operation is its critical section, which contains no await and   *)
(* is therefore atomic.  Between the two the clock moves and other calls   *)
(* run.  A handler whose connection closes is dropped while it waits.      *)
(***************************************************************************)
EXTENDS Domain, FiniteSets

CONSTANTS
  Task,              (* Handler tasks that call the registry.              *)
  LeaseId,           (* UUIDs that LeaseId::new may draw.                  *)
  Request,           (* Registrations that clients ask for.                *)
  Webhook,           (* Heads of incoming webhooks.                        *)
  LeaseTtl,          (* lease_ttl, in clock units.                         *)
  MaxTargets,        (* max_targets.                                       *)
  AllowNonLoopback,  (* allow_non_loopback_targets.                        *)
  MaxClock           (* Bound: the clock stops here.                       *)

ASSUME RegistryAssumption ==
  /\ Request \subseteq CreateLeaseRequest
  /\ Webhook \subseteq IncomingHead
  /\ LeaseTtl \in Nat \ {0}
  /\ MaxTargets \in Nat \ {0}
  /\ AllowNonLoopback \in BOOLEAN
  /\ MaxClock \in Nat

VARIABLES
  clock,    (* The monotonic clock behind Instant::now().                  *)
  leases,   (* The map behind the RwLock: LeaseId -> Lease.                *)
  issued,   (* Identifiers drawn so far; a v4 UUID is never drawn twice.   *)
  op,       (* The call each task waits to run under the lock, or NoOp.    *)
  now,      (* The instant the waiting call read before it awaited.        *)
  result    (* What the last call of the task returned.                    *)

vars == <<clock, leases, issued, op, now, result>>

Lease == [request: Request, expires_at: Nat]

Op ==
  [name: {"create"}, request: Request] \cup
  [name: {"renew", "remove"}, lease_id: LeaseId] \cup
  [name: {"matching"}, head: Webhook] \cup
  [name: {"list", "none"}]

Code == {"none", "ok", "not_found", "non_loopback_target", "capacity"}
Result == [code: Code, ids: SUBSET LeaseId]

NoOp == [name |-> "none"]
NoResult == [code |-> "none", ids |-> {}]
Ok(ids) == [code |-> "ok", ids |-> ids]
Err(code) == [code |-> code, ids |-> {}]

-----------------------------------------------------------------------------
(* What the critical sections do to the map.                               *)

IsLive(lease, instant) == lease.expires_at > instant

LiveIds(map, instant) == {i \in DOMAIN map : IsLive(map[i], instant)}

(* leases.retain(|_, lease| lease.expires_at > now).                       *)
RetainInclusive(map, instant) ==
  [i \in {j \in DOMAIN map : map[j].expires_at > instant + 1} |-> map[i]]

RetainNothingExpired(map, instant) == map

Retain(map, instant) == [i \in LiveIds(map, instant) |-> map[i]]

Insert(map, id, lease) ==
  [i \in DOMAIN map \cup {id} |-> IF i = id THEN lease ELSE map[i]]

Without(map, id) == [i \in DOMAIN map \ {id} |-> map[i]]

(* The expiry a create or a renew that read `instant` stores.              *)
ExpiryTwiceTtl(instant) == instant + 2 * LeaseTtl

ExpiryAfter(instant) == instant + LeaseTtl

-----------------------------------------------------------------------------
Init ==
  /\ clock = 0
  /\ leases = [i \in {} |-> [request |-> {}, expires_at |-> 0]]
  /\ issued = {}
  /\ op = [t \in Task |-> NoOp]
  /\ now = [t \in Task |-> 0]
  /\ result = [t \in Task |-> NoResult]

Tick ==
  /\ clock < MaxClock
  /\ clock' = clock + 1
  /\ UNCHANGED <<leases, issued, op, now, result>>

Refused(o) ==
  /\ o.name = "create"
  /\ ~AllowNonLoopback
  /\ ~IsLoopback(o.request.target)

(* create refuses a non-loopback target before it looks at the clock.      *)
CallRefused(t, o) ==
  /\ op[t] = NoOp
  /\ Refused(o)
  /\ result' = [result EXCEPT ![t] = Err("non_loopback_target")]
  /\ UNCHANGED <<clock, leases, issued, op, now>>

(* The call up to its first await: all but remove read the clock.          *)
Call(t, o) ==
  /\ op[t] = NoOp
  /\ ~Refused(o)
  /\ op' = [op EXCEPT ![t] = o]
  /\ now' = [now EXCEPT ![t] = IF o.name = "remove" THEN 0 ELSE clock]
  /\ result' = [result EXCEPT ![t] = NoResult]
  /\ UNCHANGED <<clock, leases, issued>>

(* The call is over and its locals go out of scope.                        *)
Forget(t) ==
  /\ op' = [op EXCEPT ![t] = NoOp]
  /\ now' = [now EXCEPT ![t] = 0]
  /\ UNCHANGED clock

(* The peer closes its connection and the handler future is dropped while  *)
(* it waits for the lock.                                                  *)
Cancel(t) ==
  /\ op[t] # NoOp
  /\ Forget(t)
  /\ UNCHANGED <<leases, issued, result>>

Waiting(t, name) == op[t].name = name

Return(t, value) ==
  /\ result' = [result EXCEPT ![t] = value]
  /\ Forget(t)

CreateFull(t) ==
  LET kept == Retain(leases, now[t]) IN
  /\ Waiting(t, "create")
  /\ Cardinality(DOMAIN kept) >= MaxTargets
  /\ leases' = kept
  /\ Return(t, Err("capacity"))
  /\ UNCHANGED issued

HasRoomOffByOne(map) == Cardinality(DOMAIN map) <= MaxTargets

HasRoom(map) == Cardinality(DOMAIN map) < MaxTargets

CreateGranted(t) ==
  LET kept == Retain(leases, now[t]) IN
  /\ Waiting(t, "create")
  /\ HasRoom(kept)
  /\ \E i \in LeaseId \ issued :
       /\ leases' = Insert(kept, i, [request |-> op[t].request,
                                     expires_at |-> ExpiryAfter(now[t])])
       /\ issued' = issued \cup {i}
       /\ Return(t, Ok({i}))

Create(t) == CreateFull(t) \/ CreateGranted(t)

RenewMissing(t) ==
  LET kept == Retain(leases, now[t]) IN
  /\ Waiting(t, "renew")
  /\ op[t].lease_id \notin DOMAIN kept
  /\ leases' = kept
  /\ Return(t, Err("not_found"))
  /\ UNCHANGED issued

(* A renew that looks the lease up before it prunes.                       *)
RenewFoundUnpruned(t) ==
  LET i == op[t].lease_id IN
  /\ Waiting(t, "renew")
  /\ i \in DOMAIN leases
  /\ leases' = [leases EXCEPT ![i].expires_at = ExpiryAfter(now[t])]
  /\ Return(t, Ok({i}))
  /\ UNCHANGED issued

(* A renew that inserts the lease it does not find.                        *)
RenewFoundOrInserted(t) ==
  LET kept == Retain(leases, now[t])
      i == op[t].lease_id
  IN
  /\ Waiting(t, "renew")
  /\ \E request \in Request :
       leases' = Insert(kept, i, [request |-> request,
                                  expires_at |-> ExpiryAfter(now[t])])
  /\ Return(t, Ok({i}))
  /\ UNCHANGED issued

RenewFound(t) ==
  LET kept == Retain(leases, now[t])
      i == op[t].lease_id
  IN
  /\ Waiting(t, "renew")
  /\ i \in DOMAIN kept
  /\ leases' = [kept EXCEPT ![i].expires_at = ExpiryAfter(now[t])]
  /\ Return(t, Ok({i}))
  /\ UNCHANGED issued

Renew(t) == RenewMissing(t) \/ RenewFound(t)

(* remove neither reads the clock nor looks at the expiry.                 *)
Remove(t) ==
  LET i == op[t].lease_id IN
  /\ Waiting(t, "remove")
  /\ leases' = Without(leases, i)
  /\ Return(t, IF i \in DOMAIN leases THEN Ok({i}) ELSE Err("not_found"))
  /\ UNCHANGED issued

(* The two readers filter the expired leases in place and leave the map.   *)
Matching(t) ==
  /\ Waiting(t, "matching")
  /\ Return(t, Ok({i \in LiveIds(leases, now[t]) :
                     RouteMatches(leases[i].request, op[t].head)}))
  /\ UNCHANGED <<leases, issued>>

List(t) ==
  /\ Waiting(t, "list")
  /\ Return(t, Ok(LiveIds(leases, now[t])))
  /\ UNCHANGED <<leases, issued>>

(* The critical section of whatever operation the task waits to run.       *)
Execute(t) == Create(t) \/ Renew(t) \/ Remove(t) \/ Matching(t) \/ List(t)

Next ==
  \/ Tick
  \/ \E t \in Task :
       \/ \E o \in Op \ {NoOp} : CallRefused(t, o) \/ Call(t, o)
       \/ Cancel(t)
       \/ Execute(t)

Spec == Init /\ [][Next]_vars

-----------------------------------------------------------------------------
TypeOK ==
  /\ clock \in Nat
  /\ leases \in [DOMAIN leases -> Lease]
  /\ DOMAIN leases \subseteq issued
  /\ issued \subseteq LeaseId
  /\ op \in [Task -> Op]
  /\ now \in [Task -> Nat]
  /\ result \in [Task -> Result]

(* src/registry.rs:85-88: expired leases stay in the map until the next    *)
(* create or renew, "and the map never exceeds max_targets entries either  *)
(* way", whatever order the waiting calls get the lock in.                 *)
CapacityBound == Cardinality(DOMAIN leases) <= MaxTargets

(* A lease nobody renews is gone one TTL from now: no interleaving of      *)
(* stale snapshots stores an expiry further than lease_ttl in the future.  *)
BoundedLifetime ==
  \A i \in DOMAIN leases : leases[i].expires_at <= clock + LeaseTtl

(* Pruning with a stale instant never costs a registration its lease: a    *)
(* lease that has not expired leaves the map only by its own remove call.  *)
LeavesOnlyDeadOrRemoved ==
  \A i \in LiveIds(leases, clock) :
    \/ i \in DOMAIN leases'
    \/ \E t \in Task : Waiting(t, "remove") /\ op[t].lease_id = i

NoLiveEviction == [][LeavesOnlyDeadOrRemoved]_vars

(* A lease that left the map, by expiry or by unregister, never returns    *)
(* under its identifier, and an identifier never changes its registration. *)
NothingReturns ==
  /\ DOMAIN leases' \cap issued \subseteq DOMAIN leases
  /\ \A i \in DOMAIN leases' \cap issued :
       leases'[i].request = leases[i].request

GoneForGood == [][NothingReturns]_vars

(* What the code keeps of "an expired lease is not recoverable": the       *)
(* expiry only moves forward by a renew call that read the clock while the *)
(* lease was still live, so a renew sent after the expiry always fails.    *)
ExtendedByLiveRenew ==
  \A i \in DOMAIN leases \cap DOMAIN leases' :
    leases'[i].expires_at > leases[i].expires_at =>
      \E t \in Task : /\ Waiting(t, "renew")
                      /\ op[t].lease_id = i
                      /\ IsLive(leases[i], now[t])

RenewedWhileLive == [][ExtendedByLiveRenew]_vars

(* A create is refused for capacity only when max_targets leases were live *)
(* at the instant it read: dead registrations never use up the capacity.   *)
RefusedWhenFull ==
  \A t \in Task :
    (op[t] # NoOp /\ result'[t].code = "capacity") =>
      Cardinality(LiveIds(leases, now[t])) >= MaxTargets

CapacityRefusalHonest == [][RefusedWhenFull]_vars

(* The invariant that carries these properties through the stale           *)
(* snapshots: a snapshot lies in the past, a waiting call has no answer    *)
(* yet, and the map is finite, so that its cardinality means something.    *)
SnapshotInPast == \A t \in Task : now[t] <= clock

PendingUnanswered == \A t \in Task : op[t] # NoOp => result[t] = NoResult

RegistryInvariant ==
  /\ TypeOK
  /\ SnapshotInPast
  /\ PendingUnanswered
  /\ IsFiniteSet(DOMAIN leases)
  /\ CapacityBound
  /\ BoundedLifetime

-----------------------------------------------------------------------------
(* Statements of the documentation that the code does not keep.            *)

(* docs/control-protocol.md:89: "An expired lease is not recoverable; the  *)
(* client creates a new lease."                                            *)
ExpiredNotRecoverable ==
  [][\A i \in DOMAIN leases \cap DOMAIN leases' :
       ~IsLive(leases[i], clock) => ~IsLive(leases'[i], clock)]_vars

(* docs/architecture.md:33: "Create, renew, list, match, and remove        *)
(* operations prune expired leases."                                       *)
EveryOperationPrunes ==
  [][\A t \in Task : (op[t] # NoOp /\ result'[t] # NoResult) =>
       DOMAIN leases' = LiveIds(leases', now[t])]_vars
=============================================================================
