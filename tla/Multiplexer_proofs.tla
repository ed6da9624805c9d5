------------------------- MODULE Multiplexer_proofs -------------------------
(***************************************************************************)
(* Proofs about the ingress server on the real registry, for any number of *)
(* webhooks, control handlers, leases and permits, and any lease_ttl.      *)
(* The composition is a behaviour of both of its parts, which brings in    *)
(* what is proved about Ingress; what is left is the way of a lease from   *)
(* the map through matching to a delivery.                                 *)
(***************************************************************************)
EXTENDS Multiplexer, Ingress_proofs

Task == Handler \cup Request

-----------------------------------------------------------------------------
(* The composition and the registry.                                       *)

(* Every step of the composition is a call, a critical section, a          *)
(* cancellation or a tick of the registry, or leaves it alone.             *)
LEMMA RegistrySteps ==
  ASSUME [MultiplexerNext]_allVars
  PROVE  [Leases!Next]_(Leases!vars)
<1> USE DEF Leases!vars, registryVars
<1>1. CASE UNCHANGED allVars
  BY <1>1 DEF allVars
<1>2. CASE ClockStep
  BY <1>2 DEF ClockStep, Leases!Next
<1>3. ASSUME NEW h \in Handler, ControlStep(h)
      PROVE  Leases!Next
  <2>1. ASSUME NEW o \in Leases!Op, o.name \in {"create", "renew", "remove"}
        PROVE  o # Leases!NoOp
    BY <2>1 DEF Leases!NoOp
  <2> QED
    BY <1>3, <2>1 DEF ControlStep, Leases!Next, Leases!Execute
<1>4. ASSUME NEW h \in Handler, Renewal(h) \/ Unregister(h)
      PROVE  Leases!Next
  BY <1>4 DEF Renewal, Unregister, Leases!Next, Leases!Execute
<1>5. ASSUME NEW r \in Request, NEW head \in Webhook, Arrive(r, head)
      PROVE  Leases!Next
  <2>1. [name |-> "matching", head |-> head] \in Leases!Op \ {Leases!NoOp}
    BY DEF Leases!Op, Leases!NoOp
  <2> QED
    BY <1>5, <2>1 DEF Arrive, Leases!Next
<1>6. ASSUME NEW r \in Request, Matched(r)
      PROVE  Leases!Next
  BY <1>6 DEF Matched, Leases!Next, Leases!Execute
<1>7. ASSUME NEW r \in Request, Drop(r)
      PROVE  Leases!Next \/ UNCHANGED Leases!vars
  BY <1>7 DEF Drop, Leases!Next
<1>8. ASSUME NEW r \in Request, IngressStep(r)
      PROVE  UNCHANGED Leases!vars
  BY <1>8 DEF IngressStep
<1> QED
  BY <1>1, <1>2, <1>3, <1>4, <1>5, <1>6, <1>7, <1>8 DEF MultiplexerNext

(* The composition is a behaviour of the registry, so that what            *)
(* Registry_proofs shows of leases holds under the ingress as well.        *)
THEOREM RegistryInTheMultiplexer == MultiplexerSpec => Leases!Spec
<1>1. MultiplexerInit => Leases!Init
  BY DEF MultiplexerInit
<1>2. [MultiplexerNext]_allVars => [Leases!Next]_(Leases!vars)
  BY RegistrySteps
<1> QED
  BY <1>1, <1>2, PTL DEF MultiplexerSpec, Leases!Spec

-----------------------------------------------------------------------------
(* What a critical section leaves in the map.                              *)

(* retain with an instant of the past keeps every lease that is live now.  *)
LEMMA RetainKeepsLive ==
  ASSUME RegistrySound, NEW t \in Task
  PROVE  /\ Leases!Retain(leases, now[t])
              \in [DOMAIN Leases!Retain(leases, now[t]) -> Leases!Lease]
         /\ DOMAIN Leases!Retain(leases, now[t]) \subseteq DOMAIN leases
         /\ Leases!LiveIds(leases, clock)
              \subseteq DOMAIN Leases!Retain(leases, now[t])
         /\ \A i \in DOMAIN Leases!Retain(leases, now[t]) :
              /\ Leases!Retain(leases, now[t])[i] = leases[i]
              /\ Leases!IsLive(leases[i], now[t])
<1>1. /\ clock \in Nat
      /\ now[t] \in Nat
      /\ now[t] <= clock
      /\ leases \in [DOMAIN leases -> Leases!Lease]
  BY DEF RegistrySound, Leases!TypeOK, Leases!SnapshotInPast, Task
<1> QED
  BY <1>1 DEF Leases!Retain, Leases!LiveIds, Leases!IsLive, Leases!Lease

(* A create keeps what is live and adds at most a fresh identifier.        *)
LEMMA CreateMap ==
  ASSUME RegistrySound, NEW t \in Task, Leases!Create(t)
  PROVE  /\ leases' \in [DOMAIN leases' -> Leases!Lease]
         /\ DOMAIN leases' \subseteq issued'
         /\ issued \subseteq issued' /\ issued' \subseteq LeaseId
         /\ Leases!LiveIds(leases, clock) \subseteq DOMAIN leases'
         /\ \A i \in DOMAIN leases' \cap issued :
              i \in DOMAIN leases /\ leases'[i] = leases[i]
<1> DEFINE kept == Leases!Retain(leases, now[t])
<1>1. /\ kept \in [DOMAIN kept -> Leases!Lease]
      /\ DOMAIN kept \subseteq DOMAIN leases
      /\ Leases!LiveIds(leases, clock) \subseteq DOMAIN kept
      /\ \A i \in DOMAIN kept : kept[i] = leases[i]
  BY RetainKeepsLive
<1>2. /\ DOMAIN leases \subseteq issued
      /\ issued \subseteq LeaseId
      /\ now[t] \in Nat
      /\ op[t] \in Leases!Op
  BY DEF RegistrySound, Leases!TypeOK, Task
<1> HIDE DEF kept
<1>3. CASE Leases!CreateFull(t)
  <2>1. leases' = kept /\ issued' = issued
    BY <1>3 DEF Leases!CreateFull, kept
  <2> QED
    BY <1>1, <1>2, <2>1
<1>4. CASE Leases!CreateGranted(t)
  <2>1. PICK i \in LeaseId \ issued :
          /\ leases' = Leases!Insert(kept, i, [request |-> op[t].request,
                                expires_at |-> Leases!ExpiryAfter(now[t])])
          /\ issued' = issued \cup {i}
    BY <1>4 DEF Leases!CreateGranted, kept
  <2>2. op[t].request \in Registration
    BY <1>2, <1>4 DEF Leases!CreateGranted, Leases!Waiting, Leases!Op
  <2> DEFINE lease == [request |-> op[t].request,
                       expires_at |-> Leases!ExpiryAfter(now[t])]
  <2>3. lease \in Leases!Lease
    BY <1>2, <2>2, MultiplexerAssumption DEF Leases!Lease, Leases!ExpiryAfter
  <2> HIDE DEF lease
  <2>4. leases' = [j \in DOMAIN kept \cup {i} |-> IF j = i THEN lease ELSE kept[j]]
    BY <2>1 DEF Leases!Insert, lease
  <2> QED
    BY <1>1, <1>2, <2>1, <2>3, <2>4
<1> QED
  BY <1>3, <1>4 DEF Leases!Create

(* A renew that finds its lease was live at the instant it read.           *)
LEMMA RenewMap ==
  ASSUME RegistrySound, NEW t \in Task, Leases!Renew(t)
  PROVE  /\ leases' \in [DOMAIN leases' -> Leases!Lease]
         /\ DOMAIN leases' \subseteq DOMAIN leases
         /\ issued' = issued
         /\ Leases!LiveIds(leases, clock) \subseteq DOMAIN leases'
         /\ Leases!Waiting(t, "renew")
         /\ \A i \in DOMAIN leases' :
              /\ leases'[i].request = leases[i].request
              /\ \/ leases'[i] = leases[i]
                 \/ op[t].lease_id = i /\ Leases!IsLive(leases[i], now[t])
<1> DEFINE kept == Leases!Retain(leases, now[t])
<1>1. /\ kept \in [DOMAIN kept -> Leases!Lease]
      /\ DOMAIN kept \subseteq DOMAIN leases
      /\ Leases!LiveIds(leases, clock) \subseteq DOMAIN kept
      /\ \A i \in DOMAIN kept : /\ kept[i] = leases[i]
                                /\ Leases!IsLive(leases[i], now[t])
  BY RetainKeepsLive
<1>2. now[t] \in Nat
  BY DEF RegistrySound, Leases!TypeOK, Task
<1> HIDE DEF kept
<1>3. CASE Leases!RenewMissing(t)
  <2>1. leases' = kept /\ issued' = issued /\ Leases!Waiting(t, "renew")
    BY <1>3 DEF Leases!RenewMissing, kept
  <2> QED
    BY <1>1, <2>1
<1>4. CASE Leases!RenewFound(t)
  <2> DEFINE id == op[t].lease_id
  <2>1. /\ id \in DOMAIN kept
        /\ leases' = [kept EXCEPT ![id].expires_at = Leases!ExpiryAfter(now[t])]
        /\ issued' = issued
        /\ Leases!Waiting(t, "renew")
    BY <1>4 DEF Leases!RenewFound, kept
  <2>2. Leases!ExpiryAfter(now[t]) \in Nat
    BY <1>2, MultiplexerAssumption DEF Leases!ExpiryAfter
  <2>3. /\ leases' \in [DOMAIN kept -> Leases!Lease]
        /\ \A i \in DOMAIN kept : leases'[i].request = kept[i].request
        /\ \A i \in DOMAIN kept : i # id => leases'[i] = kept[i]
    BY <1>1, <2>1, <2>2 DEF Leases!Lease
  <2> QED
    BY <1>1, <2>1, <2>3
<1> QED
  BY <1>3, <1>4 DEF Leases!Renew

(* A remove takes out its own lease and no other.                          *)
LEMMA RemoveMap ==
  ASSUME RegistrySound, NEW t \in Task, Leases!Remove(t)
  PROVE  /\ leases' \in [DOMAIN leases' -> Leases!Lease]
         /\ DOMAIN leases' = DOMAIN leases \ {op[t].lease_id}
         /\ issued' = issued
         /\ \A i \in DOMAIN leases' : leases'[i] = leases[i]
BY DEF RegistrySound, Leases!TypeOK, Leases!Remove, Leases!Without

(* Returning from a call, whatever it answers, and being dropped in it.    *)
LEMMA ForgetSound ==
  ASSUME RegistrySound, NEW t \in Task, Leases!Forget(t)
  PROVE  /\ clock' = clock
         /\ op' \in [Task -> Leases!Op]
         /\ now' \in [Task -> Nat]
         /\ Leases!SnapshotInPast'
BY DEF RegistrySound, Leases!TypeOK, Leases!SnapshotInPast, Leases!Forget,
       Leases!Op, Leases!NoOp, Task

LEMMA ReturnSound ==
  ASSUME RegistrySound, NEW t \in Task, NEW value \in Leases!Result,
         Leases!Return(t, value)
  PROVE  /\ clock' = clock
         /\ op' \in [Task -> Leases!Op]
         /\ now' \in [Task -> Nat]
         /\ result' \in [Task -> Leases!Result]
         /\ Leases!SnapshotInPast'
<1>1. Leases!Forget(t) /\ result' = [result EXCEPT ![t] = value]
  BY DEF Leases!Return
<1> QED
  BY <1>1, ForgetSound DEF RegistrySound, Leases!TypeOK, Task

(* Each call and each critical section keeps types and snapshots sound.    *)
LEMMA SoundStep ==
  RegistrySound /\ [Leases!Next]_(Leases!vars) => RegistrySound'
<1> SUFFICES ASSUME RegistrySound, [Leases!Next]_(Leases!vars)
             PROVE  RegistrySound'
  OBVIOUS
<1>typed. /\ clock \in Nat
          /\ leases \in [DOMAIN leases -> Leases!Lease]
          /\ DOMAIN leases \subseteq issued
          /\ issued \subseteq LeaseId
          /\ op \in [Task -> Leases!Op]
          /\ now \in [Task -> Nat]
          /\ result \in [Task -> Leases!Result]
          /\ \A t \in Task : now[t] <= clock
  BY DEF RegistrySound, Leases!TypeOK, Leases!SnapshotInPast, Task
<1>goal. (/\ clock' \in Nat
          /\ leases' \in [DOMAIN leases' -> Leases!Lease]
          /\ DOMAIN leases' \subseteq issued'
          /\ issued' \subseteq LeaseId
          /\ op' \in [Task -> Leases!Op]
          /\ now' \in [Task -> Nat]
          /\ result' \in [Task -> Leases!Result]
          /\ Leases!SnapshotInPast') => RegistrySound'
  BY DEF RegistrySound, Leases!TypeOK, Task
<1>answers. /\ \A ids \in SUBSET LeaseId : Leases!Ok(ids) \in Leases!Result
            /\ \A code \in Leases!Code : Leases!Err(code) \in Leases!Result
            /\ Leases!NoResult \in Leases!Result
  BY DEF Leases!Ok, Leases!Err, Leases!NoResult, Leases!Result, Leases!Code
<1>1. CASE UNCHANGED Leases!vars
  BY <1>1, <1>typed, <1>goal DEF Leases!vars, Leases!SnapshotInPast, Task
<1>2. CASE Leases!Tick
  BY <1>2, <1>typed, <1>goal DEF Leases!Tick, Leases!SnapshotInPast, Task
<1>3. ASSUME NEW t \in Task, NEW o \in Leases!Op, Leases!CallRefused(t, o)
      PROVE  RegistrySound'
  <2>1. Leases!Err("non_loopback_target") \in Leases!Result
    BY <1>answers DEF Leases!Code
  <2> QED
    BY <1>3, <2>1, <1>typed, <1>goal
    DEF Leases!CallRefused, Leases!SnapshotInPast, Task
<1>4. ASSUME NEW t \in Task, NEW o \in Leases!Op, Leases!Call(t, o)
      PROVE  RegistrySound'
  BY <1>4, <1>typed, <1>goal, <1>answers
  DEF Leases!Call, Leases!SnapshotInPast, Task
<1>5. ASSUME NEW t \in Task, Leases!Cancel(t)
      PROVE  RegistrySound'
  BY <1>5, <1>typed, <1>goal, ForgetSound DEF Leases!Cancel
<1>6. ASSUME NEW t \in Task, Leases!Create(t)
      PROVE  RegistrySound'
  <2>1. \E value \in Leases!Result : Leases!Return(t, value)
    <3>1. CASE Leases!CreateFull(t)
      BY <3>1, <1>answers DEF Leases!CreateFull, Leases!Code
    <3>2. CASE Leases!CreateGranted(t)
      BY <3>2, <1>answers DEF Leases!CreateGranted
    <3> QED
      BY <1>6, <3>1, <3>2 DEF Leases!Create
  <2> QED
    BY <1>6, <2>1, <1>typed, <1>goal, ReturnSound, CreateMap
<1>7. ASSUME NEW t \in Task, Leases!Renew(t)
      PROVE  RegistrySound'
  <2>1. \E value \in Leases!Result : Leases!Return(t, value)
    <3>1. CASE Leases!RenewMissing(t)
      BY <3>1, <1>answers DEF Leases!RenewMissing, Leases!Code
    <3>2. CASE Leases!RenewFound(t)
      <4>1. op[t].lease_id \in LeaseId
        BY <3>2, <1>typed DEF Leases!RenewFound, Leases!Waiting, Leases!Op
      <4> QED
        BY <3>2, <4>1, <1>answers DEF Leases!RenewFound
    <3> QED
      BY <1>7, <3>1, <3>2 DEF Leases!Renew
  <2> QED
    BY <1>7, <2>1, <1>typed, <1>goal, ReturnSound, RenewMap
<1>8. ASSUME NEW t \in Task, Leases!Remove(t)
      PROVE  RegistrySound'
  <2>1. op[t].lease_id \in LeaseId
    BY <1>8, <1>typed DEF Leases!Remove, Leases!Waiting, Leases!Op
  <2>2. \E value \in Leases!Result : Leases!Return(t, value)
    BY <1>8, <2>1, <1>answers DEF Leases!Remove, Leases!Code
  <2> QED
    BY <1>8, <2>2, <1>typed, <1>goal, ReturnSound, RemoveMap
<1>9. ASSUME NEW t \in Task, Leases!Matching(t) \/ Leases!List(t)
      PROVE  RegistrySound'
  <2>1. Leases!LiveIds(leases, now[t]) \subseteq LeaseId
    BY <1>typed DEF Leases!LiveIds
  <2>2. \E value \in Leases!Result : Leases!Return(t, value)
    BY <1>9, <2>1, <1>answers DEF Leases!Matching, Leases!List
  <2>3. UNCHANGED <<leases, issued>>
    BY <1>9 DEF Leases!Matching, Leases!List
  <2> QED
    BY <2>2, <2>3, <1>typed, <1>goal, ReturnSound
<1> QED
  BY <1>1, <1>2, <1>3, <1>4, <1>5, <1>6, <1>7, <1>8, <1>9
  DEF Leases!Next, Leases!Execute, Task

LEMMA SoundInit == Leases!Init => RegistrySound
BY DEF Leases!Init, RegistrySound, Leases!TypeOK, Leases!SnapshotInPast,
       Leases!Op, Leases!NoOp, Leases!Result, Leases!NoResult, Leases!Code

(* The registry keeps its types, and its snapshots stay in the past.       *)
LEMMA RegistryStaysSound == MultiplexerSpec => []RegistrySound
<1>1. Leases!Spec => []RegistrySound
  BY SoundInit, SoundStep, PTL DEF Leases!Spec
<1> QED
  BY <1>1, RegistryInTheMultiplexer, PTL

-----------------------------------------------------------------------------
(* The composition and the ingress.                                        *)

(* What matching returns to the handler, and what the handler does then.   *)
LEMMA MatchedSteps ==
  ASSUME RegistrySound, NEW r \in Request, Matched(r)
  PROVE  \E ids \in SUBSET LeaseId :
           /\ ids = {i \in Leases!LiveIds(leases, now[r]) :
                       Leases!RouteMatches(leases[i].request, op[r].head)}
           /\ \/ ids = {} /\ MatchNothing(r)
              \/ ids # {} /\ MatchTargets(r, ids)
<1> DEFINE ids == {i \in Leases!LiveIds(leases, now[r]) :
                     Leases!RouteMatches(leases[i].request, op[r].head)}
<1>1. result \in [Task -> Leases!Result] /\ DOMAIN leases \subseteq LeaseId
  BY DEF RegistrySound, Leases!TypeOK, Task
<1>2. ids \subseteq LeaseId
  BY <1>1 DEF Leases!LiveIds
<1>3. result'[r] = Leases!Ok(ids)
  BY <1>1 DEF Matched, Leases!Matching, Leases!Return, Task
<1>4. result'[r].ids = ids
  BY <1>3 DEF Leases!Ok
<1> QED
  BY <1>2, <1>4 DEF Matched

(* Every step of the composition is one of Ingress, or none of its own.    *)
LEMMA IngressSteps ==
  ASSUME RegistrySound, [MultiplexerNext]_allVars
  PROVE  [Next]_vars
<1>1. CASE UNCHANGED allVars
  BY <1>1 DEF allVars
<1>2. CASE ClockStep
  BY <1>2 DEF ClockStep
<1>3. ASSUME NEW h \in Handler, ControlStep(h) \/ Renewal(h) \/ Unregister(h)
      PROVE  UNCHANGED vars
  BY <1>3 DEF ControlStep, Renewal, Unregister
<1>4. ASSUME NEW r \in Request, NEW head \in Webhook, Arrive(r, head)
      PROVE  Next
  BY <1>4 DEF Arrive, Next
<1>5. ASSUME NEW r \in Request, Matched(r)
      PROVE  Next
  BY <1>5, MatchedSteps DEF Next
<1>6. ASSUME NEW r \in Request, Drop(r)
      PROVE  Next
  BY <1>6 DEF Drop, Next
<1>7. ASSUME NEW r \in Request, IngressStep(r)
      PROVE  Next
  BY <1>7 DEF IngressStep, Next
<1> QED
  BY <1>1, <1>2, <1>3, <1>4, <1>5, <1>6, <1>7 DEF MultiplexerNext

(* The composition is a behaviour of the ingress: the registry's answers   *)
(* are among those that Ingress allows matching, so that permits balance,  *)
(* answers are final and aggregates honest on the real registry too.       *)
THEOREM IngressInTheMultiplexer == MultiplexerSpec => Spec
<1>1. MultiplexerInit => Init
  BY DEF MultiplexerInit
<1>2. RegistrySound /\ [MultiplexerNext]_allVars => [Next]_vars
  BY IngressSteps
<1> QED
  BY <1>1, <1>2, RegistryStaysSound, PTL DEF MultiplexerSpec, Spec

-----------------------------------------------------------------------------
(* The steps of one handler, as far as the others are concerned.           *)

(* After its targets are chosen a handler neither changes them nor waits   *)
(* for matching again, and says "no-targets" nowhere else.                 *)
LEMMA IngressStepFrame ==
  ASSUME TypeOK, NEW q \in Request, IngressStep(q), NEW r \in Request
  PROVE  /\ targets' = targets
         /\ pc'[r] = "matching" <=> pc[r] = "matching"
         /\ pc'[r] = "new" => pc[r] = "new"
         /\ pc'[r] = "dropped" <=> pc[r] = "dropped"
         /\ (pc'[r] = "answered" /\ response'[r].reason = "no-targets") =>
              (pc[r] = "answered" /\ response[r].reason = "no-targets")
<1> USE DEF handlerVars, deliveryVars, joinVars
<1>typed. /\ pc \in [Request -> Place]
          /\ response \in [Request -> Response \cup {NoResponse}]
  BY DEF TypeOK
<1>1. ASSUME NEW value, Answer(q, value), value.reason # "no-targets",
             pc[q] \notin {"matching", "dropped"}, targets' = targets
      PROVE  /\ targets' = targets
             /\ pc'[r] = "matching" <=> pc[r] = "matching"
             /\ pc'[r] = "new" => pc[r] = "new"
             /\ pc'[r] = "dropped" <=> pc[r] = "dropped"
             /\ (pc'[r] = "answered" /\ response'[r].reason = "no-targets") =>
                  (pc[r] = "answered" /\ response[r].reason = "no-targets")
  BY <1>1, <1>typed DEF Answer
<1>2. CASE RefuseCapacity(q)
  <2>1. ShortCircuit(503, 0, "ingress-capacity").reason # "no-targets"
    BY DEF ShortCircuit
  <2> QED
    BY <1>1, <1>2, <2>1 DEF RefuseCapacity
<1>3. ASSUME NEW error \in BodyError, RejectBody(q, error)
      PROVE  /\ pc[q] = "reading"
             /\ targets' = targets
             /\ \E value : Answer(q, value) /\ value.reason # "no-targets"
  <2>1. ShortCircuit(error[1], Cardinality(targets[q]), error[2]).reason
          # "no-targets"
    BY DEF ShortCircuit, BodyError
  <2> QED
    BY <1>3, <2>1 DEF RejectBody
<1>4. CASE Respond(q)
  <2>1. Aggregate(q).reason # "no-targets"
    BY DEF Aggregate
  <2> QED
    BY <1>1, <1>4, <2>1 DEF Respond
<1>5. CASE Spawn(q)
  BY <1>5, <1>typed DEF Spawn
<1>6. ASSUME NEW l \in LeaseId,
             \/ AcquirePermit(q, l) \/ Timeout(q, l) \/ Join(q, l) \/ Abort(q, l)
             \/ \E reply \in Reply : Finish(q, l, reply)
      PROVE  UNCHANGED handlerVars
  BY <1>6 DEF AcquirePermit, Timeout, Join, Abort, Finish, EndDelivery
<1> QED
  BY <1>1, <1>2, <1>3, <1>4, <1>5, <1>6 DEF IngressStep

(* A webhook waits for matching with no targets, whoever else moves.       *)
LEMMA WaitsStep ==
  ASSUME RegistrySound, TypeOK, WaitsForMatching, [MultiplexerNext]_allVars
  PROVE  WaitsForMatching'
<1> SUFFICES ASSUME NEW r \in Request
             PROVE  /\ pc'[r] = "matching" => op'[r].name = "matching"
                    /\ pc'[r] \in {"new", "matching"} => targets'[r] = {}
                    /\ (pc'[r] = "answered" /\ response'[r].reason = "no-targets") =>
                         targets'[r] = {}
  BY DEF WaitsForMatching
<1>typed. /\ pc \in [Request -> Place]
          /\ targets \in [Request -> SUBSET LeaseId]
          /\ response \in [Request -> Response \cup {NoResponse}]
          /\ op \in [Task -> Leases!Op]
          /\ r \in Task
  BY DEF TypeOK, RegistrySound, Leases!TypeOK, Task
<1>before. /\ pc[r] = "matching" => op[r].name = "matching"
           /\ pc[r] \in {"new", "matching"} => targets[r] = {}
           /\ (pc[r] = "answered" /\ response[r].reason = "no-targets") =>
                targets[r] = {}
  BY DEF WaitsForMatching
<1> USE DEF handlerVars, deliveryVars, joinVars, vars, registryVars
<1>1. CASE UNCHANGED allVars
  BY <1>1, <1>before DEF allVars
<1>2. CASE ClockStep
  BY <1>2, <1>before DEF ClockStep, Leases!Tick
<1>3. ASSUME NEW h \in Handler, ControlStep(h) \/ Renewal(h) \/ Unregister(h)
      PROVE  op'[r] = op[r] /\ UNCHANGED vars
  <2>1. h # r /\ h \in Task
    BY MultiplexerAssumption DEF Task
  <2> QED
    BY <1>3, <2>1, <1>typed
    DEF ControlStep, Renewal, Unregister, Leases!Call, Leases!CallRefused,
        Leases!Cancel, Leases!Create, Leases!CreateFull, Leases!CreateGranted,
        Leases!Renew, Leases!RenewMissing, Leases!RenewFound, Leases!Remove,
        Leases!Return, Leases!Forget
<1>4. ASSUME NEW q \in Request, NEW head \in Webhook, Arrive(q, head)
      PROVE  /\ UNCHANGED <<targets, response>>
             /\ q = r => pc[r] = "new" /\ pc'[r] = "matching"
                         /\ op'[r].name = "matching"
             /\ q # r => pc'[r] = pc[r] /\ op'[r] = op[r]
  BY <1>4, <1>typed DEF Arrive, Admit, Leases!Call
<1>5. ASSUME NEW q \in Request, Matched(q)
      PROVE  /\ q = r => \/ /\ pc[r] = "matching" /\ pc'[r] = "answered"
                            /\ targets'[r] = targets[r]
                         \/ pc'[r] = "reading"
             /\ q # r => /\ op'[r] = op[r]
                         /\ pc'[r] = pc[r]
                         /\ targets'[r] = targets[r]
                         /\ response'[r] = response[r]
  <2>1. q # r => op'[r] = op[r]
    BY <1>5, <1>typed DEF Matched, Leases!Matching, Leases!Return, Leases!Forget
  <2> QED
    BY <1>5, <2>1, <1>typed DEF Matched, MatchNothing, MatchTargets, Answer
<1>6. ASSUME NEW q \in Request, Drop(q)
      PROVE  /\ UNCHANGED <<targets, response>>
             /\ q = r => pc'[r] = "dropped"
             /\ q # r => pc'[r] = pc[r] /\ op'[r] = op[r]
  BY <1>6, <1>typed DEF Drop, Disconnect, Leases!Cancel, Leases!Forget
<1>7. ASSUME NEW q \in Request, IngressStep(q)
      PROVE  op' = op
  BY <1>7 DEF IngressStep
<1> QED
  BY <1>1, <1>2, <1>3, <1>4, <1>5, <1>6, <1>7, <1>before, IngressStepFrame
  DEF MultiplexerNext

-----------------------------------------------------------------------------
(* What a step of the composition does to one webhook, to the calls of the *)
(* control handlers and to the map.                                        *)

(* The webhook keeps its place, its targets and its call of matching.      *)
Stays(r) ==
  /\ targets'[r] = targets[r]
  /\ unknown'[r] = unknown[r]
  /\ due'[r] \subseteq due[r]
  /\ pc'[r] = "matching" <=> pc[r] = "matching"
  /\ pc'[r] = "dropped" <=> pc[r] = "dropped"
  /\ pc[r] = "matching" => op'[r] = op[r] /\ now'[r] = now[r]
  /\ pc[r] # "matching" => due'[r] = due[r]

(* A task changes no call but its own.                                     *)
LEMMA OtherTasksStay ==
  ASSUME RegistrySound, NEW t \in Task, NEW u \in Task, t # u,
         \/ \E o \in Leases!Op : Leases!Call(t, o) \/ Leases!CallRefused(t, o)
         \/ Leases!Cancel(t)
         \/ Leases!Execute(t)
  PROVE  op'[u] = op[u] /\ now'[u] = now[u]
<1>1. op \in [Task -> Leases!Op] /\ now \in [Task -> Nat]
  BY DEF RegistrySound, Leases!TypeOK, Task
<1>2. ASSUME Leases!Forget(t)
      PROVE  op'[u] = op[u] /\ now'[u] = now[u]
  BY <1>1, <1>2 DEF Leases!Forget
<1>3. ASSUME NEW o, Leases!Call(t, o) \/ Leases!CallRefused(t, o)
      PROVE  op'[u] = op[u] /\ now'[u] = now[u]
  BY <1>1, <1>3 DEF Leases!Call, Leases!CallRefused
<1>4. ASSUME Leases!Execute(t)
      PROVE  Leases!Forget(t)
  <2>1. CASE Leases!Create(t)
    BY <2>1 DEF Leases!Create, Leases!CreateFull, Leases!CreateGranted, Leases!Return
  <2>2. CASE Leases!RenewMissing(t)
    BY <2>2 DEF Leases!RenewMissing, Leases!Return
  <2>3. CASE Leases!RenewFound(t)
    BY <2>3 DEF Leases!RenewFound, Leases!Return
  <2>4. CASE Leases!Remove(t) \/ Leases!Matching(t) \/ Leases!List(t)
    BY <2>4 DEF Leases!Remove, Leases!Matching, Leases!List, Leases!Return
  <2> QED
    BY <1>4, <2>1, <2>2, <2>3, <2>4 DEF Leases!Execute, Leases!Renew
<1> QED
  BY <1>2, <1>3, <1>4 DEF Leases!Cancel

(* A webhook arrives, is matched, is dropped, or stays as it is.           *)
LEMMA WebhookSteps ==
  ASSUME RegistrySound, TypeOK, due \in [Request -> SUBSET LeaseId],
         unknown \in [Request -> SUBSET LeaseId],
         [MultiplexerNext]_allVars, NEW r \in Request
  PROVE  \/ \E head \in Webhook : Arrive(r, head)
         \/ Matched(r)
         \/ Drop(r)
         \/ Stays(r)
<1>typed. /\ pc \in [Request -> Place]
          /\ targets \in [Request -> SUBSET LeaseId]
          /\ r \in Task
  BY DEF TypeOK, Task
<1> USE DEF handlerVars, deliveryVars, joinVars, vars, registryVars
<1>1. CASE UNCHANGED allVars
  BY <1>1 DEF allVars, Stays
<1>due. ASSUME NEW gone, NoLongerDue(gone)
        PROVE  /\ due'[r] \subseteq due[r]
               /\ pc[r] # "matching" => due'[r] = due[r]
  BY <1>due DEF NoLongerDue
<1>2. CASE ClockStep
  BY <1>2, <1>due DEF ClockStep, Leases!Tick, Stays
<1>3. ASSUME NEW h \in Handler, ControlStep(h) \/ Renewal(h) \/ Unregister(h)
      PROVE  Stays(r)
  <2>1. h # r /\ h \in Task
    BY MultiplexerAssumption DEF Task
  <2>2. op'[r] = op[r] /\ now'[r] = now[r]
    BY <1>3, <1>typed, <2>1, OtherTasksStay
    DEF ControlStep, Renewal, Unregister, Leases!Execute
  <2>3. /\ UNCHANGED <<vars, unknown>>
        /\ due' = due \/ \E gone : NoLongerDue(gone)
    BY <1>3 DEF ControlStep, Renewal, Unregister
  <2> QED
    BY <2>2, <2>3, <1>due DEF Stays
<1>4. ASSUME NEW q \in Request \ {r}, NEW head \in Webhook, Arrive(q, head)
      PROVE  Stays(r)
  <2>1. [name |-> "matching", head |-> head] \in Leases!Op
    BY DEF Leases!Op
  <2>2. op'[r] = op[r] /\ now'[r] = now[r]
    BY <1>4, <1>typed, <2>1, OtherTasksStay DEF Arrive, Task
  <2> QED
    BY <1>4, <1>typed, <2>2 DEF Arrive, Admit, Stays
<1>5. ASSUME NEW q \in Request \ {r}, Matched(q)
      PROVE  Stays(r)
  <2>1. op'[r] = op[r] /\ now'[r] = now[r]
    BY <1>5, <1>typed, OtherTasksStay DEF Matched, Leases!Execute, Task
  <2>2. pc'[r] = pc[r] /\ targets'[r] = targets[r]
    BY <1>5, <1>typed DEF Matched, MatchNothing, MatchTargets, Answer
  <2> QED
    BY <1>5, <2>1, <2>2 DEF Matched, Stays
<1>6. ASSUME NEW q \in Request \ {r}, Drop(q)
      PROVE  Stays(r)
  <2>1. op'[r] = op[r] /\ now'[r] = now[r]
    BY <1>6, <1>typed, OtherTasksStay DEF Drop, Task
  <2>2. pc'[r] = pc[r] /\ targets'[r] = targets[r]
    BY <1>6, <1>typed DEF Drop, Disconnect
  <2> QED
    BY <1>6, <2>1, <2>2 DEF Drop, Stays
<1>7. ASSUME NEW q \in Request, IngressStep(q)
      PROVE  Stays(r)
  <2>1. UNCHANGED <<op, now, due, unknown>>
    BY <1>7 DEF IngressStep
  <2> QED
    BY <1>7, <2>1, IngressStepFrame DEF Stays
<1> QED
  BY <1>1, <1>2, <1>3, <1>4, <1>5, <1>6, <1>7 DEF MultiplexerNext

(* A handler that waits to renew did so before, or has just read the clock.*)
LEMMA HandlerCalls ==
  ASSUME RegistrySound, [MultiplexerNext]_allVars, NEW h \in Handler
  PROVE  \/ op'[h] = op[h] /\ now'[h] = now[h]
         \/ op'[h].name # "renew"
         \/ now'[h] = clock /\ leases' = leases
<1>typed. /\ op \in [Task -> Leases!Op]
          /\ now \in [Task -> Nat]
          /\ h \in Task
  BY DEF RegistrySound, Leases!TypeOK, Task
<1> USE DEF registryVars
<1>forget. ASSUME Leases!Forget(h)
           PROVE  op'[h].name # "renew"
  BY <1>forget, <1>typed DEF Leases!Forget, Leases!NoOp
<1>1. CASE UNCHANGED allVars
  BY <1>1 DEF allVars
<1>2. CASE ClockStep
  BY <1>2 DEF ClockStep, Leases!Tick
<1>3. ASSUME NEW g \in Handler, g # h, ControlStep(g) \/ Renewal(g) \/ Unregister(g)
      PROVE  op'[h] = op[h] /\ now'[h] = now[h]
  <2>1. g \in Task
    BY DEF Task
  <2> QED
    BY <1>3, <2>1, <1>typed, OtherTasksStay
    DEF ControlStep, Renewal, Unregister, Leases!Execute
<1>4. ASSUME NEW o \in Leases!Op, Leases!Call(h, o)
      PROVE  op'[h].name # "renew" \/ (now'[h] = clock /\ leases' = leases)
  BY <1>4, <1>typed DEF Leases!Call
<1>5. ASSUME NEW o \in Leases!Op, Leases!CallRefused(h, o)
      PROVE  op'[h] = op[h] /\ now'[h] = now[h]
  BY <1>5 DEF Leases!CallRefused
<1>6. ASSUME Leases!Cancel(h) \/ Leases!Create(h) \/ Leases!Remove(h)
      PROVE  Leases!Forget(h)
  BY <1>6 DEF Leases!Cancel, Leases!Create, Leases!CreateFull,
              Leases!CreateGranted, Leases!Remove, Leases!Return
<1>7. ASSUME Leases!Renew(h)
      PROVE  Leases!Forget(h)
  <2>1. CASE Leases!RenewMissing(h)
    BY <2>1 DEF Leases!RenewMissing, Leases!Return
  <2>2. CASE Leases!RenewFound(h)
    BY <2>2 DEF Leases!RenewFound, Leases!Return
  <2> QED
    BY <1>7, <2>1, <2>2 DEF Leases!Renew
<1>8. ASSUME ControlStep(h) \/ Renewal(h) \/ Unregister(h)
      PROVE  \/ op'[h] = op[h] /\ now'[h] = now[h]
             \/ op'[h].name # "renew"
             \/ now'[h] = clock /\ leases' = leases
  BY <1>8, <1>forget, <1>4, <1>5, <1>6, <1>7 DEF ControlStep, Renewal, Unregister
<1>9. ASSUME NEW q \in Request,
             \/ \E head \in Webhook : Arrive(q, head)
             \/ Matched(q) \/ Drop(q) \/ IngressStep(q)
      PROVE  op'[h] = op[h] /\ now'[h] = now[h]
  <2>1. q # h /\ q \in Task
    BY MultiplexerAssumption DEF Task
  <2>2. \A head \in Webhook : [name |-> "matching", head |-> head] \in Leases!Op
    BY DEF Leases!Op
  <2>3. CASE IngressStep(q)
    BY <2>3 DEF IngressStep
  <2>4. CASE Drop(q)
    BY <2>4, <2>1, <1>typed, OtherTasksStay DEF Drop
  <2>5. CASE Matched(q)
    BY <2>5, <2>1, <1>typed, OtherTasksStay DEF Matched, Leases!Execute
  <2>6. CASE \E head \in Webhook : Arrive(q, head)
    BY <2>6, <2>1, <2>2, <1>typed, OtherTasksStay DEF Arrive
  <2> QED
    BY <1>9, <2>3, <2>4, <2>5, <2>6
<1> QED
  BY <1>1, <1>2, <1>3, <1>8, <1>9 DEF MultiplexerNext

(* A lease that is in the map after a step was there before or is fresh,   *)
(* for the same registration, and only a renew that read the clock in its  *)
(* lifetime changed it.                                                    *)
LEMMA MapSteps ==
  ASSUME RegistrySound, [MultiplexerNext]_allVars
  PROVE  /\ issued \subseteq issued'
         /\ \A i \in DOMAIN leases' \cap issued :
              /\ i \in DOMAIN leases
              /\ leases'[i].request = leases[i].request
              /\ \/ leases'[i] = leases[i]
                 \/ \E h \in Handler : /\ Leases!Waiting(h, "renew")
                                       /\ op[h].lease_id = i
                                       /\ Leases!IsLive(leases[i], now[h])
<1>typed. DOMAIN leases \subseteq issued
  BY DEF RegistrySound, Leases!TypeOK
<1> USE DEF registryVars
<1>1. CASE UNCHANGED <<leases, issued>>
  BY <1>1
<1>2. CASE UNCHANGED allVars \/ ClockStep
  BY <1>1, <1>2 DEF allVars, ClockStep, Leases!Tick
<1>3. ASSUME NEW h \in Handler, Leases!Create(h)
      PROVE  /\ issued \subseteq issued'
             /\ \A i \in DOMAIN leases' \cap issued :
                  i \in DOMAIN leases /\ leases'[i] = leases[i]
  BY <1>3, CreateMap DEF Task
<1>4. ASSUME NEW h \in Handler, Leases!Renew(h)
      PROVE  /\ issued' = issued
             /\ \A i \in DOMAIN leases' :
                  /\ i \in DOMAIN leases
                  /\ leases'[i].request = leases[i].request
                  /\ \/ leases'[i] = leases[i]
                     \/ /\ Leases!Waiting(h, "renew")
                        /\ op[h].lease_id = i
                        /\ Leases!IsLive(leases[i], now[h])
  <2>1. h \in Task
    BY DEF Task
  <2> QED
    BY <1>4, <2>1, RenewMap
<1>5. ASSUME NEW h \in Handler, Leases!Remove(h)
      PROVE  /\ issued' = issued
             /\ \A i \in DOMAIN leases' :
                  i \in DOMAIN leases /\ leases'[i] = leases[i]
  BY <1>5, RemoveMap DEF Task
<1>6. ASSUME NEW h \in Handler, ControlStep(h)
      PROVE  UNCHANGED <<leases, issued>> \/ Leases!Create(h)
  BY <1>6 DEF ControlStep, Leases!Call, Leases!CallRefused, Leases!Cancel
<1>7. ASSUME NEW q \in Request,
             \/ \E head \in Webhook : Arrive(q, head)
             \/ Matched(q) \/ Drop(q) \/ IngressStep(q)
      PROVE  UNCHANGED <<leases, issued>>
  BY <1>7 DEF Arrive, Matched, Drop, IngressStep, Leases!Call,
              Leases!Matching, Leases!Cancel
<1>8. ASSUME NEW h \in Handler, ControlStep(h) \/ Renewal(h) \/ Unregister(h)
      PROVE  \/ UNCHANGED <<leases, issued>>
             \/ Leases!Create(h) \/ Leases!Renew(h) \/ Leases!Remove(h)
  BY <1>6, <1>8 DEF Renewal, Unregister
<1> QED
  BY <1>1, <1>2, <1>3, <1>4, <1>5, <1>7, <1>8 DEF MultiplexerNext

-----------------------------------------------------------------------------
(* The rest of the invariant.                                              *)

(* A lease that no waiting renew can bring back stays so: a renew that     *)
(* starts now reads an instant at which it is dead already.                *)
LEMMA BeyondStays ==
  ASSUME RegistrySound, [MultiplexerNext]_allVars,
         NEW i \in issued, NEW instant \in Nat, instant <= clock,
         Beyond(i, instant)
  PROVE  Beyond(i, instant)'
<1> SUFFICES ASSUME i \in DOMAIN leases'
             PROVE  /\ ~Leases!IsLive(leases'[i], instant)
                    /\ \A h \in Handler :
                         (op'[h].name = "renew" /\ op'[h].lease_id = i) =>
                           ~Leases!IsLive(leases'[i], now'[h])
  BY DEF Beyond, Leases!Waiting, Leases!IsLive
<1>1. i \in DOMAIN leases
  BY MapSteps
<1>2. /\ ~Leases!IsLive(leases[i], instant)
      /\ \A h \in Handler :
           (Leases!Waiting(h, "renew") /\ op[h].lease_id = i) =>
             ~Leases!IsLive(leases[i], now[h])
  BY <1>1 DEF Beyond
<1>3. leases'[i] = leases[i]
  BY <1>2, MapSteps
<1>4. ~Leases!IsLive(leases[i], clock)
  <2>1. clock \in Nat /\ leases[i].expires_at \in Nat
    BY <1>1 DEF RegistrySound, Leases!TypeOK, Leases!Lease
  <2> QED
    BY <1>2, <2>1 DEF Leases!IsLive
<1>5. ASSUME NEW h \in Handler, op'[h].name = "renew", op'[h].lease_id = i
      PROVE  ~Leases!IsLive(leases[i], now'[h])
  <2>1. CASE op'[h] = op[h] /\ now'[h] = now[h]
    BY <1>2, <1>5, <2>1 DEF Leases!Waiting
  <2>2. CASE now'[h] = clock
    BY <1>4, <2>2
  <2> QED
    BY <1>5, <2>1, <2>2, HandlerCalls
<1> QED
  BY <1>2, <1>3, <1>5

(* What a webhook must not reach stays out of its targets.                 *)
LEMMA GoneStep ==
  ASSUME RegistrySound, TypeOK, WaitsForMatching, GoneStaysGone,
         due \in [Request -> SUBSET LeaseId], [MultiplexerNext]_allVars
  PROVE  GoneStaysGone'
<1>typed. /\ unknown \in [Request -> SUBSET LeaseId]
          /\ targets \in [Request -> SUBSET LeaseId]
          /\ pc \in [Request -> Place]
          /\ issued \subseteq LeaseId
          /\ now \in [Task -> Nat]
          /\ \A t \in Task : now[t] <= clock
          /\ clock \in Nat
  BY DEF GoneStaysGone, TypeOK, RegistrySound, Leases!TypeOK,
         Leases!SnapshotInPast, Task
<1>1. unknown' \in [Request -> SUBSET LeaseId]
  <2>1. UNCHANGED unknown
        \/ \E r \in Request, head \in Webhook : Arrive(r, head)
    BY DEF MultiplexerNext, allVars, ClockStep, ControlStep, Renewal,
           Unregister, Matched, Drop, IngressStep
  <2>2. ASSUME NEW r \in Request, NEW head \in Webhook, Arrive(r, head)
        PROVE  unknown' \in [Request -> SUBSET LeaseId]
    <3> DEFINE gone == issued \ (Leases!LiveIds(leases, clock) \cup Rescued)
    <3>1. gone \in SUBSET LeaseId
      BY <1>typed
    <3>2. unknown' = [unknown EXCEPT ![r] = gone]
      BY <2>2 DEF Arrive
    <3> HIDE DEF gone
    <3> QED
      BY <1>typed, <3>1, <3>2
  <2> QED
    BY <1>typed, <2>1, <2>2
<1>2. ASSUME NEW r \in Request
      PROVE  /\ unknown'[r] \subseteq issued'
             /\ unknown'[r] \cap targets'[r] = {}
             /\ pc'[r] = "matching" =>
                  \A i \in unknown'[r] : Beyond(i, now[r])'
  <2>before. /\ unknown[r] \subseteq issued
             /\ unknown[r] \cap targets[r] = {}
             /\ pc[r] = "matching" => \A i \in unknown[r] : Beyond(i, now[r])
             /\ issued \subseteq issued'
             /\ r \in Task
    BY MapSteps DEF GoneStaysGone, Task
  <2> USE DEF handlerVars, deliveryVars, joinVars
  <2>1. CASE Stays(r)
    <3>1. ASSUME pc[r] = "matching", NEW i \in unknown[r]
          PROVE  Beyond(i, now[r])'
      <4> DEFINE instant == now[r]
      <4>1. /\ instant \in Nat
            /\ instant <= clock
            /\ i \in issued
            /\ Beyond(i, instant)
        BY <3>1, <1>typed, <2>before
      <4>2. now'[r] = instant
        BY <2>1, <3>1 DEF Stays
      <4> HIDE DEF instant
      <4> QED
        BY <4>1, <4>2, BeyondStays DEF Beyond
    <3> QED
      BY <2>1, <2>before, <3>1 DEF Stays
  <2>2. ASSUME NEW head \in Webhook, Arrive(r, head)
        PROVE  /\ unknown'[r] \subseteq issued'
               /\ unknown'[r] \cap targets'[r] = {}
               /\ \A i \in unknown'[r] : Beyond(i, now[r])'
    <3>1. /\ unknown'[r] = issued \ (Leases!LiveIds(leases, clock) \cup Rescued)
          /\ targets' = targets
          /\ pc[r] = "new"
      BY <2>2, <1>typed DEF Arrive, Admit
    <3>2. targets'[r] = {}
      BY <3>1 DEF WaitsForMatching
    <3>3. /\ leases' = leases
          /\ now'[r] = clock
          /\ \A h \in Handler : op'[h] = op[h] /\ now'[h] = now[h]
      <4>1. \A h \in Handler : h # r /\ h \in Task
        BY MultiplexerAssumption DEF Task
      <4>2. [name |-> "matching", head |-> head] \in Leases!Op
        BY DEF Leases!Op
      <4>3. \A h \in Handler : op'[h] = op[h] /\ now'[h] = now[h]
        BY <2>2, <2>before, <4>1, <4>2, OtherTasksStay DEF Arrive
      <4> QED
        BY <2>2, <1>typed, <2>before, <4>3 DEF Arrive, Leases!Call
    <3>4. ASSUME NEW i \in unknown'[r], i \in DOMAIN leases
          PROVE  /\ ~Leases!IsLive(leases[i], clock)
                 /\ \A h \in Handler :
                      (Leases!Waiting(h, "renew") /\ op[h].lease_id = i) =>
                        ~Leases!IsLive(leases[i], now[h])
      BY <3>1, <3>4 DEF Leases!LiveIds, Rescued
    <3> QED
      BY <2>before, <3>1, <3>2, <3>3, <3>4
      DEF Beyond, Leases!IsLive, Leases!Waiting
  <2>3. CASE Matched(r)
    <3>1. PICK ids \in SUBSET LeaseId :
            /\ ids = {i \in Leases!LiveIds(leases, now[r]) :
                        Leases!RouteMatches(leases[i].request, op[r].head)}
            /\ \/ ids = {} /\ MatchNothing(r)
               \/ ids # {} /\ MatchTargets(r, ids)
      BY <2>3, MatchedSteps
    <3>2. pc[r] = "matching" /\ unknown' = unknown
      BY <2>3, <3>1 DEF Matched, MatchNothing, MatchTargets
    <3>3. unknown[r] \cap ids = {}
      BY <2>before, <3>1, <3>2 DEF Beyond, Leases!LiveIds
    <3>4. targets'[r] \in {targets[r], ids} /\ pc'[r] # "matching"
      BY <3>1, <1>typed DEF MatchNothing, MatchTargets, Answer
    <3> QED
      BY <2>before, <3>2, <3>3, <3>4
  <2>4. CASE Drop(r)
    BY <2>4, <2>before, <1>typed DEF Drop, Disconnect
  <2>5. \/ \E head \in Webhook : Arrive(r, head)
        \/ Matched(r) \/ Drop(r) \/ Stays(r)
    BY <1>typed, WebhookSteps
  <2> QED
    BY <2>1, <2>2, <2>3, <2>4, <2>5
<1> QED
  BY <1>1, <1>2 DEF GoneStaysGone

(* A due lease that stays due stays live: no prune evicts it, and a remove,*)
(* an expiry and a renewal into the past end its being due.                *)
LEMMA DueStaysLive ==
  ASSUME RegistrySound, [MultiplexerNext]_allVars,
         due \in [Request -> SUBSET LeaseId],
         NEW r \in Request, pc[r] = "matching", Stays(r),
         NEW i \in due'[r], i \in Leases!LiveIds(leases, clock)
  PROVE  i \in Leases!LiveIds(leases', clock')
<1>typed. /\ leases \in [DOMAIN leases -> Leases!Lease]
          /\ i \in DOMAIN leases \cap issued
  BY DEF RegistrySound, Leases!TypeOK, Leases!LiveIds
<1>due. ASSUME NEW gone, NoLongerDue(gone)
        PROVE  i \notin gone
  BY <1>due DEF NoLongerDue
<1> USE DEF registryVars
<1>1. CASE UNCHANGED <<leases, clock>>
  BY <1>1
<1>2. CASE ClockStep
  BY <1>2, <1>due, <1>typed DEF ClockStep, Leases!Tick, Leases!LiveIds
<1>3. ASSUME NEW h \in Handler, Leases!Create(h)
      PROVE  i \in Leases!LiveIds(leases', clock')
  <2>1. clock' = clock
    BY <1>3 DEF Leases!Create, Leases!CreateFull, Leases!CreateGranted,
                Leases!Return, Leases!Forget
  <2>2. i \in DOMAIN leases' /\ leases'[i] = leases[i]
    BY <1>3, <1>typed, CreateMap DEF Task
  <2> QED
    BY <2>1, <2>2 DEF Leases!LiveIds
<1>4. ASSUME NEW h \in Handler, Renewal(h)
      PROVE  i \in Leases!LiveIds(leases', clock')
  <2>1. Leases!Renew(h) /\ h \in Task
    BY <1>4 DEF Renewal, Task
  <2>2. i \in DOMAIN leases'
        /\ (leases'[i] = leases[i] \/ op[h].lease_id = i)
    BY <2>1, RenewMap
  <2>3. clock' = clock
    <3>1. CASE Leases!RenewMissing(h)
      BY <3>1 DEF Leases!RenewMissing, Leases!Return, Leases!Forget
    <3>2. CASE Leases!RenewFound(h)
      BY <3>2 DEF Leases!RenewFound, Leases!Return, Leases!Forget
    <3> QED
      BY <2>1, <3>1, <3>2 DEF Leases!Renew
  <2>4. ~(i = op[h].lease_id /\ ~Leases!IsLive(leases'[i], clock))
    BY <1>4, <1>due, <2>2 DEF Renewal
  <2> QED
    BY <2>2, <2>3, <2>4 DEF Leases!LiveIds
<1>5. ASSUME NEW h \in Handler, Unregister(h)
      PROVE  i \in Leases!LiveIds(leases', clock')
  <2>1. i # op[h].lease_id /\ Leases!Remove(h) /\ h \in Task
    BY <1>5, <1>due DEF Unregister, Task
  <2>2. i \in DOMAIN leases' /\ leases'[i] = leases[i]
    BY <2>1, <1>typed, RemoveMap
  <2>3. clock' = clock
    BY <2>1 DEF Leases!Remove, Leases!Return, Leases!Forget
  <2> QED
    BY <2>2, <2>3 DEF Leases!LiveIds
<1>6. ASSUME NEW h \in Handler, ControlStep(h)
      PROVE  UNCHANGED <<leases, clock>> \/ Leases!Create(h)
  BY <1>6 DEF ControlStep, Leases!Call, Leases!CallRefused, Leases!Cancel,
              Leases!Forget
<1>7. ASSUME NEW q \in Request,
             \/ \E head \in Webhook : Arrive(q, head)
             \/ Matched(q) \/ Drop(q) \/ IngressStep(q)
      PROVE  UNCHANGED <<leases, clock>>
  BY <1>7 DEF Arrive, Matched, Drop, IngressStep, Leases!Call,
              Leases!Matching, Leases!Cancel, Leases!Return, Leases!Forget
<1>8. CASE UNCHANGED allVars
  BY <1>1, <1>8 DEF allVars
<1> QED
  BY <1>1, <1>2, <1>3, <1>4, <1>5, <1>6, <1>7, <1>8 DEF MultiplexerNext

(* What a webhook must reach becomes one of its targets.                   *)
LEMMA DueStep ==
  ASSUME RegistrySound, TypeOK, WaitsForMatching, DueIsChosen,
         unknown \in [Request -> SUBSET LeaseId], [MultiplexerNext]_allVars
  PROVE  DueIsChosen'
<1>typed. /\ due \in [Request -> SUBSET LeaseId]
          /\ targets \in [Request -> SUBSET LeaseId]
          /\ pc \in [Request -> Place]
          /\ leases \in [DOMAIN leases -> Leases!Lease]
          /\ DOMAIN leases \subseteq issued
          /\ issued \subseteq LeaseId
          /\ op \in [Task -> Leases!Op]
          /\ now \in [Task -> Nat]
          /\ \A t \in Task : now[t] <= clock
          /\ clock \in Nat
  BY DEF DueIsChosen, TypeOK, RegistrySound, Leases!TypeOK,
         Leases!SnapshotInPast, Task
<1>1. due' \in [Request -> SUBSET LeaseId]
  <2>1. \/ UNCHANGED due
        \/ \E gone : NoLongerDue(gone)
        \/ \E r \in Request, head \in Webhook : Arrive(r, head)
    BY DEF MultiplexerNext, allVars, ClockStep, ControlStep, Renewal,
           Unregister, Matched, Drop, IngressStep
  <2>2. ASSUME NEW gone, NoLongerDue(gone)
        PROVE  due' \in [Request -> SUBSET LeaseId]
    BY <1>typed, <2>2 DEF NoLongerDue
  <2>3. ASSUME NEW r \in Request, NEW head \in Webhook, Arrive(r, head)
        PROVE  due' \in [Request -> SUBSET LeaseId]
    BY <1>typed, <2>3 DEF Arrive, Leases!LiveIds
  <2> QED
    BY <1>typed, <2>1, <2>2, <2>3
<1>2. ASSUME NEW r \in Request
      PROVE  /\ pc'[r] = "matching" =>
                  \A i \in due'[r] :
                    /\ i \in Leases!LiveIds(leases', clock')
                    /\ RouteMatches(leases'[i].request, op'[r].head)
             /\ pc'[r] \notin {"matching", "dropped"} => due'[r] \subseteq targets'[r]
  <2>before. /\ pc[r] = "matching" =>
                  \A i \in due[r] :
                    /\ i \in Leases!LiveIds(leases, clock)
                    /\ RouteMatches(leases[i].request, op[r].head)
             /\ pc[r] \notin {"matching", "dropped"} => due[r] \subseteq targets[r]
             /\ r \in Task
    BY DEF DueIsChosen, Task
  <2> USE DEF handlerVars, deliveryVars, joinVars
  <2>1. CASE Stays(r)
    <3>1. ASSUME pc[r] = "matching", NEW i \in due'[r]
          PROVE  /\ i \in Leases!LiveIds(leases', clock')
                 /\ RouteMatches(leases'[i].request, op'[r].head)
      <4>1. i \in due[r] /\ op'[r] = op[r]
        BY <2>1, <3>1 DEF Stays
      <4>2. i \in Leases!LiveIds(leases, clock)
            /\ RouteMatches(leases[i].request, op[r].head)
        BY <2>before, <3>1, <4>1
      <4>3. i \in Leases!LiveIds(leases', clock')
        BY <1>typed, <2>1, <3>1, <4>2, DueStaysLive
      <4>4. i \in DOMAIN leases' \cap issued
        BY <1>typed, <4>2, <4>3 DEF Leases!LiveIds
      <4>5. leases'[i].request = leases[i].request
        BY <4>4, MapSteps
      <4> QED
        BY <4>1, <4>2, <4>3, <4>5
    <3> QED
      BY <2>1, <2>before, <3>1 DEF Stays
  <2>2. ASSUME NEW head \in Webhook, Arrive(r, head)
        PROVE  /\ pc'[r] = "matching"
               /\ \A i \in due'[r] :
                    /\ i \in Leases!LiveIds(leases', clock')
                    /\ RouteMatches(leases'[i].request, op'[r].head)
    <3>1. pc'[r] = "matching"
      BY <2>2, <1>typed DEF Arrive, Admit
    <3>2. op'[r].head = head /\ UNCHANGED <<leases, clock>>
      BY <2>2, <2>before, <1>typed DEF Arrive, Leases!Call
    <3>3. due'[r] = {i \in Leases!LiveIds(leases, clock) :
                       RouteMatches(leases[i].request, head)}
      BY <2>2, <1>typed DEF Arrive
    <3> QED
      BY <3>1, <3>2, <3>3
  <2>3. CASE Matched(r)
    <3>1. PICK ids \in SUBSET LeaseId :
            /\ ids = {i \in Leases!LiveIds(leases, now[r]) :
                        Leases!RouteMatches(leases[i].request, op[r].head)}
            /\ \/ ids = {} /\ MatchNothing(r)
               \/ ids # {} /\ MatchTargets(r, ids)
      BY <2>3, MatchedSteps
    <3>2. pc[r] = "matching" /\ due' = due
      BY <2>3, <3>1 DEF Matched, MatchNothing, MatchTargets
    <3>3. Leases!LiveIds(leases, clock) \subseteq Leases!LiveIds(leases, now[r])
      BY <1>typed, <2>before DEF Leases!LiveIds, Leases!IsLive, Leases!Lease
    <3>4. \A request, head :
            RouteMatches(request, head) <=> Leases!RouteMatches(request, head)
      BY DEF RouteMatches, Leases!RouteMatches, MethodMatches, HostMatches,
             RouteHostMatches, Leases!MethodMatches, Leases!HostMatches,
             Leases!RouteHostMatches
    <3>5. due[r] \subseteq ids
      BY <2>before, <3>1, <3>2, <3>3, <3>4
    <3>6. /\ pc'[r] # "matching"
          /\ ids # {} => targets'[r] = ids
      BY <3>1, <1>typed DEF MatchNothing, MatchTargets, Answer
    <3> QED
      BY <3>2, <3>5, <3>6
  <2>4. CASE Drop(r)
    BY <2>4, <1>typed DEF Drop, Disconnect
  <2>5. \/ \E head \in Webhook : Arrive(r, head)
        \/ Matched(r) \/ Drop(r) \/ Stays(r)
    BY <1>typed, WebhookSteps
  <2> QED
    BY <2>1, <2>2, <2>3, <2>4, <2>5
<1> QED
  BY <1>1, <1>2 DEF DueIsChosen

-----------------------------------------------------------------------------
(* From the admission of a webhook to the choice of its targets, whatever  *)
(* other handlers do to the map behind the lock.                           *)
THEOREM MultiplexerInvariance == MultiplexerSpec => []MultiplexerInvariant
<1>1. MultiplexerInit => MultiplexerInvariant
  <2> SUFFICES ASSUME MultiplexerInit PROVE MultiplexerInvariant
    OBVIOUS
  <2>1. RegistrySound
    BY SoundInit DEF MultiplexerInit
  <2>2. WaitsForMatching /\ GoneStaysGone /\ DueIsChosen
    BY DEF MultiplexerInit, Init, WaitsForMatching, GoneStaysGone, DueIsChosen
  <2> QED
    BY <2>1, <2>2 DEF MultiplexerInvariant
<1>2. TypeOK /\ MultiplexerInvariant /\ [MultiplexerNext]_allVars
        => MultiplexerInvariant'
  <2> SUFFICES ASSUME TypeOK, MultiplexerInvariant, [MultiplexerNext]_allVars
               PROVE  MultiplexerInvariant'
    OBVIOUS
  <2>1. RegistrySound /\ WaitsForMatching /\ GoneStaysGone /\ DueIsChosen
    BY DEF MultiplexerInvariant
  <2>2. RegistrySound'
    BY <2>1, RegistrySteps, SoundStep
  <2>3. WaitsForMatching'
    BY <2>1, WaitsStep
  <2>4. GoneStaysGone' /\ DueIsChosen'
    BY <2>1, GoneStep, DueStep DEF GoneStaysGone, DueIsChosen
  <2> QED
    BY <2>2, <2>3, <2>4 DEF MultiplexerInvariant
<1>3. MultiplexerSpec => []TypeOK
  BY IngressInTheMultiplexer, IngressTypeCorrect, PTL
<1> QED
  BY <1>1, <1>2, <1>3, PTL DEF MultiplexerSpec

(* A lease that was removed, or expired with no renewal on its way, before *)
(* a webhook arrived is never sent it.                                     *)
THEOREM TheGoneReceiveNothing == MultiplexerSpec => []NothingForTheGone
<1>1. IngressInvariant /\ AggregateInvariant /\ MultiplexerInvariant
        => NothingForTheGone
  <2> SUFFICES ASSUME IngressInvariant, AggregateInvariant,
                      MultiplexerInvariant, NEW r \in Request
               PROVE  sent[r] \cap unknown[r] = {}
    BY DEF NothingForTheGone
  <2>1. sent[r] \subseteq LeaseId
    BY DEF IngressInvariant, TypeOK
  <2>2. ASSUME NEW l \in sent[r]
        PROVE  l \in targets[r]
    <3>1. delivery[<<r, l>>] # "none"
      BY <2>1 DEF AggregateInvariant, SentWithPermit
    <3> QED
      BY <2>1, <3>1 DEF IngressInvariant, DeliveriesBelongToDispatch
  <2> QED
    BY <2>2 DEF MultiplexerInvariant, GoneStaysGone
<1> QED
  BY <1>1, MultiplexerInvariance, IngressInTheMultiplexer, IngressInvariance,
     AggregateInvariance, PTL

(* An answer that claims every target left out none that was registered    *)
(* from the arrival of the webhook to the choice of its targets.           *)
THEOREM AllReachesEveryRegistered ==
  MultiplexerSpec => []AllMeansEveryRegistered
<1>1. HonestAggregate /\ MultiplexerInvariant => AllMeansEveryRegistered
  <2> SUFFICES ASSUME HonestAggregate, MultiplexerInvariant,
                      NEW r \in Request, ClaimsEveryTarget(r), NEW l \in due[r]
               PROVE  delivery[<<r, l>>] = "accepted"
    BY DEF AllMeansEveryRegistered
  <2>1. pc[r] = "answered" /\ l \in targets[r]
    BY DEF ClaimsEveryTarget, MultiplexerInvariant, DueIsChosen
  <2>2. CASE response[r].reason = "no-targets"
    BY <2>1, <2>2 DEF MultiplexerInvariant, WaitsForMatching
  <2>3. CASE Aggregated(r) /\ config.response_policy = "all"
             /\ response[r].status = 200
    <3>1. PolicySatisfied(r)
      BY <2>3 DEF HonestAggregate
    <3>2. Ended(r, {"accepted"}) = targets[r]
      BY <2>3, <3>1 DEF PolicySatisfied
    <3> QED
      BY <2>1, <3>2 DEF Ended
  <2> QED
    BY <2>2, <2>3 DEF ClaimsEveryTarget
<1> QED
  BY <1>1, MultiplexerInvariance, IngressInTheMultiplexer, AggregatesAreHonest, PTL
=============================================================================
