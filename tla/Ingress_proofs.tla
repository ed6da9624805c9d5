--------------------------- MODULE Ingress_proofs ---------------------------
(***************************************************************************)
(* Proofs about Ingress for any set of webhooks, any number of leases and  *)
(* any size of the two semaphores.                                         *)
(***************************************************************************)
EXTENDS Ingress, FiniteSetTheorems, TLAPS

-----------------------------------------------------------------------------
(* Counting the holders of a semaphore with `size` permits.                *)

Balanced(permits, holders, size) ==
  /\ permits \in Nat
  /\ IsFiniteSet(holders)
  /\ permits + Cardinality(holders) = size

LEMMA AcquireBalances ==
  ASSUME NEW permits, NEW holders, NEW size \in Nat, NEW x,
         Balanced(permits, holders, size), permits > 0, x \notin holders
  PROVE  Balanced(permits - 1, holders \cup {x}, size)
<1>1. /\ IsFiniteSet(holders \cup {x})
      /\ Cardinality(holders \cup {x}) = Cardinality(holders) + 1
  BY FS_AddElement DEF Balanced
<1>2. Cardinality(holders) \in Nat
  BY FS_CardinalityType DEF Balanced
<1> QED
  BY <1>1, <1>2 DEF Balanced

LEMMA ReleaseBalances ==
  ASSUME NEW permits, NEW holders, NEW size \in Nat, NEW x,
         Balanced(permits, holders, size), x \in holders
  PROVE  Balanced(permits + 1, holders \ {x}, size)
<1>1. /\ IsFiniteSet(holders \ {x})
      /\ Cardinality(holders \ {x}) = Cardinality(holders) - 1
  BY FS_RemoveElement DEF Balanced
<1>2. Cardinality(holders) \in Nat
  BY FS_CardinalityType DEF Balanced
<1> QED
  BY <1>1, <1>2 DEF Balanced

LEMMA BalancedBounds ==
  ASSUME NEW permits, NEW holders, NEW size \in Nat,
         Balanced(permits, holders, size)
  PROVE  permits \in 0 .. size
BY FS_CardinalityType DEF Balanced

-----------------------------------------------------------------------------
(* Which holders a step adds or takes away.                                *)

LEMMA InflightSteps ==
  ASSUME TypeOK, [Next]_vars
  PROVE  \/ /\ inflight_requests' = inflight_requests
            /\ InflightHolders' = InflightHolders
         \/ \E r \in Request :
              /\ r \notin InflightHolders
              /\ inflight_requests > 0
              /\ inflight_requests' = inflight_requests - 1
              /\ InflightHolders' = InflightHolders \cup {r}
         \/ \E r \in InflightHolders :
              /\ inflight_requests' = inflight_requests + 1
              /\ InflightHolders' = InflightHolders \ {r}
<1> DEFINE Same == /\ inflight_requests' = inflight_requests
                   /\ InflightHolders' = InflightHolders
           Released(r) == /\ r \in InflightHolders
                          /\ inflight_requests' = inflight_requests + 1
                          /\ InflightHolders' = InflightHolders \ {r}
<1> USE DEF InflightHolders, InHandler
<1>1. CASE UNCHANGED vars
  BY <1>1 DEF vars, handlerVars
<1>2. ASSUME NEW r \in Request, RefuseCapacity(r)
      PROVE  Same
  BY <1>2 DEF RefuseCapacity, Answer, TypeOK
<1>3. ASSUME NEW r \in Request, Admit(r)
      PROVE  /\ r \notin InflightHolders
             /\ inflight_requests > 0
             /\ inflight_requests' = inflight_requests - 1
             /\ InflightHolders' = InflightHolders \cup {r}
  BY <1>3 DEF Admit, TypeOK
<1>4. ASSUME NEW r \in Request,
             \/ MatchNothing(r)
             \/ \E error \in BodyError : RejectBody(r, error)
             \/ Respond(r)
             \/ Disconnect(r)
      PROVE  Released(r)
  BY <1>4 DEF MatchNothing, RejectBody, Respond, Disconnect, Answer,
              ReleaseInflight, TypeOK
<1>5. ASSUME NEW r \in Request,
             \/ \E matching \in SUBSET LeaseId : MatchTargets(r, matching)
             \/ Spawn(r)
      PROVE  Same
  BY <1>5 DEF MatchTargets, Spawn, TypeOK
<1>6. ASSUME NEW r \in Request, NEW l \in LeaseId,
             \/ AcquirePermit(r, l)
             \/ \E reply \in Reply : Finish(r, l, reply)
             \/ Timeout(r, l)
             \/ Join(r, l)
             \/ Abort(r, l)
      PROVE  Same
  BY <1>6 DEF AcquirePermit, Finish, Timeout, Join, Abort, EndDelivery,
              handlerVars
<1> QED
  BY <1>1, <1>2, <1>3, <1>4, <1>5, <1>6 DEF Next

LEMMA DeliverySteps ==
  ASSUME TypeOK, DeliveriesBelongToDispatch, [Next]_vars
  PROVE  \/ /\ concurrent_deliveries' = concurrent_deliveries
            /\ PermitHolders' = PermitHolders
         \/ \E d \in Delivery :
              /\ d \notin PermitHolders
              /\ concurrent_deliveries > 0
              /\ concurrent_deliveries' = concurrent_deliveries - 1
              /\ PermitHolders' = PermitHolders \cup {d}
         \/ \E d \in PermitHolders :
              /\ concurrent_deliveries' = concurrent_deliveries + 1
              /\ PermitHolders' = PermitHolders \ {d}
<1> DEFINE Same == /\ concurrent_deliveries' = concurrent_deliveries
                   /\ PermitHolders' = PermitHolders
<1> USE DEF PermitHolders, Delivery
<1>1. CASE UNCHANGED vars
  BY <1>1 DEF vars, deliveryVars
<1>2. ASSUME NEW r \in Request,
             \/ RefuseCapacity(r)
             \/ Admit(r)
             \/ MatchNothing(r)
             \/ \E matching \in SUBSET LeaseId : MatchTargets(r, matching)
             \/ \E error \in BodyError : RejectBody(r, error)
             \/ Respond(r)
             \/ Disconnect(r)
             \/ \E l \in LeaseId : Join(r, l)
      PROVE  Same
  BY <1>2 DEF RefuseCapacity, Admit, MatchNothing, MatchTargets, RejectBody,
              Respond, Disconnect, Join, deliveryVars
<1>3. ASSUME NEW r \in Request, Spawn(r)
      PROVE  Same
  <2>1. \A l \in LeaseId : delivery[<<r, l>>] = "none"
    BY <1>3 DEF Spawn, DeliveriesBelongToDispatch, Aggregated
  <2>2. ASSUME NEW d \in Delivery
        PROVE  delivery'[d] = "sending" <=> delivery[d] = "sending"
    <3>1. d[1] = r => delivery[d] = "none"
      BY <2>1
    <3>2. delivery'[d] \in {"queued", delivery[d]}
      BY <1>3 DEF Spawn
    <3>3. d[1] # r => delivery'[d] = delivery[d]
      BY <1>3 DEF Spawn
    <3> QED
      BY <3>1, <3>2, <3>3
  <2>3. PermitHolders' = PermitHolders
    BY <2>2
  <2> QED
    BY <1>3, <2>3 DEF Spawn
<1>4. ASSUME NEW r \in Request, NEW l \in LeaseId, AcquirePermit(r, l)
      PROVE  /\ <<r, l>> \notin PermitHolders
             /\ concurrent_deliveries > 0
             /\ concurrent_deliveries' = concurrent_deliveries - 1
             /\ PermitHolders' = PermitHolders \cup {<<r, l>>}
  BY <1>4 DEF AcquirePermit, TypeOK
<1>5. ASSUME NEW r \in Request, NEW l \in LeaseId, NEW state,
             state # "sending", EndDelivery(r, l, state)
      PROVE  \/ Same
             \/ /\ <<r, l>> \in PermitHolders
                /\ concurrent_deliveries' = concurrent_deliveries + 1
                /\ PermitHolders' = PermitHolders \ {<<r, l>>}
  BY <1>5 DEF EndDelivery, TypeOK
<1>6. ASSUME NEW r \in Request, NEW l \in LeaseId,
             \/ \E reply \in Reply : Finish(r, l, reply)
             \/ Timeout(r, l)
             \/ Abort(r, l)
      PROVE  \E state : state # "sending" /\ EndDelivery(r, l, state)
  BY <1>6 DEF Finish, Timeout, Abort, Reply
<1>7. ASSUME NEW r \in Request, NEW l \in LeaseId
      PROVE  <<r, l>> \in Delivery
  OBVIOUS
<1> HIDE DEF PermitHolders, Delivery
<1> QED
  BY <1>1, <1>2, <1>3, <1>4, <1>5, <1>6, <1>7 DEF Next

-----------------------------------------------------------------------------
(* The invariant of Ingress.tla, split into the accounting and the rest.   *)

OrderOK ==
  /\ config \in Config
  /\ pc \in [Request -> Place]
  /\ targets \in [Request -> SUBSET LeaseId]
  /\ delivery \in [Delivery -> DeliveryState]
  /\ sent \in [Request -> SUBSET LeaseId]
  /\ joined \in [Request -> SUBSET LeaseId]
  /\ summary \in [Request -> [succeeded: Nat, timed_out: BOOLEAN]]
  /\ response \in [Request -> Response \cup {NoResponse}]
  /\ DeliveriesBelongToDispatch
  /\ JoinedHaveEnded
  /\ SentByDispatch
  /\ NothingRunsAfterAnswer

LEMMA InvariantSplits ==
  IngressInvariant <=>
    /\ OrderOK
    /\ inflight_requests \in 0 .. MaxInflight
    /\ concurrent_deliveries \in 0 .. MaxDeliveries
    /\ Balanced(inflight_requests, InflightHolders, MaxInflight)
    /\ Balanced(concurrent_deliveries, PermitHolders, MaxDeliveries)
BY IngressAssumption
DEF IngressInvariant, TypeOK, OrderOK, Balanced, InflightAccounting,
    DeliveryAccounting

LEMMA ShortCircuitTyped ==
  ASSUME NEW status \in Status, NEW matched \in Nat,
         NEW reason \in Reason \ {"none"}
  PROVE  /\ ShortCircuit(status, matched, reason) \in Response
         /\ ShortCircuit(status, matched, reason).reason # "none"
BY DEF ShortCircuit, Response

LEMMA AggregateTyped ==
  ASSUME OrderOK, NEW r \in Request
  PROVE  Aggregate(r) \in Response /\ Aggregate(r).reason = "none"
<1>1. Cardinality(targets[r]) \in Nat
  BY IngressAssumption, FS_Subset, FS_CardinalityType DEF OrderOK
<1>2. summary[r].succeeded \in Nat
  BY DEF OrderOK
<1>3. \A a, b, c : AggregateStatus(a, b, c) \in Status
  BY DEF AggregateStatus, Status
<1> QED
  BY <1>1, <1>2, <1>3 DEF Aggregate, Response, Reason

LEMMA OrderStep == OrderOK /\ [Next]_vars => OrderOK'
<1> SUFFICES ASSUME OrderOK, [Next]_vars
             PROVE  OrderOK'
  OBVIOUS
<1> USE DEF OrderOK, DeliveriesBelongToDispatch, JoinedHaveEnded,
            SentByDispatch, NothingRunsAfterAnswer, Aggregated, Place,
            InHandler, DeliveryState, Outcome, Reply, Running, Delivery,
            handlerVars, deliveryVars, joinVars
<1>1. ASSUME NEW r \in Request, NEW value \in Response, Answer(r, value),
             pc[r] \in {"new", "matching", "reading"}, value.reason # "none",
             UNCHANGED <<config, targets, deliveryVars, joinVars>>
      PROVE  OrderOK'
  BY <1>1 DEF Answer
<1>2. ASSUME NEW r \in Request, RefuseCapacity(r)
      PROVE  OrderOK'
  <2>1. /\ ShortCircuit(503, 0, "ingress-capacity") \in Response
        /\ ShortCircuit(503, 0, "ingress-capacity").reason # "none"
    BY ShortCircuitTyped DEF Status, Reason
  <2> QED
    BY <1>1, <1>2, <2>1 DEF RefuseCapacity
<1>3. ASSUME NEW r \in Request, Admit(r)
      PROVE  OrderOK'
  BY <1>3 DEF Admit
<1>4. ASSUME NEW r \in Request, MatchNothing(r)
      PROVE  OrderOK'
  <2> DEFINE value == ShortCircuit(IF config.accept_when_empty THEN 200 ELSE 503,
                                   0, "no-targets")
  <2>1. value \in Response /\ value.reason # "none"
    BY ShortCircuitTyped DEF Status, Reason
  <2>2. /\ Answer(r, value)
        /\ pc[r] = "matching"
        /\ UNCHANGED <<config, targets, deliveryVars, joinVars>>
    BY <1>4 DEF MatchNothing
  <2> HIDE DEF value
  <2> QED
    BY <1>1, <2>1, <2>2
<1>5. ASSUME NEW r \in Request,
             NEW matching \in SUBSET LeaseId, MatchTargets(r, matching)
      PROVE  OrderOK'
  BY <1>5 DEF MatchTargets
<1>6. ASSUME NEW r \in Request, NEW error \in BodyError, RejectBody(r, error)
      PROVE  OrderOK'
  <2> DEFINE value == ShortCircuit(error[1], Cardinality(targets[r]), error[2])
  <2>1. Cardinality(targets[r]) \in Nat
    BY IngressAssumption, FS_Subset, FS_CardinalityType
  <2>2. error[1] \in Status /\ error[2] \in Reason \ {"none"}
    BY DEF BodyError, Status, Reason
  <2>3. value \in Response /\ value.reason # "none"
    BY <2>1, <2>2, ShortCircuitTyped
  <2>4. /\ Answer(r, value)
        /\ pc[r] = "reading"
        /\ UNCHANGED <<config, targets, deliveryVars, joinVars>>
    BY <1>6 DEF RejectBody
  <2> HIDE DEF value
  <2> QED
    BY <1>1, <2>3, <2>4
<1>7. ASSUME NEW r \in Request, Spawn(r)
      PROVE  OrderOK'
  BY <1>7 DEF Spawn
<1>8. ASSUME NEW r \in Request, Respond(r)
      PROVE  OrderOK'
  <2> DEFINE value == Aggregate(r)
  <2>1. value \in Response /\ value.reason = "none"
    BY AggregateTyped
  <2>2. /\ pc[r] = "joining"
        /\ joined[r] = targets[r]
        /\ Answer(r, value)
        /\ UNCHANGED <<config, targets, deliveryVars, joinVars>>
    BY <1>8 DEF Respond
  <2> HIDE DEF value
  <2>3. \A l \in LeaseId : delivery[<<r, l>>] \notin Running
    BY <2>2
  <2> QED
    BY <2>1, <2>2, <2>3 DEF Answer
<1>9. ASSUME NEW r \in Request, Disconnect(r)
      PROVE  OrderOK'
  BY <1>9 DEF Disconnect
<1>10. ASSUME NEW r \in Request, NEW l \in LeaseId, AcquirePermit(r, l)
       PROVE  OrderOK'
  <2>1. /\ delivery' = [delivery EXCEPT ![<<r, l>>] = "sending"]
        /\ delivery[<<r, l>>] = "queued"
        /\ sent' = [sent EXCEPT ![r] = @ \cup {l}]
        /\ UNCHANGED <<config, handlerVars, joinVars>>
    BY <1>10 DEF AcquirePermit
  <2>2. l \in targets[r] /\ (pc[r] \in {"joining", "dropped"} \/ Aggregated(r))
    BY <2>1
  <2>3. DeliveriesBelongToDispatch' /\ NothingRunsAfterAnswer'
    BY <2>1, <2>2
  <2>4. JoinedHaveEnded'
    BY <2>1
  <2>5. SentByDispatch'
    BY <2>1, <2>2
  <2> QED
    BY <2>1, <2>3, <2>4, <2>5
<1>11. ASSUME NEW r \in Request, NEW l \in LeaseId,
              NEW state \in Outcome \cup {"aborted"},
              delivery[<<r, l>>] \in Running, EndDelivery(r, l, state)
       PROVE  OrderOK'
  BY <1>11 DEF EndDelivery
<1>12. ASSUME NEW r \in Request, NEW l \in LeaseId,
              \/ \E reply \in Reply : Finish(r, l, reply)
              \/ Timeout(r, l)
              \/ Abort(r, l)
       PROVE  OrderOK'
  <2>1. PICK state \in Outcome \cup {"aborted"} :
          delivery[<<r, l>>] \in Running /\ EndDelivery(r, l, state)
    BY <1>12 DEF Finish, Timeout, Abort
  <2> QED
    BY <1>11, <2>1
<1>13. ASSUME NEW r \in Request, NEW l \in LeaseId, Join(r, l)
       PROVE  OrderOK'
  <2>1. summary' \in [Request -> [succeeded: Nat, timed_out: BOOLEAN]]
    <3>1. summary[r].succeeded \in Nat
      OBVIOUS
    <3>2. summary[r].succeeded
            + (IF delivery[<<r, l>>] = "accepted" THEN 1 ELSE 0) \in Nat
      BY <3>1
    <3>3. (summary[r].timed_out \/ delivery[<<r, l>>] = "timeout") \in BOOLEAN
      BY Zenon
    <3>4. Count(summary[r], delivery[<<r, l>>])
            \in [succeeded: Nat, timed_out: BOOLEAN]
      BY <3>2, <3>3, Zenon DEF Count
    <3>5. summary' = [summary EXCEPT ![r] = Count(summary[r], delivery[<<r, l>>])]
      BY <1>13 DEF Join
    <3> QED
      BY <3>4, <3>5
  <2>2. joined' \in [Request -> SUBSET LeaseId] /\ JoinedHaveEnded'
    BY <1>13 DEF Join
  <2> QED
    BY <1>13, <2>1, <2>2 DEF Join
<1>14. CASE UNCHANGED vars
  BY <1>14 DEF vars
<1> QED
  BY <1>2, <1>3, <1>4, <1>5, <1>6, <1>7, <1>8, <1>9, <1>10, <1>12, <1>13,
     <1>14
  DEF Next

LEMMA InvariantInit == Init => IngressInvariant
<1> SUFFICES ASSUME Init PROVE IngressInvariant
  OBVIOUS
<1>1. InflightHolders = {} /\ PermitHolders = {}
  BY DEF Init, InflightHolders, PermitHolders, InHandler
<1>2. /\ Balanced(inflight_requests, InflightHolders, MaxInflight)
      /\ Balanced(concurrent_deliveries, PermitHolders, MaxDeliveries)
  BY <1>1, FS_EmptySet, IngressAssumption DEF Init, Balanced
<1>3. OrderOK
  BY DEF Init, OrderOK, DeliveriesBelongToDispatch, JoinedHaveEnded,
         SentByDispatch, NothingRunsAfterAnswer, Delivery, DeliveryState, Place
<1> QED
  BY <1>2, <1>3, InvariantSplits, IngressAssumption DEF Init

LEMMA InvariantStep == IngressInvariant /\ [Next]_vars => IngressInvariant'
<1> SUFFICES ASSUME IngressInvariant, [Next]_vars
             PROVE  IngressInvariant'
  OBVIOUS
<1>size. MaxInflight \in Nat /\ MaxDeliveries \in Nat
  BY IngressAssumption
<1>now. /\ TypeOK
        /\ DeliveriesBelongToDispatch
        /\ OrderOK
        /\ Balanced(inflight_requests, InflightHolders, MaxInflight)
        /\ Balanced(concurrent_deliveries, PermitHolders, MaxDeliveries)
  BY InvariantSplits DEF IngressInvariant
<1>1. OrderOK'
  BY <1>now, OrderStep
<1>2. Balanced(inflight_requests', InflightHolders', MaxInflight)
  BY <1>now, <1>size, InflightSteps, AcquireBalances, ReleaseBalances
<1>3. Balanced(concurrent_deliveries', PermitHolders', MaxDeliveries)
  BY <1>now, <1>size, DeliverySteps, AcquireBalances, ReleaseBalances
<1>4. /\ inflight_requests' \in 0 .. MaxInflight
      /\ concurrent_deliveries' \in 0 .. MaxDeliveries
  BY <1>2, <1>3, <1>size, BalancedBounds
<1> QED
  BY <1>1, <1>2, <1>3, <1>4
  DEF IngressInvariant, TypeOK, OrderOK, Balanced, InflightAccounting,
      DeliveryAccounting

-----------------------------------------------------------------------------
(* The invariant holds of every reachable state of the ingress server.     *)
THEOREM IngressInvariance == Spec => []IngressInvariant
BY InvariantInit, InvariantStep, PTL DEF Spec

(* Every variable of the ingress keeps its type.                           *)
THEOREM IngressTypeCorrect == Spec => []TypeOK
<1>1. IngressInvariant => TypeOK
  BY DEF IngressInvariant
<1> QED
  BY <1>1, IngressInvariance, PTL

(* max_inflight_requests permits are never lost or returned twice.         *)
THEOREM InflightPermitsBalance == Spec => []InflightAccounting
<1>1. IngressInvariant => InflightAccounting
  BY DEF IngressInvariant
<1> QED
  BY <1>1, IngressInvariance, PTL

(* max_concurrent_deliveries permits are never lost or returned twice,     *)
(* across replies, timeouts, disconnects and aborts.                       *)
THEOREM DeliveryPermitsBalance == Spec => []DeliveryAccounting
<1>1. IngressInvariant => DeliveryAccounting
  BY DEF IngressInvariant
<1> QED
  BY <1>1, IngressInvariance, PTL

(* No delivery of an answered webhook is running.                          *)
THEOREM AnswersAreFinal == Spec => []NothingRunsAfterAnswer
<1>1. IngressInvariant => NothingRunsAfterAnswer
  BY DEF IngressInvariant
<1> QED
  BY <1>1, IngressInvariance, PTL

(* A webhook that was short-circuited was sent to no target.               *)
THEOREM ShortCircuitsSendNothing == Spec => []ShortCircuitSendsNothing
<1>1. IngressInvariant => ShortCircuitSendsNothing
  BY DEF IngressInvariant, SentByDispatch, ShortCircuitSendsNothing
<1> QED
  BY <1>1, IngressInvariance, PTL

-----------------------------------------------------------------------------
(* The truth of the aggregate.                                             *)

(* A delivery that has ended stays as it is.                               *)
LEMMA DeliveriesSettle ==
  ASSUME OrderOK, [Next]_vars, NEW r \in Request, NEW l \in LeaseId,
         delivery[<<r, l>>] \in Outcome \cup {"aborted"}
  PROVE  delivery'[<<r, l>>] = delivery[<<r, l>>]
<1> USE DEF OrderOK, Outcome, Reply, Running, Delivery, DeliveriesBelongToDispatch,
            Aggregated
<1>1. CASE UNCHANGED vars
  BY <1>1 DEF vars, deliveryVars
<1>2. ASSUME NEW q \in Request,
             \/ RefuseCapacity(q)
             \/ Admit(q)
             \/ MatchNothing(q)
             \/ \E matching \in SUBSET LeaseId : MatchTargets(q, matching)
             \/ \E error \in BodyError : RejectBody(q, error)
             \/ Respond(q)
             \/ Disconnect(q)
             \/ \E k \in LeaseId : Join(q, k)
      PROVE  UNCHANGED delivery
  BY <1>2 DEF RefuseCapacity, Admit, MatchNothing, MatchTargets, RejectBody,
              Respond, Disconnect, Join, deliveryVars
<1>3. ASSUME NEW q \in Request, Spawn(q)
      PROVE  delivery'[<<r, l>>] = delivery[<<r, l>>]
  <2>1. delivery[<<q, l>>] = "none"
    BY <1>3 DEF Spawn
  <2>2. r # q
    BY <2>1
  <2> QED
    BY <1>3, <2>2 DEF Spawn
<1>4. ASSUME NEW q \in Request, NEW k \in LeaseId,
             \/ AcquirePermit(q, k)
             \/ \E reply \in Reply : Finish(q, k, reply)
             \/ Timeout(q, k)
             \/ Abort(q, k)
      PROVE  delivery'[<<r, l>>] = delivery[<<r, l>>]
  <2>1. /\ delivery[<<q, k>>] \in Running
        /\ \E state \in {"sending", "timeout", "aborted"} \cup Reply :
             delivery' = [delivery EXCEPT ![<<q, k>>] = state]
    BY <1>4 DEF AcquirePermit, Finish, Timeout, Abort, EndDelivery
  <2>2. <<q, k>> # <<r, l>>
    BY <2>1
  <2> QED
    BY <2>1, <2>2
<1> QED
  BY <1>1, <1>2, <1>3, <1>4 DEF Next

LEMMA CountTimedOut ==
  ASSUME NEW counted, NEW outcome, NEW after, after = Count(counted, outcome)
  PROVE  after.timed_out <=> counted.timed_out \/ outcome = "timeout"
<1>1. after.timed_out = (counted.timed_out \/ outcome = "timeout")
  BY DEF Count
<1> QED
  BY <1>1, Zenon

(* The locals of dispatch_all go on counting what was joined.              *)
LEMMA SummarySteps ==
  ASSUME OrderOK, SummaryCountsJoined, [Next]_vars
  PROVE  SummaryCountsJoined'
<1> DEFINE Accepted(r) == {l \in joined[r] : delivery[<<r, l>>] = "accepted"}
           TimedOut(r) == \E l \in joined[r] : delivery[<<r, l>>] = "timeout"
<1> SUFFICES ASSUME NEW r \in Request
             PROVE  /\ summary'[r].succeeded = Cardinality(Accepted(r)')
                    /\ summary'[r].timed_out <=> TimedOut(r)'
  BY DEF SummaryCountsJoined
<1>joined. joined[r] \subseteq LeaseId
  BY DEF OrderOK
<1>now. /\ summary[r].succeeded = Cardinality(Accepted(r))
        /\ summary[r].timed_out <=> TimedOut(r)
        /\ summary[r].timed_out \in BOOLEAN
  BY DEF SummaryCountsJoined, OrderOK
<1>settled. \A l \in joined[r] : delivery'[<<r, l>>] = delivery[<<r, l>>]
  BY DeliveriesSettle DEF OrderOK, JoinedHaveEnded
<1>1. ASSUME joined'[r] = joined[r], summary'[r] = summary[r]
      PROVE  /\ summary'[r].succeeded = Cardinality(Accepted(r)')
             /\ summary'[r].timed_out <=> TimedOut(r)'
  <2>1. Accepted(r)' = Accepted(r) /\ (TimedOut(r)' <=> TimedOut(r))
    BY <1>1, <1>settled
  <2> QED
    BY <1>1, <1>now, <2>1
<1>2. ASSUME NEW l \in LeaseId, Join(r, l)
      PROVE  /\ summary'[r].succeeded = Cardinality(Accepted(r)')
             /\ summary'[r].timed_out <=> TimedOut(r)'
  <2>1. /\ joined'[r] = joined[r] \cup {l}
        /\ l \notin joined[r]
        /\ delivery' = delivery
        /\ summary'[r] = Count(summary[r], delivery[<<r, l>>])
    BY <1>2 DEF Join, OrderOK, deliveryVars
  <2>2. IsFiniteSet(Accepted(r)) /\ Cardinality(Accepted(r)) \in Nat
    BY <1>joined, IngressAssumption, FS_Subset, FS_CardinalityType
  <2>t. summary'[r].timed_out <=>
          summary[r].timed_out \/ delivery[<<r, l>>] = "timeout"
    BY <2>1, CountTimedOut
  <2>3. CASE delivery[<<r, l>>] = "accepted"
    <3>1. Accepted(r)' = Accepted(r) \cup {l} /\ l \notin Accepted(r)
      BY <2>1, <2>3
    <3>2. TimedOut(r)' <=> TimedOut(r)
      BY <2>1, <2>3
    <3>3. Cardinality(Accepted(r)') = Cardinality(Accepted(r)) + 1
      BY <2>2, <3>1, FS_AddElement
    <3>4. summary'[r].succeeded = summary[r].succeeded + 1
      BY <2>1, <2>3 DEF Count
    <3> QED
      BY <1>now, <2>3, <2>t, <3>2, <3>3, <3>4
  <2>4. CASE delivery[<<r, l>>] # "accepted"
    <3>1. Accepted(r)' = Accepted(r)
      BY <2>1, <2>4
    <3>2. TimedOut(r)' <=> TimedOut(r) \/ delivery[<<r, l>>] = "timeout"
      BY <2>1
    <3>3. summary'[r].succeeded = summary[r].succeeded
      BY <1>now, <2>1, <2>2, <2>4 DEF Count
    <3> QED
      BY <1>now, <2>t, <3>1, <3>2, <3>3
  <2> QED
    BY <2>3, <2>4
<1>3. \/ joined'[r] = joined[r] /\ summary'[r] = summary[r]
      \/ \E l \in LeaseId : Join(r, l)
  <2>1. ASSUME UNCHANGED joinVars
        PROVE  joined'[r] = joined[r] /\ summary'[r] = summary[r]
    BY <2>1 DEF joinVars
  <2>2. ASSUME NEW q \in Request, NEW l \in LeaseId, Join(q, l), q # r
        PROVE  joined'[r] = joined[r] /\ summary'[r] = summary[r]
    BY <2>2 DEF Join, OrderOK
  <2>3. \/ UNCHANGED joinVars
        \/ \E q \in Request, l \in LeaseId : Join(q, l)
    BY DEF Next, vars, RefuseCapacity, Admit, MatchNothing, MatchTargets,
           RejectBody, Spawn, Respond, Disconnect, AcquirePermit, Finish,
           Timeout, Abort, EndDelivery
  <2> QED
    BY <2>1, <2>2, <2>3
<1> QED
  BY <1>1, <1>2, <1>3

(* An answered webhook keeps its targets, its counts and its answer.       *)
LEMMA AnsweredStay ==
  ASSUME OrderOK, [Next]_vars, NEW r \in Request, pc[r] = "answered"
  PROVE  /\ config' = config
         /\ pc'[r] = pc[r]
         /\ targets'[r] = targets[r]
         /\ joined'[r] = joined[r]
         /\ summary'[r] = summary[r]
         /\ response'[r] = response[r]
<1> USE DEF OrderOK, handlerVars, joinVars, deliveryVars, InHandler
<1>1. CASE UNCHANGED vars
  BY <1>1 DEF vars
<1>2. ASSUME NEW q \in Request, RefuseCapacity(q) \/ Admit(q) \/ MatchNothing(q)
      PROVE  /\ q # r
             /\ UNCHANGED <<config, targets, joined, summary>>
             /\ pc'[r] = pc[r] /\ response'[r] = response[r]
  BY <1>2 DEF RefuseCapacity, Admit, MatchNothing, Answer
<1>3. ASSUME NEW q \in Request, NEW matching \in SUBSET LeaseId,
             MatchTargets(q, matching)
      PROVE  /\ UNCHANGED <<config, joined, summary, response>>
             /\ pc'[r] = pc[r] /\ targets'[r] = targets[r]
  BY <1>3 DEF MatchTargets
<1>4. ASSUME NEW q \in Request, NEW error \in BodyError, RejectBody(q, error)
      PROVE  /\ UNCHANGED <<config, targets, joined, summary>>
             /\ pc'[r] = pc[r] /\ response'[r] = response[r]
  BY <1>4 DEF RejectBody, Answer
<1>5. ASSUME NEW q \in Request, Spawn(q) \/ Respond(q) \/ Disconnect(q)
      PROVE  /\ UNCHANGED <<config, targets, joined, summary>>
             /\ pc'[r] = pc[r] /\ response'[r] = response[r]
  BY <1>5 DEF Spawn, Respond, Disconnect, Answer
<1>6. ASSUME NEW q \in Request, NEW l \in LeaseId, Join(q, l)
      PROVE  /\ UNCHANGED <<config, targets, pc, response>>
             /\ joined'[r] = joined[r] /\ summary'[r] = summary[r]
  BY <1>6 DEF Join
<1>7. ASSUME NEW q \in Request, NEW l \in LeaseId,
             \/ AcquirePermit(q, l)
             \/ \E reply \in Reply : Finish(q, l, reply)
             \/ Timeout(q, l)
             \/ Abort(q, l)
      PROVE  UNCHANGED <<config, targets, pc, response, joined, summary>>
  BY <1>7 DEF AcquirePermit, Finish, Timeout, Abort, EndDelivery
<1> QED
  BY <1>1, <1>2, <1>3, <1>4, <1>5, <1>6, <1>7 DEF Next

(* An aggregate answer comes from Respond.                                 *)
LEMMA AggregatedByRespond ==
  ASSUME OrderOK, [Next]_vars, NEW r \in Request, pc[r] # "answered",
         Aggregated(r)'
  PROVE  Respond(r)
<1> USE DEF OrderOK, handlerVars, joinVars, deliveryVars, Aggregated
<1>1. ASSUME NEW q \in Request, NEW value, Answer(q, value),
             value.reason # "none"
      PROVE  FALSE
  BY <1>1 DEF Answer
<1>2. ASSUME NEW q \in Request, RefuseCapacity(q) \/ MatchNothing(q)
      PROVE  FALSE
  BY <1>1, <1>2 DEF RefuseCapacity, MatchNothing, ShortCircuit
<1>3. ASSUME NEW q \in Request, NEW error \in BodyError, RejectBody(q, error)
      PROVE  FALSE
  BY <1>1, <1>3 DEF RejectBody, ShortCircuit, BodyError
<1>4. ASSUME NEW q \in Request,
             \/ Admit(q)
             \/ \E matching \in SUBSET LeaseId : MatchTargets(q, matching)
             \/ Spawn(q)
             \/ Disconnect(q)
      PROVE  FALSE
  BY <1>4 DEF Admit, MatchTargets, Spawn, Disconnect
<1>5. ASSUME NEW q \in Request, NEW l \in LeaseId,
             \/ AcquirePermit(q, l)
             \/ \E reply \in Reply : Finish(q, l, reply)
             \/ Timeout(q, l)
             \/ Join(q, l)
             \/ Abort(q, l)
      PROVE  FALSE
  BY <1>5 DEF AcquirePermit, Finish, Timeout, Join, Abort, EndDelivery
<1>6. ASSUME NEW q \in Request, Respond(q)
      PROVE  q = r
  BY <1>6 DEF Respond, Answer
<1>7. CASE UNCHANGED vars
  BY <1>7 DEF vars
<1> QED
  BY <1>2, <1>3, <1>4, <1>5, <1>6, <1>7 DEF Next

LEMMA AggregateSteps ==
  ASSUME OrderOK, DispatchedInFull, AggregateOfAll, [Next]_vars
  PROVE  AggregateOfAll'
<1> SUFFICES ASSUME NEW r \in Request, Aggregated(r)'
             PROVE  /\ targets'[r] # {}
                    /\ joined'[r] = targets'[r]
                    /\ response'[r] = Aggregate(r)'
  BY DEF AggregateOfAll
<1>1. CASE pc[r] = "answered"
  <2>1. /\ config' = config
        /\ pc'[r] = pc[r]
        /\ targets'[r] = targets[r]
        /\ joined'[r] = joined[r]
        /\ summary'[r] = summary[r]
        /\ response'[r] = response[r]
    BY <1>1, AnsweredStay
  <2>2. Aggregated(r)
    BY <2>1 DEF Aggregated
  <2>3. Aggregate(r)' = Aggregate(r)
    BY <2>1 DEF Aggregate, AggregateStatus, Accepts
  <2> QED
    BY <2>1, <2>2, <2>3 DEF AggregateOfAll
<1>2. CASE pc[r] # "answered"
  <2>1. Respond(r)
    BY <1>2, AggregatedByRespond
  <2>2. /\ config' = config
        /\ targets' = targets
        /\ joined' = joined
        /\ summary' = summary
        /\ joined[r] = targets[r]
        /\ pc[r] = "joining"
        /\ response' = [response EXCEPT ![r] = Aggregate(r)]
    BY <2>1 DEF Respond, Answer, joinVars
  <2>3. Aggregate(r)' = Aggregate(r)
    BY <2>2 DEF Aggregate, AggregateStatus, Accepts
  <2> QED
    BY <2>2, <2>3 DEF OrderOK, DispatchedInFull
<1> QED
  BY <1>1, <1>2

LEMMA DispatchSteps ==
  ASSUME OrderOK, DispatchedInFull, SentWithPermit, [Next]_vars
  PROVE  DispatchedInFull' /\ SentWithPermit'
<1> USE DEF OrderOK, DispatchedInFull, SentWithPermit,
            DeliveriesBelongToDispatch, Aggregated, Outcome, Reply, Running,
            Delivery, handlerVars, deliveryVars, joinVars, Place, InHandler,
            DeliveryState
<1>1. ASSUME NEW r \in Request,
             RefuseCapacity(r) \/ MatchNothing(r) \/ Respond(r)
      PROVE  DispatchedInFull' /\ SentWithPermit'
  BY <1>1 DEF RefuseCapacity, MatchNothing, Respond, Answer
<1>2. ASSUME NEW r \in Request, NEW error \in BodyError, RejectBody(r, error)
      PROVE  DispatchedInFull' /\ SentWithPermit'
  BY <1>2 DEF RejectBody, Answer
<1>3. ASSUME NEW r \in Request, Admit(r) \/ Disconnect(r)
      PROVE  DispatchedInFull' /\ SentWithPermit'
  BY <1>3 DEF Admit, Disconnect
<1>4. ASSUME NEW r \in Request, NEW matching \in (SUBSET LeaseId) \ {{}},
             MatchTargets(r, matching)
      PROVE  DispatchedInFull' /\ SentWithPermit'
  <2>1. /\ targets' = [targets EXCEPT ![r] = matching]
        /\ pc' = [pc EXCEPT ![r] = "reading"]
        /\ UNCHANGED <<delivery, sent>>
    BY <1>4 DEF MatchTargets
  <2>2. ASSUME NEW q \in Request
        PROVE  /\ pc'[q] \in {"reading", "joining"} => targets'[q] # {}
               /\ pc'[q] = "joining" => pc[q] = "joining" /\ targets'[q] = targets[q]
    BY <1>4, <2>1
  <2> QED
    BY <2>1, <2>2
<1>5. ASSUME NEW r \in Request, Spawn(r)
      PROVE  DispatchedInFull' /\ SentWithPermit'
  BY <1>5 DEF Spawn
<1>6. ASSUME NEW r \in Request, NEW l \in LeaseId, AcquirePermit(r, l)
      PROVE  DispatchedInFull' /\ SentWithPermit'
  BY <1>6 DEF AcquirePermit
<1>7. ASSUME NEW r \in Request, NEW l \in LeaseId,
             \/ \E reply \in Reply : Finish(r, l, reply)
             \/ Timeout(r, l)
             \/ Abort(r, l)
      PROVE  DispatchedInFull' /\ SentWithPermit'
  <2>1. /\ delivery[<<r, l>>] \in Running
        /\ UNCHANGED <<pc, targets, sent>>
        /\ \E state \in Outcome \cup {"aborted"} :
             /\ delivery' = [delivery EXCEPT ![<<r, l>>] = state]
             /\ state \in Reply => delivery[<<r, l>>] = "sending"
             /\ state = "aborted" => pc[r] = "dropped"
    BY <1>7 DEF Finish, Timeout, Abort, EndDelivery
  <2>2. PICK state \in Outcome \cup {"aborted"} :
             /\ delivery' = [delivery EXCEPT ![<<r, l>>] = state]
             /\ state \in Reply => delivery[<<r, l>>] = "sending"
             /\ state = "aborted" => pc[r] = "dropped"
    BY <2>1
  <2>3. DispatchedInFull'
    BY <2>1, <2>2
  <2>4. SentWithPermit'
    BY <2>1, <2>2
  <2> QED
    BY <2>3, <2>4
<1>8. ASSUME NEW r \in Request, NEW l \in LeaseId, Join(r, l)
      PROVE  DispatchedInFull' /\ SentWithPermit'
  BY <1>8 DEF Join
<1>9. CASE UNCHANGED vars
  BY <1>9 DEF vars
<1> QED
  BY <1>1, <1>2, <1>3, <1>4, <1>5, <1>6, <1>7, <1>8, <1>9 DEF Next

(* It holds of every reachable state, with the invariant above.            *)
THEOREM AggregateInvariance == Spec => []AggregateInvariant
<1>1. Init => AggregateInvariant
  <2> SUFFICES ASSUME Init PROVE AggregateInvariant
    OBVIOUS
  <2>1. SummaryCountsJoined
    BY FS_EmptySet DEF Init, SummaryCountsJoined
  <2>2. DispatchedInFull /\ AggregateOfAll /\ SentWithPermit
    BY DEF Init, DispatchedInFull, AggregateOfAll, SentWithPermit, Aggregated,
           Delivery, Reply
  <2> QED
    BY <2>1, <2>2 DEF AggregateInvariant
<1>2. IngressInvariant /\ AggregateInvariant /\ [Next]_vars
        => AggregateInvariant'
  BY InvariantSplits, SummarySteps, AggregateSteps, DispatchSteps
  DEF AggregateInvariant
<1> QED
  BY <1>1, <1>2, IngressInvariance, PTL DEF Spec

LEMMA InvariantsMakeHonest ==
  IngressInvariant /\ AggregateInvariant => HonestAggregate
<1> SUFFICES ASSUME IngressInvariant, AggregateInvariant,
                    NEW r \in Request, Aggregated(r)
             PROVE  /\ response[r].matched = Cardinality(targets[r])
                    /\ response[r].succeeded = Cardinality(Ended(r, {"accepted"}))
                    /\ response[r].failed =
                         Cardinality(Ended(r, Outcome \ {"accepted"}))
                    /\ response[r].status =
                         IF PolicySatisfied(r) THEN 200
                         ELSE IF Ended(r, {"timeout"}) # {} THEN 504
                         ELSE 502
  BY DEF HonestAggregate
<1> DEFINE all == targets[r]
           accepted == Ended(r, {"accepted"})
<1>1. /\ joined[r] = all
      /\ all # {}
      /\ response[r] = Aggregate(r)
  BY DEF AggregateInvariant, AggregateOfAll
<1>2. /\ all \subseteq LeaseId
      /\ IsFiniteSet(all)
      /\ Cardinality(all) \in Nat \ {0}
  BY <1>1, IngressAssumption, FS_Subset, FS_CardinalityType, FS_EmptySet
  DEF IngressInvariant, TypeOK
<1>3. \A l \in all : delivery[<<r, l>>] \in Outcome
  BY <1>1 DEF IngressInvariant, JoinedHaveEnded
<1>4. summary[r].succeeded = Cardinality(accepted)
  BY <1>1 DEF AggregateInvariant, SummaryCountsJoined, Ended
<1>5. summary[r].timed_out <=> Ended(r, {"timeout"}) # {}
  BY <1>1 DEF AggregateInvariant, SummaryCountsJoined, Ended
<1>6. /\ accepted \subseteq all
      /\ IsFiniteSet(accepted)
      /\ Cardinality(accepted) \in Nat
      /\ Cardinality(accepted) = Cardinality(all) <=> accepted = all
      /\ Cardinality(accepted) = 0 <=> accepted = {}
  BY <1>2, FS_Subset, FS_CardinalityType, FS_EmptySet DEF Ended
<1>7. Cardinality(Ended(r, Outcome \ {"accepted"}))
        = Cardinality(all) - Cardinality(accepted)
  <2>1. Ended(r, Outcome \ {"accepted"}) = all \ accepted
    BY <1>3 DEF Ended
  <2>2. all \cap accepted = accepted
    BY <1>6
  <2> HIDE DEF all, accepted
  <2>3. Cardinality(all \ accepted)
          = Cardinality(all) - Cardinality(all \cap accepted)
    BY <1>2, FS_Difference
  <2> QED
    BY <2>1, <2>2, <2>3
<1>8. Accepts(config.response_policy, Cardinality(accepted), Cardinality(all))
        <=> PolicySatisfied(r)
  BY <1>2, <1>6 DEF Accepts, PolicySatisfied
<1>9. AggregateStatus(Cardinality(accepted), Cardinality(all),
                      summary[r].timed_out)
        = IF PolicySatisfied(r) THEN 200
          ELSE IF Ended(r, {"timeout"}) # {} THEN 504
          ELSE 502
  BY <1>5, <1>8 DEF AggregateStatus
<1> QED
  BY <1>1, <1>4, <1>7, <1>9 DEF Aggregate

(* What the sender is told of its deliveries is true, for any number of    *)
(* targets, in whatever order they were joined.                            *)
THEOREM AggregatesAreHonest == Spec => []HonestAggregate
BY IngressInvariance, AggregateInvariance, InvariantsMakeHonest, PTL
=============================================================================
