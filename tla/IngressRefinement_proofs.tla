---------------------- MODULE IngressRefinement_proofs ----------------------
(***************************************************************************)
(* Ingress implements FanOut for any set of webhooks, any number of leases *)
(* and any size of the two semaphores.                                     *)
(***************************************************************************)
EXTENDS IngressRefinement, Ingress_proofs

-----------------------------------------------------------------------------
(* What a step does to the variables of the contract.                      *)

LEMMA SameDeliveries ==
  ASSUME UNCHANGED delivery
  PROVE  UNCHANGED <<DueBar, OutcomeBar>>
BY DEF DueBar, OutcomeBar, OutcomeOf

LEMMA SamePhases ==
  ASSUME UNCHANGED <<pc, response>>
  PROVE  UNCHANGED PhaseBar
BY DEF PhaseBar, PhaseOf, Aggregated

(* A step of one handler moves the phase of its webhook alone.             *)
LEMMA HandlerMoves ==
  ASSUME NEW r \in Request, NEW place, NEW value, NEW phase,
         pc \in [Request -> Place], DOMAIN response = Request,
         pc' = [pc EXCEPT ![r] = place],
         response' = [response EXCEPT ![r] = value],
         PhaseOf(r)' = phase
  PROVE  PhaseBar' = [PhaseBar EXCEPT ![r] = phase]
<1>1. \A q \in Request : q # r => PhaseOf(q)' = PhaseOf(q)
  BY DEF PhaseOf, Aggregated
<1> QED
  BY <1>1 DEF PhaseBar

(* A task that goes on or ends was handed its webhook already, and what    *)
(* becomes of it there is its own outcome alone.                           *)
LEMMA TaskMoves ==
  ASSUME NEW r \in Request, NEW l \in LeaseId, NEW state,
         delivery \in [Delivery -> DeliveryState],
         delivery[<<r, l>>] \in Running, state # "none",
         delivery' = [delivery EXCEPT ![<<r, l>>] = state]
  PROVE  /\ DueBar' = DueBar
         /\ l \in DueBar[r]
         /\ OutcomeBar[r][l] = "open"
         /\ OutcomeBar' = [OutcomeBar EXCEPT ![r][l] = OutcomeOf(<<r, l>>)']
<1>1. ASSUME NEW q \in Request, NEW k \in LeaseId
      PROVE  /\ delivery'[<<q, k>>] = "none" <=> delivery[<<q, k>>] = "none"
             /\ <<q, k>> # <<r, l>> => delivery'[<<q, k>>] = delivery[<<q, k>>]
  BY DEF Delivery, Running
<1>2. DueBar' = DueBar
  BY <1>1 DEF DueBar
<1>3. l \in DueBar[r] /\ OutcomeBar[r][l] = "open"
  BY DEF DueBar, OutcomeBar, OutcomeOf, Running
<1>4. \A q \in Request, k \in LeaseId :
        <<q, k>> # <<r, l>> => OutcomeOf(<<q, k>>)' = OutcomeOf(<<q, k>>)
  BY <1>1 DEF OutcomeOf
<1>5. OutcomeBar' = [OutcomeBar EXCEPT ![r][l] = OutcomeOf(<<r, l>>)']
  BY <1>4 DEF OutcomeBar
<1> QED
  BY <1>2, <1>3, <1>5

(* The sets that the contract speaks of, in the terms of the ingress.      *)
LEMMA OpenBar ==
  ASSUME NEW r \in Request
  PROVE  Contract!Open(r) = {l \in LeaseId : delivery[<<r, l>>] \in Running}
BY DEF Contract!Open, DueBar, OutcomeBar, OutcomeOf, Running

-----------------------------------------------------------------------------
LEMMA InitRefines == Init => Contract!Init
BY DEF Init, Contract!Init, Config, ResponsePolicy, PhaseBar, PhaseOf, DueBar,
       OutcomeBar, OutcomeOf, Delivery

LEMMA DeclineRefines ==
  ASSUME OrderOK, NEW r \in Request, NEW value \in Response, Answer(r, value),
         pc[r] \in {"new", "matching", "reading"}, value.reason # "none",
         UNCHANGED <<config, deliveryVars>>
  PROVE  Contract!Decline(r)
<1>1. PhaseBar[r] = "waiting"
  BY DEF PhaseBar, PhaseOf
<1>2. PhaseOf(r)' = "declined"
  BY DEF PhaseOf, Aggregated, Answer, OrderOK
<1>3. PhaseBar' = [PhaseBar EXCEPT ![r] = "declined"]
  BY <1>2, HandlerMoves DEF Answer, OrderOK
<1>4. UNCHANGED <<config.response_policy, DueBar, sent, OutcomeBar>>
  BY SameDeliveries DEF deliveryVars
<1> QED
  BY <1>1, <1>3, <1>4 DEF Contract!Decline

LEMMA SpawnRefines ==
  ASSUME OrderOK, DispatchedInFull, NEW r \in Request, Spawn(r)
  PROVE  Contract!Choose(r, targets[r])
<1>1. /\ pc[r] = "reading"
      /\ targets[r] \subseteq LeaseId
      /\ \A l \in LeaseId : delivery[<<r, l>>] = "none"
  BY DEF Spawn, OrderOK, DeliveriesBelongToDispatch, Aggregated
<1>2. PhaseBar[r] = "waiting"
  BY <1>1 DEF PhaseBar, PhaseOf
<1>3. PhaseBar' = [PhaseBar EXCEPT ![r] = "fanning"]
  <2>1. PhaseOf(r)' = "fanning"
    BY DEF PhaseOf, Spawn, OrderOK
  <2>2. pc' = [pc EXCEPT ![r] = "joining"] /\ response' = response
    BY DEF Spawn
  <2>3. \A q \in Request : q # r => PhaseOf(q)' = PhaseOf(q)
    BY <2>2 DEF PhaseOf, Aggregated, OrderOK
  <2> QED
    BY <2>1, <2>3 DEF PhaseBar
<1>4. ASSUME NEW q \in Request, NEW l \in LeaseId
      PROVE  delivery'[<<q, l>>] = IF q = r /\ l \in targets[r] THEN "queued"
                                   ELSE delivery[<<q, l>>]
  BY DEF Spawn, Delivery
<1>5. DueBar' = [DueBar EXCEPT ![r] = targets[r]]
  <2>1. ASSUME NEW q \in Request
        PROVE  DueBar'[q] = IF q = r THEN targets[r] ELSE DueBar[q]
    BY <1>1, <1>4 DEF DueBar
  <2> QED
    BY <2>1 DEF DueBar
<1>6. OutcomeBar' = OutcomeBar
  <2>1. \A q \in Request, l \in LeaseId :
          OutcomeOf(<<q, l>>)' = OutcomeOf(<<q, l>>)
    BY <1>1, <1>4 DEF OutcomeOf, Running
  <2> QED
    BY <2>1 DEF OutcomeBar
<1>7. UNCHANGED <<config.response_policy, sent>>
  BY DEF Spawn
<1> QED
  BY <1>2, <1>3, <1>5, <1>6, <1>7 DEF Contract!Choose

LEMMA AcquireRefines ==
  ASSUME OrderOK, SentWithPermit, NEW r \in Request, NEW l \in LeaseId,
         AcquirePermit(r, l)
  PROVE  Contract!Attempt(r, l)
<1>1. /\ delivery[<<r, l>>] = "queued"
      /\ delivery' = [delivery EXCEPT ![<<r, l>>] = "sending"]
      /\ sent' = [sent EXCEPT ![r] = @ \cup {l}]
      /\ UNCHANGED <<config, pc, response>>
  BY DEF AcquirePermit, handlerVars
<1>2. PhaseBar[r] \in {"fanning", "gone"}
  BY <1>1 DEF OrderOK, DeliveriesBelongToDispatch, NothingRunsAfterAnswer,
              Running, PhaseBar, PhaseOf, Aggregated
<1>3. l \in Contract!Open(r) \ sent[r]
  BY <1>1, OpenBar DEF Running, SentWithPermit
<1>4. DueBar' = DueBar /\ OutcomeBar' = OutcomeBar
  <2>1. DueBar' = DueBar
    BY <1>1, TaskMoves DEF OrderOK, Running
  <2>2. \A q \in Request, k \in LeaseId :
          OutcomeOf(<<q, k>>)' = OutcomeOf(<<q, k>>)
    BY <1>1 DEF OutcomeOf, Running, OrderOK, Delivery
  <2> QED
    BY <2>1, <2>2 DEF OutcomeBar
<1>5. UNCHANGED <<config.response_policy, PhaseBar>>
  BY <1>1, SamePhases
<1> QED
  BY <1>1, <1>2, <1>3, <1>4, <1>5 DEF Contract!Attempt

LEMMA EndRefines ==
  ASSUME OrderOK, SentWithPermit, NEW r \in Request, NEW l \in LeaseId,
         NEW state \in Outcome \cup {"aborted"},
         delivery[<<r, l>>] \in Running,
         state = "accepted" => delivery[<<r, l>>] = "sending",
         EndDelivery(r, l, state)
  PROVE  \E o \in {"accepted", "failed"} : Contract!Conclude(r, l, o)
<1> DEFINE o == IF state = "accepted" THEN "accepted" ELSE "failed"
<1>1. /\ delivery' = [delivery EXCEPT ![<<r, l>>] = state]
      /\ UNCHANGED <<config, pc, response, sent>>
  BY DEF EndDelivery, handlerVars
<1>2. PhaseBar[r] \in {"fanning", "gone"}
  BY DEF OrderOK, DeliveriesBelongToDispatch, NothingRunsAfterAnswer,
              Running, PhaseBar, PhaseOf, Aggregated
<1>3. l \in Contract!Open(r)
  BY OpenBar
<1>4. o = "accepted" => l \in sent[r]
  BY DEF SentWithPermit
<1>5. DueBar' = DueBar /\ OutcomeBar' = [OutcomeBar EXCEPT ![r][l] = o]
  <2>1. /\ DueBar' = DueBar
        /\ OutcomeBar' = [OutcomeBar EXCEPT ![r][l] = OutcomeOf(<<r, l>>)']
    BY <1>1, TaskMoves DEF OrderOK, Outcome, Reply
  <2>2. OutcomeOf(<<r, l>>)' = o
    BY <1>1 DEF OutcomeOf, Outcome, Reply, Running, OrderOK, Delivery
  <2> QED
    BY <2>1, <2>2
<1>6. UNCHANGED <<config.response_policy, PhaseBar>>
  BY <1>1, SamePhases
<1>7. Contract!Conclude(r, l, o)
  BY <1>1, <1>2, <1>3, <1>4, <1>5, <1>6 DEF Contract!Conclude
<1> QED
  BY <1>7

LEMMA RespondRefines ==
  ASSUME OrderOK, DispatchedInFull, HonestAggregate', NEW r \in Request,
         Respond(r)
  PROVE  Contract!Answer(r)
<1>1. /\ pc[r] = "joining"
      /\ joined[r] = targets[r]
      /\ pc' = [pc EXCEPT ![r] = "answered"]
      /\ response' = [response EXCEPT ![r] = Aggregate(r)]
      /\ UNCHANGED <<config, targets, delivery, sent>>
  BY DEF Respond, Answer, deliveryVars
<1>2. PhaseBar[r] = "fanning"
  BY <1>1 DEF PhaseBar, PhaseOf
<1>3. DueBar[r] = targets[r]
  BY <1>1 DEF OrderOK, DeliveriesBelongToDispatch, DispatchedInFull, DueBar
<1>4. Contract!Open(r) = {}
  BY <1>1, OpenBar DEF OrderOK, DeliveriesBelongToDispatch, JoinedHaveEnded,
                       Running, Outcome, Reply
<1>5. Contract!Satisfied(r) <=> PolicySatisfied(r)'
  <2>1. {l \in DueBar[r] : OutcomeBar[r][l] = "accepted"}
          = Ended(r, {"accepted"})'
    BY <1>1, <1>3 DEF OutcomeBar, OutcomeOf, Ended, OrderOK
  <2>2. config.response_policy \in {"all", "any", "always"}
    BY DEF OrderOK, Config, ResponsePolicy
  <2> QED
    BY <1>1, <1>3, <2>1, <2>2 DEF Contract!Satisfied, PolicySatisfied
<1>6. PhaseOf(r)' = IF Contract!Satisfied(r) THEN "accepted" ELSE "refused"
  <2>1. response'[r].reason = "none"
    BY <1>1, AggregateTyped DEF OrderOK
  <2>2. Aggregated(r)'
    BY <1>1, <2>1 DEF Aggregated, OrderOK
  <2>3. response'[r].status = 200 <=> PolicySatisfied(r)'
    BY <2>2 DEF HonestAggregate
  <2> QED
    BY <1>1, <1>5, <2>2, <2>3 DEF PhaseOf, OrderOK
<1>7. PhaseBar' = [PhaseBar EXCEPT ![r] = IF Contract!Satisfied(r)
                                          THEN "accepted" ELSE "refused"]
  BY <1>1, <1>6, HandlerMoves DEF OrderOK
<1>8. UNCHANGED <<config.response_policy, DueBar, sent, OutcomeBar>>
  BY <1>1, SameDeliveries
<1> QED
  BY <1>2, <1>4, <1>7, <1>8 DEF Contract!Answer

LEMMA DisconnectRefines ==
  ASSUME OrderOK, NEW r \in Request, Disconnect(r)
  PROVE  Contract!Abandon(r)
<1>1. /\ pc[r] \in InHandler
      /\ pc' = [pc EXCEPT ![r] = "dropped"]
      /\ response' = [response EXCEPT ![r] = response[r]]
      /\ UNCHANGED <<config, delivery, sent>>
  BY DEF Disconnect, deliveryVars, OrderOK
<1>2. PhaseBar[r] \in {"waiting", "fanning"}
  BY <1>1 DEF PhaseBar, PhaseOf, InHandler
<1>3. PhaseOf(r)' = "gone"
  BY <1>1 DEF PhaseOf, OrderOK
<1>4. PhaseBar' = [PhaseBar EXCEPT ![r] = "gone"]
  BY <1>1, <1>3, HandlerMoves DEF OrderOK
<1>5. UNCHANGED <<config.response_policy, DueBar, sent, OutcomeBar>>
  BY <1>1, SameDeliveries
<1> QED
  BY <1>2, <1>4, <1>5 DEF Contract!Abandon

(* Every step of the ingress is a step of the contract or leaves its       *)
(* variables alone.                                                        *)
LEMMA NextRefines ==
  ASSUME OrderOK, AggregateInvariant, HonestAggregate', [Next]_vars
  PROVE  [Contract!Next]_(Contract!vars)
<1> DEFINE Hidden == UNCHANGED Contract!vars
<1>inv. DispatchedInFull /\ SentWithPermit
  BY DEF AggregateInvariant
<1>1. ASSUME UNCHANGED <<config, pc, response, delivery, sent>>
      PROVE  Hidden
  BY <1>1, SameDeliveries, SamePhases DEF Contract!vars
<1>2. ASSUME NEW r \in Request, RefuseCapacity(r)
      PROVE  Contract!Decline(r)
  <2>1. /\ ShortCircuit(503, 0, "ingress-capacity") \in Response
        /\ ShortCircuit(503, 0, "ingress-capacity").reason # "none"
    BY ShortCircuitTyped DEF Status, Reason
  <2> QED
    BY <1>2, <2>1, DeclineRefines DEF RefuseCapacity
<1>3. ASSUME NEW r \in Request, Admit(r)
      PROVE  Hidden
  <2>1. UNCHANGED PhaseBar
    BY <1>3 DEF Admit, PhaseBar, PhaseOf, Aggregated, OrderOK
  <2>2. UNCHANGED <<config, delivery, sent>>
    BY <1>3 DEF Admit, deliveryVars
  <2> QED
    BY <2>1, <2>2, SameDeliveries DEF Contract!vars
<1>4. ASSUME NEW r \in Request, MatchNothing(r)
      PROVE  Contract!Decline(r)
  <2> DEFINE value == ShortCircuit(IF config.accept_when_empty THEN 200 ELSE 503,
                                   0, "no-targets")
  <2>1. value \in Response /\ value.reason # "none"
    BY ShortCircuitTyped DEF Status, Reason
  <2>2. /\ Answer(r, value)
        /\ pc[r] = "matching"
        /\ UNCHANGED <<config, deliveryVars>>
    BY <1>4 DEF MatchNothing
  <2> HIDE DEF value
  <2> QED
    BY <2>1, <2>2, DeclineRefines
<1>5. ASSUME NEW r \in Request, NEW matching, MatchTargets(r, matching)
      PROVE  Hidden
  <2>1. UNCHANGED PhaseBar
    BY <1>5 DEF MatchTargets, PhaseBar, PhaseOf, Aggregated, OrderOK
  <2>2. UNCHANGED <<config, delivery, sent>>
    BY <1>5 DEF MatchTargets, deliveryVars
  <2> QED
    BY <2>1, <2>2, SameDeliveries DEF Contract!vars
<1>6. ASSUME NEW r \in Request, NEW error \in BodyError, RejectBody(r, error)
      PROVE  Contract!Decline(r)
  <2> DEFINE value == ShortCircuit(error[1], Cardinality(targets[r]), error[2])
  <2>1. Cardinality(targets[r]) \in Nat
    BY IngressAssumption, FS_Subset, FS_CardinalityType DEF OrderOK
  <2>2. error[1] \in Status /\ error[2] \in Reason \ {"none"}
    BY DEF BodyError, Status, Reason
  <2>3. value \in Response /\ value.reason # "none"
    BY <2>1, <2>2, ShortCircuitTyped
  <2>4. /\ Answer(r, value)
        /\ pc[r] = "reading"
        /\ UNCHANGED <<config, deliveryVars>>
    BY <1>6 DEF RejectBody
  <2> HIDE DEF value
  <2> QED
    BY <2>3, <2>4, DeclineRefines
<1>7. ASSUME NEW r \in Request, Spawn(r)
      PROVE  \E chosen \in (SUBSET LeaseId) \ {{}} : Contract!Choose(r, chosen)
  <2>1. targets[r] \in (SUBSET LeaseId) \ {{}}
    BY <1>inv, <1>7 DEF Spawn, OrderOK, DispatchedInFull
  <2> QED
    BY <1>inv, <1>7, <2>1, SpawnRefines
<1>8. ASSUME NEW r \in Request, Respond(r)
      PROVE  Contract!Answer(r)
  BY <1>inv, <1>8, RespondRefines
<1>9. ASSUME NEW r \in Request, Disconnect(r)
      PROVE  Contract!Abandon(r)
  BY <1>9, DisconnectRefines
<1>10. ASSUME NEW r \in Request, NEW l \in LeaseId, AcquirePermit(r, l)
       PROVE  Contract!Attempt(r, l)
  BY <1>inv, <1>10, AcquireRefines
<1>11. ASSUME NEW r \in Request, NEW l \in LeaseId,
              \/ \E reply \in Reply : Finish(r, l, reply)
              \/ Timeout(r, l)
              \/ Abort(r, l)
       PROVE  \E o \in {"accepted", "failed"} : Contract!Conclude(r, l, o)
  <2>1. PICK state \in Outcome \cup {"aborted"} :
          /\ delivery[<<r, l>>] \in Running
          /\ state = "accepted" => delivery[<<r, l>>] = "sending"
          /\ EndDelivery(r, l, state)
    BY <1>11 DEF Finish, Timeout, Abort, Outcome, Running
  <2> QED
    BY <1>inv, <2>1, EndRefines
<1>12. ASSUME NEW r \in Request, NEW l \in LeaseId, Join(r, l)
       PROVE  Hidden
  BY <1>1, <1>12 DEF Join, handlerVars, deliveryVars
<1>13. CASE UNCHANGED vars
  BY <1>1, <1>13 DEF vars, handlerVars, deliveryVars
<1> QED
  BY <1>2, <1>3, <1>4, <1>5, <1>6, <1>7, <1>8, <1>9, <1>10, <1>11, <1>12,
     <1>13
  DEF Next, Contract!Next

-----------------------------------------------------------------------------
(* Seen from outside, the ingress is FanOut: a webhook is declined, or     *)
(* handed to targets that are chosen once, sent at most once to each, and  *)
(* answered by the policy when the last of them is through.                *)
THEOREM IngressImplementsFanOut == Spec => ImplementsFanOut
<1>1. IngressInvariant => OrderOK
  BY InvariantSplits
<1> QED
  BY <1>1, InitRefines, NextRefines, IngressInvariance, AggregateInvariance,
     AggregatesAreHonest, PTL
  DEF Spec, ImplementsFanOut, Contract!Spec
=============================================================================
