------------------------------ MODULE Ingress ------------------------------
(***************************************************************************)
(* The ingress server of src/ingress.rs: forward and dispatch_all, run     *)
(* concurrently for many webhooks that share the two semaphores.           *)
(*                                                                         *)
(* A request is a handler future that advances from await to await and     *)
(* that hyper drops when the sender disconnects.  A delivery is a spawned  *)
(* task of its own, so it outlives a dropped handler until the abort that  *)
(* the dropped JoinSet asked for reaches it.  Time is left out: a timeout  *)
(* may win or lose any race with a reply or with the grant of a permit.    *)
(***************************************************************************)
EXTENDS Domain, FiniteSets

CONSTANTS
  Request,          (* Webhooks that reach the ingress port.               *)
  LeaseId,          (* Leases that Registry::matching may return.          *)
  MaxInflight,      (* max_inflight_requests.                              *)
  MaxDeliveries     (* max_concurrent_deliveries.                          *)

(* LeaseId is finite because the registry's map is.                        *)
ASSUME IngressAssumption ==
  /\ IsFiniteSet(LeaseId)
  /\ MaxInflight \in Nat \ {0}
  /\ MaxDeliveries \in Nat \ {0}

VARIABLES
  config,                 (* response_policy and accept_when_empty.        *)
  inflight_requests,      (* Permits left in the semaphore.                *)
  concurrent_deliveries,  (* Permits left in the semaphore.                *)
  pc,                     (* Where the handler of each request is.         *)
  targets,                (* What matching returned to it.                 *)
  delivery,               (* The spawned task of each request and lease.   *)
  sent,                   (* Leases to which the webhook was sent out.     *)
  joined,                 (* Deliveries that join_next has returned.       *)
  summary,                (* The locals succeeded and timed_out.           *)
  response                (* What the sender was answered.                 *)

handlerVars == <<pc, targets, response>>
deliveryVars == <<concurrent_deliveries, delivery, sent>>
joinVars == <<joined, summary>>
vars == <<config, inflight_requests, handlerVars, deliveryVars, joinVars>>

Config == [response_policy: ResponsePolicy, accept_when_empty: BOOLEAN]

(* A handler future exists, with its permit, in these places.              *)
InHandler == {"matching", "reading", "joining"}
Place == {"new", "answered", "dropped"} \cup InHandler

(* How deliver ends: a 2xx status, another status, or a request error or   *)
(* panic, which dispatch_all only tells apart in its log.                  *)
Reply == {"accepted", "rejected", "failed"}
Outcome == Reply \cup {"timeout"}
Running == {"queued", "sending"}
DeliveryState == {"none", "aborted"} \cup Running \cup Outcome

Status == {200, 400, 413, 502, 503, 504}
Reason == {"none", "ingress-capacity", "no-targets", "body-too-large",
           "body-read-failed"}
NoResponse == [status |-> 0]
Response ==
  [status: Status, matched: Nat, succeeded: Nat, failed: Int, reason: Reason]

Delivery == Request \X LeaseId

-----------------------------------------------------------------------------
Init ==
  /\ config \in Config
  /\ inflight_requests = MaxInflight
  /\ concurrent_deliveries = MaxDeliveries
  /\ pc = [r \in Request |-> "new"]
  /\ targets = [r \in Request |-> {}]
  /\ delivery = [d \in Delivery |-> "none"]
  /\ sent = [r \in Request |-> {}]
  /\ joined = [r \in Request |-> {}]
  /\ summary = [r \in Request |-> [succeeded |-> 0, timed_out |-> FALSE]]
  /\ response = [r \in Request |-> NoResponse]

(* short_circuit_response.                                                 *)
ShortCircuit(status, matched, reason) ==
  [status |-> status, matched |-> matched, succeeded |-> 0, failed |-> 0,
   reason |-> reason]

Answer(r, value) ==
  /\ pc' = [pc EXCEPT ![r] = "answered"]
  /\ response' = [response EXCEPT ![r] = value]

(* Dropped by hand although the guard drops it again.                      *)
ReleaseInflightTwice == inflight_requests' = inflight_requests + 2

ReleaseInflight == inflight_requests' = inflight_requests + 1

(* forward: try_acquire_owned never waits.                                 *)
RefuseCapacity(r) ==
  /\ pc[r] = "new"
  /\ inflight_requests = 0
  /\ Answer(r, ShortCircuit(503, 0, "ingress-capacity"))
  /\ UNCHANGED <<config, inflight_requests, targets, deliveryVars, joinVars>>

(* A permit dropped where it is taken, as by `let Ok(_) =`.                *)
AdmitUncounted(r) ==
  /\ pc[r] = "new"
  /\ inflight_requests > 0
  /\ pc' = [pc EXCEPT ![r] = "matching"]
  /\ UNCHANGED <<config, inflight_requests, targets, response, deliveryVars,
                 joinVars>>

Admit(r) ==
  /\ pc[r] = "new"
  /\ inflight_requests > 0
  /\ inflight_requests' = inflight_requests - 1
  /\ pc' = [pc EXCEPT ![r] = "matching"]
  /\ UNCHANGED <<config, targets, response, deliveryVars, joinVars>>

(* The await of Registry::matching, which may return any set of leases.    *)
MatchNothing(r) ==
  /\ pc[r] = "matching"
  /\ ReleaseInflight
  /\ Answer(r, ShortCircuit(IF config.accept_when_empty THEN 200 ELSE 503,
                            0, "no-targets"))
  /\ UNCHANGED <<config, targets, deliveryVars, joinVars>>

(* Dispatch that starts before the body was read.                          *)
MatchTargetsAndSpawn(r, matching) ==
  /\ pc[r] = "matching"
  /\ targets' = [targets EXCEPT ![r] = matching]
  /\ pc' = [pc EXCEPT ![r] = "reading"]
  /\ delivery' = [d \in Delivery |->
                    IF d[1] = r /\ d[2] \in matching THEN "queued"
                                                     ELSE delivery[d]]
  /\ UNCHANGED <<config, inflight_requests, response, concurrent_deliveries,
                 sent, joinVars>>

MatchTargets(r, matching) ==
  /\ pc[r] = "matching"
  /\ targets' = [targets EXCEPT ![r] = matching]
  /\ pc' = [pc EXCEPT ![r] = "reading"]
  /\ UNCHANGED <<config, inflight_requests, response, deliveryVars, joinVars>>

(* The await of to_bytes: classify_body_read_error tells the two apart.    *)
BodyError == {<<413, "body-too-large">>, <<400, "body-read-failed">>}

RejectBody(r, error) ==
  /\ pc[r] = "reading"
  /\ ReleaseInflight
  /\ Answer(r, ShortCircuit(error[1], Cardinality(targets[r]), error[2]))
  /\ UNCHANGED <<config, targets, deliveryVars, joinVars>>

(* The body is complete: dispatch_all spawns one task per target.          *)
Spawn(r) ==
  /\ pc[r] = "reading"
  /\ delivery' = [d \in Delivery |->
                    IF d[1] = r /\ d[2] \in targets[r] THEN "queued"
                                                       ELSE delivery[d]]
  /\ pc' = [pc EXCEPT ![r] = "joining"]
  /\ UNCHANGED <<config, inflight_requests, targets, response,
                 concurrent_deliveries, sent, joinVars>>

-----------------------------------------------------------------------------
(* A spawned delivery.  Its permit lives exactly as long as its request to *)
(* the target, whichever way that ends.  No semaphore is ever closed, so   *)
(* DeliveryError::ShuttingDown cannot occur.                               *)

AcquirePermit(r, l) ==
  /\ delivery[<<r, l>>] = "queued"
  /\ concurrent_deliveries > 0
  /\ concurrent_deliveries' = concurrent_deliveries - 1
  /\ delivery' = [delivery EXCEPT ![<<r, l>>] = "sending"]
  /\ sent' = [sent EXCEPT ![r] = @ \cup {l}]
  /\ UNCHANGED <<config, inflight_requests, handlerVars, joinVars>>

(* A permit handed back by a task that timed out or was aborted waiting.   *)
EndDeliveryReleasing(r, l, state) ==
  /\ delivery' = [delivery EXCEPT ![<<r, l>>] = state]
  /\ concurrent_deliveries' = concurrent_deliveries + 1
  /\ UNCHANGED <<config, inflight_requests, handlerVars, sent, joinVars>>

(* The task ends; _permit is dropped if the task held one.                 *)
EndDelivery(r, l, state) ==
  /\ delivery' = [delivery EXCEPT ![<<r, l>>] = state]
  /\ concurrent_deliveries' =
       IF delivery[<<r, l>>] = "sending" THEN concurrent_deliveries + 1
                                     ELSE concurrent_deliveries
  /\ UNCHANGED <<config, inflight_requests, handlerVars, sent, joinVars>>

Finish(r, l, reply) ==
  /\ delivery[<<r, l>>] = "sending"
  /\ EndDelivery(r, l, reply)

(* A timeout around the wait for the permit alone.                         *)
TimeoutQueuedOnly(r, l) ==
  /\ delivery[<<r, l>>] = "queued"
  /\ concurrent_deliveries = 0
  /\ EndDelivery(r, l, "timeout")

(* target_timeout covers the wait for the permit as well as the request.   *)
(* tokio's timeout polls its future before its timer, so a delivery that   *)
(* could have a permit takes it rather than time out.                      *)
Timeout(r, l) ==
  /\ \/ delivery[<<r, l>>] = "sending"
     \/ delivery[<<r, l>>] = "queued" /\ concurrent_deliveries = 0
  /\ EndDelivery(r, l, "timeout")

(* timed_out takes the last task's result instead of remembering any.      *)
CountLast(counted, outcome) ==
  [succeeded |-> counted.succeeded + (IF outcome = "accepted" THEN 1 ELSE 0),
   timed_out |-> outcome = "timeout"]

(* What the loop over join_next makes of one result.                       *)
Count(counted, outcome) ==
  [succeeded |-> counted.succeeded + (IF outcome = "accepted" THEN 1 ELSE 0),
   timed_out |-> counted.timed_out \/ outcome = "timeout"]

(* join_next returns a finished task, in any order.                        *)
Join(r, l) ==
  /\ pc[r] = "joining"
  /\ delivery[<<r, l>>] \in Outcome
  /\ l \in targets[r] \ joined[r]
  /\ joined' = [joined EXCEPT ![r] = @ \cup {l}]
  /\ summary' = [summary EXCEPT ![r] = Count(@, delivery[<<r, l>>])]
  /\ UNCHANGED <<config, inflight_requests, handlerVars, deliveryVars>>

(* aggregate_response.                                                     *)
AggregateStatus(succeeded, total, timed_out) ==
  IF Accepts(config.response_policy, succeeded, total) THEN 200
  ELSE IF timed_out THEN 504
  ELSE 502

Aggregate(r) ==
  LET total == Cardinality(targets[r])
      succeeded == summary[r].succeeded
  IN [status |-> AggregateStatus(succeeded, total, summary[r].timed_out),
      matched |-> total, succeeded |-> succeeded,
      failed |-> total - succeeded, reason |-> "none"]

(* An answer as soon as the policy cannot fail any more.                   *)
RespondEarly(r) ==
  /\ pc[r] = "joining"
  /\ \/ joined[r] = targets[r]
     \/ config.response_policy = "any" /\ summary[r].succeeded > 0
  /\ ReleaseInflight
  /\ Answer(r, Aggregate(r))
  /\ UNCHANGED <<config, targets, deliveryVars, joinVars>>

(* join_next returns None once every task was joined.                      *)
Respond(r) ==
  /\ pc[r] = "joining"
  /\ joined[r] = targets[r]
  /\ ReleaseInflight
  /\ Answer(r, Aggregate(r))
  /\ UNCHANGED <<config, targets, deliveryVars, joinVars>>

-----------------------------------------------------------------------------
(* The sender goes away: hyper drops the handler future, its permit and    *)
(* its JoinSet, which aborts the tasks that are still running.             *)
Disconnect(r) ==
  /\ pc[r] \in InHandler
  /\ pc' = [pc EXCEPT ![r] = "dropped"]
  /\ ReleaseInflight
  /\ UNCHANGED <<config, targets, response, deliveryVars, joinVars>>

(* The runtime drops an aborted task at its next chance.                   *)
Abort(r, l) ==
  /\ pc[r] = "dropped"
  /\ delivery[<<r, l>>] \in Running
  /\ EndDelivery(r, l, "aborted")

Next ==
  \E r \in Request :
    \/ RefuseCapacity(r)
    \/ Admit(r)
    \/ MatchNothing(r)
    \/ \E matching \in (SUBSET LeaseId) \ {{}} : MatchTargets(r, matching)
    \/ \E error \in BodyError : RejectBody(r, error)
    \/ Spawn(r)
    \/ Respond(r)
    \/ Disconnect(r)
    \/ \E l \in LeaseId :
         \/ AcquirePermit(r, l)
         \/ \E reply \in Reply : Finish(r, l, reply)
         \/ Timeout(r, l)
         \/ Join(r, l)
         \/ Abort(r, l)

Spec == Init /\ [][Next]_vars

(* An expired timer wakes its delivery, which then takes a permit or times *)
(* out; finished tasks are joined, the handler goes on, aborted tasks are  *)
(* dropped.  Nothing is assumed of senders, of bodies and of targets.      *)
Fairness ==
  \A r \in Request :
    /\ WF_vars(Respond(r))
    /\ \A l \in LeaseId : /\ WF_vars(AcquirePermit(r, l) \/ Timeout(r, l))
                          /\ WF_vars(Join(r, l))
                          /\ WF_vars(Abort(r, l))

FairSpec == Spec /\ Fairness

-----------------------------------------------------------------------------
TypeOK ==
  /\ config \in Config
  /\ inflight_requests \in 0 .. MaxInflight
  /\ concurrent_deliveries \in 0 .. MaxDeliveries
  /\ pc \in [Request -> Place]
  /\ targets \in [Request -> SUBSET LeaseId]
  /\ delivery \in [Delivery -> DeliveryState]
  /\ sent \in [Request -> SUBSET LeaseId]
  /\ joined \in [Request -> SUBSET LeaseId]
  /\ summary \in [Request -> [succeeded: Nat, timed_out: BOOLEAN]]
  /\ response \in [Request -> Response \cup {NoResponse}]

InflightHolders == {r \in Request : pc[r] \in InHandler}
PermitHolders == {d \in Delivery : delivery[d] = "sending"}

(* No permit of max_inflight_requests is lost or returned twice, whether   *)
(* the request is answered early, aggregated or dropped at an await.       *)
InflightAccounting ==
  inflight_requests + Cardinality(InflightHolders) = MaxInflight

(* No permit of max_concurrent_deliveries is lost or returned twice across *)
(* replies, timeouts before and after the permit, and aborts: at most that *)
(* many webhooks are being sent at any time, orphaned deliveries included. *)
DeliveryAccounting ==
  concurrent_deliveries + Cardinality(PermitHolders) = MaxDeliveries

Aggregated(r) == pc[r] = "answered" /\ response[r].reason = "none"

Ended(r, outcomes) == {l \in targets[r] : delivery[<<r, l>>] \in outcomes}

(* The policy in the terms of the deliveries themselves.                   *)
PolicySatisfied(r) ==
  \/ config.response_policy = "all" /\ Ended(r, {"accepted"}) = targets[r]
  \/ config.response_policy = "any" /\ Ended(r, {"accepted"}) # {}
  \/ config.response_policy = "always"

(* An aggregate answer tells the sender what really became of every        *)
(* delivery: the counts add up, 200 means the policy holds of the targets' *)
(* replies, and a refusal is 504 exactly when some delivery timed out.     *)
HonestAggregate ==
  \A r \in Request : Aggregated(r) =>
    /\ response[r].matched = Cardinality(targets[r])
    /\ response[r].succeeded = Cardinality(Ended(r, {"accepted"}))
    /\ response[r].failed =
         Cardinality(Ended(r, Outcome \ {"accepted"}))
    /\ response[r].status =
         IF PolicySatisfied(r) THEN 200
         ELSE IF Ended(r, {"timeout"}) # {} THEN 504
         ELSE 502

(* Nothing is sent behind the sender's back: once it is answered, no       *)
(* delivery of its webhook is running or will still be sent.               *)
NothingRunsAfterAnswer ==
  \A r \in Request : pc[r] = "answered" =>
    \A l \in LeaseId : delivery[<<r, l>>] \notin Running

(* src/ingress.rs:351: a short-circuit answer "reports a request that      *)
(* ended before any delivery was attempted", so the sender may retry.      *)
ShortCircuitSendsNothing ==
  \A r \in Request :
    (pc[r] = "answered" /\ ~Aggregated(r)) => sent[r] = {}

(* The invariant that carries the accounting and the two properties after  *)
(* it: deliveries exist for the targets of a webhook whose body was read   *)
(* and for nothing else, only ended ones are joined, and they are sent and *)
(* joined nowhere but in dispatch_all.                                     *)
DeliveriesBelongToDispatch ==
  \A r \in Request, l \in LeaseId :
    delivery[<<r, l>>] # "none" =>
      /\ l \in targets[r]
      /\ \/ pc[r] \in {"joining", "dropped"}
         \/ Aggregated(r)

JoinedHaveEnded ==
  \A r \in Request :
    joined[r] \subseteq {l \in LeaseId : delivery[<<r, l>>] \in Outcome}

SentByDispatch ==
  \A r \in Request :
    sent[r] # {} => pc[r] \in {"joining", "dropped"} \/ Aggregated(r)

IngressInvariant ==
  /\ TypeOK
  /\ IsFiniteSet(InflightHolders)
  /\ InflightAccounting
  /\ IsFiniteSet(PermitHolders)
  /\ DeliveryAccounting
  /\ DeliveriesBelongToDispatch
  /\ JoinedHaveEnded
  /\ SentByDispatch
  /\ NothingRunsAfterAnswer

(* What the truth of the aggregate and the refinement of FanOut need as    *)
(* well: the locals of dispatch_all count the joined deliveries, whatever  *)
(* the order they came in, ...                                             *)
SummaryCountsJoined ==
  \A r \in Request :
    /\ summary[r].succeeded =
         Cardinality({l \in joined[r] : delivery[<<r, l>>] = "accepted"})
    /\ summary[r].timed_out <=>
         \E l \in joined[r] : delivery[<<r, l>>] = "timeout"

(* ... every target of a dispatch has its task, which nothing aborts, ...  *)
DispatchedInFull ==
  \A r \in Request :
    /\ pc[r] \in {"reading", "joining"} => targets[r] # {}
    /\ pc[r] = "joining" =>
         \A l \in targets[r] : delivery[<<r, l>>] \notin {"none", "aborted"}

(* ... the answer was computed when all of them were joined, ...           *)
AggregateOfAll ==
  \A r \in Request : Aggregated(r) =>
    /\ targets[r] # {}
    /\ joined[r] = targets[r]
    /\ response[r] = Aggregate(r)

(* ... and a delivery is sent with its permit and at no other time.        *)
SentWithPermit ==
  \A r \in Request, l \in LeaseId :
    /\ delivery[<<r, l>>] \in {"none", "queued"} => l \notin sent[r]
    /\ delivery[<<r, l>>] \in {"sending"} \cup Reply => l \in sent[r]

AggregateInvariant ==
  /\ SummaryCountsJoined
  /\ DispatchedInFull
  /\ AggregateOfAll
  /\ SentWithPermit

(* A webhook that reached its deliveries is answered or abandoned, and in  *)
(* both cases all its deliveries end, though no target ever replies and    *)
(* other webhooks hold the permits that it waits for.                      *)
DispatchEnds ==
  \A r \in Request :
    pc[r] = "joining" ~> /\ pc[r] \in {"answered", "dropped"}
                         /\ \A l \in LeaseId : delivery[<<r, l>>] \notin Running

-----------------------------------------------------------------------------
(* A statement of the documentation that the code does not keep.           *)

(* src/domain.rs:205, and the policy table of README.md: "always" accepts  *)
(* "after attempting every matching target".                               *)
AlwaysAttemptsEveryTarget ==
  \A r \in Request :
    (/\ config.response_policy = "always"
     /\ Aggregated(r)
     /\ response[r].status = 200) => sent[r] = targets[r]
=============================================================================
