------------------------- MODULE IngressRefinement -------------------------
(***************************************************************************)
(* Ingress implements FanOut: the refinement mapping.                      *)
(***************************************************************************)
EXTENDS Ingress

(* A handler is fanning out while it joins its tasks; before that nothing  *)
(* has been handed to a target, whatever matching returned.                *)
PhaseOf(r) ==
  IF pc[r] = "joining" THEN "fanning"
  ELSE IF pc[r] = "dropped" THEN "gone"
  ELSE IF pc[r] # "answered" THEN "waiting"
  ELSE IF ~Aggregated(r) THEN "declined"
  ELSE IF response[r].status = 200 THEN "accepted" ELSE "refused"

(* A task that timed out, failed, was rejected or was aborted is through.  *)
OutcomeOf(d) ==
  IF delivery[d] = "accepted" THEN "accepted"
  ELSE IF delivery[d] \in {"none"} \cup Running THEN "open"
  ELSE "failed"

PhaseBar == [r \in Request |-> PhaseOf(r)]

DueBar == [r \in Request |-> {l \in LeaseId : delivery[<<r, l>>] # "none"}]

OutcomeBar == [r \in Request |-> [l \in LeaseId |-> OutcomeOf(<<r, l>>)]]

Contract ==
  INSTANCE FanOut WITH
    Webhook <- Request,
    Target <- LeaseId,
    policy <- config.response_policy,
    phase <- PhaseBar,
    due <- DueBar,
    attempted <- sent,
    outcome <- OutcomeBar

(* Every step of the handlers, the delivery tasks and the semaphores is a  *)
(* step of the contract or invisible to it: no webhook is sent twice to a  *)
(* target, sent after its answer or answered against its policy, however   *)
(* timeouts, aborts and the order of join_next fall.                       *)
ImplementsFanOut == Contract!Spec
=============================================================================
