------------------------------- MODULE FanOut -------------------------------
(***************************************************************************)
(* What the ingress promises a sender and the targets, without semaphores, *)
(* timeouts, tasks and the order in which they are joined: a webhook is    *)
(* declined, or handed to a set of targets that is chosen once, to each at *)
(* most once, and answered by the policy when the last of them is through  *)
(* (docs/architecture.md:17-28 and 84-85, README.md:130-142).              *)
(***************************************************************************)
CONSTANTS
  Webhook,     (* Requests of senders.                                     *)
  Target       (* Registered targets.                                      *)

VARIABLES
  policy,      (* "all", "any" or "always".                                *)
  phase,       (* Where each webhook is.                                   *)
  due,         (* The targets it was handed to.                            *)
  attempted,   (* Those among them to which it was sent.                   *)
  outcome      (* What became of it there.                                 *)

vars == <<policy, phase, due, attempted, outcome>>

(* A verdict is a phase: "accepted" and "refused" by the targets' replies, *)
(* "declined" without asking any target.                                   *)
Phase == {"waiting", "fanning", "gone", "declined", "accepted", "refused"}
Outcome == {"open", "accepted", "failed"}

Init ==
  /\ policy \in {"all", "any", "always"}
  /\ phase = [w \in Webhook |-> "waiting"]
  /\ due = [w \in Webhook |-> {}]
  /\ attempted = [w \in Webhook |-> {}]
  /\ outcome = [w \in Webhook |-> [t \in Target |-> "open"]]

Decline(w) ==
  /\ phase[w] = "waiting"
  /\ phase' = [phase EXCEPT ![w] = "declined"]
  /\ UNCHANGED <<policy, due, attempted, outcome>>

Choose(w, targets) ==
  /\ phase[w] = "waiting"
  /\ phase' = [phase EXCEPT ![w] = "fanning"]
  /\ due' = [due EXCEPT ![w] = targets]
  /\ UNCHANGED <<policy, attempted, outcome>>

Open(w) == {t \in due[w] : outcome[w][t] = "open"}

(* A delivery may still start after the sender has gone, until it is told. *)
Attempt(w, t) ==
  /\ phase[w] \in {"fanning", "gone"}
  /\ t \in Open(w) \ attempted[w]
  /\ attempted' = [attempted EXCEPT ![w] = @ \cup {t}]
  /\ UNCHANGED <<policy, phase, due, outcome>>

Conclude(w, t, o) ==
  /\ phase[w] \in {"fanning", "gone"}
  /\ t \in Open(w)
  /\ o = "accepted" => t \in attempted[w]
  /\ outcome' = [outcome EXCEPT ![w][t] = o]
  /\ UNCHANGED <<policy, phase, due, attempted>>

Satisfied(w) ==
  LET accepted == {t \in due[w] : outcome[w][t] = "accepted"}
  IN CASE policy = "all" -> accepted = due[w]
       [] policy = "any" -> accepted # {}
       [] policy = "always" -> TRUE

Answer(w) ==
  /\ phase[w] = "fanning"
  /\ Open(w) = {}
  /\ phase' = [phase EXCEPT ![w] = IF Satisfied(w) THEN "accepted" ELSE "refused"]
  /\ UNCHANGED <<policy, due, attempted, outcome>>

Abandon(w) ==
  /\ phase[w] \in {"waiting", "fanning"}
  /\ phase' = [phase EXCEPT ![w] = "gone"]
  /\ UNCHANGED <<policy, due, attempted, outcome>>

Next ==
  \E w \in Webhook :
    \/ Decline(w) \/ Answer(w) \/ Abandon(w)
    \/ \E targets \in (SUBSET Target) \ {{}} : Choose(w, targets)
    \/ \E t \in Target :
         Attempt(w, t) \/ \E o \in {"accepted", "failed"} : Conclude(w, t, o)

Spec == Init /\ [][Next]_vars
=============================================================================
