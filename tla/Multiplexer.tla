---------------------------- MODULE Multiplexer ----------------------------
(***************************************************************************)
(* The ingress server on the real registry: the handlers of Ingress call   *)
(* Registry::matching of Registry, behind one lock with the handlers of    *)
(* the control server that create, renew and remove leases.                *)
(*                                                                         *)
(* forward calls matching without an await after it is admitted, so the    *)
(* instant matching reads is the instant of the admission.                 *)
(***************************************************************************)
EXTENDS Ingress

CONSTANTS
  Handler,           (* Handlers of the control server.                    *)
  Registration,      (* What they are asked to register.                   *)
  Webhook,           (* Heads of the webhooks.                             *)
  LeaseTtl, MaxTargets, AllowNonLoopback, MaxClock

(* The tasks of the two servers are different tasks.                       *)
ASSUME MultiplexerAssumption ==
  /\ Handler \cap Request = {}
  /\ Registration \subseteq CreateLeaseRequest
  /\ Webhook \subseteq IncomingHead
  /\ LeaseTtl \in Nat \ {0}
  /\ MaxTargets \in Nat \ {0}
  /\ AllowNonLoopback \in BOOLEAN
  /\ MaxClock \in Nat

VARIABLES
  clock, leases, issued, op, now, result,   (* Those of Registry.          *)
  due,       (* Leases that matched when the webhook was admitted and were *)
             (* live ever since, until its targets were chosen.            *)
  unknown    (* Leases that were beyond recovery when it was admitted.     *)

Leases == INSTANCE Registry WITH
  Task <- Handler \cup Request, Request <- Registration

registryVars == <<clock, leases, issued, op, now, result>>
allVars == <<vars, registryVars, due, unknown>>

MultiplexerInit ==
  /\ Init
  /\ Leases!Init
  /\ due = [r \in Request |-> {}]
  /\ unknown = [r \in Request |-> {}]

-----------------------------------------------------------------------------
(* Leases that a renew still keeps, although their time may be over.       *)
Rescued ==
  {i \in DOMAIN leases :
     \E h \in Handler : /\ Leases!Waiting(h, "renew")
                        /\ op[h].lease_id = i
                        /\ Leases!IsLive(leases[i], now[h])}

(* Leases that stop being due to the webhooks that wait for matching.      *)
NoLongerDue(gone) ==
  due' = [r \in Request |-> IF pc[r] = "matching" THEN due[r] \ gone ELSE due[r]]

Arrive(r, head) ==
  /\ Admit(r)
  /\ Leases!Call(r, [name |-> "matching", head |-> head])
  /\ due' = [due EXCEPT ![r] = {i \in Leases!LiveIds(leases, clock) :
                                  RouteMatches(leases[i].request, head)}]
  /\ unknown' = [unknown EXCEPT ![r] =
                   issued \ (Leases!LiveIds(leases, clock) \cup Rescued)]

(* matching returns to the handler, which goes on without an await.        *)
Matched(r) ==
  /\ Leases!Matching(r)
  /\ \/ result'[r].ids = {} /\ MatchNothing(r)
     \/ result'[r].ids # {} /\ MatchTargets(r, result'[r].ids)
  /\ UNCHANGED <<due, unknown>>

(* The handler future is dropped with whatever it waits for.               *)
Drop(r) ==
  /\ Disconnect(r)
  /\ IF op[r] = Leases!NoOp THEN UNCHANGED registryVars ELSE Leases!Cancel(r)
  /\ UNCHANGED <<due, unknown>>

(* Steps of the ingress that the registry has no part in.                  *)
IngressStep(r) ==
  /\ \/ RefuseCapacity(r)
     \/ \E error \in BodyError : RejectBody(r, error)
     \/ Spawn(r)
     \/ Respond(r)
     \/ \E l \in LeaseId :
          \/ AcquirePermit(r, l) \/ Timeout(r, l) \/ Join(r, l) \/ Abort(r, l)
          \/ \E reply \in Reply : Finish(r, l, reply)
  /\ UNCHANGED <<registryVars, due, unknown>>

(* The handlers of the control server.                                     *)
ControlStep(h) ==
  /\ \/ \E o \in Leases!Op :
          /\ o.name \in {"create", "renew", "remove"}
          /\ Leases!Call(h, o) \/ Leases!CallRefused(h, o)
     \/ Leases!Cancel(h)
     \/ Leases!Create(h)
  /\ UNCHANGED <<vars, due, unknown>>

(* A renew that got the lock later than a lease_ttl after it read the      *)
(* clock stores an expiry that has passed, over a later one if another     *)
(* renew overtook it.                                                      *)
Renewal(h) ==
  /\ Leases!Renew(h)
  /\ NoLongerDue({i \in DOMAIN leases' :
                    i = op[h].lease_id /\ ~Leases!IsLive(leases'[i], clock)})
  /\ UNCHANGED <<vars, unknown>>

Unregister(h) ==
  /\ Leases!Remove(h)
  /\ NoLongerDue({op[h].lease_id})
  /\ UNCHANGED <<vars, unknown>>

(* Time passes, and leases expire.                                         *)
ClockStep ==
  /\ Leases!Tick
  /\ NoLongerDue({i \in DOMAIN leases : ~Leases!IsLive(leases[i], clock')})
  /\ UNCHANGED <<vars, unknown>>

MultiplexerNext ==
  \/ ClockStep
  \/ \E h \in Handler : ControlStep(h) \/ Renewal(h) \/ Unregister(h)
  \/ \E r \in Request :
       \/ \E head \in Webhook : Arrive(r, head)
       \/ Matched(r) \/ Drop(r) \/ IngressStep(r)

MultiplexerSpec == MultiplexerInit /\ [][MultiplexerNext]_allVars

-----------------------------------------------------------------------------
(* A webhook that arrives after a lease was unregistered, or expired with  *)
(* no renewal on its way, is never sent to the lease's target, however     *)
(* long it waits for the lock, for its body or for a permit.               *)
NothingForTheGone == \A r \in Request : sent[r] \cap unknown[r] = {}

(* Under the policy "all", a 200 means that every target that was          *)
(* registered when the webhook arrived, and stayed so until the targets    *)
(* were chosen, accepted it, and "no-targets" means that there was none:   *)
(* no target is skipped because another handler prunes with an instant of  *)
(* its own.  What ends a registration is its expiry, the last renew to get *)
(* the lock having set it, and its remove.                                 *)
ClaimsEveryTarget(r) ==
  /\ pc[r] = "answered"
  /\ \/ response[r].reason = "no-targets"
     \/ Aggregated(r) /\ config.response_policy = "all" /\ response[r].status = 200

AllMeansEveryRegistered ==
  \A r \in Request :
    ClaimsEveryTarget(r) => \A l \in due[r] : delivery[<<r, l>>] = "accepted"

-----------------------------------------------------------------------------
(* The invariant that carries the two properties from the admission of a   *)
(* webhook to its deliveries.  The registry is well-typed and its          *)
(* snapshots lie in the past, ...                                          *)
RegistrySound == Leases!TypeOK /\ Leases!SnapshotInPast

(* ... a handler that waits for matching holds no target yet, ...          *)
WaitsForMatching ==
  \A r \in Request :
    /\ pc[r] = "matching" => op[r].name = "matching"
    /\ pc[r] \in {"new", "matching"} => targets[r] = {}
    /\ (pc[r] = "answered" /\ response[r].reason = "no-targets") => targets[r] = {}

(* ... what was gone when it was admitted is dead at its instant and no    *)
(* renew that waits for the lock can bring it back, ...                    *)
Beyond(i, instant) ==
  i \in DOMAIN leases =>
    /\ ~Leases!IsLive(leases[i], instant)
    /\ \A h \in Handler :
         (Leases!Waiting(h, "renew") /\ op[h].lease_id = i) =>
           ~Leases!IsLive(leases[i], now[h])

GoneStaysGone ==
  /\ unknown \in [Request -> SUBSET LeaseId]
  /\ \A r \in Request :
       /\ unknown[r] \subseteq issued
       /\ unknown[r] \cap targets[r] = {}
       /\ pc[r] = "matching" => \A i \in unknown[r] : Beyond(i, now[r])

(* ... and what is due to it is live and matches until it is chosen.       *)
DueIsChosen ==
  /\ due \in [Request -> SUBSET LeaseId]
  /\ \A r \in Request :
       /\ pc[r] = "matching" =>
            \A i \in due[r] : /\ i \in Leases!LiveIds(leases, clock)
                              /\ RouteMatches(leases[i].request, op[r].head)
       /\ pc[r] \notin {"matching", "dropped"} => due[r] \subseteq targets[r]

MultiplexerInvariant ==
  /\ RegistrySound
  /\ WaitsForMatching
  /\ GoneStaysGone
  /\ DueIsChosen
=============================================================================
