---------------------------- MODULE Registration ----------------------------
(***************************************************************************)
(* `hmux register` clients (src/registration.rs) and the control server    *)
(* whose leases they keep alive (src/control.rs), with slow and lost       *)
(* answers, restarts of the server, and clients that stop or are killed.   *)
(*                                                                         *)
(* Time is relative: a lease and a timer count down to zero, and Tick      *)
(* takes one unit off each.  A client whose timer is up acts before the    *)
(* next Tick.  A request runs at the server at any moment before it is     *)
(* dropped; one that its client gave up on may still run later.            *)
(***************************************************************************)
EXTENDS Integers, FiniteSets

CONSTANTS
  Client,          (* Register processes, each started once.               *)
  LeaseId,         (* Identifiers; a forgotten one may be drawn again.     *)
  NoLease,
  LeaseTtl,        (* lease_ttl of the server.                             *)
  MaxTargets,      (* max_targets of the server.                           *)
  RequestTimeout,  (* CONTROL_REQUEST_TIMEOUT.                             *)
  InitialDelay,    (* INITIAL_RECONNECT_DELAY.                             *)
  MaxDelay         (* MAX_RECONNECT_DELAY.                                 *)

ASSUME RegistrationAssumption ==
  /\ NoLease \notin LeaseId
  /\ {LeaseTtl, MaxTargets, RequestTimeout, InitialDelay, MaxDelay}
       \subseteq Nat \ {0}
  /\ InitialDelay <= MaxDelay

VARIABLES
  server,      (* Whether a server runs: "up" or "down".                   *)
  descriptor,  (* control.json: "none", "stale", "current" or "unusable".  *)
  leases,      (* Remaining life of the leases in the server's map.        *)
  target,      (* "loopback", or "other" for one the server refuses.     *)
  strays,      (* Requests that nobody waits for but that may still run.   *)
  pc,          (* Where register_until_shutdown is.                        *)
  lease,       (* The lease the client renews or removes.                  *)
  reach,       (* Its ControlClient has the running server's address.      *)
  call,        (* Its request: "idle", "sent", or answered "ok", "error".  *)
  timer,       (* What is left of its sleep or of its request's timeout.   *)
  delay,       (* reconnect_delay.                                         *)
  fate         (* What its surroundings did to it.                         *)

serverVars == <<server, descriptor, leases>>
loopVars == <<pc, lease, reach, timer, delay>>
vars == <<serverVars, strays, loopVars, call, fate, target>>

Calling == {"creating", "renewing", "removing"}
Place == {"connecting", "backoff", "holding", "exited"} \cup Calling
Fate == {"wanted", "signalled", "killed", "unread"}
Stray == [op: {"create", "renew", "remove"}, id: LeaseId]
Idle == [state |-> "idle", id |-> NoLease]
Sent == [state |-> "sent", id |-> NoLease]

(* lease_response: the client renews after a third of the lifetime.        *)
RenewAfterWholeTtl == LeaseTtl

RenewAfter == LeaseTtl \div 3

-----------------------------------------------------------------------------
(* The registry, one call at a time.                                       *)

Live(map) == {i \in DOMAIN map : map[i] > 0}

Put(map, i) == [j \in Live(map) \cup {i} |-> IF j = i THEN LeaseTtl ELSE map[j]]

Pruned(map) == [i \in Live(map) |-> map[i]]

Without(map, i) == [j \in DOMAIN map \ {i} |-> map[j]]

HasRoom(map) == Cardinality(Live(map)) < MaxTargets

(* Identifiers that no live lease, no client and no request mentions; the  *)
(* registry prunes an expired lease before it draws one.                   *)
Fresh ==
  LeaseId \ (Live(leases) \cup {m.id : m \in strays}
             \cup {lease[c] : c \in Client} \cup {call[c].id : c \in Client})

-----------------------------------------------------------------------------
Init ==
  /\ server = "down"
  /\ descriptor = "none"
  /\ leases = [i \in {} |-> 0]
  /\ strays = {}
  /\ pc = [c \in Client |-> "connecting"]
  /\ lease = [c \in Client |-> NoLease]
  /\ reach = [c \in Client |-> FALSE]
  /\ call = [c \in Client |-> Idle]
  /\ timer = [c \in Client |-> 0]
  /\ delay = [c \in Client |-> InitialDelay]
  /\ fate = [c \in Client |-> "wanted"]
  /\ target \in [Client -> {"loopback", "other"}]

(* The client goes to a place and waits there, for an answer or a timer.   *)
Await(c, place, id, duration) ==
  /\ pc' = [pc EXCEPT ![c] = place]
  /\ lease' = [lease EXCEPT ![c] = id]
  /\ timer' = [timer EXCEPT ![c] = duration]
  /\ call' = [call EXCEPT ![c] = IF place \in Calling THEN Sent ELSE Idle]

(* What may be left of the request that the client stops waiting for: the  *)
(* server may not have run it yet.  The identifier that a late create will *)
(* draw is drawn here.                                                     *)
Unexecuted(c) ==
  IF call[c].state # "sent" \/ ~reach[c] THEN {}
  ELSE IF pc[c] = "renewing" THEN {[op |-> "renew", id |-> lease[c]]}
  ELSE IF pc[c] = "removing" THEN {[op |-> "remove", id |-> lease[c]]}
  ELSE IF target[c] = "other" THEN {}
  ELSE {[op |-> "create", id |-> i] : i \in Fresh}

Leftovers(c) == {{}} \cup {{m} : m \in Unexecuted(c)}

(* A client without a timeout.                                             *)
SendFailsUntimed(c) == call[c].state # "idle" /\ ~reach[c]

(* send fails: the timeout passes, or nobody listens at the address, or    *)
(* another server does, which does not know the token.                     *)
SendFails(c) == call[c].state # "idle" /\ (timer[c] = 0 \/ ~reach[c])

Rejected(c) == call[c].state = "error" \/ SendFails(c)

(* What read_descriptor and from_descriptor accept.  They refuse a missing *)
(* file and an unusable one: of another protocol version, no JSON, or with *)
(* an address or a token that is not valid.                                *)
Usable == descriptor \in {"stale", "current"}

(* A client that takes a descriptor it cannot use for final.               *)
ConnectFailsReturns(c) ==
  /\ pc[c] = "connecting"
  /\ ~Usable
  /\ IF descriptor = "none" THEN Await(c, "backoff", NoLease, delay[c])
                             ELSE Await(c, "exited", NoLease, 0)
  /\ UNCHANGED <<serverVars, strays, reach, delay, fate, target>>

(* ControlClient::connect.                                                 *)
ConnectFails(c) ==
  /\ pc[c] = "connecting"
  /\ ~Usable
  /\ Await(c, "backoff", NoLease, delay[c])
  /\ UNCHANGED <<serverVars, strays, reach, delay, fate, target>>

Connect(c) ==
  /\ pc[c] = "connecting"
  /\ Usable
  /\ Await(c, "creating", NoLease, RequestTimeout)
  /\ reach' = [reach EXCEPT ![c] = descriptor = "current"]
  /\ UNCHANGED <<serverVars, strays, delay, fate, target>>

Registered(c) ==
  /\ pc[c] = "creating"
  /\ call[c].state = "ok"
  /\ Await(c, "holding", call[c].id, RenewAfter)
  /\ delay' = [delay EXCEPT ![c] = InitialDelay]
  /\ UNCHANGED <<serverVars, strays, reach, fate, target>>

(* on_registered cannot print the registration.                            *)
CallbackFails(c) ==
  /\ pc[c] = "creating"
  /\ call[c].state = "ok"
  /\ Await(c, "removing", call[c].id, RequestTimeout)
  /\ delay' = [delay EXCEPT ![c] = InitialDelay]
  /\ fate' = [fate EXCEPT ![c] = "unread"]
  /\ UNCHANGED <<serverVars, strays, reach, target>>

(* A client that takes a refusal for final.                                *)
NotRegisteredReturns(c) ==
  /\ pc[c] = "creating"
  /\ Rejected(c)
  /\ Await(c, "exited", NoLease, 0)
  /\ \E left \in Leftovers(c) : strays' = strays \cup left
  /\ UNCHANGED <<serverVars, reach, delay, fate, target>>

NotRegistered(c) ==
  /\ pc[c] = "creating"
  /\ Rejected(c)
  /\ Await(c, "backoff", NoLease, delay[c])
  /\ \E left \in Leftovers(c) : strays' = strays \cup left
  /\ UNCHANGED <<serverVars, reach, delay, fate, target>>

(* Doubling without min.                                                   *)
ReconnectUncapped(c) ==
  /\ pc[c] = "backoff"
  /\ timer[c] = 0
  /\ Await(c, "connecting", NoLease, 0)
  /\ delay' = [delay EXCEPT ![c] = 2 * @]
  /\ UNCHANGED <<serverVars, strays, reach, fate, target>>

Reconnect(c) ==
  /\ pc[c] = "backoff"
  /\ timer[c] = 0
  /\ Await(c, "connecting", NoLease, 0)
  /\ delay' = [delay EXCEPT ![c] = IF 2 * @ < MaxDelay THEN 2 * @ ELSE MaxDelay]
  /\ UNCHANGED <<serverVars, strays, reach, fate, target>>

RenewDue(c) ==
  /\ pc[c] = "holding"
  /\ timer[c] = 0
  /\ Await(c, "renewing", lease[c], RequestTimeout)
  /\ UNCHANGED <<serverVars, strays, reach, delay, fate, target>>

Renewed(c) ==
  /\ pc[c] = "renewing"
  /\ call[c].state = "ok"
  /\ Await(c, "holding", lease[c], RenewAfter)
  /\ UNCHANGED <<serverVars, strays, reach, delay, fate, target>>

(* A failed renewal that removes the lease but does not leave the loop.    *)
RenewFailedStays(c) ==
  /\ pc[c] = "renewing"
  /\ Rejected(c)
  /\ Await(c, "holding", lease[c], RenewAfter)
  /\ strays' = strays \cup {[op |-> "remove", id |-> lease[c]]}
  /\ UNCHANGED <<serverVars, reach, delay, fate, target>>

(* The removal is detached, and the loop starts over.                      *)
RenewFailed(c) ==
  /\ pc[c] = "renewing"
  /\ Rejected(c)
  /\ Await(c, "connecting", NoLease, 0)
  /\ \E left \in Leftovers(c) :
       strays' = strays \cup left \cup
         (IF reach[c] THEN {[op |-> "remove", id |-> lease[c]]} ELSE {})
  /\ UNCHANGED <<serverVars, reach, delay, fate, target>>

(* shutdown is not looked at while a renewal is awaited.                   *)
ShutdownUnregistered(c) ==
  /\ fate[c] = "signalled"
  /\ pc[c] \in {"connecting", "creating", "backoff"}
  /\ Await(c, "exited", NoLease, 0)
  /\ \E left \in Leftovers(c) : strays' = strays \cup left
  /\ UNCHANGED <<serverVars, reach, delay, fate, target>>

ShutdownHolding(c) ==
  /\ fate[c] = "signalled"
  /\ pc[c] = "holding"
  /\ Await(c, "removing", lease[c], RequestTimeout)
  /\ UNCHANGED <<serverVars, strays, reach, delay, fate, target>>

(* remove_lease_best_effort.                                               *)
Removed(c) ==
  /\ pc[c] = "removing"
  /\ call[c].state = "ok" \/ Rejected(c)
  /\ Await(c, "exited", NoLease, 0)
  /\ \E left \in Leftovers(c) : strays' = strays \cup left
  /\ UNCHANGED <<serverVars, reach, delay, fate, target>>

(* A termination signal, and a kill that lets nothing be cleaned up.       *)
Signal(c) ==
  /\ fate[c] = "wanted"
  /\ pc[c] # "exited"
  /\ fate' = [fate EXCEPT ![c] = "signalled"]
  /\ UNCHANGED <<serverVars, strays, loopVars, call, target>>

Kill(c) ==
  /\ pc[c] # "exited"
  /\ Await(c, "exited", NoLease, 0)
  /\ fate' = [fate EXCEPT ![c] = "killed"]
  /\ \E left \in Leftovers(c) : strays' = strays \cup left
  /\ UNCHANGED <<serverVars, reach, delay, target>>

-----------------------------------------------------------------------------
(* The control server.                                                     *)

Reply(c, state, id) ==
  /\ call' = [call EXCEPT ![c] = [state |-> state, id |-> id]]
  /\ UNCHANGED <<server, descriptor, strays, loopVars, fate, target>>

Arrived(c, place) == reach[c] /\ pc[c] = place /\ call[c].state = "sent"

Grant(c) ==
  /\ Arrived(c, "creating")
  /\ target[c] = "loopback"
  /\ HasRoom(leases)
  /\ \E i \in Fresh : leases' = Put(leases, i) /\ Reply(c, "ok", i)

RefuseTarget(c) ==
  /\ Arrived(c, "creating")
  /\ target[c] = "other"
  /\ Reply(c, "error", NoLease)
  /\ UNCHANGED leases

RefuseCapacity(c) ==
  /\ Arrived(c, "creating")
  /\ target[c] = "loopback"
  /\ ~HasRoom(leases)
  /\ leases' = Pruned(leases)
  /\ Reply(c, "error", NoLease)

Renew(c) ==
  /\ Arrived(c, "renewing")
  /\ IF lease[c] \in Live(leases)
     THEN leases' = Put(leases, lease[c]) /\ Reply(c, "ok", NoLease)
     ELSE leases' = Pruned(leases) /\ Reply(c, "error", NoLease)

Remove(c) ==
  /\ Arrived(c, "removing")
  /\ leases' = Without(leases, lease[c])
  /\ Reply(c, IF lease[c] \in DOMAIN leases THEN "ok" ELSE "error", NoLease)

(* A request that is sent again after it was run.                          *)
RunStrayAgain(m) ==
  /\ m \in strays
  /\ leases' =
       IF m.op = "remove" THEN Without(leases, m.id)
       ELSE IF m.op = "renew" /\ m.id \in Live(leases) THEN Put(leases, m.id)
       ELSE IF m.op = "create" /\ HasRoom(leases) THEN Put(leases, m.id)
       ELSE Pruned(leases)
  /\ UNCHANGED <<server, descriptor, strays, loopVars, call, fate, target>>

(* A request runs although its client does not wait for the answer.        *)
RunStray(m) ==
  /\ m \in strays
  /\ leases' =
       IF m.op = "remove" THEN Without(leases, m.id)
       ELSE IF m.op = "renew" /\ m.id \in Live(leases) THEN Put(leases, m.id)
       ELSE IF m.op = "create" /\ HasRoom(leases) THEN Put(leases, m.id)
       ELSE Pruned(leases)
  /\ strays' = strays \ {m}
  /\ UNCHANGED <<server, descriptor, loopVars, call, fate, target>>

LoseStray(m) ==
  /\ m \in strays
  /\ strays' = strays \ {m}
  /\ UNCHANGED <<serverVars, loopVars, call, fate, target>>

(* `hmux unregister`.                                                      *)
Unregister(i) ==
  /\ i \in DOMAIN leases
  /\ leases' = Without(leases, i)
  /\ UNCHANGED <<server, descriptor, strays, loopVars, call, fate, target>>

(* A server starts, or one of another version of hmux whose descriptor the *)
(* clients cannot use.                                                     *)
Start ==
  /\ server = "down"
  /\ server' = "up"
  /\ descriptor' \in {"current", "unusable"}
  /\ UNCHANGED <<leases, strays, loopVars, call, fate, target>>

(* The map, the connections and the address go with the process; only a    *)
(* graceful stop takes the descriptor along.                               *)
Stop ==
  /\ server = "up"
  /\ server' = "down"
  /\ descriptor' \in
       {"none", IF descriptor = "unusable" THEN "unusable" ELSE "stale"}
  /\ leases' = [i \in {} |-> 0]
  /\ strays' = {}
  /\ reach' = [c \in Client |-> FALSE]
  /\ UNCHANGED <<pc, lease, timer, delay, call, fate, target>>

Timed == {"backoff", "holding"} \cup Calling

Tick ==
  /\ \A c \in Client : pc[c] \in Timed => timer[c] > 0
  /\ timer' = [c \in Client |-> IF timer[c] > 0 THEN timer[c] - 1 ELSE 0]
  /\ leases' = [i \in DOMAIN leases |-> IF leases[i] > 0 THEN leases[i] - 1 ELSE 0]
  /\ UNCHANGED <<server, descriptor, strays, pc, lease, reach, delay, call,
                 fate, target>>

-----------------------------------------------------------------------------
Execute(c) ==
  Grant(c) \/ RefuseTarget(c) \/ RefuseCapacity(c) \/ Renew(c) \/ Remove(c)

(* What the client does by itself, and what it does with an answer.        *)
Proceed(c) ==
  \/ ConnectFails(c) \/ Connect(c) \/ NotRegistered(c) \/ Reconnect(c)
  \/ RenewDue(c) \/ RenewFailed(c)
  \/ ShutdownUnregistered(c) \/ ShutdownHolding(c) \/ Removed(c)

ClientStep(c) ==
  \/ Proceed(c) \/ Registered(c) \/ Renewed(c) \/ CallbackFails(c)
  \/ Signal(c) \/ Kill(c) \/ Execute(c)

ServerStep ==
  \/ Start \/ Stop
  \/ \E i \in LeaseId : Unregister(i)
  \/ \E m \in strays : RunStray(m) \/ LoseStray(m)

Next == Tick \/ ServerStep \/ \E c \in Client : ClientStep(c)

Spec == Init /\ [][Next]_vars

(* Time passes, clients run, an abandoned request comes to an end.  select *)
(* polls its branches in random order, so it sees a shutdown at last.  Of  *)
(* the server and the network: a client that keeps asking while the server *)
(* runs is answered in time at last.                                       *)
Fairness ==
  /\ WF_vars(Tick)
  /\ \A m \in Stray : SF_vars(RunStray(m) \/ LoseStray(m))
  /\ \A c \in Client : /\ WF_vars(Proceed(c))
                       /\ SF_vars(ShutdownUnregistered(c))
                       /\ SF_vars(ShutdownHolding(c))
                       /\ SF_vars(Grant(c))
                       /\ SF_vars(Registered(c))

FairSpec == Spec /\ Fairness

-----------------------------------------------------------------------------
TypeOK ==
  /\ server \in {"up", "down"}
  /\ descriptor \in {"none", "stale", "current", "unusable"}
  /\ DOMAIN leases \subseteq LeaseId
  /\ leases \in [DOMAIN leases -> 0 .. LeaseTtl]
  /\ strays \subseteq Stray
  /\ pc \in [Client -> Place]
  /\ lease \in [Client -> LeaseId \cup {NoLease}]
  /\ reach \in [Client -> BOOLEAN]
  /\ call \in [Client -> [state: {"idle", "sent", "ok", "error"},
                          id: LeaseId \cup {NoLease}]]
  /\ timer \in [Client -> Nat]
  /\ delay \in [Client -> InitialDelay .. MaxDelay]
  /\ fate \in [Client -> Fate]
  /\ target \in [Client -> {"loopback", "other"}]

Holds(c) == pc[c] \in {"holding", "renewing"}

(* A lease does not expire under a client that runs and renews it, however *)
(* slowly the server answers within CONTROL_REQUEST_TIMEOUT.  This is the  *)
(* margin of RENEW_INTERVAL_DIVISOR: it needs a TTL longer than a third of *)
(* itself and two timeouts.                                                *)
HeldIsLive ==
  \A c \in Client :
    Holds(c) /\ lease[c] \in DOMAIN leases => leases[lease[c]] > 0

(* Nothing but its end, the server's or an unregister command takes a      *)
(* lease away from the client that holds it: not the detached removal of   *)
(* an earlier lease, not a late request, not another client's prune.       *)
HeldLeaseIsSafe ==
  [][\A c \in Client :
       (/\ Holds(c) /\ lease[c] \in DOMAIN leases
        /\ pc'[c] \in {"holding", "renewing"} /\ lease[c] \notin DOMAIN leases')
       => Unregister(lease[c]) \/ Stop]_vars

(* The margin under which HeldIsLive holds.                                *)
Margin == LeaseTtl > RenewAfter + 2 * RequestTimeout

(* The invariant behind the two properties.  What a client waits for fits  *)
(* the place it is in, ...                                                 *)
CallsFitPlaces ==
  \A c \in Client :
    /\ lease[c] # NoLease <=> pc[c] \in {"holding", "renewing", "removing"}
    /\ call[c].state = "idle" <=> pc[c] \notin Calling
    /\ call[c].id # NoLease <=> pc[c] = "creating" /\ call[c].state = "ok"
    /\ pc[c] \in Calling => timer[c] <= RequestTimeout

(* ... nobody else, and no stray request, knows the lease of a client, ... *)
Mentions(c) == {lease[c], call[c].id} \ {NoLease}

HeldByOne ==
  \A c \in Client :
    /\ \A d \in Client \ {c} : Mentions(c) \cap Mentions(d) = {}
    /\ \A m \in strays : m.id \notin Mentions(c)

(* ... and as long as the map has the lease, it outlives the timer by what *)
(* the answers that were awaited since its last renewal may have taken.    *)
LeftAtLeast(c) ==
  timer[c] + LeaseTtl
    - (IF pc[c] = "holding" THEN RequestTimeout + RenewAfter
       ELSE IF call[c].state = "ok" THEN RequestTimeout
       ELSE 2 * RequestTimeout + RenewAfter)

Kept(c) ==
  pc[c] # "removing" =>
    \A i \in Mentions(c) \cap DOMAIN leases :
      call[c].state # "error" /\ leases[i] >= LeftAtLeast(c)

KeptInTime == \A c \in Client : Kept(c)

HoldingInvariant ==
  TypeOK /\ CallsFitPlaces /\ HeldByOne /\ (Margin => KeptInTime)

Orphan(i) ==
  /\ i \in Live(leases)
  /\ \A c \in Client : lease[c] # i /\ call[c].id # i

(* README.md:85-86: a lease nobody keeps alive "expires without manual     *)
(* cleanup", whether its client was killed, gave up on a slow create or    *)
(* left a late renewal behind.                                             *)
OrphansExpire == \A i \in LeaseId : Orphan(i) ~> i \notin Live(leases)

(* README.md:89: the client reconnects when the server restarts.  As long  *)
(* as it is wanted it comes to hold a live lease, again and again, once a  *)
(* server whose descriptor it can use stays up and nobody unregisters      *)
(* leases by hand.                                                         *)
RegisteredAtLast ==
  /\ <>[](server = "up" /\ descriptor = "current")
  /\ <>[][\A i \in LeaseId : ~Unregister(i)]_vars
  => \A c \in Client :
       [](fate[c] = "wanted" /\ target[c] = "loopback") =>
         []<>(Holds(c) /\ lease[c] \in Live(leases))

(* The client cannot tell what will never change (a target that is not     *)
(* loopback, a server of another protocol version) from a server that is   *)
(* not up yet.  Whatever servers do, for as long as it is wanted it holds  *)
(* a lease or starts over, again and again: no answer, no lost answer and  *)
(* no descriptor makes it give up or wait for ever (registration.rs:65).   *)
KeepsAsking ==
  \A c \in Client :
    [](fate[c] = "wanted") => []<>(pc[c] = "connecting" \/ Holds(c))

(* A client that is told to stop does so, though a renewal that it awaits  *)
(* or the removal at the end may find a server that does not answer.       *)
ShutdownEnds ==
  \A c \in Client : fate[c] = "signalled" ~> pc[c] = "exited"

-----------------------------------------------------------------------------
(* Statements of the documentation that the code does not keep.            *)

(* src/control.rs:32-33: clients renew every third of the TTL, "so a lease *)
(* survives two missed renewals before it expires".  At the shortest TTL   *)
(* that serve accepts, a lease with no missed renewal expires.             *)
SurvivesMissedRenewals == HeldIsLive

(* README.md:84-85: "A clean shutdown removes the lease immediately."      *)
CleanShutdownRemovesLease ==
  (\A c \in Client : pc[c] = "exited" /\ fate[c] = "signalled") =>
    Live(leases) = {}
=============================================================================
