------------------------ MODULE Registration_proofs ------------------------
(***************************************************************************)
(* Proofs about Registration for any number of clients, any lease lifetime *)
(* and any timeout.                                                        *)
(***************************************************************************)
EXTENDS Registration, TLAPS

LEMMA Durations ==
  /\ LeaseTtl \in Nat \ {0}
  /\ RequestTimeout \in Nat \ {0}
  /\ RenewAfter \in Nat
  /\ InitialDelay \in Nat \ {0}
  /\ MaxDelay \in Nat \ {0}
  /\ InitialDelay <= MaxDelay
BY RegistrationAssumption DEF RenewAfter

-----------------------------------------------------------------------------
(* The maps that the registry's operations make.                           *)

LEMMA PutTyped ==
  ASSUME NEW map, DOMAIN map \subseteq LeaseId,
         map \in [DOMAIN map -> 0 .. LeaseTtl], NEW i \in LeaseId
  PROVE  /\ DOMAIN Put(map, i) = Live(map) \cup {i}
         /\ DOMAIN Put(map, i) \subseteq LeaseId
         /\ Put(map, i) \in [DOMAIN Put(map, i) -> 0 .. LeaseTtl]
         /\ Put(map, i)[i] = LeaseTtl
         /\ \A j \in Live(map) : j # i => Put(map, i)[j] = map[j]
BY Durations DEF Put, Live

LEMMA PrunedTyped ==
  ASSUME NEW map, DOMAIN map \subseteq LeaseId,
         map \in [DOMAIN map -> 0 .. LeaseTtl]
  PROVE  /\ DOMAIN Pruned(map) = Live(map)
         /\ DOMAIN Pruned(map) \subseteq LeaseId
         /\ Pruned(map) \in [DOMAIN Pruned(map) -> 0 .. LeaseTtl]
         /\ \A j \in Live(map) : Pruned(map)[j] = map[j]
BY DEF Pruned, Live

LEMMA WithoutTyped ==
  ASSUME NEW map, DOMAIN map \subseteq LeaseId,
         map \in [DOMAIN map -> 0 .. LeaseTtl], NEW i
  PROVE  /\ DOMAIN Without(map, i) = DOMAIN map \ {i}
         /\ DOMAIN Without(map, i) \subseteq LeaseId
         /\ Without(map, i) \in [DOMAIN Without(map, i) -> 0 .. LeaseTtl]
         /\ \A j \in DOMAIN map \ {i} : Without(map, i)[j] = map[j]
BY DEF Without

-----------------------------------------------------------------------------
(* Who knows which lease.                                                  *)

LEMMA FreshIsUnknown ==
  ASSUME TypeOK, NEW i \in Fresh
  PROVE  /\ i \in LeaseId
         /\ i \notin Live(leases)
         /\ \A m \in strays : m.id # i
         /\ \A c \in Client : i \notin Mentions(c)
BY DEF Fresh, Mentions

LEMMA MentionedIsLease ==
  ASSUME TypeOK, NEW c \in Client
  PROVE  Mentions(c) \subseteq LeaseId
BY DEF TypeOK, Mentions

LEMMA LeftoversTyped ==
  ASSUME TypeOK, CallsFitPlaces, NEW c \in Client, NEW left \in Leftovers(c)
  PROVE  left \subseteq {m \in Stray : m.id \in Fresh \cup {lease[c]}}
<1>1. Unexecuted(c) \subseteq {m \in Stray : m.id \in Fresh \cup {lease[c]}}
  <2>1. pc[c] \in {"renewing", "removing"} => lease[c] \in LeaseId
    BY DEF TypeOK, CallsFitPlaces
  <2>2. Fresh \subseteq LeaseId
    BY DEF Fresh
  <2>3. {[op |-> "create", id |-> i] : i \in Fresh}
          \subseteq {m \in Stray : m.id \in Fresh \cup {lease[c]}}
    BY <2>2 DEF Stray
  <2> QED
    BY <2>1, <2>3 DEF Unexecuted, Stray
<1> QED
  BY <1>1 DEF Leftovers

-----------------------------------------------------------------------------
(* A step of the client's loop: it leaves for a place, with the lease it   *)
(* had, the one it was granted or none, and may leave requests behind.     *)

Moves(c, place, id, duration) ==
  /\ Await(c, place, id, duration)
  /\ place \in Place
  /\ id \in Mentions(c) \cup {NoLease}
  /\ duration \in Nat
  /\ id # NoLease <=> place \in {"holding", "renewing", "removing"}
  /\ place \in Calling => duration <= RequestTimeout
  /\ \/ id = NoLease
     \/ place = "removing"
     \/ /\ place = "holding"
        /\ call[c].state = "ok"
        /\ pc[c] \in {"creating", "renewing"}
        /\ duration = RenewAfter
     \/ /\ place = "renewing"
        /\ pc[c] = "holding"
        /\ timer[c] = 0
        /\ duration = RequestTimeout
  /\ strays' \subseteq
       strays \cup {m \in Stray : \/ m.id \in Fresh
                                  \/ m.id = lease[c] /\ id = NoLease}
  /\ delay' \in [Client -> InitialDelay .. MaxDelay]
  /\ reach' \in [Client -> BOOLEAN]
  /\ fate' \in [Client -> Fate]
  /\ UNCHANGED <<serverVars, target>>

LEMMA LoopMoves ==
  ASSUME TypeOK, CallsFitPlaces, NEW c \in Client,
         Proceed(c) \/ Registered(c) \/ Renewed(c) \/ CallbackFails(c) \/ Kill(c)
  PROVE  \E place, id, duration : Moves(c, place, id, duration)
<1> USE Durations DEF Moves, Place, Calling
<1>held. pc[c] \in {"holding", "renewing", "removing"} =>
           lease[c] # NoLease /\ lease[c] \in Mentions(c)
  BY DEF CallsFitPlaces, Mentions
<1>granted. pc[c] = "creating" /\ call[c].state = "ok" =>
              call[c].id # NoLease /\ call[c].id \in Mentions(c)
  BY DEF CallsFitPlaces, Mentions
<1>1. ASSUME ConnectFails(c)
      PROVE  Moves(c, "backoff", NoLease, delay[c])
  BY <1>1 DEF ConnectFails, TypeOK
<1>2. ASSUME Connect(c)
      PROVE  Moves(c, "creating", NoLease, RequestTimeout)
  BY <1>2 DEF Connect, TypeOK
<1>3. ASSUME Registered(c)
      PROVE  Moves(c, "holding", call[c].id, RenewAfter)
  BY <1>3, <1>granted DEF Registered, TypeOK
<1>4. ASSUME CallbackFails(c)
      PROVE  Moves(c, "removing", call[c].id, RequestTimeout)
  BY <1>4, <1>granted DEF CallbackFails, TypeOK, Fate
<1>5. ASSUME NotRegistered(c)
      PROVE  Moves(c, "backoff", NoLease, delay[c])
  BY <1>5, LeftoversTyped DEF NotRegistered, TypeOK
<1>6. ASSUME Reconnect(c)
      PROVE  Moves(c, "connecting", NoLease, 0)
  BY <1>6 DEF Reconnect, TypeOK
<1>7. ASSUME RenewDue(c)
      PROVE  Moves(c, "renewing", lease[c], RequestTimeout)
  BY <1>7, <1>held DEF RenewDue, TypeOK
<1>8. ASSUME Renewed(c)
      PROVE  Moves(c, "holding", lease[c], RenewAfter)
  BY <1>8, <1>held DEF Renewed, TypeOK
<1>9. ASSUME RenewFailed(c)
      PROVE  Moves(c, "connecting", NoLease, 0)
  <2>1. PICK left \in Leftovers(c) :
          strays' = strays \cup left \cup
            (IF reach[c] THEN {[op |-> "remove", id |-> lease[c]]} ELSE {})
    BY <1>9 DEF RenewFailed
  <2>2. [op |-> "remove", id |-> lease[c]] \in Stray
    BY <1>9, <1>held DEF RenewFailed, Stray, TypeOK
  <2> QED
    BY <1>9, <2>1, <2>2, LeftoversTyped DEF RenewFailed, TypeOK
<1>10. ASSUME ShutdownUnregistered(c)
       PROVE  Moves(c, "exited", NoLease, 0)
  BY <1>10, LeftoversTyped DEF ShutdownUnregistered, TypeOK
<1>11. ASSUME ShutdownHolding(c)
       PROVE  Moves(c, "removing", lease[c], RequestTimeout)
  BY <1>11, <1>held DEF ShutdownHolding, TypeOK
<1>12. ASSUME Removed(c)
       PROVE  Moves(c, "exited", NoLease, 0)
  BY <1>12, LeftoversTyped DEF Removed, TypeOK
<1>13. ASSUME Kill(c)
       PROVE  Moves(c, "exited", NoLease, 0)
  BY <1>13, LeftoversTyped DEF Kill, TypeOK, Fate
<1> HIDE DEF Moves
<1> QED
  BY <1>1, <1>2, <1>3, <1>4, <1>5, <1>6, <1>7, <1>8, <1>9, <1>10, <1>11,
     <1>12, <1>13
  DEF Proceed

LEMMA MovesType ==
  ASSUME TypeOK, CallsFitPlaces, NEW c \in Client, NEW place, NEW id,
         NEW duration, Moves(c, place, id, duration)
  PROVE  TypeOK' /\ CallsFitPlaces'
<1> DEFINE answer == IF place \in Calling THEN Sent ELSE Idle
<1>1. /\ pc' = [pc EXCEPT ![c] = place]
      /\ lease' = [lease EXCEPT ![c] = id]
      /\ timer' = [timer EXCEPT ![c] = duration]
      /\ call' = [call EXCEPT ![c] = answer]
      /\ id \in LeaseId \cup {NoLease}
  BY MentionedIsLease DEF Moves, Await
<1>2. /\ answer \in [state: {"idle", "sent", "ok", "error"},
                      id: LeaseId \cup {NoLease}]
      /\ answer.id = NoLease
      /\ answer.state = "idle" <=> place \notin Calling
      /\ answer.state \in {"idle", "sent"}
  BY DEF Sent, Idle
<1> HIDE DEF answer
<1>3. TypeOK'
  BY <1>1, <1>2 DEF TypeOK, Moves, serverVars
<1>4. ASSUME NEW d \in Client
      PROVE  /\ lease'[d] # NoLease <=>
                  pc'[d] \in {"holding", "renewing", "removing"}
             /\ call'[d].state = "idle" <=> pc'[d] \notin Calling
             /\ call'[d].id # NoLease <=>
                  pc'[d] = "creating" /\ call'[d].state = "ok"
             /\ pc'[d] \in Calling => timer'[d] <= RequestTimeout
  <2>1. CASE d = c
    BY <1>1, <1>2, <2>1 DEF Moves, TypeOK
  <2>2. CASE d # c
    BY <1>1, <2>2 DEF TypeOK, CallsFitPlaces
  <2> QED
    BY <2>1, <2>2
<1> QED
  BY <1>3, <1>4 DEF CallsFitPlaces

(* The client keeps what it knew or forgets it, the others keep theirs.    *)
LEMMA MovesMentions ==
  ASSUME TypeOK, NEW c \in Client, NEW place, NEW id, NEW duration,
         Moves(c, place, id, duration)
  PROVE  /\ Mentions(c)' = {id} \ {NoLease}
         /\ \A d \in Client \ {c} : Mentions(d)' = Mentions(d)
BY DEF Mentions, Moves, Await, TypeOK, Sent, Idle

LEMMA MovesHeldByOne ==
  ASSUME TypeOK, HeldByOne, NEW c \in Client, NEW place, NEW id,
         NEW duration, Moves(c, place, id, duration)
  PROVE  HeldByOne'
<1>1. /\ Mentions(c)' = {id} \ {NoLease}
      /\ Mentions(c)' \subseteq Mentions(c)
      /\ \A d \in Client \ {c} : Mentions(d)' = Mentions(d)
  BY MovesMentions DEF Moves
<1>2. \A d \in Client : Mentions(d)' \subseteq Mentions(d)
  BY <1>1
<1>3. ASSUME NEW m \in strays', NEW d \in Client
      PROVE  m.id \notin Mentions(d)'
  <2>1. CASE m \in strays
    BY <1>2, <2>1 DEF HeldByOne
  <2>2. CASE m.id \in Fresh
    BY <1>2, <2>2, FreshIsUnknown
  <2>3. CASE m \in Stray /\ m.id = lease[c] /\ id = NoLease
    <3>1. d = c => Mentions(d)' = {}
      BY <1>1, <2>3
    <3>2. lease[c] \in Mentions(c)
      BY <2>3, RegistrationAssumption DEF Stray, Mentions
    <3> QED
      BY <1>2, <2>3, <3>1, <3>2 DEF HeldByOne
  <2> QED
    BY <2>1, <2>2, <2>3 DEF Moves
<1> QED
  BY <1>2, <1>3 DEF HeldByOne

(* A client that the step does not concern keeps its lease in time.        *)
LEMMA OthersKept ==
  ASSUME NEW d \in Client, Kept(d),
         pc'[d] = pc[d], lease'[d] = lease[d], call'[d] = call[d],
         timer'[d] = timer[d],
         \A i \in Mentions(d) \cap DOMAIN leases' :
           i \in DOMAIN leases /\ leases'[i] = leases[i]
  PROVE  Kept(d)'
<1>1. Mentions(d)' = Mentions(d) /\ LeftAtLeast(d)' = LeftAtLeast(d)
  BY DEF Mentions, LeftAtLeast
<1> QED
  BY <1>1 DEF Kept

LEMMA MovesKept ==
  ASSUME TypeOK, CallsFitPlaces, KeptInTime, NEW c \in Client, NEW place, NEW id,
         NEW duration, Moves(c, place, id, duration)
  PROVE  KeptInTime'
<1>1. /\ pc' = [pc EXCEPT ![c] = place]
      /\ lease' = [lease EXCEPT ![c] = id]
      /\ timer' = [timer EXCEPT ![c] = duration]
      /\ call' = [call EXCEPT ![c] = IF place \in Calling THEN Sent ELSE Idle]
      /\ leases' = leases
  BY DEF Moves, Await, serverVars
<1>2. ASSUME NEW d \in Client \ {c}
      PROVE  Kept(d)'
  <2>1. /\ pc'[d] = pc[d] /\ lease'[d] = lease[d]
        /\ call'[d] = call[d] /\ timer'[d] = timer[d]
    BY <1>1 DEF TypeOK
  <2> QED
    BY <1>1, <2>1, OthersKept DEF KeptInTime
<1>3. Kept(c)'
  <2> SUFFICES ASSUME place # "removing", id # NoLease, id \in DOMAIN leases
               PROVE  call'[c].state # "error" /\ leases[id] >= LeftAtLeast(c)'
    BY <1>1, MovesMentions DEF Kept, TypeOK
  <2>0. /\ pc'[c] = place
        /\ timer'[c] = duration
        /\ call'[c].state \in {"idle", "sent"}
    BY <1>1 DEF TypeOK, Sent, Idle
  <2>1. id \in Mentions(c) \cap DOMAIN leases
    BY DEF Moves
  <2>2. leases[id] \in Nat /\ timer[c] \in Nat
    BY <2>1 DEF TypeOK
  <2>3. CASE place = "holding"
    <3>1. /\ call[c].state = "ok"
          /\ pc[c] \in {"creating", "renewing"}
          /\ duration = RenewAfter
      BY <2>3 DEF Moves
    <3>2. leases[id] >= timer[c] + LeaseTtl - RequestTimeout
      BY <2>1, <3>1 DEF KeptInTime, Kept, LeftAtLeast
    <3>3. LeftAtLeast(c)' = LeaseTtl - RequestTimeout
      BY <2>0, <2>3, <3>1, Durations DEF LeftAtLeast
    <3> QED
      BY <2>0, <2>2, <3>2, <3>3, Durations
  <2>4. CASE place = "renewing"
    <3>1. /\ pc[c] = "holding"
          /\ timer[c] = 0
          /\ duration = RequestTimeout
      BY <2>4 DEF Moves
    <3>2. leases[id] >= LeaseTtl - (RequestTimeout + RenewAfter)
      BY <2>1, <3>1, Durations DEF KeptInTime, Kept, LeftAtLeast
    <3>3. LeftAtLeast(c)' = LeaseTtl - (RequestTimeout + RenewAfter)
      BY <2>0, <2>4, <3>1, Durations DEF LeftAtLeast
    <3> QED
      BY <2>0, <3>2, <3>3
  <2> QED
    BY <2>3, <2>4 DEF Moves
<1> QED
  BY <1>2, <1>3 DEF KeptInTime

-----------------------------------------------------------------------------
(* A step of the server.                                                   *)

(* An operation on lease i drops or changes no other lease that is live.   *)
LEMMA MapStep ==
  ASSUME TypeOK, NEW i \in LeaseId, NEW map,
         \/ map = Put(leases, i)
         \/ map = Pruned(leases)
         \/ map = Without(leases, i)
         \/ map = leases
  PROVE  /\ DOMAIN map \subseteq LeaseId
         /\ map \in [DOMAIN map -> 0 .. LeaseTtl]
         /\ \A j \in DOMAIN map \ {i} : j \in DOMAIN leases /\ map[j] = leases[j]
         /\ Live(leases) \ {i} \subseteq DOMAIN map
<1>1. /\ DOMAIN leases \subseteq LeaseId
      /\ leases \in [DOMAIN leases -> 0 .. LeaseTtl]
      /\ Live(leases) \subseteq DOMAIN leases
  BY DEF TypeOK, Live
<1>2. CASE map = Put(leases, i)
  <2>1. /\ DOMAIN map = Live(leases) \cup {i}
        /\ DOMAIN map \subseteq LeaseId
        /\ map \in [DOMAIN map -> 0 .. LeaseTtl]
        /\ \A j \in Live(leases) : j # i => map[j] = leases[j]
    BY <1>1, <1>2, PutTyped
  <2> QED
    BY <1>1, <2>1
<1>3. CASE map = Pruned(leases)
  BY <1>1, <1>3, PrunedTyped
<1>4. CASE map = Without(leases, i)
  BY <1>1, <1>4, WithoutTyped
<1>5. CASE map = leases
  BY <1>1, <1>5
<1> QED
  BY <1>2, <1>3, <1>4, <1>5

(* The server answers a client that waits: the operation is about the      *)
(* client's lease, or about one that is granted to it.                     *)
Answers(c, state, id, i) ==
  /\ Reply(c, state, id)
  /\ pc[c] \in Calling
  /\ call[c].state = "sent"
  /\ state \in {"ok", "error"}
  /\ i \in LeaseId
  /\ \/ pc[c] = "creating" /\ state = "ok" /\ id = i /\ i \in Fresh
     \/ pc[c] # "creating" /\ id = NoLease /\ i = lease[c]
  /\ \/ leases' = Put(leases, i) /\ state = "ok"
     \/ leases' = Pruned(leases) /\ i = lease[c] /\ i \notin Live(leases)
     \/ leases' = Without(leases, i) /\ pc[c] = "removing"

(* A refused create is about no lease at all.                              *)
Refuses(c) ==
  /\ Reply(c, "error", NoLease)
  /\ pc[c] = "creating"
  /\ call[c].state = "sent"
  /\ leases' \in {leases, Pruned(leases)}

LEMMA ExecuteAnswers ==
  ASSUME TypeOK, CallsFitPlaces, NEW c \in Client, Execute(c)
  PROVE  Refuses(c) \/ \E state, id, i : Answers(c, state, id, i)
<1>held. pc[c] \in {"renewing", "removing"} => lease[c] \in LeaseId
  BY DEF CallsFitPlaces, TypeOK
<1>1. ASSUME NEW i \in Fresh, Arrived(c, "creating"), Reply(c, "ok", i),
             leases' = Put(leases, i)
      PROVE  Answers(c, "ok", i, i)
  BY <1>1, FreshIsUnknown, RegistrationAssumption DEF Answers, Arrived, Calling
<1>2. ASSUME RefuseTarget(c) \/ RefuseCapacity(c)
      PROVE  Refuses(c)
  BY <1>2 DEF RefuseTarget, RefuseCapacity, Refuses, Arrived
<1>3. ASSUME Renew(c)
      PROVE  \E state : Answers(c, state, NoLease, lease[c])
  <2>1. CASE lease[c] \in Live(leases)
    <3>1. Answers(c, "ok", NoLease, lease[c])
      BY <1>3, <1>held, <2>1 DEF Renew, Answers, Arrived, Calling
    <3> QED
      BY <3>1
  <2>2. CASE lease[c] \notin Live(leases)
    <3>1. Answers(c, "error", NoLease, lease[c])
      BY <1>3, <1>held, <2>2 DEF Renew, Answers, Arrived, Calling
    <3> QED
      BY <3>1
  <2> QED
    BY <2>1, <2>2
<1>4. ASSUME Remove(c)
      PROVE  \E state : Answers(c, state, NoLease, lease[c])
  <2>1. Answers(c, IF lease[c] \in DOMAIN leases THEN "ok" ELSE "error",
                NoLease, lease[c])
    BY <1>4, <1>held DEF Remove, Answers, Arrived, Calling
  <2> QED
    BY <2>1
<1> QED
  BY <1>1, <1>2, <1>3, <1>4 DEF Execute, Grant

LEMMA ReplyType ==
  ASSUME TypeOK, CallsFitPlaces, NEW c \in Client, NEW state \in {"ok", "error"},
         NEW id \in LeaseId \cup {NoLease}, Reply(c, state, id),
         pc[c] \in Calling,
         id # NoLease <=> pc[c] = "creating" /\ state = "ok",
         DOMAIN leases' \subseteq LeaseId,
         leases' \in [DOMAIN leases' -> 0 .. LeaseTtl]
  PROVE  TypeOK' /\ CallsFitPlaces'
<1> DEFINE answer == [state |-> state, id |-> id]
<1>1. /\ call' = [call EXCEPT ![c] = answer]
      /\ UNCHANGED <<server, descriptor, strays, pc, lease, reach, timer, delay,
                     fate, target>>
  BY DEF Reply, loopVars
<1>2. /\ answer \in [state: {"idle", "sent", "ok", "error"},
                      id: LeaseId \cup {NoLease}]
      /\ answer.id = id
      /\ answer.state = state
  OBVIOUS
<1> HIDE DEF answer
<1>3. TypeOK'
  BY <1>1, <1>2 DEF TypeOK
<1>4. ASSUME NEW d \in Client
      PROVE  /\ call'[d].state = "idle" <=> pc[d] \notin Calling
             /\ call'[d].id # NoLease <=>
                  pc[d] = "creating" /\ call'[d].state = "ok"
  <2>1. CASE d = c
    BY <1>1, <1>2, <2>1 DEF TypeOK
  <2>2. CASE d # c
    BY <1>1, <2>2 DEF TypeOK, CallsFitPlaces
  <2> QED
    BY <2>1, <2>2
<1> QED
  BY <1>1, <1>3, <1>4 DEF CallsFitPlaces

LEMMA ReplyMentions ==
  ASSUME TypeOK, CallsFitPlaces, NEW c \in Client, NEW state, NEW id,
         Reply(c, state, id), call[c].state = "sent"
  PROVE  /\ Mentions(c)' = Mentions(c) \cup ({id} \ {NoLease})
         /\ \A d \in Client \ {c} : Mentions(d)' = Mentions(d)
<1>1. call[c].id = NoLease
  BY DEF CallsFitPlaces
<1>2. call'[c].id = id /\ \A d \in Client \ {c} : call'[d] = call[d]
  BY DEF Reply, TypeOK
<1>3. lease' = lease
  BY DEF Reply, loopVars
<1> QED
  BY <1>1, <1>2, <1>3 DEF Mentions

LEMMA RefusesKeeps ==
  ASSUME TypeOK, CallsFitPlaces, HeldByOne, NEW c \in Client, Refuses(c)
  PROVE  /\ TypeOK' /\ CallsFitPlaces' /\ HeldByOne'
         /\ KeptInTime => KeptInTime'
         /\ Live(leases) \subseteq DOMAIN leases'
<1>1. /\ Reply(c, "error", NoLease)
      /\ pc[c] = "creating"
      /\ call[c].state = "sent"
      /\ leases' = leases \/ leases' = Pruned(leases)
  BY DEF Refuses
<1>2. /\ DOMAIN leases' \subseteq LeaseId
      /\ leases' \in [DOMAIN leases' -> 0 .. LeaseTtl]
      /\ \A j \in DOMAIN leases' : j \in DOMAIN leases /\ leases'[j] = leases[j]
      /\ Live(leases) \subseteq DOMAIN leases'
  <2>1. /\ DOMAIN leases \subseteq LeaseId
        /\ leases \in [DOMAIN leases -> 0 .. LeaseTtl]
        /\ Live(leases) \subseteq DOMAIN leases
    BY DEF TypeOK, Live
  <2>2. /\ DOMAIN Pruned(leases) = Live(leases)
        /\ DOMAIN Pruned(leases) \subseteq LeaseId
        /\ Pruned(leases) \in [DOMAIN Pruned(leases) -> 0 .. LeaseTtl]
        /\ \A j \in Live(leases) : Pruned(leases)[j] = leases[j]
    BY <2>1, PrunedTyped
  <2> QED
    BY <1>1, <2>1, <2>2
<1>3. TypeOK' /\ CallsFitPlaces'
  BY <1>1, <1>2, ReplyType DEF Calling
<1>4. /\ \A d \in Client : Mentions(d)' = Mentions(d)
      /\ Mentions(c) = {}
  BY <1>1, ReplyMentions DEF CallsFitPlaces, Mentions
<1>5. HeldByOne'
  BY <1>1, <1>4 DEF HeldByOne, Reply
<1>6. ASSUME KeptInTime
      PROVE  KeptInTime'
  <2>1. Kept(c)'
    BY <1>4 DEF Kept
  <2>2. ASSUME NEW d \in Client \ {c}
        PROVE  Kept(d)'
    <3>1. /\ pc'[d] = pc[d] /\ lease'[d] = lease[d]
          /\ call'[d] = call[d] /\ timer'[d] = timer[d]
      BY <1>1 DEF Reply, loopVars, TypeOK
    <3> QED
      BY <1>2, <1>6, <3>1, OthersKept DEF KeptInTime
  <2> QED
    BY <2>1, <2>2 DEF KeptInTime
<1> QED
  BY <1>2, <1>3, <1>5, <1>6

LEMMA AnswersKeeps ==
  ASSUME TypeOK, CallsFitPlaces, HeldByOne, NEW c \in Client, NEW state, NEW id,
         NEW i, Answers(c, state, id, i)
  PROVE  /\ TypeOK' /\ CallsFitPlaces' /\ HeldByOne'
         /\ KeptInTime => KeptInTime'
         /\ \A d \in Client :
              Holds(d) => (lease[d] \in Live(leases) => lease[d] \in DOMAIN leases')
<1>1. /\ Reply(c, state, id)
      /\ pc[c] \in Calling
      /\ call[c].state = "sent"
      /\ state \in {"ok", "error"}
      /\ i \in LeaseId
      /\ \/ pc[c] = "creating" /\ state = "ok" /\ id = i /\ i \in Fresh
         \/ pc[c] # "creating" /\ id = NoLease /\ i = lease[c]
  BY DEF Answers
<1>2. /\ DOMAIN leases' \subseteq LeaseId
      /\ leases' \in [DOMAIN leases' -> 0 .. LeaseTtl]
      /\ \A j \in DOMAIN leases' \ {i} :
           j \in DOMAIN leases /\ leases'[j] = leases[j]
      /\ Live(leases) \ {i} \subseteq DOMAIN leases'
  BY <1>1, MapStep DEF Answers
<1>3. TypeOK' /\ CallsFitPlaces'
  BY <1>1, <1>2, ReplyType, RegistrationAssumption
<1>4. /\ Mentions(c)' = Mentions(c) \cup ({id} \ {NoLease})
      /\ \A d \in Client \ {c} : Mentions(d)' = Mentions(d) /\ i \notin Mentions(d)
  <2>1. ASSUME NEW d \in Client \ {c}
        PROVE  i \notin Mentions(d)
    <3>1. CASE i \in Fresh
      BY <3>1, FreshIsUnknown
    <3>2. CASE i = lease[c]
      <4>1. i \in Mentions(c)
        BY <1>1, <3>2, RegistrationAssumption DEF Mentions
      <4> QED
        BY <4>1 DEF HeldByOne
    <3> QED
      BY <1>1, <3>1, <3>2
  <2> QED
    BY <1>1, <2>1, ReplyMentions
<1>5. HeldByOne'
  <2>1. strays' = strays
    BY <1>1 DEF Reply
  <2>2. id # NoLease => /\ \A m \in strays : m.id # id
                        /\ \A d \in Client : id \notin Mentions(d)
    BY <1>1, FreshIsUnknown
  <2> QED
    BY <1>4, <2>1, <2>2 DEF HeldByOne
<1>6. ASSUME KeptInTime
      PROVE  KeptInTime'
  <2>1. Kept(c)'
    <3>0. /\ pc'[c] = pc[c]
          /\ timer'[c] = timer[c]
          /\ timer[c] \in 0 .. RequestTimeout
          /\ call'[c].state = state
      BY <1>1, Durations DEF Reply, loopVars, TypeOK, CallsFitPlaces
    <3> SUFFICES ASSUME pc[c] # "removing", NEW j \in Mentions(c)' \cap DOMAIN leases'
                 PROVE  state # "error" /\ leases'[j] >= LeftAtLeast(c)'
      BY <3>0 DEF Kept
    <3>1. j = i
      <4>1. CASE id # NoLease
        <5>1. Mentions(c) = {}
          BY <1>1, <4>1 DEF Mentions, CallsFitPlaces
        <5> QED
          BY <1>1, <1>4, <4>1, <5>1
      <4>2. CASE id = NoLease
        <5>1. j \in Mentions(c)
          BY <1>4, <4>2
        <5>2. call[c].id = NoLease
          BY <1>1 DEF CallsFitPlaces
        <5> QED
          BY <1>1, <4>2, <5>1, <5>2, RegistrationAssumption DEF Mentions
      <4> QED
        BY <4>1, <4>2
    <3>2. leases' # Pruned(leases) \/ i \in Live(leases)
      BY <3>1, PrunedTyped DEF TypeOK
    <3>3. state = "ok" /\ leases' = Put(leases, i)
      BY <3>2 DEF Answers
    <3>4. leases'[i] = LeaseTtl
      BY <1>1, <3>3, PutTyped DEF TypeOK
    <3>5. LeftAtLeast(c)' = timer[c] + LeaseTtl - RequestTimeout
      BY <1>1, <3>0, <3>3 DEF LeftAtLeast, Calling
    <3> QED
      BY <3>0, <3>1, <3>3, <3>4, <3>5, Durations
  <2>2. ASSUME NEW d \in Client \ {c}
        PROVE  Kept(d)'
    <3>1. /\ pc'[d] = pc[d] /\ lease'[d] = lease[d]
          /\ call'[d] = call[d] /\ timer'[d] = timer[d]
      BY <1>1 DEF Reply, loopVars, TypeOK
    <3> QED
      BY <1>2, <1>4, <1>6, <3>1, OthersKept DEF KeptInTime
  <2> QED
    BY <2>1, <2>2 DEF KeptInTime
<1>7. ASSUME NEW d \in Client, Holds(d), lease[d] \in Live(leases)
      PROVE  lease[d] \in DOMAIN leases'
  <2>1. CASE d # c
    <3>1. lease[d] \in Mentions(d)
      BY <1>7 DEF Holds, CallsFitPlaces, Mentions
    <3> QED
      BY <1>2, <1>4, <1>7, <2>1, <3>1
  <2>2. CASE d = c
    <3>1. i = lease[c] /\ pc[c] # "removing"
      BY <1>1, <1>7, <2>2 DEF Holds
    <3>2. leases' = Put(leases, i)
      BY <1>7, <2>2, <3>1 DEF Answers
    <3>3. DOMAIN leases' = Live(leases) \cup {i}
      BY <1>1, <3>2, PutTyped DEF TypeOK
    <3> QED
      BY <2>2, <3>1, <3>3
  <2> QED
    BY <2>1, <2>2
<1> QED
  BY <1>2, <1>3, <1>5, <1>6, <1>7

(* A step that changes nothing about the clients, and leases only that no  *)
(* client knows.                                                           *)
LEMMA QuietKeeps ==
  ASSUME TypeOK, CallsFitPlaces, HeldByOne,
         UNCHANGED <<pc, lease, timer, delay, call, target>>,
         server' \in {"up", "down"},
         descriptor' \in {"none", "stale", "current", "unusable"},
         reach' \in [Client -> BOOLEAN],
         fate' \in [Client -> Fate],
         strays' \subseteq strays,
         DOMAIN leases' \subseteq LeaseId,
         leases' \in [DOMAIN leases' -> 0 .. LeaseTtl],
         \A d \in Client : \A j \in Mentions(d) \cap DOMAIN leases' :
           j \in DOMAIN leases /\ leases'[j] = leases[j]
  PROVE  /\ TypeOK' /\ CallsFitPlaces' /\ HeldByOne'
         /\ KeptInTime => KeptInTime'
<1>1. TypeOK' /\ CallsFitPlaces'
  BY DEF TypeOK, CallsFitPlaces
<1>2. \A d \in Client : Mentions(d)' = Mentions(d)
  BY DEF Mentions
<1>3. HeldByOne'
  BY <1>2 DEF HeldByOne
<1>4. KeptInTime => KeptInTime'
  BY OthersKept DEF KeptInTime
<1> QED
  BY <1>1, <1>3, <1>4

LEMMA ServerKeeps ==
  ASSUME TypeOK, CallsFitPlaces, HeldByOne, ServerStep
  PROVE  /\ TypeOK' /\ CallsFitPlaces' /\ HeldByOne'
         /\ KeptInTime => KeptInTime'
         /\ \/ Stop
            \/ \A d \in Client :
                 /\ Holds(d)
                 /\ lease[d] \in Live(leases)
                 /\ lease[d] \notin DOMAIN leases'
                 => Unregister(lease[d])
<1>held. \A d \in Client : Holds(d) => lease[d] \in Mentions(d)
  BY DEF Holds, CallsFitPlaces, Mentions
<1>live. Live(leases) \subseteq DOMAIN leases
  BY DEF Live
<1>1. CASE Start
  <2>1. /\ leases' = leases
        /\ server' = "up" /\ descriptor' \in {"current", "unusable"}
        /\ UNCHANGED <<strays, pc, lease, reach, timer, delay, call, fate, target>>
    BY <1>1 DEF Start, loopVars
  <2>2. /\ TypeOK' /\ CallsFitPlaces' /\ HeldByOne'
        /\ KeptInTime => KeptInTime'
    BY <2>1, QuietKeeps DEF TypeOK
  <2> QED
    BY <1>live, <2>1, <2>2
<1>2. CASE Stop
  <2>1. /\ DOMAIN leases' = {}
        /\ leases' \in [DOMAIN leases' -> 0 .. LeaseTtl]
        /\ strays' = {}
        /\ server' = "down" /\ descriptor' \in {"none", "stale", "unusable"}
        /\ reach' = [c \in Client |-> FALSE]
        /\ UNCHANGED <<pc, lease, timer, delay, call, fate, target>>
    BY <1>2 DEF Stop
  <2>2. /\ TypeOK' /\ CallsFitPlaces' /\ HeldByOne'
        /\ KeptInTime => KeptInTime'
    BY <2>1, QuietKeeps DEF TypeOK
  <2> QED
    BY <1>2, <2>2
<1>3. ASSUME NEW i \in LeaseId, Unregister(i)
      PROVE  /\ TypeOK' /\ CallsFitPlaces' /\ HeldByOne'
             /\ KeptInTime => KeptInTime'
             /\ \A d \in Client :
                  /\ Holds(d)
                  /\ lease[d] \in Live(leases)
                  /\ lease[d] \notin DOMAIN leases'
                  => Unregister(lease[d])
  <2>1. /\ leases' = Without(leases, i)
        /\ UNCHANGED <<server, descriptor, strays, pc, lease, reach, timer, delay,
                       call, fate, target>>
    BY <1>3 DEF Unregister, loopVars
  <2>2. /\ DOMAIN leases' = DOMAIN leases \ {i}
        /\ DOMAIN leases' \subseteq LeaseId
        /\ leases' \in [DOMAIN leases' -> 0 .. LeaseTtl]
        /\ \A j \in DOMAIN leases \ {i} : leases'[j] = leases[j]
    BY <2>1, WithoutTyped DEF TypeOK
  <2>3. /\ TypeOK' /\ CallsFitPlaces' /\ HeldByOne'
        /\ KeptInTime => KeptInTime'
    BY <2>1, <2>2, QuietKeeps DEF TypeOK
  <2> QED
    BY <1>3, <1>live, <2>2, <2>3
<1>4. ASSUME NEW m \in strays, RunStray(m) \/ LoseStray(m)
      PROVE  /\ TypeOK' /\ CallsFitPlaces' /\ HeldByOne'
             /\ KeptInTime => KeptInTime'
             /\ \A d \in Client :
                  /\ Holds(d)
                  /\ lease[d] \in Live(leases)
                  => lease[d] \in DOMAIN leases'
  <2>1. /\ strays' \subseteq strays
        /\ UNCHANGED <<server, descriptor, pc, lease, reach, timer, delay,
                       call, fate, target>>
    BY <1>4 DEF RunStray, LoseStray, loopVars, serverVars
  <2>2. /\ m.id \in LeaseId
        /\ \A d \in Client : m.id \notin Mentions(d)
    BY DEF TypeOK, Stray, HeldByOne
  <2>3. \/ leases' = Put(leases, m.id)
        \/ leases' = Pruned(leases)
        \/ leases' = Without(leases, m.id)
        \/ leases' = leases
    BY <1>4 DEF RunStray, LoseStray, serverVars
  <2>4. /\ DOMAIN leases' \subseteq LeaseId
        /\ leases' \in [DOMAIN leases' -> 0 .. LeaseTtl]
        /\ \A j \in DOMAIN leases' \ {m.id} :
             j \in DOMAIN leases /\ leases'[j] = leases[j]
        /\ Live(leases) \ {m.id} \subseteq DOMAIN leases'
    BY <2>2, <2>3, MapStep
  <2>5. /\ TypeOK' /\ CallsFitPlaces' /\ HeldByOne'
        /\ KeptInTime => KeptInTime'
    BY <2>1, <2>2, <2>4, QuietKeeps DEF TypeOK
  <2> QED
    BY <1>held, <2>2, <2>4, <2>5
<1> QED
  BY <1>1, <1>2, <1>3, <1>4 DEF ServerStep

LEMMA SignalKeeps ==
  ASSUME TypeOK, CallsFitPlaces, HeldByOne, NEW c \in Client, Signal(c)
  PROVE  /\ TypeOK' /\ CallsFitPlaces' /\ HeldByOne'
         /\ KeptInTime => KeptInTime'
         /\ leases' = leases
<1>1. /\ UNCHANGED <<server, descriptor, leases, strays, pc, lease, reach, timer,
                     delay, call, target>>
      /\ fate' \in [Client -> Fate]
  BY DEF Signal, serverVars, loopVars, TypeOK, Fate
<1> QED
  BY <1>1, QuietKeeps DEF TypeOK

-----------------------------------------------------------------------------
(* Time.  The margin keeps what a client holds alive until it acts.        *)

LEMMA KeptIsLive ==
  ASSUME TypeOK, KeptInTime, Margin, NEW c \in Client, pc[c] # "removing",
         NEW i \in Mentions(c) \cap DOMAIN leases
  PROVE  leases[i] > 0
<1>1. leases[i] \in Nat /\ timer[c] \in Nat
  BY DEF TypeOK
<1>2. leases[i] >= LeftAtLeast(c)
  BY DEF KeptInTime, Kept
<1>3. LeftAtLeast(c) > 0
  BY <1>1, Durations DEF LeftAtLeast, Margin
<1>4. LeftAtLeast(c) \in Int
  BY <1>1, Durations DEF LeftAtLeast
<1> QED
  BY <1>1, <1>2, <1>3, <1>4

LEMMA TickKeeps ==
  ASSUME TypeOK, CallsFitPlaces, HeldByOne, Tick
  PROVE  /\ TypeOK' /\ CallsFitPlaces' /\ HeldByOne'
         /\ Margin /\ KeptInTime => KeptInTime'
         /\ DOMAIN leases' = DOMAIN leases
<1>1. /\ \A c \in Client : pc[c] \in Timed => timer[c] > 0
      /\ timer' = [c \in Client |-> IF timer[c] > 0 THEN timer[c] - 1 ELSE 0]
      /\ leases' = [i \in DOMAIN leases |->
                      IF leases[i] > 0 THEN leases[i] - 1 ELSE 0]
      /\ UNCHANGED <<server, descriptor, strays, pc, lease, reach, delay, call,
                     fate, target>>
  BY DEF Tick
<1>2. DOMAIN leases' = DOMAIN leases
  BY <1>1
<1>3. leases' \in [DOMAIN leases' -> 0 .. LeaseTtl]
  BY <1>1, Durations DEF TypeOK
<1>4. timer' \in [Client -> Nat] /\ \A c \in Client : timer'[c] <= timer[c]
  BY <1>1 DEF TypeOK
<1>5. TypeOK'
  BY <1>1, <1>2, <1>3, <1>4 DEF TypeOK
<1>6. CallsFitPlaces'
  <2>1. \A c \in Client : timer[c] <= RequestTimeout => timer'[c] <= RequestTimeout
    BY <1>4, Durations DEF TypeOK
  <2> QED
    BY <1>1, <2>1 DEF CallsFitPlaces
<1>7. \A c \in Client : Mentions(c)' = Mentions(c)
  BY <1>1 DEF Mentions
<1>8. HeldByOne'
  BY <1>1, <1>7 DEF HeldByOne
<1>9. ASSUME Margin, KeptInTime, NEW c \in Client
      PROVE  Kept(c)'
  <2> SUFFICES ASSUME pc[c] # "removing", NEW i \in Mentions(c) \cap DOMAIN leases
               PROVE  call[c].state # "error" /\ leases'[i] >= LeftAtLeast(c)'
    BY <1>1, <1>2, <1>7 DEF Kept
  <2>1. leases[i] > 0 /\ leases[i] \in Nat
    BY <1>9, KeptIsLive DEF TypeOK
  <2>2. call[c].state # "error" /\ leases[i] >= LeftAtLeast(c)
    BY <1>9 DEF KeptInTime, Kept
  <2>3. pc[c] \in Timed
    BY DEF Mentions, CallsFitPlaces, Timed, Calling
  <2>4. timer[c] \in Nat /\ timer'[c] = timer[c] - 1
    BY <1>1, <2>3 DEF TypeOK
  <2>5. leases'[i] = leases[i] - 1
    BY <1>1, <2>1
  <2>6. LeftAtLeast(c) \in Int /\ LeftAtLeast(c)' = LeftAtLeast(c) - 1
    BY <1>1, <2>4, Durations DEF LeftAtLeast
  <2> QED
    BY <2>1, <2>2, <2>5, <2>6
<1> QED
  BY <1>2, <1>5, <1>6, <1>8, <1>9 DEF KeptInTime

-----------------------------------------------------------------------------
LEMMA InvariantInit == Init => HoldingInvariant
<1> SUFFICES ASSUME Init PROVE HoldingInvariant
  OBVIOUS
<1>1. TypeOK
  BY Durations DEF Init, TypeOK, Place, Idle, Fate
<1>2. CallsFitPlaces
  BY DEF Init, CallsFitPlaces, Idle, Calling
<1>3. \A c \in Client : Mentions(c) = {}
  BY DEF Init, Mentions, Idle
<1> QED
  BY <1>1, <1>2, <1>3 DEF HoldingInvariant, HeldByOne, KeptInTime, Kept

LEMMA InvariantStep == HoldingInvariant /\ [Next]_vars => HoldingInvariant'
<1> SUFFICES ASSUME HoldingInvariant, [Next]_vars
             PROVE  HoldingInvariant'
  OBVIOUS
<1>now. TypeOK /\ CallsFitPlaces /\ HeldByOne /\ (Margin => KeptInTime)
  BY DEF HoldingInvariant
<1> DEFINE Keeps == /\ TypeOK' /\ CallsFitPlaces' /\ HeldByOne'
                    /\ Margin /\ KeptInTime => KeptInTime'
<1>1. ASSUME Tick PROVE Keeps
  BY <1>now, <1>1, TickKeeps
<1>2. ASSUME ServerStep PROVE Keeps
  BY <1>now, <1>2, ServerKeeps
<1>3. ASSUME NEW c \in Client, ClientStep(c)
      PROVE  Keeps
  <2>1. CASE Signal(c)
    BY <1>now, <2>1, SignalKeeps
  <2>2. CASE Execute(c)
    BY <1>now, <2>2, ExecuteAnswers, AnswersKeeps, RefusesKeeps
  <2>3. CASE Proceed(c) \/ Registered(c) \/ Renewed(c) \/ CallbackFails(c)
             \/ Kill(c)
    BY <1>now, <2>3, LoopMoves, MovesType, MovesHeldByOne, MovesKept
  <2> QED
    BY <1>3, <2>1, <2>2, <2>3 DEF ClientStep
<1>4. ASSUME UNCHANGED vars PROVE Keeps
  BY <1>now, <1>4, QuietKeeps DEF vars, serverVars, loopVars, TypeOK
<1>5. Keeps
  BY <1>1, <1>2, <1>3, <1>4 DEF Next
<1> QED
  BY <1>now, <1>5 DEF HoldingInvariant, Margin, RenewAfter

(* The invariant holds of every reachable state.                           *)
THEOREM HoldingInvariance == Spec => []HoldingInvariant
BY InvariantInit, InvariantStep, PTL DEF Spec

(* Every variable of the clients and of their server keeps its type: the   *)
(* backoff stays within its limits, and a request that was left behind     *)
(* names a lease.                                                          *)
THEOREM RegistrationTypeCorrect == Spec => []TypeOK
<1>1. HoldingInvariant => TypeOK
  BY DEF HoldingInvariant
<1> QED
  BY <1>1, HoldingInvariance, PTL

LEMMA HeldIsMentioned ==
  ASSUME CallsFitPlaces, NEW c \in Client, Holds(c)
  PROVE  lease[c] \in Mentions(c) /\ pc[c] # "removing"
BY DEF Holds, CallsFitPlaces, Mentions

(* A held lease does not expire while its client renews it, for every      *)
(* lifetime that is longer than a third of itself and two timeouts.        *)
THEOREM HeldLeasesAreLive == Margin => (Spec => []HeldIsLive)
<1> SUFFICES ASSUME Margin PROVE Spec => []HeldIsLive
  OBVIOUS
<1>1. HoldingInvariant => HeldIsLive
  BY HeldIsMentioned, KeptIsLive DEF HoldingInvariant, HeldIsLive
<1> QED
  BY <1>1, HoldingInvariance, PTL

(* Under the same margin, only the end of the server or an unregister      *)
(* command takes a lease from the client that holds it.                    *)
THEOREM HeldLeasesAreSafe == Margin => (Spec => HeldLeaseIsSafe)
<1> SUFFICES ASSUME Margin PROVE Spec => HeldLeaseIsSafe
  OBVIOUS
<1> DEFINE Safe(c) ==
      (/\ Holds(c) /\ lease[c] \in DOMAIN leases
       /\ pc'[c] \in {"holding", "renewing"} /\ lease[c] \notin DOMAIN leases')
      => Unregister(lease[c]) \/ Stop
<1>1. HoldingInvariant /\ [Next]_vars => [\A c \in Client : Safe(c)]_vars
  <2> SUFFICES ASSUME HoldingInvariant, Next, NEW c \in Client, Holds(c),
                      lease[c] \in DOMAIN leases, lease[c] \notin DOMAIN leases'
               PROVE  Unregister(lease[c]) \/ Stop
    OBVIOUS
  <2>now. TypeOK /\ CallsFitPlaces /\ HeldByOne /\ KeptInTime
    BY DEF HoldingInvariant
  <2>1. lease[c] \in Live(leases)
    BY <2>now, HeldIsMentioned, KeptIsLive DEF Live
  <2>2. CASE Tick
    BY <2>now, <2>2, TickKeeps
  <2>3. CASE ServerStep
    BY <2>now, <2>1, <2>3, ServerKeeps
  <2>4. ASSUME NEW d \in Client, ClientStep(d)
        PROVE  FALSE
    <3>1. CASE Signal(d)
      BY <2>now, <3>1, SignalKeeps
    <3>2. CASE Execute(d)
      <4>1. CASE Refuses(d)
        BY <2>now, <2>1, <4>1, RefusesKeeps
      <4>2. CASE \E state, id, i : Answers(d, state, id, i)
        BY <2>now, <2>1, <4>2, AnswersKeeps
      <4> QED
        BY <2>now, <3>2, <4>1, <4>2, ExecuteAnswers
    <3>3. CASE Proceed(d) \/ Registered(d) \/ Renewed(d) \/ CallbackFails(d)
               \/ Kill(d)
      <4>1. leases' = leases
        BY <2>now, <3>3, LoopMoves DEF Moves, serverVars
      <4> QED
        BY <4>1
    <3> QED
      BY <2>4, <3>1, <3>2, <3>3 DEF ClientStep
  <2> QED
    BY <2>2, <2>3, <2>4 DEF Next
<1> QED
  BY <1>1, HoldingInvariance, PTL DEF Spec, HeldLeaseIsSafe
=============================================================================
