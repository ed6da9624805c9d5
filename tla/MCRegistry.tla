----------------------------- MODULE MCRegistry -----------------------------
(* An instance of Registry for TLC: one registration for every host, one   *)
(* for a host that the webhook spells in another case, and one that is     *)
(* refused because its target is not loopback.                             *)
EXTENDS Registry, TLC

Post == [word |-> "post", case |-> "upper"]
HostLower == [word |-> "hooks", case |-> "lower"]
HostMixed == [word |-> "hooks", case |-> "mixed"]

MCWord == {"post", "hooks"}
MCPath == {"/hook"}

MCRequest ==
  { [method |-> Post, path |-> "/hook", host |-> NoHost,
     target |-> [kind |-> "ipv4", loopback |-> TRUE], preserve_host |-> FALSE],
    [method |-> Post, path |-> "/hook", host |-> HostLower,
     target |-> [kind |-> "domain", localhost |-> TRUE], preserve_host |-> TRUE],
    [method |-> Post, path |-> "/hook", host |-> HostLower,
     target |-> [kind |-> "ipv6", loopback |-> FALSE], preserve_host |-> TRUE] }

MCWebhook ==
  { [method |-> Post, path |-> "/hook", host |-> HostMixed] }

Symmetry == Permutations(Task) \cup Permutations(LeaseId)
=============================================================================
