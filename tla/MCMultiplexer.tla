--------------------------- MODULE MCMultiplexer ---------------------------
(* An instance of Multiplexer for TLC: a registration that the webhook     *)
(* matches, and one that is refused because its target is not loopback.    *)
EXTENDS Multiplexer, TLC

Post == [word |-> "post", case |-> "upper"]

MCWord == {"post"}
MCPath == {"/hook"}

Loopback(value) == [kind |-> "ipv4", loopback |-> value]

MCRegistration ==
  { [method |-> Post, path |-> "/hook", host |-> NoHost,
     target |-> Loopback(TRUE), preserve_host |-> FALSE],
    [method |-> Post, path |-> "/hook", host |-> NoHost,
     target |-> Loopback(FALSE), preserve_host |-> FALSE] }

MCWebhook == {[method |-> Post, path |-> "/hook", host |-> NoHost]}

Symmetry == Permutations(Handler)
=============================================================================
