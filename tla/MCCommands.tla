----------------------------- MODULE MCCommands -----------------------------
(* Instances of Commands for TLC.                                          *)
EXTENDS Commands, TLC

Symmetry == Permutations(Server)
=============================================================================
