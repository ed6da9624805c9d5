----------------------------- MODULE MCIngress -----------------------------
(* Instances of Ingress, with its refinement mapping, for TLC.             *)
EXTENDS IngressRefinement, TLC

Symmetry == Permutations(Request) \cup Permutations(LeaseId)
=============================================================================
