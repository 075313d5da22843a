---------------------------- MODULE MCPolicyStore ----------------------------
(* Instances of PolicyStore for TLC. *)
EXTENDS PolicyStore, TLC

Symmetry == Permutations(Clients)
==============================================================================
