--------------------------- MODULE MCPolicyConsole ---------------------------
(* Instances of PolicyConsole for TLC. *)
EXTENDS PolicyConsole
==============================================================================
