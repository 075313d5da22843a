-------------------------- MODULE MCReleasePipeline --------------------------
(* Instances of ReleasePipeline for TLC. *)
EXTENDS ReleasePipeline, TLC

CONSTANTS c1, c2, safe, flawed

\* One vulnerable and one clean package.
TwoPackages == (c1 :> flawed) @@ (c2 :> safe)
==============================================================================
