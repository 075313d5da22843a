---------------------------- MODULE MCIntakeQueue ----------------------------
(* Instances of IntakeQueue for TLC. *)
EXTENDS IntakeQueue, TLC

\* Messages and hosts are interchangeable in every safety property.
MessageSymmetry == Permutations(Messages)
Symmetry == MessageSymmetry \cup Permutations(Workers)
==============================================================================
