--------------------------- MODULE IntakeContract ---------------------------
(***************************************************************************)
(* What IIntakeQueue and its consumer promise a caller of EnqueueAsync: an *)
(* accepted message is worked on until it is finished, buried (dead-       *)
(* lettered) or purged, and from then on its fate is settled.              *)
(***************************************************************************)
CONSTANT Messages

VARIABLE fate

Init == fate = [m \in Messages |-> "absent"]

Accept(m) == fate[m] = "absent" /\ fate' = [fate EXCEPT ![m] = "waiting"]
Finish(m) == fate[m] = "waiting" /\ fate' = [fate EXCEPT ![m] = "done"]
Bury(m)   == fate[m] = "waiting" /\ fate' = [fate EXCEPT ![m] = "dead"]

\* The maintenance reset forgets every message there ever was.
Purge == fate' = [m \in Messages |-> IF fate[m] = "absent" THEN "absent" ELSE "purged"]

Next == Purge \/ \E m \in Messages : Accept(m) \/ Finish(m) \/ Bury(m)

Spec == Init /\ [][Next]_fate
=============================================================================
