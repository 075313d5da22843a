--------------------------- MODULE ReleasePipeline ---------------------------
(***************************************************************************)
(* The release pipeline: the PromotionBridge, the operators' requests and  *)
(* the arrival of packages, over the state they share.                     *)
(***************************************************************************)
EXTENDS PromotionBridge, OperatorRequests

CONSTANT MaxRestarts    \* bound: times the host stops

ASSUME PipelineAssumption == MaxRestarts \in Nat

VARIABLE restarts

vars == <<policy, quarantine, entered, approved, revoked, flush,
          phase, todo, sig, job, tracked, used, vetted, faults, outages,
          request, overrides, submitted, restarts>>

TypeOK == ReleaseTypeOK /\ BridgeTypeOK /\ RequestsTypeOK /\ restarts \in Nat

Init == ReleaseInit /\ BridgeInit /\ RequestsInit /\ restarts = 0

\* The flag is in memory only; the policy, the denylist and Nexus persist.
Restart ==
    /\ restarts < MaxRestarts /\ restarts' = restarts + 1
    /\ LoseBridge /\ LoseRequests
    /\ flush' = FALSE
    /\ UNCHANGED <<policy, quarantine, entered, approved, revoked>>

BridgeStep == (Cycle \/ Abort) /\ UNCHANGED <<requests, restarts>>

Arrival ==
    /\ \E c \in Components : Arrive(c)
    /\ UNCHANGED <<bridge, requests, restarts>>

RequestStep ==
    /\ \E o \in Operators :
         \/ \E k \in Kinds, p \in Packages : Submit(o, k, p)
         \/ Handle(o)
    /\ UNCHANGED <<bridge, restarts>>

Next == BridgeStep \/ Arrival \/ RequestStep \/ Restart

Spec == Init /\ [][Next]_vars

\* The loop keeps polling (every call of it times out in the end) and every
\* request is handled to its end.
Fairness ==
    /\ WF_vars(Cycle /\ UNCHANGED <<requests, restarts>>)
    /\ \A o \in Operators : WF_vars(Handle(o) /\ UNCHANGED <<bridge, restarts>>)

FairSpec == Spec /\ Fairness

------------------------------------------------------------------------------
\* Correctness

\* A component the bridge takes for handled under the policy in force was
\* judged under that very policy: a policy updated while a cycle or an
\* evaluation is under way never leaves an older verdict standing for it
\* (the signature is read before the gate reads the policy).
NoStaleVerdict ==
    \A c \in Components : tracked[c].sig = policy.ver => used[c] = policy.ver

\* Nothing is in the approved repository that no verdict ever let through and
\* no operator promoted by hand.
ApprovedHasWarrant == approved \subseteq vetted \cup overrides

\* Whatever updates the policy while it works, the bridge ends up judging every
\* component that stays in quarantine under the policy that remains.
JudgedUnderCurrentPolicy ==
    \A c \in Components :
        c \in quarantine ~> c \notin quarantine \/ used[c] = policy.ver

\* A clean package in quarantine ends up in the approved repository unless an
\* operator revokes it, a reset deletes it or a call of the bridge fails: what fails is
\* not tried again.
CleanIsPromoted ==
    \A c \in Components :
        c \in quarantine /\ PackageOf[c] \notin Vulnerable
            ~> c \notin quarantine \/ PackageOf[c] \in approved \cup revoked \/ faults + outages > 0

\* A package under an exception ends up approved, even if it was blocked or
\* revoked before, unless the exception goes away, a reset deletes it or a call of the
\* bridge fails.
ExceptionIsHonoured ==
    \A c \in Components :
        c \in quarantine /\ PackageOf[c] \in policy.exc
            ~> c \notin quarantine \/ PackageOf[c] \in approved \/ PackageOf[c] \notin policy.exc
               \/ faults + outages > 0

\* What the rules or an exception let through is approved in the end.
PromotedInTheEnd == CleanIsPromoted /\ ExceptionIsHonoured

\* The same decision is never audited twice in a row: the gate judges a component
\* again only when the policy or its revocation has changed since ("no more
\* re-auditing the same Block").
NeverReAudited == [][Judge => tracked' # tracked]_vars
==============================================================================
