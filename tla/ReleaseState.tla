---------------------------- MODULE ReleaseState ----------------------------
(***************************************************************************)
(* The state the PromotionBridge and the operators' requests share: the    *)
(* policy in force, the two Nexus repositories, the revocation denylist    *)
(* and the reset flag.                                                     *)
(*                                                                         *)
(* A component is one item of the quarantine repository under the id Nexus *)
(* gave it (a package fetched again after a deletion is a new component);  *)
(* a package is the name and version it carries.  The approved repository, *)
(* the denylist and the exceptions of the policy know packages only.       *)
(***************************************************************************)
EXTENDS Naturals

CONSTANTS
    Components, Packages,
    PackageOf,        \* the package of each component
    Vulnerable,       \* packages with a finding the strict policy blocks on
    DeleteOnHold,     \* NEXUS_DELETE_ON_HOLD
    None              \* no job, no request

ASSUME ReleaseAssumption ==
    /\ PackageOf \in [Components -> Packages]
    /\ Vulnerable \subseteq Packages
    /\ DeleteOnHold \in BOOLEAN

VARIABLES
    policy,           \* PolicyStore._current
    quarantine,       \* components in the quarantine repository
    entered,          \* history: components that ever were in it
    approved,         \* packages in the approved repository
    revoked,          \* ScanStore._revoked
    flush             \* BridgeResetSignal._pending

release == <<policy, quarantine, entered, approved, revoked, flush>>

\* FirewallPolicy, cut down to what decides a verdict: whether its rules block
\* the vulnerable packages, and the packages its exceptions name.  The version
\* goes up with every update and is part of what is signed, so it stands for
\* the signature as well.
Policy == [ver : Nat, strict : BOOLEAN, exc : SUBSET Packages]

\* What a job or a request holds before it has read the policy.
NoPolicy == [ver |-> 0, strict |-> TRUE, exc |-> {}]

ReleaseTypeOK ==
    /\ policy \in Policy
    /\ quarantine \in SUBSET Components
    /\ entered \in SUBSET Components
    /\ approved \in SUBSET Packages
    /\ revoked \in SUBSET Packages
    /\ flush \in BOOLEAN

ReleaseInit ==
    /\ policy = [ver |-> 1, strict |-> TRUE, exc |-> {}]
    /\ quarantine = {} /\ entered = {}
    /\ approved = {} /\ revoked = {}
    /\ flush = FALSE

\* PolicyStore.UpdateAsync: the caller's copy becomes the policy under the next
\* version, whatever the policy has become since the copy was taken.
UpdatePolicy(copy) == policy' = [copy EXCEPT !.ver = policy.ver + 1]

\* A developer's request through the proxy, or the intake consumer's, caches a
\* component nobody has seen before.
Arrive(c) ==
    /\ c \notin entered
    /\ quarantine' = quarantine \cup {c}
    /\ entered' = entered \cup {c}
    /\ UNCHANGED <<policy, approved, revoked, flush>>
=============================================================================
