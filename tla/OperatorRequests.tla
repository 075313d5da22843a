-------------------------- MODULE OperatorRequests --------------------------
(***************************************************************************)
(* The operators' HTTP requests that change what is released: policy edit, *)
(* grant and revoke of an exception, revoke and manual promotion of a      *)
(* package, maintenance reset.  A request is handled by a controller step  *)
(* by step; requests and the bridge interleave between the steps.          *)
(***************************************************************************)
EXTENDS ReleaseState

CONSTANTS
    Operators,    \* requests in flight at the same time
    Offered,      \* bound: the kinds of request operators submit
    MaxRequests,  \* bound: requests submitted
    NexusFails    \* bound: whether Nexus may refuse or drop an operator's call

ASSUME RequestAssumption ==
    /\ MaxRequests \in Nat
    /\ NexusFails \in BOOLEAN
    /\ Offered \subseteq {"edit", "grant", "unticket", "revoke", "promote", "reset"}

VARIABLES
    request,      \* the request each operator has in flight, or None
    overrides,    \* history: packages promoted by hand
    submitted     \* how many requests there have been

requests == <<request, overrides, submitted>>

\* The first step of each kind of request.
FirstStep ==
    [edit |-> "read", grant |-> "read", unticket |-> "read",
     revoke |-> "delete", promote |-> "upload", reset |-> "flag"]

Kinds    == DOMAIN FirstStep
ReqSteps == {"read", "write", "clear", "delete", "mark", "upload", "flag", "empty", "wipe"}
Repos    == {"quarantine", "approved"}

\* copy is the request's own clone of the policy; left the repositories a reset
\* has not emptied yet.
Request == [kind : Kinds, p : Packages, at : ReqSteps, copy : Policy, left : SUBSET Repos]

ASSUME NoneIsNoRequest == None \notin Request

RequestsTypeOK ==
    /\ request \in [Operators -> Request \cup {None}]
    /\ overrides \in SUBSET Packages
    /\ submitted \in Nat

RequestsInit ==
    /\ request = [o \in Operators |-> None]
    /\ overrides = {}
    /\ submitted = 0

Submit(o, k, p) ==
    /\ k \in Offered
    /\ request[o] = None /\ submitted < MaxRequests
    /\ submitted' = submitted + 1
    /\ request' = [request EXCEPT ![o] =
          [kind |-> k, p |-> p, at |-> FirstStep[k], copy |-> NoPolicy, left |-> Repos]]
    /\ UNCHANGED <<release, overrides>>

RequestAt(o, step) == request[o] # None /\ request[o].at = step
Goto(o, step) == request' = [request EXCEPT ![o].at = step]
Reply(o) == request' = [request EXCEPT ![o] = None]

------------------------------------------------------------------------------
\* Policy updates: read-clone-update

Read(o) ==
    /\ RequestAt(o, "read")
    /\ request' = [request EXCEPT ![o].copy = policy, ![o].at = "write"]
    /\ UNCHANGED <<release, overrides, submitted>>

\* PUT policy: the rules change, the rest is what the editor had read.
WriteEdit(o) ==
    /\ RequestAt(o, "write") /\ request[o].kind = "edit"
    /\ UpdatePolicy([request[o].copy EXCEPT !.strict = ~@])
    /\ Reply(o)

\* Grant adds an exception, and goes on to clear a revocation.
WriteGrant(o) ==
    /\ RequestAt(o, "write") /\ request[o].kind = "grant"
    /\ UpdatePolicy([request[o].copy EXCEPT !.exc = @ \cup {request[o].p}])
    /\ Goto(o, "clear")

\* Revoking an exception pulls the package it covered from approved as well.
WriteUnticket(o) ==
    /\ RequestAt(o, "write") /\ request[o].kind = "unticket"
    /\ UpdatePolicy([request[o].copy EXCEPT !.exc = @ \ {request[o].p}])
    /\ IF request[o].p \in request[o].copy.exc THEN Goto(o, "delete") ELSE Reply(o)

\* RemoveMatchingExceptionsAsync updates only when it removed something.
WriteRevoke(o) ==
    /\ RequestAt(o, "write") /\ request[o].kind = "revoke"
    /\ IF request[o].p \in request[o].copy.exc
       THEN UpdatePolicy([request[o].copy EXCEPT !.exc = @ \ {request[o].p}])
       ELSE UNCHANGED policy
    /\ Reply(o)

Write(o) ==
    /\ WriteEdit(o) \/ WriteGrant(o) \/ WriteUnticket(o) \/ WriteRevoke(o)
    /\ UNCHANGED <<quarantine, entered, approved, revoked, flush, overrides, submitted>>

------------------------------------------------------------------------------
\* The denylist and the approved repository

ClearRevoked(o) ==
    /\ RequestAt(o, "clear")
    /\ revoked' = revoked \ {request[o].p}
    /\ Reply(o)
    /\ UNCHANGED <<policy, quarantine, entered, approved, flush, overrides, submitted>>

\* RevokeApprovedAsync: nothing more is done unless it found the package.
DeleteApproved(o) ==
    /\ RequestAt(o, "delete")
    /\ IF request[o].p \in approved THEN Goto(o, "mark") ELSE Reply(o)
    /\ approved' = approved \ {request[o].p}
    /\ UNCHANGED <<policy, quarantine, entered, revoked, flush, overrides, submitted>>

MarkRevoked(o) ==
    /\ RequestAt(o, "mark")
    /\ revoked' = revoked \cup {request[o].p}
    /\ IF request[o].kind = "revoke" THEN Goto(o, "read") ELSE Reply(o)
    /\ UNCHANGED <<policy, quarantine, entered, approved, flush, overrides, submitted>>

\* PromoteByNameAsync: whatever the gate said, if quarantine holds it.
Upload(o) ==
    /\ RequestAt(o, "upload")
    /\ IF \E c \in quarantine : PackageOf[c] = request[o].p
       THEN /\ approved' = approved \cup {request[o].p}
            /\ overrides' = overrides \cup {request[o].p}
       ELSE UNCHANGED <<approved, overrides>>
    /\ Reply(o)
    /\ UNCHANGED <<policy, quarantine, entered, revoked, flush, submitted>>

------------------------------------------------------------------------------
\* Maintenance reset: raise the flag, empty the repositories, wipe the stores

RaiseFlag(o) ==
    /\ RequestAt(o, "flag")
    /\ flush' = TRUE
    /\ Goto(o, "empty")
    /\ UNCHANGED <<policy, quarantine, entered, approved, revoked, overrides, submitted>>

\* What a repository keeps of S: a deletion Nexus refuses is not noticed.
Survivors(S) == IF NexusFails THEN SUBSET S ELSE {{}}

\* EmptyFirewallReposAsync takes the repositories one after the other.
EmptyRepo(o, r) ==
    /\ RequestAt(o, "empty") /\ r \in request[o].left
    /\ request' = [request EXCEPT ![o].left = @ \ {r},
                                  ![o].at = IF request[o].left = {r} THEN "wipe" ELSE "empty"]
    /\ quarantine' \in IF r = "quarantine" THEN Survivors(quarantine) ELSE {quarantine}
    /\ approved' \in IF r = "approved" THEN Survivors(approved) ELSE {approved}
    /\ UNCHANGED <<policy, entered, revoked, flush, overrides, submitted>>

\* ScanStore.ClearAll, the denylist with it.
Wipe(o) ==
    /\ RequestAt(o, "wipe")
    /\ revoked' = {}
    /\ Reply(o)
    /\ UNCHANGED <<policy, quarantine, entered, approved, flush, overrides, submitted>>

\* A Nexus call of a request throws, or its deletion is refused: the request
\* ends there, with what it has done so far.
Fail(o) ==
    /\ NexusFails
    /\ RequestAt(o, "delete") \/ RequestAt(o, "upload") \/ RequestAt(o, "empty")
    /\ Reply(o)
    /\ UNCHANGED <<release, overrides, submitted>>

Handle(o) ==
    \/ Read(o) \/ Write(o) \/ ClearRevoked(o) \/ DeleteApproved(o) \/ MarkRevoked(o)
    \/ Upload(o) \/ RaiseFlag(o) \/ Wipe(o) \/ Fail(o)
    \/ \E r \in Repos : EmptyRepo(o, r)

\* The host stops: requests die with it.
LoseRequests ==
    /\ request' = [o \in Operators |-> None]
    /\ UNCHANGED <<overrides, submitted>>
==============================================================================
