--------------------------- MODULE PromotionBridge ---------------------------
(***************************************************************************)
(* The PromotionBridge: the background loop that polls quarantine, runs    *)
(* the gate on what is new or has to be looked at again, and promotes or   *)
(* holds each component.  One action per stretch of code between two       *)
(* awaits, or between two reads of state other threads may write.          *)
(***************************************************************************)
EXTENDS ReleaseState

CONSTANTS
    MaxFaults,    \* bound: HTTP calls that fail or throw
    MaxOutages    \* bound: evaluations in which a required feed is down

ASSUME BridgeAssumption == MaxFaults \in Nat /\ MaxOutages \in Nat

VARIABLES
    phase,        \* where the loop is
    todo,         \* components of this cycle's listing still to be visited
    sig,          \* the policy signature this cycle works under
    job,          \* the component being handled, or None
    tracked,      \* _evaluatedUnderPolicy and _lastOutcomeKey
    used,         \* history: the policy version each component was last judged under
    vetted,       \* history: packages a verdict let through
    faults, outages

cycle  == <<phase, todo, sig, job>>
memory == <<tracked, used, vetted>>
bridge == <<phase, todo, sig, job, tracked, used, vetted, faults, outages>>

Phases   == {"idle", "listing", "signing", "loop"}
Verdicts == {"exception", "allow", "quarantine", "block"}
Steps    == {"gate", "judge", "check", "clear", "promote", "hold"}

\* What the two dictionaries remember of a component.  They are always written
\* together, with the same signature, and cleared together.
Unseen  == [sig |-> 0, rev |-> FALSE]
Outcome == [sig : Nat, rev : BOOLEAN]

\* rev is revokedNow; snap is the policy the gate read; verdict its decision.
Job == [c : Components, at : Steps, rev : BOOLEAN, snap : Policy, verdict : Verdicts]

ASSUME NoneIsNoJob == None \notin Job

BridgeTypeOK ==
    /\ phase \in Phases
    /\ todo \in SUBSET Components
    /\ sig \in Nat
    /\ job \in Job \cup {None}
    /\ tracked \in [Components -> Outcome]
    /\ used \in [Components -> Nat]
    /\ vetted \in SUBSET Packages
    /\ faults \in Nat
    /\ outages \in Nat

BridgeInit ==
    /\ phase = "idle" /\ todo = {} /\ sig = 0 /\ job = None
    /\ tracked = [c \in Components |-> Unseen]
    /\ used = [c \in Components |-> 0]
    /\ vetted = {}
    /\ faults = 0 /\ outages = 0

------------------------------------------------------------------------------
\* The head of a cycle

\* A reset flag raised since the last cycle empties the tracking.
BeginCycle ==
    /\ phase = "idle"
    /\ phase' = "listing"
    /\ tracked' = IF flush THEN [c \in Components |-> Unseen] ELSE tracked
    /\ flush' = FALSE
    /\ UNCHANGED <<policy, quarantine, entered, approved, revoked,
                   todo, sig, job, used, vetted, faults, outages>>

\* ListQuarantineAsync; a repository that answers with an error is left out.
List ==
    /\ phase = "listing"
    /\ phase' = "signing"
    /\ \/ todo' = quarantine /\ UNCHANGED faults
       \/ /\ faults < MaxFaults /\ faults' = faults + 1
          /\ todo' \in SUBSET quarantine
    /\ UNCHANGED <<release, sig, job, memory, outages>>

ReadSignature ==
    /\ phase = "signing"
    /\ phase' = "loop"
    /\ sig' = policy.ver
    /\ UNCHANGED <<release, todo, job, memory, faults, outages>>

EndCycle ==
    /\ phase = "loop" /\ job = None /\ todo = {}
    /\ phase' = "idle"
    /\ sig' = 0
    /\ UNCHANGED <<release, todo, job, memory, faults, outages>>

\* An exception anywhere in the cycle ends it; the catch block only logs.
Abort ==
    /\ phase = "listing" \/ (job # None /\ job.at \in {"gate", "judge", "promote", "hold"})
    /\ faults < MaxFaults /\ faults' = faults + 1
    /\ phase' = "idle" /\ todo' = {} /\ sig' = 0 /\ job' = None
    /\ UNCHANGED <<release, memory, outages>>

------------------------------------------------------------------------------
\* The body of the foreach

\* Mutants of the skip test: any component ever seen; always re-handle a
\* revoked one.
UnchangedSeen(c, rev) == tracked[c] # Unseen
UnchangedUnlessRevoked(c, rev) == ~rev /\ tracked[c] = [sig |-> sig, rev |-> rev]

\* The component was handled under this very revocation state and signature.
Unchanged(c, rev) == tracked[c] = [sig |-> sig, rev |-> rev]

\* IsRevoked and the outcome key, then either 'continue' or on to the gate.
Visit(c) ==
    /\ phase = "loop" /\ job = None /\ c \in todo
    /\ todo' = todo \ {c}
    /\ LET rev == PackageOf[c] \in revoked IN
       job' = IF Unchanged(c, rev) THEN None
              ELSE [c |-> c, at |-> "gate", rev |-> rev, snap |-> NoPolicy, verdict |-> "block"]
    /\ UNCHANGED <<release, phase, sig, memory, faults, outages>>

JobAt(step) == job # None /\ job.at = step

\* EvaluateAsync begins by taking the current policy.
ReadPolicy ==
    /\ JobAt("gate")
    /\ job' = [job EXCEPT !.at = "judge", !.snap = policy]
    /\ UNCHANGED <<release, phase, todo, sig, memory, faults, outages>>

\* Mutant: the rules are asked before the exceptions.
VerdictRulesFirst(p, pol, outage) ==
    IF outage THEN "quarantine"
    ELSE IF p \in Vulnerable /\ pol.strict THEN "block"
    ELSE IF p \in pol.exc THEN "exception"
    ELSE "allow"

\* The decision on package p under policy pol: an exception comes first, a
\* blocking rule next; a required source without an answer quarantines.
Verdict(p, pol, outage) ==
    IF p \in pol.exc THEN "exception"
    ELSE IF outage THEN "quarantine"
    ELSE IF p \in Vulnerable /\ pol.strict THEN "block"
    ELSE "allow"

LetsThrough(verdict) == verdict \in {"exception", "allow"}

\* Mutant: what is remembered is the signature in force after the evaluation.
JudgeLateSignature ==
    /\ JobAt("judge")
    /\ LET v == Verdict(PackageOf[job.c], job.snap, FALSE) IN
       /\ job' = [job EXCEPT !.at = "check", !.verdict = v]
       /\ vetted' = IF LetsThrough(v) THEN vetted \cup {PackageOf[job.c]} ELSE vetted
    /\ tracked' = [tracked EXCEPT ![job.c] = [sig |-> policy.ver, rev |-> job.rev]]
    /\ used' = [used EXCEPT ![job.c] = job.snap.ver]
    /\ UNCHANGED <<release, phase, todo, sig, faults, outages>>

\* EvaluateAsync returns, and the loop remembers what it has handled before it
\* acts on it.
Judge ==
    /\ JobAt("judge")
    /\ \E outage \in BOOLEAN :
         /\ outage => outages < MaxOutages
         /\ outages' = IF outage THEN outages + 1 ELSE outages
         /\ LET p == PackageOf[job.c]
                v == Verdict(p, job.snap, outage)
            IN /\ job' = [job EXCEPT !.at = "check", !.verdict = v]
               /\ vetted' = IF LetsThrough(v) THEN vetted \cup {p} ELSE vetted
    /\ tracked' = [tracked EXCEPT ![job.c] = [sig |-> sig, rev |-> job.rev]]
    /\ used' = [used EXCEPT ![job.c] = job.snap.ver]
    /\ UNCHANGED <<release, phase, todo, sig, faults>>

\* Mutant: everything that is not blocked is promoted.
CheckNotBlocked ==
    /\ JobAt("check")
    /\ LET rev == PackageOf[job.c] \in revoked IN
       job' = [job EXCEPT !.at = IF ~rev /\ job.verdict # "block" THEN "promote" ELSE "hold"]
    /\ UNCHANGED <<release, phase, todo, sig, memory, faults, outages>>

\* The denylist is read again; an exception overrides it.
Check ==
    /\ JobAt("check")
    /\ LET rev == PackageOf[job.c] \in revoked IN
       job' = [job EXCEPT !.at = IF rev /\ job.verdict = "exception" THEN "clear"
                                 ELSE IF ~rev /\ LetsThrough(job.verdict) THEN "promote"
                                 ELSE "hold"]
    /\ UNCHANGED <<release, phase, todo, sig, memory, faults, outages>>

Clear ==
    /\ JobAt("clear")
    /\ revoked' = revoked \ {PackageOf[job.c]}
    /\ job' = [job EXCEPT !.at = "promote"]
    /\ UNCHANGED <<policy, quarantine, entered, approved, flush,
                   phase, todo, sig, memory, faults, outages>>

\* PromoteAsync; the status of the upload is only logged.
Promote ==
    /\ JobAt("promote")
    /\ \/ approved' = approved \cup {PackageOf[job.c]} /\ UNCHANGED faults
       \/ UNCHANGED approved /\ faults < MaxFaults /\ faults' = faults + 1
    /\ job' = None
    /\ UNCHANGED <<policy, quarantine, entered, revoked, flush,
                   phase, todo, sig, memory, outages>>

\* HoldAsync: the component stays, or is deleted when so configured.  The
\* status of the deletion is only logged.
Hold ==
    /\ JobAt("hold")
    /\ \/ /\ quarantine' = IF DeleteOnHold THEN quarantine \ {job.c} ELSE quarantine
          /\ UNCHANGED faults
       \/ /\ DeleteOnHold /\ faults < MaxFaults /\ faults' = faults + 1
          /\ UNCHANGED quarantine
    /\ job' = None
    /\ UNCHANGED <<policy, entered, approved, revoked, flush,
                   phase, todo, sig, memory, outages>>

Cycle ==
    \/ BeginCycle \/ List \/ ReadSignature \/ EndCycle
    \/ \E c \in Components : Visit(c)
    \/ ReadPolicy \/ Judge \/ Check \/ Clear \/ Promote \/ Hold

\* The host stops and starts again: the loop and its tracking are gone.
LoseBridge ==
    /\ phase' = "idle" /\ todo' = {} /\ sig' = 0 /\ job' = None
    /\ tracked' = [c \in Components |-> Unseen]
    /\ UNCHANGED <<used, vetted, faults, outages>>
==============================================================================
