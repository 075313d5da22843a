------------------------ MODULE ReleasePipelineProofs ------------------------
(***************************************************************************)
(* Proofs about the release pipeline, for any components, packages,        *)
(* operators and bounds.                                                   *)
(***************************************************************************)
EXTENDS ReleasePipeline, TLAPS

\* What ties the job in hand to the cycle and to the policy: a signature is
\* never newer than the policy that the gate reads after it.
JobOK ==
    /\ sig <= policy.ver
    /\ job # None => phase = "loop" /\ job \in Job
    /\ job # None /\ job.at # "gate" => sig <= job.snap.ver /\ job.snap.ver <= policy.ver
    /\ job # None /\ job.at = "check" /\ LetsThrough(job.verdict) => PackageOf[job.c] \in vetted
    /\ job # None /\ job.at \in {"clear", "promote"} => PackageOf[job.c] \in vetted

\* What is remembered of a component is never newer than its verdict.
MemoryOK ==
    \A c \in Components : tracked[c].sig <= used[c] /\ used[c] <= policy.ver

IInv == TypeOK /\ JobOK /\ MemoryOK /\ ApprovedHasWarrant

USE ReleaseAssumption, BridgeAssumption, RequestAssumption, PipelineAssumption, NoneIsNoJob, NoneIsNoRequest

\* The invariant settles the staleness question.
LEMMA NoStaleFromIInv == IInv => NoStaleVerdict
<1> SUFFICES ASSUME IInv, NEW c \in Components, tracked[c].sig = policy.ver
             PROVE  used[c] = policy.ver
  BY DEF NoStaleVerdict
<1>1. tracked[c].sig \in Nat /\ used[c] \in Nat /\ policy.ver \in Nat
  BY DEF IInv, TypeOK, BridgeTypeOK, ReleaseTypeOK, Outcome, Policy
<1> QED
  BY <1>1 DEF IInv, MemoryOK

LEMMA InitIInv == Init => IInv
<1> SUFFICES ASSUME Init PROVE IInv
  OBVIOUS
<1> USE DEF Init, ReleaseInit, BridgeInit, RequestsInit
<1>1. ReleaseTypeOK
  BY DEF ReleaseTypeOK, Policy
<1>2. BridgeTypeOK
  BY DEF BridgeTypeOK, Phases, Outcome, Unseen
<1>3. RequestsTypeOK
  BY DEF RequestsTypeOK
<1>4. JobOK
  BY DEF JobOK
<1>5. MemoryOK
  <2> SUFFICES ASSUME NEW c \in Components
               PROVE  tracked[c].sig <= used[c] /\ used[c] <= policy.ver
    BY DEF MemoryOK
  <2>1. tracked[c].sig = 0 /\ used[c] = 0 /\ policy.ver = 1
    BY DEF Unseen
  <2> QED
    BY <2>1
<1>6. ApprovedHasWarrant
  BY DEF ApprovedHasWarrant
<1>7. restarts \in Nat
  OBVIOUS
<1> HIDE DEF Init, ReleaseInit, BridgeInit, RequestsInit
<1> QED
  BY <1>1, <1>2, <1>3, <1>4, <1>5, <1>6, <1>7 DEF IInv, TypeOK

\* The head of a cycle.
LEMMA CycleHead ==
    ASSUME IInv, BeginCycle \/ List \/ ReadSignature \/ EndCycle,
           UNCHANGED <<requests, restarts>>
    PROVE  IInv'
<1> USE DEF IInv, TypeOK, ReleaseTypeOK, BridgeTypeOK, RequestsTypeOK, requests
<1>1. CASE BeginCycle
  <2>1. TypeOK'
    BY <1>1 DEF BeginCycle, Phases, Outcome, Unseen
  <2>2. JobOK'
    BY <1>1 DEF BeginCycle, JobOK, LetsThrough
  <2>3. MemoryOK'
    BY <1>1 DEF BeginCycle, MemoryOK, Unseen, Policy
  <2> QED
    BY <2>1, <2>2, <2>3, <1>1 DEF BeginCycle, ApprovedHasWarrant
<1>2. CASE List
  <2>1. TypeOK'
    BY <1>2 DEF List, release, memory, Phases
  <2> QED
    BY <2>1, <1>2 DEF List, release, memory, JobOK, LetsThrough, MemoryOK, ApprovedHasWarrant
<1>3. CASE ReadSignature
  <2>1. TypeOK'
    BY <1>3 DEF ReadSignature, release, memory, Phases, Policy
  <2>2. JobOK'
    BY <1>3 DEF ReadSignature, release, memory, JobOK, Policy
  <2> QED
    BY <2>1, <2>2, <1>3 DEF ReadSignature, release, memory, MemoryOK, ApprovedHasWarrant
<1>4. CASE EndCycle
  <2>1. TypeOK'
    BY <1>4 DEF EndCycle, release, memory, Phases
  <2>2. JobOK'
    BY <1>4 DEF EndCycle, release, memory, JobOK, Policy
  <2> QED
    BY <2>1, <2>2, <1>4 DEF EndCycle, release, memory, MemoryOK, ApprovedHasWarrant
<1> QED
  BY <1>1, <1>2, <1>3, <1>4

\* Replacing the job changes nothing else that the invariant looks at.
LEMMA JobStep ==
    ASSUME IInv, phase = "loop", job' \in Job \cup {None},
           UNCHANGED <<release, phase, sig, memory, requests, restarts>>,
           todo' \in SUBSET Components, faults' \in Nat, outages' \in Nat,
           job' # None /\ job'.at # "gate" =>
               sig <= job'.snap.ver /\ job'.snap.ver <= policy.ver,
           job' # None /\ job'.at = "check" /\ LetsThrough(job'.verdict) =>
               PackageOf[job'.c] \in vetted,
           job' # None /\ job'.at \in {"clear", "promote"} => PackageOf[job'.c] \in vetted
    PROVE  IInv'
<1> USE DEF IInv, release, memory, requests
<1>1. TypeOK'
  BY DEF TypeOK, ReleaseTypeOK, BridgeTypeOK, RequestsTypeOK
<1>2. JobOK'
  BY DEF JobOK, LetsThrough
<1>3. MemoryOK'
  BY DEF MemoryOK
<1> QED
  BY <1>1, <1>2, <1>3 DEF ApprovedHasWarrant

\* A verdict is one of the four, and what lets a package through is on record.
LEMMA VerdictType ==
    ASSUME NEW p, NEW pol, NEW outage
    PROVE  Verdict(p, pol, outage) \in Verdicts
  BY DEF Verdict, Verdicts

LEMMA JobFacts ==
    ASSUME IInv, job # None
    PROVE  /\ job \in Job /\ phase = "loop" /\ job.c \in Components
           /\ PackageOf[job.c] \in Packages /\ job.snap.ver \in Nat
           /\ policy.ver \in Nat /\ sig \in Nat
  BY DEF IInv, TypeOK, ReleaseTypeOK, BridgeTypeOK, JobOK, Job, Policy

LEMMA CycleBody ==
    ASSUME IInv, UNCHANGED <<requests, restarts>>,
           \/ \E c \in Components : Visit(c)
           \/ ReadPolicy \/ Judge \/ Check \/ Clear \/ Promote \/ Hold
    PROVE  IInv'
<1>1. ASSUME NEW c \in Components, Visit(c) PROVE IInv'
  <2>1. job' = None \/ (job' \in Job /\ job'.at = "gate")
    BY <1>1 DEF Visit, Job, Steps, Verdicts, Policy, NoPolicy
  <2> QED
    BY <1>1, <2>1, JobStep DEF Visit, IInv, TypeOK, BridgeTypeOK
<1>2. CASE ReadPolicy
  <2>1. job' \in Job /\ job'.at = "judge" /\ job'.snap = policy
    BY <1>2, JobFacts DEF ReadPolicy, JobAt, Job, Steps, IInv, TypeOK, ReleaseTypeOK
  <2>2. sig <= policy.ver /\ policy.ver <= policy.ver
    BY <1>2, JobFacts DEF ReadPolicy, JobAt, IInv, JobOK
  <2> QED
    BY <1>2, <2>1, <2>2, JobFacts, JobStep DEF ReadPolicy, JobAt, IInv, TypeOK, BridgeTypeOK
<1>3. CASE Judge
  <2> USE DEF IInv
  <2>1. PICK v \in Verdicts : /\ job' = [job EXCEPT !.at = "check", !.verdict = v]
                              /\ vetted' = IF LetsThrough(v) THEN vetted \cup {PackageOf[job.c]}
                                           ELSE vetted
    BY <1>3, VerdictType DEF Judge
  <2>2. job # None /\ job.at = "judge"
    BY <1>3 DEF Judge, JobAt
  <2>3. outages' \in Nat
    <3>1. outages' = outages \/ outages' = outages + 1
      BY <1>3 DEF Judge
    <3>2. outages \in Nat
      BY DEF TypeOK, BridgeTypeOK
    <3> QED
      BY <3>1, <3>2
  <2>4. /\ job' \in Job /\ job'.c = job.c /\ job'.snap = job.snap
        /\ job'.at = "check" /\ job'.verdict = v
    BY <2>1, <2>2, JobFacts DEF Job, Steps
  <2>5. sig <= job.snap.ver /\ job.snap.ver <= policy.ver
    BY <2>2 DEF JobOK
  <2>6. /\ tracked' = [tracked EXCEPT ![job.c] = [sig |-> sig, rev |-> job.rev]]
        /\ used' = [used EXCEPT ![job.c] = job.snap.ver]
        /\ UNCHANGED <<policy, quarantine, entered, approved, revoked, flush,
                       phase, todo, sig, faults>>
    BY <1>3 DEF Judge, release
  <2>7. [sig |-> sig, rev |-> job.rev] \in Outcome
    BY <2>2, JobFacts DEF Outcome, Job
  <2>8. BridgeTypeOK'
    BY <2>1, <2>2, <2>3, <2>4, <2>6, <2>7, JobFacts DEF TypeOK, BridgeTypeOK
  <2>9. TypeOK'
    BY <2>6, <2>8 DEF TypeOK, ReleaseTypeOK, RequestsTypeOK, requests
  <2>10. JobOK'
    BY <2>1, <2>2, <2>4, <2>5, <2>6, JobFacts DEF JobOK, LetsThrough
  <2>11. MemoryOK'
    <3> SUFFICES ASSUME NEW c \in Components
                 PROVE  tracked'[c].sig <= used'[c] /\ used'[c] <= policy.ver
      BY <2>6 DEF MemoryOK
    <3>1. CASE c = job.c
      BY <3>1, <2>5, <2>6 DEF TypeOK, BridgeTypeOK
    <3>2. CASE c # job.c
      BY <3>2, <2>6 DEF MemoryOK, TypeOK, BridgeTypeOK
    <3> QED
      BY <3>1, <3>2
  <2>12. ApprovedHasWarrant'
    BY <2>1, <2>6 DEF ApprovedHasWarrant, requests
  <2> QED
    BY <2>9, <2>10, <2>11, <2>12
<1>4. CASE Check
  <2>1. PICK s \in {"clear", "promote", "hold"} :
           /\ job' = [job EXCEPT !.at = s]
           /\ s \in {"clear", "promote"} => LetsThrough(job.verdict)
    BY <1>4 DEF Check, LetsThrough
  <2>2. job # None /\ job.at = "check"
    BY <1>4 DEF Check, JobAt
  <2>3. /\ job' \in Job /\ job'.c = job.c /\ job'.snap = job.snap /\ job'.at = s
    BY <2>1, <2>2, JobFacts DEF Job, Steps
  <2>4. s \in {"clear", "promote"} => PackageOf[job.c] \in vetted
    BY <2>1, <2>2 DEF IInv, JobOK
  <2>5. sig <= job.snap.ver /\ job.snap.ver <= policy.ver
    BY <2>2 DEF IInv, JobOK
  <2> QED
    BY <1>4, <2>1, <2>2, <2>3, <2>4, <2>5, JobFacts, JobStep
       DEF Check, IInv, TypeOK, BridgeTypeOK
<1>5. CASE Clear
  <2> USE DEF IInv
  <2>1. job # None /\ job.at = "clear"
    BY <1>5 DEF Clear, JobAt
  <2>2. /\ job' \in Job /\ job'.c = job.c /\ job'.snap = job.snap /\ job'.at = "promote"
    BY <1>5, <2>1, JobFacts DEF Clear, Job, Steps
  <2>3. TypeOK'
    BY <1>5, <2>1, <2>2 DEF Clear, memory, requests, TypeOK, ReleaseTypeOK, BridgeTypeOK, RequestsTypeOK
  <2>4. JobOK'
    BY <1>5, <2>1, <2>2, JobFacts DEF Clear, memory, JobOK
  <2> QED
    BY <1>5, <2>3, <2>4 DEF Clear, memory, requests, MemoryOK, ApprovedHasWarrant
<1>6. CASE Promote
  <2> USE DEF IInv
  <2>1. job # None /\ job.at = "promote"
    BY <1>6 DEF Promote, JobAt
  <2>2. TypeOK'
    BY <1>6, <2>1, JobFacts DEF Promote, memory, requests, TypeOK, ReleaseTypeOK, BridgeTypeOK, RequestsTypeOK
  <2>3. JobOK'
    BY <1>6, <2>1 DEF Promote, memory, JobOK
  <2>4. PackageOf[job.c] \in vetted
    BY <2>1 DEF JobOK
  <2> QED
    BY <1>6, <2>2, <2>3, <2>4 DEF Promote, memory, requests, MemoryOK, ApprovedHasWarrant
<1>7. CASE Hold
  <2> USE DEF IInv
  <2>1. job # None
    BY <1>7 DEF Hold, JobAt
  <2>2. TypeOK'
    BY <1>7, <2>1, JobFacts DEF Hold, memory, requests, TypeOK, ReleaseTypeOK, BridgeTypeOK, RequestsTypeOK
  <2>3. JobOK'
    BY <1>7, <2>1 DEF Hold, memory, JobOK
  <2> QED
    BY <1>7, <2>2, <2>3 DEF Hold, memory, requests, MemoryOK, ApprovedHasWarrant
<1> QED
  BY <1>1, <1>2, <1>3, <1>4, <1>5, <1>6, <1>7

\* A step that leaves the bridge alone, lets the policy's version only grow and
\* puts into approved nothing but what an operator has promoted.
LEMMA OutsideStep ==
    ASSUME IInv, UNCHANGED bridge, ReleaseTypeOK', RequestsTypeOK', restarts' \in Nat,
           policy.ver <= policy'.ver,
           approved' \subseteq approved \cup overrides', overrides \subseteq overrides'
    PROVE  IInv'
<1> USE DEF IInv, bridge
<1>1. TypeOK'
  BY DEF TypeOK, BridgeTypeOK
<1>2. policy.ver \in Nat /\ policy'.ver \in Nat /\ sig \in Nat /\ used \in [Components -> Nat]
  BY DEF TypeOK, ReleaseTypeOK, BridgeTypeOK, Policy
<1>3. JobOK'
  <2>1. sig' <= policy'.ver
    BY <1>2 DEF JobOK
  <2>2. job # None => job.snap.ver \in Nat
    BY JobFacts
  <2>3. job # None /\ job.at # "gate" => sig <= job.snap.ver /\ job.snap.ver <= policy'.ver
    BY <1>2, <2>2 DEF JobOK
  <2> QED
    BY <2>1, <2>3 DEF JobOK, LetsThrough
<1>4. MemoryOK'
  <2> SUFFICES ASSUME NEW c \in Components
               PROVE  tracked[c].sig <= used[c] /\ used[c] <= policy'.ver
    BY DEF MemoryOK
  <2>1. used[c] \in Nat
    BY <1>2
  <2> QED
    BY <1>2, <2>1 DEF MemoryOK
<1> QED
  BY <1>1, <1>3, <1>4 DEF ApprovedHasWarrant

\* A request keeps its type when it moves on, ends, or takes its policy copy.
LEMMA RequestFacts ==
    ASSUME IInv, NEW o \in Operators, request[o] # None
    PROVE  /\ request[o] \in Request /\ request[o].p \in Packages
           /\ request[o].copy \in Policy /\ request[o].left \in SUBSET Repos
           /\ policy \in Policy /\ policy.ver \in Nat
           /\ quarantine \in SUBSET Components /\ entered \in SUBSET Components
           /\ approved \in SUBSET Packages /\ revoked \in SUBSET Packages
           /\ flush \in BOOLEAN
           /\ request \in [Operators -> Request \cup {None}]
           /\ overrides \in SUBSET Packages /\ submitted \in Nat
  BY DEF IInv, TypeOK, ReleaseTypeOK, RequestsTypeOK, Request, Policy

LEMMA GotoType ==
    ASSUME IInv, NEW o \in Operators, request[o] # None, NEW s \in ReqSteps, Goto(o, s)
    PROVE  request' \in [Operators -> Request \cup {None}]
<1>1. [request[o] EXCEPT !.at = s] \in Request
  BY RequestFacts DEF Request
<1> QED
  BY <1>1, RequestFacts DEF Goto

LEMMA ReplyType ==
    ASSUME IInv, NEW o \in Operators, Reply(o)
    PROVE  request' \in [Operators -> Request \cup {None}]
  BY DEF Reply, IInv, TypeOK, RequestsTypeOK

\* Every kind of policy update stores a policy with the next version.
LEMMA WriteType ==
    ASSUME IInv, NEW o \in Operators, Write(o)
    PROVE  /\ policy' \in Policy /\ policy.ver <= policy'.ver
           /\ request' \in [Operators -> Request \cup {None}]
<1>1. request[o] # None
  BY DEF Write, WriteEdit, WriteGrant, WriteUnticket, WriteRevoke, RequestAt
<1>2. "clear" \in ReqSteps /\ "delete" \in ReqSteps
  BY DEF ReqSteps
<1>3. ASSUME NEW copy \in Policy, UpdatePolicy(copy)
      PROVE  policy' \in Policy /\ policy'.ver = policy.ver + 1
  BY <1>1, <1>3, RequestFacts DEF UpdatePolicy, Policy
<1>4. CASE WriteEdit(o)
  <2>1. [request[o].copy EXCEPT !.strict = ~@] \in Policy
    BY <1>1, RequestFacts DEF Policy
  <2> QED
    BY <1>1, <1>3, <1>4, <2>1, RequestFacts, ReplyType DEF WriteEdit
<1>5. CASE WriteGrant(o)
  <2>1. [request[o].copy EXCEPT !.exc = @ \cup {request[o].p}] \in Policy
    BY <1>1, RequestFacts DEF Policy
  <2> QED
    BY <1>1, <1>2, <1>3, <1>5, <2>1, RequestFacts, GotoType DEF WriteGrant
<1>6. CASE WriteUnticket(o)
  <2>1. [request[o].copy EXCEPT !.exc = @ \ {request[o].p}] \in Policy
    BY <1>1, RequestFacts DEF Policy
  <2> QED
    BY <1>1, <1>2, <1>3, <1>6, <2>1, RequestFacts, GotoType, ReplyType DEF WriteUnticket
<1>7. CASE WriteRevoke(o)
  <2>1. [request[o].copy EXCEPT !.exc = @ \ {request[o].p}] \in Policy
    BY <1>1, RequestFacts DEF Policy
  <2> QED
    BY <1>1, <1>3, <1>7, <2>1, RequestFacts, ReplyType DEF WriteRevoke
<1> QED
  BY <1>4, <1>5, <1>6, <1>7 DEF Write

LEMMA HandleStep ==
    ASSUME IInv, NEW o \in Operators, Handle(o), UNCHANGED <<bridge, restarts>>
    PROVE  IInv'
<1>1. request[o] # None
  BY DEF Handle, Read, Write, WriteEdit, WriteGrant, WriteUnticket, WriteRevoke, ClearRevoked,
         DeleteApproved, MarkRevoked, Upload, RaiseFlag, Wipe, EmptyRepo, Fail, RequestAt
<1>2. /\ \A s \in {"read", "mark", "empty"} : s \in ReqSteps
      /\ restarts' \in Nat
  BY DEF ReqSteps, IInv, TypeOK
<1> USE DEF ReleaseTypeOK, RequestsTypeOK
<1>3. CASE Read(o)
  <2>1. [request[o] EXCEPT !.copy = policy, !.at = "write"] \in Request
    BY <1>1, RequestFacts DEF Request, ReqSteps
  <2>2. request' = [request EXCEPT ![o] = [request[o] EXCEPT !.copy = policy, !.at = "write"]]
    BY <1>1, <1>3, RequestFacts DEF Read
  <2>3. request' \in [Operators -> Request \cup {None}]
    BY <1>1, <2>1, <2>2, RequestFacts
  <2> QED
    BY <1>1, <1>2, <1>3, <2>3, RequestFacts, OutsideStep DEF Read, release
<1>4. CASE Write(o)
  BY <1>1, <1>2, <1>4, WriteType, RequestFacts, OutsideStep DEF Write
<1>5. CASE ClearRevoked(o)
  BY <1>1, <1>2, <1>5, ReplyType, RequestFacts, OutsideStep DEF ClearRevoked
<1>6. CASE DeleteApproved(o)
  BY <1>1, <1>2, <1>6, GotoType, ReplyType, RequestFacts, OutsideStep DEF DeleteApproved
<1>7. CASE MarkRevoked(o)
  BY <1>1, <1>2, <1>7, GotoType, ReplyType, RequestFacts, OutsideStep DEF MarkRevoked
<1>8. CASE Upload(o)
  BY <1>1, <1>2, <1>8, ReplyType, RequestFacts, OutsideStep DEF Upload
<1>9. CASE RaiseFlag(o)
  BY <1>1, <1>2, <1>9, GotoType, RequestFacts, OutsideStep DEF RaiseFlag
<1>10. CASE Wipe(o)
  BY <1>1, <1>2, <1>10, ReplyType, RequestFacts, OutsideStep DEF Wipe
<1>11. ASSUME NEW r \in Repos, EmptyRepo(o, r) PROVE IInv'
  <2> DEFINE next == IF request[o].left = {r} THEN "wipe" ELSE "empty"
  <2>1. next \in ReqSteps
    BY DEF ReqSteps
  <2>2. [request[o] EXCEPT !.left = @ \ {r}, !.at = next] \in Request
    BY <1>1, <2>1, RequestFacts DEF Request
  <2>3. request' = [request EXCEPT ![o] = [request[o] EXCEPT !.left = @ \ {r}, !.at = next]]
    BY <1>1, <1>11, RequestFacts DEF EmptyRepo
  <2>4. request' \in [Operators -> Request \cup {None}]
    BY <1>1, <2>2, <2>3, RequestFacts
  <2>5. quarantine' \in SUBSET Components /\ approved' \in SUBSET Packages
        /\ approved' \subseteq approved
    <3>1. /\ \A S \in Survivors(quarantine) : S \subseteq quarantine
          /\ \A S \in Survivors(approved) : S \subseteq approved
      BY DEF Survivors
    <3>2. quarantine' \subseteq quarantine
      <4>1. CASE r = "quarantine"
        BY ONLY <1>11, <3>1, <4>1 DEF EmptyRepo
      <4>2. CASE r # "quarantine"
        BY ONLY <1>11, <4>2 DEF EmptyRepo
      <4> QED
        BY <4>1, <4>2
    <3>3. approved' \subseteq approved
      <4>1. CASE r = "approved"
        BY ONLY <1>11, <3>1, <4>1 DEF EmptyRepo
      <4>2. CASE r # "approved"
        BY ONLY <1>11, <4>2 DEF EmptyRepo
      <4> QED
        BY <4>1, <4>2
    <3> QED
      BY <1>1, <3>2, <3>3, RequestFacts
  <2>6. ReleaseTypeOK' /\ RequestsTypeOK'
    BY <1>1, <1>11, <2>4, <2>5, RequestFacts DEF EmptyRepo
  <2>7. UNCHANGED <<policy, overrides>>
    BY <1>11 DEF EmptyRepo
  <2>8. policy.ver <= policy'.ver
    BY <1>1, <2>7, RequestFacts
  <2> QED
    BY <1>2, <2>5, <2>6, <2>7, <2>8, OutsideStep
<1>12. CASE Fail(o)
  BY <1>1, <1>2, <1>12, ReplyType, RequestFacts, OutsideStep DEF Fail, release
<1> QED
  BY <1>3, <1>4, <1>5, <1>6, <1>7, <1>8, <1>9, <1>10, <1>11, <1>12 DEF Handle

LEMMA NextIInv == IInv /\ [Next]_vars => IInv'
<1> SUFFICES ASSUME IInv, [Next]_vars PROVE IInv'
  OBVIOUS
<1>1. CASE BridgeStep
  <2>1. CASE Cycle
    BY <1>1, <2>1, CycleHead, CycleBody DEF BridgeStep, Cycle
  <2>2. CASE Abort
    <3> USE <1>1, <2>2 DEF BridgeStep, Abort, release, memory, requests, IInv
    <3>1. TypeOK'
      BY DEF TypeOK, ReleaseTypeOK, BridgeTypeOK, RequestsTypeOK, Phases
    <3>2. JobOK'
      BY DEF JobOK, TypeOK, ReleaseTypeOK, Policy
    <3> QED
      BY <3>1, <3>2 DEF MemoryOK, ApprovedHasWarrant
  <2> QED
    BY <1>1, <2>1, <2>2 DEF BridgeStep
<1>2. CASE Arrival
  <2>1. PICK c \in Components : Arrive(c)
    BY <1>2 DEF Arrival
  <2>2. ReleaseTypeOK' /\ RequestsTypeOK' /\ restarts' \in Nat
    BY <1>2, <2>1 DEF Arrival, Arrive, requests, IInv, TypeOK, ReleaseTypeOK, RequestsTypeOK
  <2>3. policy.ver \in Nat /\ UNCHANGED <<policy, approved, overrides, bridge>>
    BY <1>2, <2>1 DEF Arrival, Arrive, requests, IInv, TypeOK, ReleaseTypeOK, Policy
  <2> QED
    BY <2>2, <2>3, OutsideStep
<1>3. ASSUME NEW o \in Operators, NEW k \in Kinds, NEW p \in Packages, Submit(o, k, p),
             UNCHANGED <<bridge, restarts>>
      PROVE  IInv'
  <2>1. FirstStep[k] \in ReqSteps
    BY <1>3 DEF Kinds, FirstStep, ReqSteps
  <2>2. [kind |-> k, p |-> p, at |-> FirstStep[k], copy |-> NoPolicy, left |-> Repos] \in Request
    BY <2>1 DEF Request, NoPolicy, Policy
  <2>3. RequestsTypeOK' /\ restarts' \in Nat
    BY <1>3, <2>2 DEF Submit, IInv, TypeOK, RequestsTypeOK
  <2>4. ReleaseTypeOK' /\ policy.ver \in Nat /\ UNCHANGED <<policy, approved, overrides, bridge>>
    BY <1>3 DEF Submit, release, IInv, TypeOK, ReleaseTypeOK, Policy
  <2> QED
    BY <2>3, <2>4, OutsideStep
<1>4. ASSUME NEW o \in Operators, Handle(o), UNCHANGED <<bridge, restarts>> PROVE IInv'
  BY <1>4, HandleStep
<1>5. CASE Restart
  <2> USE <1>5 DEF Restart, LoseBridge, LoseRequests, IInv
  <2>1. policy.ver \in Nat /\ used \in [Components -> Nat]
    BY DEF TypeOK, ReleaseTypeOK, BridgeTypeOK, Policy
  <2>2. TypeOK'
    <3>1. ReleaseTypeOK'
      BY DEF TypeOK, ReleaseTypeOK
    <3>2. BridgeTypeOK'
      BY DEF TypeOK, BridgeTypeOK, Phases, Outcome, Unseen
    <3>3. RequestsTypeOK' /\ restarts' \in Nat
      BY DEF TypeOK, RequestsTypeOK
    <3> QED
      BY <3>1, <3>2, <3>3 DEF TypeOK
  <2>3. JobOK'
    BY <2>1 DEF JobOK
  <2>4. MemoryOK'
    BY <2>1 DEF MemoryOK, Unseen
  <2> QED
    BY <2>2, <2>3, <2>4 DEF ApprovedHasWarrant
<1>6. CASE UNCHANGED vars
  BY <1>6 DEF vars, IInv, TypeOK, ReleaseTypeOK, BridgeTypeOK, RequestsTypeOK, JobOK,
              LetsThrough, MemoryOK, ApprovedHasWarrant
<1> QED
  BY <1>1, <1>2, <1>3, <1>4, <1>5, <1>6 DEF Next, RequestStep

\* Every variable of the pipeline keeps its type.
THEOREM PipelineTyped == Spec => []TypeOK
<1>1. IInv => TypeOK
  BY DEF IInv
<1> QED
  BY <1>1, InitIInv, NextIInv, PTL DEF Spec

\* The bridge never takes a component for handled under the policy in force on
\* the strength of a verdict made under an older one.
THEOREM NoVerdictGoesStale == Spec => []NoStaleVerdict
<1> QED
  BY NoStaleFromIInv, InitIInv, NextIInv, PTL DEF Spec

\* Whatever is approved was let through by a verdict or promoted by hand.
THEOREM ApprovedIsWarranted == Spec => []ApprovedHasWarrant
<1>1. IInv => ApprovedHasWarrant
  BY DEF IInv
<1> QED
  BY <1>1, InitIInv, NextIInv, PTL DEF Spec

------------------------------------------------------------------------------
\* No decision twice

\* What the gate is about to judge is not what the bridge remembers of the component.
Due == job # None /\ job.at \in {"gate", "judge"} => tracked[job.c] # [sig |-> sig, rev |-> job.rev]

\* Between the skip test and the verdict neither the memory nor the signature changes: both are
\* written only at the head of a cycle, when nothing is in hand.
LEMMA NextDue == IInv /\ Due /\ [Next]_vars => Due'
<1> SUFFICES ASSUME IInv, Due, [Next]_vars PROVE Due'
  OBVIOUS
<1>1. job # None => phase = "loop" /\ job \in Job
  BY DEF IInv, JobOK
<1>2. CASE BeginCycle \/ List \/ ReadSignature \/ EndCycle \/ Abort \/ Promote \/ Hold \/ Restart
  <2>1. job' = None
    BY <1>1, <1>2 DEF BeginCycle, List, ReadSignature, EndCycle, Abort, Promote, Hold, Restart, LoseBridge
  <2> QED
    BY <2>1 DEF Due
<1>3. ASSUME NEW c \in Components, Visit(c) PROVE Due'
  <2> DEFINE rev == PackageOf[c] \in revoked
             new == [c |-> c, at |-> "gate", rev |-> rev, snap |-> NoPolicy, verdict |-> "block"]
  <2>1. UNCHANGED <<sig, tracked>> /\ job' = IF Unchanged(c, rev) THEN None ELSE new
    BY <1>3 DEF Visit, memory
  <2>2. CASE Unchanged(c, rev)
    BY <2>1, <2>2 DEF Due
  <2>3. CASE ~Unchanged(c, rev)
    <3>1. job' = new
      BY <2>1, <2>3
    <3>2. job'.c = c /\ job'.rev = rev
      BY <3>1
    <3>3. tracked[c] # [sig |-> sig, rev |-> rev]
      BY <2>3 DEF Unchanged
    <3> QED
      BY <2>1, <3>2, <3>3 DEF Due
  <2> QED
    BY <2>2, <2>3
<1>4. CASE ReadPolicy
  <2>1. job # None /\ job.at = "gate" /\ job \in Job /\ UNCHANGED <<sig, tracked>>
        /\ job' = [job EXCEPT !.at = "judge", !.snap = policy]
    BY <1>1, <1>4 DEF ReadPolicy, JobAt, memory
  <2>2. job'.c = job.c /\ job'.rev = job.rev
    BY <2>1 DEF Job
  <2> QED
    BY <2>1, <2>2 DEF Due
<1>5. CASE Judge \/ Check \/ Clear
  <2>1. job # None /\ job \in Job /\ job'.at \notin {"gate", "judge"}
    <3>1. CASE Judge
      <4>1. PICK outage \in BOOLEAN :
              job' = [job EXCEPT !.at = "check", !.verdict = Verdict(PackageOf[job.c], job.snap, outage)]
        BY <3>1 DEF Judge
      <4> QED
        BY <1>1, <3>1, <4>1 DEF Judge, JobAt, Job
    <3>2. CASE Check \/ Clear
      BY <1>1, <3>2 DEF Check, Clear, JobAt, Job
    <3> QED
      BY <1>5, <3>1, <3>2
  <2> QED
    BY <2>1 DEF Due
<1>6. CASE UNCHANGED bridge
  BY <1>6 DEF bridge, Due
<1>7. CASE UNCHANGED vars
  BY <1>7 DEF vars, Due
<1> QED
  BY <1>2, <1>3, <1>4, <1>5, <1>6, <1>7 DEF Next, BridgeStep, Cycle, Arrival, RequestStep

\* The gate never judges a component again that the bridge remembers under the signature and the
\* revocation state of the cycle, through requests, resets, failures and restarts ("no more
\* re-auditing the same Block").
THEOREM NothingIsReAudited == Spec => NeverReAudited
<1>1. Init => Due
  BY DEF Init, BridgeInit, Due
<1>2. IInv /\ Due /\ [Next]_vars => [Judge => tracked' # tracked]_vars
  <2> SUFFICES ASSUME IInv, Due, Judge PROVE tracked' # tracked
    OBVIOUS
  <2>1. job # None /\ job.at = "judge" /\ job.c \in Components
    BY JobFacts DEF Judge, JobAt
  <2>2. tracked' = [tracked EXCEPT ![job.c] = [sig |-> sig, rev |-> job.rev]]
    BY DEF Judge
  <2>3. tracked'[job.c] = [sig |-> sig, rev |-> job.rev]
    BY <2>1, <2>2 DEF IInv, TypeOK, BridgeTypeOK
  <2> QED
    BY <2>1, <2>3 DEF Due
<1> QED
  BY <1>1, <1>2, InitIInv, NextIInv, NextDue, PTL DEF Spec, NeverReAudited
==============================================================================
