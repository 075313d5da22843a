-------------------------- MODULE EvolutionRunsProofs --------------------------
(***************************************************************************)
(* Proofs about the mutation runs: types, no pull request without an       *)
(* approval, and no released run without its merge, for any number of      *)
(* runs, polls, requests and merges at once.                               *)
(***************************************************************************)
EXTENDS EvolutionRuns, TLAPS

\* What the tables hold, as far as the two theorems need it: their domains, and the fields
\* of a run.
Tables ==
    /\ runs \in [Ids -> Run]
    /\ DOMAIN cycle = Ids /\ \A i \in Ids : DOMAIN cycle[i] = {"step", "polls"}
    /\ pr \in [Ids -> {"none", "open", "merged"}]
    /\ DOMAIN merging = Merges

\* An approval that a run carries was given by an operator.
ApprovalIsReal == \A i \in Ids : runs[i].approval = "approved" => i \in approved

\* The change of a run is produced only after an approval, and its pull request is opened as its
\* cycle ends.
CycleIsApproved ==
    \A i \in Ids : /\ cycle[i].step = "implementing" => i \in approved
                   /\ pr[i] # "none" => cycle[i].step = "ended"

Marked == \A i \in Ids : runs[i].status = "released" => pr[i] = "merged"

IInv == Tables /\ ApprovalIsReal /\ CycleIsApproved /\ NoPRUnapproved /\ Marked

------------------------------------------------------------------------------
\* What a step does to the record of one run

LEMMA ReportStep ==
    ASSUME Tables, NEW i \in Ids, NEW st \in Statuses, Reports(i, st)
    PROVE  /\ runs' \in [Ids -> Run]
           /\ \A k \in Ids : runs'[k].approval = runs[k].approval
           /\ \A k \in Ids \ {i} : runs'[k] = runs[k]
           /\ runs'[i].status \in {st, runs[i].status}
<1>1. runs \in [Ids -> Run]
  BY DEF Tables
<1> DEFINE r == [runs[i] EXCEPT !.status = IF runs[i].there THEN st ELSE @]
<1>2. runs' = [runs EXCEPT ![i] = r]
  BY <1>1 DEF Reports
<1>3. runs[i] \in Run
  BY <1>1
<1>4. r \in Run /\ r.approval = runs[i].approval /\ r.status \in {st, runs[i].status}
  BY <1>3 DEF Run
<1> QED
  BY <1>1, <1>2, <1>4

LEMMA GoStep ==
    ASSUME Tables, NEW i \in Ids, NEW s, Goes(i, s)
    PROVE  /\ DOMAIN cycle' = Ids /\ \A k \in Ids : DOMAIN cycle'[k] = {"step", "polls"}
           /\ cycle'[i].step = s
           /\ \A k \in Ids \ {i} : cycle'[k] = cycle[k]
  BY DEF Tables, Goes

\* The invariant, from what happened to one run: the others keep their records.
LEMMA OneRun ==
    ASSUME IInv, NEW i \in Ids, Tables', approved' = approved,
           \A k \in Ids \ {i} : /\ runs'[k] = runs[k] /\ cycle'[k].step = cycle[k].step
                                /\ pr'[k] = pr[k],
           runs'[i].approval = "approved" => i \in approved,
           cycle'[i].step = "implementing" => i \in approved,
           pr'[i] # "none" => cycle'[i].step = "ended" /\ i \in approved,
           runs'[i].status = "released" => pr'[i] = "merged"
    PROVE  IInv'
  BY DEF IInv, ApprovalIsReal, CycleIsApproved, NoPRUnapproved, Marked

------------------------------------------------------------------------------
\* The cycle

LEMMA StartStep ==
    ASSUME IInv, NEW i \in Ids, GroqCycleRun(i)
    PROVE  IInv'
<1> DEFINE r == [there |-> TRUE, approval |-> "none", status |-> "running"]
<1>1. Tables /\ runs' = [runs EXCEPT ![i] = r] /\ Goes(i, "planning")
      /\ UNCHANGED <<pr, merging, approved>> /\ cycle[i].step = "none"
  BY DEF GroqCycleRun, IInv, history, Fresh, Used
<1>2. r \in Run
  BY DEF Run, Statuses
<1>3. /\ runs' \in [Ids -> Run] /\ runs'[i] = r
      /\ \A k \in Ids \ {i} : runs'[k] = runs[k]
  BY <1>1, <1>2 DEF Tables
<1>4. Tables' /\ cycle'[i].step = "planning" /\ \A k \in Ids \ {i} : cycle'[k] = cycle[k]
  BY <1>1, <1>3, GoStep DEF Tables
<1>5. pr'[i] = "none"
  BY <1>1 DEF IInv, CycleIsApproved
<1> QED
  BY <1>1, <1>3, <1>4, <1>5, OneRun

LEMMA SubmitStep ==
    ASSUME IInv, NEW i \in Ids, SubmitPlan(i)
    PROVE  IInv'
<1> DEFINE r == IF runs[i].there
                THEN [runs[i] EXCEPT !.approval = "pending", !.status = "awaiting-approval"]
                ELSE runs[i]
<1>1. Tables /\ cycle[i].step = "planning" /\ runs' = [runs EXCEPT ![i] = r]
      /\ Goes(i, "waiting") /\ UNCHANGED <<pr, merging, approved>>
  BY DEF SubmitPlan, IInv, history
<1>2. runs[i] \in Run
  BY <1>1 DEF Tables
<1>3. /\ r \in Run /\ (r.approval = "approved" => r = runs[i])
      /\ (r.status = "released" => r = runs[i])
  BY <1>2 DEF Run, Statuses
<1>4. /\ runs' \in [Ids -> Run] /\ runs'[i] = r
      /\ \A k \in Ids \ {i} : runs'[k] = runs[k]
  BY <1>1, <1>3 DEF Tables
<1>5. Tables' /\ cycle'[i].step = "waiting" /\ \A k \in Ids \ {i} : cycle'[k] = cycle[k]
  BY <1>1, <1>4, GoStep DEF Tables
<1>6. pr'[i] = "none"
  BY <1>1 DEF IInv, CycleIsApproved
<1>7. /\ runs'[i].approval = "approved" => i \in approved
      /\ runs'[i].status # "released"
  BY <1>1, <1>3, <1>4, <1>6 DEF IInv, ApprovalIsReal, Marked
<1> QED
  BY <1>1, <1>4, <1>5, <1>6, <1>7, OneRun

\* The only way on to the implementation is an approval that the run carries.
LEMMA PollStep ==
    ASSUME IInv, NEW i \in Ids, Poll(i)
    PROVE  IInv'
<1> DEFINE next == IF ~runs[i].there \/ runs[i].approval = "rejected" THEN "ended"
                   ELSE IF runs[i].approval = "approved" THEN "implementing"
                   ELSE IF cycle[i].polls + 1 = MaxPolls THEN "late" ELSE "waiting"
<1>1. /\ Tables /\ cycle[i].step = "waiting"
      /\ cycle' = [cycle EXCEPT ![i].polls = @ + 1, ![i].step = next]
      /\ IF cycle'[i].step = "implementing" THEN Reports(i, "running") ELSE UNCHANGED runs
      /\ UNCHANGED <<pr, merging, approved>>
  BY DEF Poll, IInv, history
<1>2. next \in {"ended", "implementing", "late", "waiting"}
      /\ (next = "implementing" => runs[i].approval = "approved")
  OBVIOUS
<1> HIDE DEF next
<1>3. /\ DOMAIN cycle' = Ids /\ \A k \in Ids : DOMAIN cycle'[k] = {"step", "polls"}
      /\ cycle'[i].step = next /\ \A k \in Ids \ {i} : cycle'[k] = cycle[k]
  BY <1>1 DEF Tables
<1>4. /\ runs' \in [Ids -> Run] /\ \A k \in Ids \ {i} : runs'[k] = runs[k]
      /\ runs'[i].approval = runs[i].approval /\ runs'[i].status \in {"running", runs[i].status}
  <2>1. CASE cycle'[i].step = "implementing"
    BY <1>1, <2>1, ReportStep DEF Statuses
  <2>2. CASE cycle'[i].step # "implementing"
    BY <1>1, <2>2 DEF Tables
  <2> QED
    BY <2>1, <2>2
<1>5. Tables'
  BY <1>1, <1>3, <1>4 DEF Tables
<1>6. pr'[i] = "none"
  BY <1>1 DEF IInv, CycleIsApproved
<1>7. /\ runs'[i].approval = "approved" => i \in approved
      /\ cycle'[i].step = "implementing" => i \in approved
      /\ runs'[i].status # "released"
  BY <1>1, <1>2, <1>3, <1>4, <1>6 DEF IInv, ApprovalIsReal, Marked
<1> QED
  BY <1>1, <1>3, <1>4, <1>5, <1>6, <1>7, OneRun

LEMMA TimeOutStep ==
    ASSUME IInv, NEW i \in Ids, TimeOut(i)
    PROVE  IInv'
<1>1. /\ Tables /\ cycle[i].step = "late" /\ Goes(i, "ended") /\ Reports(i, "skipped")
      /\ UNCHANGED <<pr, merging, approved>>
  BY DEF TimeOut, IInv, history
<1>2. /\ runs' \in [Ids -> Run] /\ \A k \in Ids \ {i} : runs'[k] = runs[k]
      /\ runs'[i].approval = runs[i].approval /\ runs'[i].status \in {"skipped", runs[i].status}
  BY <1>1, ReportStep DEF Statuses
<1>3. Tables' /\ cycle'[i].step = "ended" /\ \A k \in Ids \ {i} : cycle'[k] = cycle[k]
  BY <1>1, <1>2, GoStep DEF Tables
<1>4. pr'[i] = "none"
  BY <1>1 DEF IInv, CycleIsApproved
<1>5. /\ runs'[i].approval = "approved" => i \in approved
      /\ runs'[i].status # "released"
  BY <1>1, <1>2, <1>4 DEF IInv, ApprovalIsReal, Marked
<1> QED
  BY <1>1, <1>2, <1>3, <1>4, <1>5, OneRun

LEMMA BuildStep ==
    ASSUME IInv, NEW i \in Ids, Build(i)
    PROVE  IInv'
<1>1. /\ Tables /\ cycle[i].step = "implementing" /\ Reports(i, "tests")
      /\ UNCHANGED <<cycle, pr, merging, approved>>
  BY DEF Build, IInv, history
<1>2. /\ runs' \in [Ids -> Run] /\ \A k \in Ids \ {i} : runs'[k] = runs[k]
      /\ runs'[i].approval = runs[i].approval /\ runs'[i].status \in {"tests", runs[i].status}
  BY <1>1, ReportStep DEF Statuses
<1>3. Tables'
  BY <1>1, <1>2 DEF Tables
<1>4. pr'[i] = "none" /\ i \in approved
  BY <1>1 DEF IInv, CycleIsApproved
<1>5. runs'[i].status # "released"
  BY <1>1, <1>2, <1>4 DEF IInv, Marked
<1> QED
  BY <1>1, <1>2, <1>3, <1>4, <1>5, OneRun

\* A pull request is opened for an approved run, as its cycle ends.
LEMMA ImplementStep ==
    ASSUME IInv, NEW i \in Ids, Implement(i)
    PROVE  IInv'
<1>1. /\ Tables /\ cycle[i].step = "implementing" /\ Goes(i, "ended")
      /\ UNCHANGED <<merging, approved>>
      /\ \/ pr' = [pr EXCEPT ![i] = "open"] /\ Reports(i, "pr-open")
         \/ pr' = pr /\ Reports(i, "failed")
  BY DEF Implement, IInv
<1>2. /\ runs' \in [Ids -> Run] /\ \A k \in Ids \ {i} : runs'[k] = runs[k]
      /\ runs'[i].approval = runs[i].approval
      /\ runs'[i].status \in {"pr-open", "failed", runs[i].status}
  BY <1>1, ReportStep DEF Statuses
<1>3. /\ pr' \in [Ids -> {"none", "open", "merged"}]
      /\ \A k \in Ids \ {i} : pr'[k] = pr[k]
  BY <1>1 DEF Tables
<1>4. Tables' /\ cycle'[i].step = "ended" /\ \A k \in Ids \ {i} : cycle'[k] = cycle[k]
  BY <1>1, <1>2, <1>3, GoStep DEF Tables
<1>5. pr[i] = "none" /\ i \in approved
  BY <1>1 DEF IInv, CycleIsApproved
<1>6. runs'[i].status # "released"
  BY <1>2, <1>5 DEF IInv, Marked
<1> QED
  BY <1>1, <1>2, <1>3, <1>4, <1>5, <1>6, OneRun

------------------------------------------------------------------------------
\* The operators

LEMMA ApproveStep ==
    ASSUME IInv, NEW i \in Ids, Approve(i)
    PROVE  IInv'
<1> DEFINE r == [runs[i] EXCEPT !.approval = "approved", !.status = "running"]
<1>1. Tables /\ approved' = approved \cup {i} /\ UNCHANGED <<cycle, pr, merging>>
  BY DEF Approve, IInv
<1>2. runs \in [Ids -> Run] /\ runs[i] \in Run
  BY <1>1 DEF Tables
<1>3. runs' = [runs EXCEPT ![i] = r]
  BY <1>2 DEF Approve
<1>4. r \in Run /\ r.approval = "approved" /\ r.status = "running"
  BY <1>2 DEF Run, Statuses
<1>5. /\ runs' \in [Ids -> Run] /\ runs'[i] = r
      /\ \A k \in Ids \ {i} : runs'[k] = runs[k]
  BY <1>2, <1>3, <1>4
<1>6. Tables'
  BY <1>1, <1>5 DEF Tables
<1> QED
  BY <1>1, <1>4, <1>5, <1>6 DEF IInv, ApprovalIsReal, CycleIsApproved, NoPRUnapproved, Marked

\* A step that only touches the runs table, and writes neither an approval nor "released".
LEMMA TableStep ==
    ASSUME IInv, UNCHANGED <<cycle, pr, merging, approved>>, runs' \in [Ids -> Run],
           \A i \in Ids : /\ runs'[i].approval = "approved" => runs[i].approval = "approved"
                          /\ runs'[i].status = "released" => runs[i].status = "released"
    PROVE  IInv'
  BY DEF IInv, Tables, ApprovalIsReal, CycleIsApproved, NoPRUnapproved, Marked

LEMMA RejectStep ==
    ASSUME IInv, NEW i \in Ids, Reject(i)
    PROVE  IInv'
<1> DEFINE marked == [runs EXCEPT ![i].approval = "rejected", ![i].status = "rejected"]
           fresh == [NoRun EXCEPT !.there = TRUE]
<1>1. runs \in [Ids -> Run] /\ UNCHANGED <<cycle, pr, merging, approved>>
  BY DEF Reject, IInv, Tables
<1>2. runs' = [k \in Ids |-> IF Fresh(k) THEN fresh ELSE marked[k]]
  BY DEF Reject
<1>3. fresh \in Run /\ fresh.approval = "none" /\ fresh.status = "queued"
  BY DEF NoRun, Run, Statuses
<1>4. marked = [runs EXCEPT ![i] = [runs[i] EXCEPT !.approval = "rejected", !.status = "rejected"]]
  BY <1>1
<1>5. /\ [runs[i] EXCEPT !.approval = "rejected", !.status = "rejected"] \in Run
      /\ [runs[i] EXCEPT !.approval = "rejected", !.status = "rejected"].approval = "rejected"
      /\ [runs[i] EXCEPT !.approval = "rejected", !.status = "rejected"].status = "rejected"
  BY <1>1 DEF Run, Statuses
<1>6. \A k \in Ids : /\ marked[k] \in Run
                     /\ marked[k].approval = "approved" => runs[k].approval = "approved"
                     /\ marked[k].status = "released" => runs[k].status = "released"
  BY <1>1, <1>4, <1>5
<1> HIDE DEF marked, fresh
<1>7. \A k \in Ids : runs'[k] \in {fresh, marked[k]}
  BY <1>2
<1>8. \A k \in Ids : /\ runs'[k] \in Run
                     /\ runs'[k].approval = "approved" => runs[k].approval = "approved"
                     /\ runs'[k].status = "released" => runs[k].status = "released"
  BY <1>3, <1>6, <1>7
<1>9. runs' \in [Ids -> Run]
  BY <1>2, <1>8
<1> QED
  BY <1>1, <1>8, <1>9, TableStep

LEMMA ClearStep ==
    ASSUME IInv, ClearRuns
    PROVE  IInv'
<1>1. PICK gone \in SUBSET Ids : runs' = [i \in Ids |-> IF i \in gone THEN NoRun ELSE runs[i]]
  BY DEF ClearRuns
<1>2. runs \in [Ids -> Run] /\ UNCHANGED <<cycle, pr, merging, approved>>
  BY DEF ClearRuns, IInv, Tables, history
<1>3. NoRun \in Run /\ NoRun.approval = "none" /\ NoRun.status = "queued"
  BY DEF NoRun, Run, Statuses
<1>4. runs' \in [Ids -> Run]
  BY <1>1, <1>2, <1>3
<1>5. \A i \in Ids : runs'[i] \in {NoRun, runs[i]}
  BY <1>1
<1> QED
  BY <1>2, <1>3, <1>4, <1>5, TableStep

LEMMA MergeStep ==
    ASSUME IInv, NEW m \in Merges, NEW i \in Ids, Merge(m, i)
    PROVE  IInv'
  BY DEF IInv, Merge, history, Tables, ApprovalIsReal, CycleIsApproved, NoPRUnapproved, Marked

\* The run of a merge under way is one of the table: only Merge starts one.
MergingIsRun == \A m \in Merges : merging[m] # 0 => merging[m] \in Ids

\* "released" is written together with the merge, whatever the run has become meanwhile.
LEMMA MergedStep ==
    ASSUME IInv, MergingIsRun, NEW m \in Merges, Merged(m)
    PROVE  IInv'
<1> DEFINE i == merging[m]
<1>1. /\ Tables /\ i \in Ids /\ merging' = [merging EXCEPT ![m] = 0]
      /\ UNCHANGED <<cycle, approved>>
  BY DEF Merged, IInv, MergingIsRun, history
<1>2. CASE UNCHANGED <<pr, runs>>
  BY <1>1, <1>2 DEF IInv, Tables, ApprovalIsReal, CycleIsApproved, NoPRUnapproved, Marked
<1>3. CASE pr[i] # "none" /\ pr' = [pr EXCEPT ![i] = "merged"] /\ Reports(i, "released")
  <2>1. /\ runs' \in [Ids -> Run] /\ \A k \in Ids \ {i} : runs'[k] = runs[k]
        /\ runs'[i].approval = runs[i].approval
    BY <1>1, <1>3, ReportStep DEF Statuses
  <2>2. /\ pr' \in [Ids -> {"none", "open", "merged"}] /\ pr'[i] = "merged"
        /\ \A k \in Ids \ {i} : pr'[k] = pr[k]
    BY <1>1, <1>3 DEF Tables
  <2>3. Tables'
    BY <1>1, <2>1, <2>2 DEF Tables
  <2>4. cycle[i].step = "ended" /\ i \in approved
    BY <1>1, <1>3 DEF IInv, CycleIsApproved, NoPRUnapproved
  <2>5. runs'[i].approval = "approved" => i \in approved
    BY <2>4
  <2> QED
    BY <1>1, <2>1, <2>2, <2>3, <2>4, <2>5, OneRun
<1> QED
  BY <1>2, <1>3 DEF Merged

------------------------------------------------------------------------------

FullInv == IInv /\ MergingIsRun

LEMMA InitFull == Init => FullInv
<1> SUFFICES ASSUME Init PROVE FullInv
  OBVIOUS
<1>1. NoRun \in Run /\ NoRun.approval = "none" /\ NoRun.status = "queued"
  BY DEF NoRun, Run, Statuses
<1>2. NoCycle.step = "none" /\ DOMAIN NoCycle = {"step", "polls"}
  BY DEF NoCycle
<1>3. Tables
  BY <1>1, <1>2 DEF Init, Tables
<1> QED
  BY <1>1, <1>2, <1>3
     DEF Init, FullInv, IInv, MergingIsRun, ApprovalIsReal, CycleIsApproved, NoPRUnapproved, Marked

\* Only Merge and Merged touch the merges under way.
LEMMA NextMerging == FullInv /\ [Next]_vars => MergingIsRun'
<1> SUFFICES ASSUME FullInv, [Next]_vars PROVE MergingIsRun'
  OBVIOUS
<1>1. DOMAIN merging = Merges /\ MergingIsRun
  BY DEF FullInv, IInv, Tables
<1>2. CASE UNCHANGED merging
  BY <1>1, <1>2 DEF MergingIsRun
<1>3. CASE \E m \in Merges, i \in Ids : Merge(m, i)
  BY <1>1, <1>3 DEF MergingIsRun, Merge
<1>4. CASE \E m \in Merges : Merged(m)
  BY <1>1, <1>4 DEF MergingIsRun, Merged
<1> QED
  BY <1>2, <1>3, <1>4
     DEF Next, Cycle, GroqCycleRun, SubmitPlan, Poll, TimeOut, Build, Implement, Approve, Reject,
         ClearRuns, vars

LEMMA NextFull == FullInv /\ [Next]_vars => FullInv'
<1> SUFFICES ASSUME FullInv, [Next]_vars PROVE IInv'
  BY NextMerging DEF FullInv
<1>1. IInv /\ MergingIsRun
  BY DEF FullInv
<1>2. CASE \E i \in Ids : GroqCycleRun(i) \/ Cycle(i)
  BY <1>1, <1>2, StartStep, SubmitStep, PollStep, TimeOutStep, BuildStep, ImplementStep DEF Cycle
<1>3. CASE \E i \in Ids : Approve(i) \/ Reject(i)
  BY <1>1, <1>3, ApproveStep, RejectStep
<1>4. CASE \E m \in Merges : Merged(m) \/ \E i \in Ids : Merge(m, i)
  BY <1>1, <1>4, MergeStep, MergedStep
<1>5. CASE ClearRuns
  BY <1>1, <1>5, ClearStep
<1>6. CASE UNCHANGED vars
  BY <1>1, <1>6 DEF vars, IInv, Tables, ApprovalIsReal, CycleIsApproved, NoPRUnapproved, Marked
<1> QED
  BY <1>2, <1>3, <1>4, <1>5, <1>6 DEF Next

LEMMA SpecFull == Spec => []FullInv
  BY InitFull, NextFull, PTL DEF Spec

------------------------------------------------------------------------------
\* Types: the one counter that could run over its bound is that of the looks for a decision.

BoundsAreNumbers == MaxRuns \in Nat /\ MaxRequests \in Nat /\ MaxPolls \in Nat \ {0}

Steps == {"none", "planning", "waiting", "late", "implementing", "ended"}
CycleRecord == [step : Steps, polls : 0..MaxPolls]

\* A cycle that waits has a look left: it starts to wait with all of them, and the last one ends
\* the waiting.
LookLeft ==
    \A i \in Ids : /\ cycle[i].step = "waiting" => cycle[i].polls < MaxPolls
                   /\ cycle[i].step \in {"none", "planning"} => cycle[i].polls = 0

TypeInv == TypeOK /\ LookLeft

\* The types of what the tables above leave out
Typed ==
    /\ cycle \in [Ids -> CycleRecord] /\ merging \in [Merges -> 0..MaxRuns]
    /\ requests \in 0..MaxRequests
    /\ approved \in SUBSET Ids /\ refused \in SUBSET Ids
    /\ inTime \in SUBSET Ids /\ implemented \in SUBSET Ids

LEMMA TypedIsTypeOK ==
    /\ Tables => (Typed <=> TypeOK)
    /\ Tables' => (Typed' <=> TypeOK')
<1>1. CycleRecord = [step : {"none", "planning", "waiting", "late", "implementing", "ended"},
                     polls : 0..MaxPolls]
  BY DEF CycleRecord, Steps
<1> QED
  BY <1>1 DEF Tables, Typed, TypeOK

LEMMA CycleFacts ==
    ASSUME BoundsAreNumbers, NEW c \in CycleRecord, NEW s \in Steps
    PROVE  /\ c.step \in Steps /\ c.polls \in 0..MaxPolls
           /\ [c EXCEPT !.step = s] \in CycleRecord
           /\ [c EXCEPT !.step = s].step = s /\ [c EXCEPT !.step = s].polls = c.polls
           /\ c.polls < MaxPolls => /\ [c EXCEPT !.polls = @ + 1, !.step = s] \in CycleRecord
                                    /\ [c EXCEPT !.polls = @ + 1, !.step = s].step = s
                                    /\ [c EXCEPT !.polls = @ + 1, !.step = s].polls = c.polls + 1
<1>1. c.step \in Steps /\ c.polls \in 0..MaxPolls /\ MaxPolls \in Nat
  BY DEF CycleRecord, BoundsAreNumbers
<1>2. c.polls < MaxPolls => c.polls + 1 \in 0..MaxPolls
  BY <1>1
<1>3. /\ [c EXCEPT !.step = s] \in CycleRecord
      /\ [c EXCEPT !.step = s].step = s /\ [c EXCEPT !.step = s].polls = c.polls
  BY <1>1 DEF CycleRecord
<1>4. ASSUME c.polls < MaxPolls
      PROVE  /\ [c EXCEPT !.polls = @ + 1, !.step = s] \in CycleRecord
             /\ [c EXCEPT !.polls = @ + 1, !.step = s].step = s
             /\ [c EXCEPT !.polls = @ + 1, !.step = s].polls = c.polls + 1
  BY <1>1, <1>2, <1>4 DEF CycleRecord
<1> QED
  BY <1>1, <1>3, <1>4

LEMMA GoTyped ==
    ASSUME BoundsAreNumbers, Typed, LookLeft, NEW i \in Ids, NEW s \in Steps, Goes(i, s),
           s \in {"none", "planning", "waiting"} => cycle[i].polls = 0
    PROVE  cycle' \in [Ids -> CycleRecord] /\ LookLeft'
<1>1. cycle \in [Ids -> CycleRecord] /\ cycle[i] \in CycleRecord
  BY DEF Typed
<1> DEFINE c == [cycle[i] EXCEPT !.step = s]
<1>2. cycle' = [cycle EXCEPT ![i] = c]
  BY <1>1 DEF Goes
<1>3. c \in CycleRecord /\ c.step = s /\ c.polls = cycle[i].polls
  BY <1>1, CycleFacts
<1> HIDE DEF c
<1>4. cycle' \in [Ids -> CycleRecord] /\ cycle'[i] = c /\ \A k \in Ids \ {i} : cycle'[k] = cycle[k]
  BY <1>1, <1>2, <1>3
<1>5. MaxPolls \in Nat \ {0}
  BY DEF BoundsAreNumbers
<1> QED
  BY <1>3, <1>4, <1>5 DEF LookLeft

\* The last look ends the waiting.
LEMMA PollTyped ==
    ASSUME BoundsAreNumbers, Typed, LookLeft, NEW i \in Ids, Poll(i)
    PROVE  cycle' \in [Ids -> CycleRecord] /\ LookLeft'
<1> DEFINE s == IF ~runs[i].there \/ runs[i].approval = "rejected" THEN "ended"
                ELSE IF runs[i].approval = "approved" THEN "implementing"
                ELSE IF cycle[i].polls + 1 = MaxPolls THEN "late" ELSE "waiting"
           c == [cycle[i] EXCEPT !.polls = @ + 1, !.step = s]
<1>1. /\ cycle \in [Ids -> CycleRecord] /\ cycle[i] \in CycleRecord
      /\ cycle[i].polls < MaxPolls /\ cycle[i].polls \in 0..MaxPolls /\ MaxPolls \in Nat
  <2>1. cycle[i].step = "waiting" /\ cycle[i] \in CycleRecord /\ cycle \in [Ids -> CycleRecord]
    BY DEF Poll, Typed
  <2>2. cycle[i].polls \in 0..MaxPolls
    BY <2>1 DEF CycleRecord
  <2> QED
    BY <2>1, <2>2 DEF LookLeft, BoundsAreNumbers
<1>2. s \in Steps /\ s \notin {"none", "planning"}
      /\ (s = "waiting" => cycle[i].polls + 1 # MaxPolls)
  BY DEF Steps
<1>3. cycle' = [cycle EXCEPT ![i].polls = @ + 1, ![i].step = s]
  BY DEF Poll
<1> HIDE DEF s
<1>4. cycle' = [cycle EXCEPT ![i] = c]
  BY <1>1, <1>3
<1>5. c \in CycleRecord /\ c.step = s /\ c.polls = cycle[i].polls + 1
  BY <1>1, <1>2, CycleFacts
<1> HIDE DEF c
<1>6. cycle' \in [Ids -> CycleRecord] /\ cycle'[i] = c /\ \A k \in Ids \ {i} : cycle'[k] = cycle[k]
  BY <1>1, <1>4, <1>5
<1>7. c.step = "waiting" => c.polls < MaxPolls
  BY <1>1, <1>2, <1>5
<1> QED
  BY <1>2, <1>5, <1>6, <1>7 DEF LookLeft

LEMMA CycleTyped ==
    ASSUME BoundsAreNumbers, Typed, LookLeft, [Next]_vars
    PROVE  cycle' \in [Ids -> CycleRecord] /\ LookLeft'
<1>1. CASE UNCHANGED cycle
  BY <1>1 DEF Typed, LookLeft
<1>2. ASSUME NEW i \in Ids, GroqCycleRun(i)
      PROVE  cycle' \in [Ids -> CycleRecord] /\ LookLeft'
  BY <1>2, GoTyped DEF GroqCycleRun, Fresh, Used, Steps, LookLeft
<1>3. ASSUME NEW i \in Ids, SubmitPlan(i)
      PROVE  cycle' \in [Ids -> CycleRecord] /\ LookLeft'
  BY <1>3, GoTyped DEF SubmitPlan, Steps, LookLeft
<1>4. ASSUME NEW i \in Ids, TimeOut(i) \/ Implement(i)
      PROVE  cycle' \in [Ids -> CycleRecord] /\ LookLeft'
  BY <1>4, GoTyped DEF TimeOut, Implement, Steps
<1> QED
  BY <1>1, <1>2, <1>3, <1>4, PollTyped
     DEF Next, Cycle, Build, Approve, Reject, ClearRuns, Merge, Merged, vars

LEMMA CountersTyped ==
    ASSUME BoundsAreNumbers, Typed, [Next]_vars
    PROVE  merging' \in [Merges -> 0..MaxRuns] /\ requests' \in 0..MaxRequests
<1>1. requests' \in 0..MaxRequests
  <2>1. Asked => requests' \in 0..MaxRequests
    BY DEF Asked, Typed, BoundsAreNumbers
  <2>2. requests' = requests => requests' \in 0..MaxRequests
    BY DEF Typed
  <2> QED
    BY <2>1, <2>2
       DEF Next, Cycle, GroqCycleRun, SubmitPlan, Poll, TimeOut, Build, Implement, Approve, Reject,
           ClearRuns, Merge, Merged, vars
<1>2. merging' \in [Merges -> 0..MaxRuns]
  <2>1. CASE UNCHANGED merging
    BY <2>1 DEF Typed
  <2>2. ASSUME NEW m \in Merges, NEW i \in Ids, Merge(m, i)
        PROVE  merging' \in [Merges -> 0..MaxRuns]
    BY <2>2 DEF Merge, Typed, Ids, BoundsAreNumbers
  <2>3. ASSUME NEW m \in Merges, Merged(m)
        PROVE  merging' \in [Merges -> 0..MaxRuns]
    BY <2>3 DEF Merged, Typed, BoundsAreNumbers
  <2> QED
    BY <2>1, <2>2, <2>3
       DEF Next, Cycle, GroqCycleRun, SubmitPlan, Poll, TimeOut, Build, Implement, Approve, Reject,
           ClearRuns, vars
<1> QED
  BY <1>1, <1>2

LEMMA HistoryTyped ==
    ASSUME Typed, [Next]_vars
    PROVE  /\ approved' \in SUBSET Ids /\ refused' \in SUBSET Ids
           /\ inTime' \in SUBSET Ids /\ implemented' \in SUBSET Ids
<1>1. CASE UNCHANGED history
  BY <1>1 DEF Typed, history
<1>2. CASE \E i \in Ids : Implement(i)
  BY <1>2 DEF Typed, Implement
<1>3. CASE \E i \in Ids : Approve(i)
  BY <1>3 DEF Typed, Approve
<1>4. CASE \E i \in Ids : Reject(i)
  BY <1>4 DEF Typed, Reject
<1> QED
  BY <1>1, <1>2, <1>3, <1>4
     DEF Next, Cycle, GroqCycleRun, SubmitPlan, Poll, TimeOut, Build, ClearRuns, Merge, Merged, vars,
         history

LEMMA InitTypes == BoundsAreNumbers /\ Init => TypeInv
<1> SUFFICES ASSUME BoundsAreNumbers, Init PROVE TypeInv
  OBVIOUS
<1>1. Tables
  BY InitFull DEF FullInv, IInv
<1>2. NoCycle \in CycleRecord /\ NoCycle.step = "none" /\ NoCycle.polls = 0
  BY DEF NoCycle, CycleRecord, Steps, BoundsAreNumbers
<1>3. cycle = [i \in Ids |-> NoCycle]
  BY DEF Init
<1>4. Typed /\ LookLeft
  BY <1>2, <1>3 DEF Init, Typed, LookLeft, BoundsAreNumbers
<1> QED
  BY <1>1, <1>4, TypedIsTypeOK DEF TypeInv

LEMMA NextTypes == BoundsAreNumbers /\ FullInv /\ TypeInv /\ [Next]_vars => TypeInv'
<1> SUFFICES ASSUME BoundsAreNumbers, FullInv, TypeInv, [Next]_vars PROVE TypeInv'
  OBVIOUS
<1>1. Tables /\ Tables'
  BY NextFull DEF FullInv, IInv
<1>2. Typed /\ LookLeft
  BY <1>1, TypedIsTypeOK DEF TypeInv
<1>3. Typed'
  BY <1>2, CycleTyped, CountersTyped, HistoryTyped DEF Typed
<1> QED
  BY <1>1, <1>2, <1>3, CycleTyped, TypedIsTypeOK DEF TypeInv

------------------------------------------------------------------------------

\* The tables keep their types, and no cycle looks for a decision more often than it may, where
\* the bounds are numbers (GroqCycleRun).
THEOREM RunsTyped == ASSUME BoundsAreNumbers PROVE Spec => []TypeOK
<1>1. Init => FullInv /\ TypeInv
  BY InitFull, InitTypes
<1>2. FullInv /\ TypeInv /\ [Next]_vars => (FullInv /\ TypeInv)'
  BY NextFull, NextTypes
<1>3. FullInv /\ TypeInv => TypeOK
  BY DEF TypeInv
<1> QED
  BY <1>1, <1>2, <1>3, PTL DEF Spec

\* No pull request is opened for a run that no operator approved, however approvals, rejections,
\* clearings and the timeout of the wait fall (GroqCycleRun).
THEOREM PRWasApproved == Spec => []NoPRUnapproved
<1>1. FullInv => NoPRUnapproved
  BY DEF FullInv, IInv
<1> QED
  BY <1>1, SpecFull, PTL

\* A run that says "released" has its pull request merged, however many operators merge, reject
\* and clear at once (DecideMergeAsync).
THEOREM ReleasedWasMerged == Spec => []ReleasedIsMerged
<1>1. FullInv => ReleasedIsMerged
  BY DEF FullInv, IInv, Marked, ReleasedIsMerged
<1> QED
  BY <1>1, SpecFull, PTL
==============================================================================
