----------------------------- MODULE EvolutionRuns -----------------------------
(***************************************************************************)
(* Mutation runs in the container: the engine plans a change, parks for    *)
(* the operator, implements after the approval and opens a pull request,   *)
(* which an operator may merge (EvolutionService.cs, GroqCycleRun in       *)
(* Controllers.cs, ApprovalPanel in App.jsx).  Requests of operators come  *)
(* in whenever they come: a console shows a run as it was up to three      *)
(* seconds ago, and the server compares little.                            *)
(***************************************************************************)
EXTENDS Naturals

CONSTANTS
    MaxRuns,       \* bound: runs ever created
    MaxPolls,      \* times the cycle looks for a decision; 180 in the code
    MaxRequests,   \* bound: requests of operators
    Merges         \* merges under way at once

Ids == 1..MaxRuns

VARIABLES
    runs,          \* per id, the entry in the runs table
    cycle,         \* per id, the background task: its step, and its polls so far
    pr,            \* per id, the pull request
    merging,       \* merges under way: the id of the run, 0 for none
    requests,
    approved,      \* history: runs an operator approved
    refused,       \* history: runs an operator rejected
    inTime,        \* history: runs approved while the cycle had yet to look
    implemented    \* history: runs whose change was produced

vars == <<runs, cycle, pr, merging, requests, approved, refused, inTime, implemented>>
history == <<approved, refused, inTime, implemented>>

Statuses == {"queued", "running", "awaiting-approval", "tests", "pr-open", "released",
             "rejected", "skipped", "failed"}

Run == [there : BOOLEAN, approval : {"none", "pending", "approved", "rejected"}, status : Statuses]
NoRun == [there |-> FALSE, approval |-> "none", status |-> "queued"]
NoCycle == [step |-> "none", polls |-> 0]

TypeOK ==
    /\ runs \in [Ids -> Run]
    /\ cycle \in [Ids -> [step : {"none", "planning", "waiting", "late", "implementing", "ended"},
                          polls : 0..MaxPolls]]
    /\ pr \in [Ids -> {"none", "open", "merged"}] /\ merging \in [Merges -> 0..MaxRuns]
    /\ requests \in 0..MaxRequests
    /\ approved \in SUBSET Ids /\ refused \in SUBSET Ids
    /\ inTime \in SUBSET Ids /\ implemented \in SUBSET Ids

Init ==
    /\ runs = [i \in Ids |-> NoRun] /\ cycle = [i \in Ids |-> NoCycle]
    /\ pr = [i \in Ids |-> "none"] /\ merging = [m \in Merges |-> 0]
    /\ requests = 0 /\ approved = {} /\ refused = {} /\ inTime = {} /\ implemented = {}

\* Ids are handed out in order.
Used(i) == runs[i].there \/ cycle[i].step # "none" \/ i \in approved \cup refused
Fresh(i) == ~Used(i) /\ \A k \in 1..(i - 1) : Used(k)

Asked == requests < MaxRequests /\ requests' = requests + 1
Goes(i, step) == cycle' = [cycle EXCEPT ![i].step = step]

\* UpdateProgress and its like: the status is overwritten, whatever it was, if the run is there.
Reports(i, st) == runs' = [runs EXCEPT ![i].status = IF runs[i].there THEN st ELSE @]

------------------------------------------------------------------------------
\* The cycle in the container

GroqCycleRun(i) ==
    /\ Asked /\ Fresh(i)
    /\ runs' = [runs EXCEPT ![i] = [there |-> TRUE, approval |-> "none", status |-> "running"]]
    /\ Goes(i, "planning")
    /\ UNCHANGED <<pr, merging, history>>

\* The plan is submitted; the task starts to wait, also for a run that is gone.
SubmitPlan(i) ==
    /\ cycle[i].step = "planning"
    /\ runs' = [runs EXCEPT ![i] = IF @.there THEN [@ EXCEPT !.approval = "pending", !.status = "awaiting-approval"]
                                   ELSE @]
    /\ Goes(i, "waiting")
    /\ UNCHANGED <<pr, merging, requests, history>>

\* Mutant: when the polls are used up, the loop is left like after an approval.
PollThrough(i) ==
    /\ cycle[i].step = "waiting"
    /\ cycle' = [cycle EXCEPT ![i].polls = @ + 1,
                 ![i].step = IF ~runs[i].there \/ runs[i].approval = "rejected" THEN "ended"
                             ELSE IF runs[i].approval = "approved" \/ cycle[i].polls + 1 = MaxPolls
                             THEN "implementing" ELSE "waiting"]
    /\ IF cycle'[i].step = "implementing" THEN Reports(i, "running") ELSE UNCHANGED runs
    /\ UNCHANGED <<pr, merging, requests, history>>

\* Mutant: nobody compares the polls with their limit.
PollUnlimited(i) ==
    /\ cycle[i].step = "waiting"
    /\ cycle' = [cycle EXCEPT ![i].polls = @ + 1,
                 ![i].step = IF ~runs[i].there \/ runs[i].approval = "rejected" THEN "ended"
                             ELSE IF runs[i].approval = "approved" THEN "implementing" ELSE "waiting"]
    /\ IF cycle'[i].step = "implementing" THEN Reports(i, "running") ELSE UNCHANGED runs
    /\ UNCHANGED <<pr, merging, requests, history>>

\* Mutant: only the last look counts.
PollDeaf(i) ==
    /\ cycle[i].step = "waiting"
    /\ cycle' = [cycle EXCEPT ![i].polls = @ + 1,
                 ![i].step = IF ~runs[i].there \/ runs[i].approval = "rejected" THEN "ended"
                             ELSE IF cycle[i].polls + 1 = MaxPolls THEN "late" ELSE "waiting"]
    /\ UNCHANGED <<runs, pr, merging, requests, history>>

\* Every five seconds.  After the last look the timeout is reported, a moment later.
Poll(i) ==
    /\ cycle[i].step = "waiting"
    /\ cycle' = [cycle EXCEPT ![i].polls = @ + 1,
                 ![i].step = IF ~runs[i].there \/ runs[i].approval = "rejected" THEN "ended"
                             ELSE IF runs[i].approval = "approved" THEN "implementing"
                             ELSE IF cycle[i].polls + 1 = MaxPolls THEN "late" ELSE "waiting"]
    /\ IF cycle'[i].step = "implementing" THEN Reports(i, "running") ELSE UNCHANGED runs
    /\ UNCHANGED <<pr, merging, requests, history>>

TimeOut(i) ==
    /\ cycle[i].step = "late" /\ Goes(i, "ended") /\ Reports(i, "skipped")
    /\ UNCHANGED <<pr, merging, requests, history>>

\* Building and testing a candidate
Build(i) ==
    /\ cycle[i].step = "implementing" /\ runs[i].status = "running" /\ Reports(i, "tests")
    /\ UNCHANGED <<cycle, pr, merging, requests, history>>

\* ImplementWithRepair comes back: with a pull request, or after its last repair.
Implement(i) ==
    /\ cycle[i].step = "implementing" /\ Goes(i, "ended")
    /\ \/ pr' = [pr EXCEPT ![i] = "open"] /\ Reports(i, "pr-open")
       \/ UNCHANGED pr /\ Reports(i, "failed")
    /\ implemented' = implemented \cup {i}
    /\ UNCHANGED <<merging, requests, approved, refused, inTime>>

------------------------------------------------------------------------------
\* Operators

\* Approve and refine: Decide looks at nothing but whether the run is there.
Approve(i) ==
    /\ Asked /\ runs[i].there
    /\ runs' = [runs EXCEPT ![i].approval = "approved", ![i].status = "running"]
    /\ approved' = approved \cup {i}
    /\ inTime' = IF cycle[i].step = "waiting" THEN inTime \cup {i} ELSE inTime
    /\ UNCHANGED <<cycle, pr, merging, refused, implemented>>

\* Reject: the run is marked, and a fresh one is queued for a local worker, which this
\* model leaves out.
Reject(i) ==
    /\ Asked /\ runs[i].there
    /\ LET marked == [runs EXCEPT ![i].approval = "rejected", ![i].status = "rejected"]
       IN  runs' = [k \in Ids |-> IF Fresh(k) THEN [NoRun EXCEPT !.there = TRUE] ELSE marked[k]]
    /\ refused' = refused \cup {i}
    /\ UNCHANGED <<cycle, pr, merging, approved, inTime, implemented>>

\* Clear runs, and the worker's reset of one
ClearRuns ==
    /\ Asked /\ \E gone \in SUBSET Ids : runs' = [i \in Ids |-> IF i \in gone THEN NoRun ELSE runs[i]]
    /\ UNCHANGED <<cycle, pr, merging, history>>

\* DecideMerge, first half: the run must be at pr-open.
Merge(m, i) ==
    /\ Asked /\ runs[i].there /\ merging[m] = 0
    /\ runs[i].status = "pr-open"
    /\ merging' = [merging EXCEPT ![m] = i]
    /\ UNCHANGED <<runs, cycle, pr, history>>

\* DecideMerge, second half: gh has merged or failed, and the run may have changed.  A
\* pull request without a plan's change behind it has no url, and gh fails.
Merged(m) ==
    /\ merging[m] # 0 /\ merging' = [merging EXCEPT ![m] = 0]
    /\ \/ pr[merging[m]] # "none" /\ pr' = [pr EXCEPT ![merging[m]] = "merged"] /\ Reports(merging[m], "released")
       \/ UNCHANGED <<pr, runs>>
    /\ UNCHANGED <<cycle, requests, history>>

------------------------------------------------------------------------------

Cycle(i) == SubmitPlan(i) \/ Poll(i) \/ TimeOut(i) \/ Build(i) \/ Implement(i)

Next ==
    \/ \E i \in Ids : \/ GroqCycleRun(i) \/ Cycle(i) \/ Approve(i) \/ Reject(i)
                      \/ \E m \in Merges : Merge(m, i)
    \/ \E m \in Merges : Merged(m)
    \/ ClearRuns

Spec == Init /\ [][Next]_vars

------------------------------------------------------------------------------
\* Correctness

\* No pull request comes of a plan that no operator approved: not after a rejection, not
\* when nobody answers, not when the run is cleared (the wait in GroqCycleRun).
NoPRUnapproved == \A i \in Ids : pr[i] # "none" => i \in approved

\* A run that says "released" has a merged pull request, however many operators press
\* merge and whatever is reported meanwhile (DecideMergeAsync).
ReleasedIsMerged == \A i \in Ids : runs[i].there /\ runs[i].status = "released" => pr[i] = "merged"
==============================================================================
