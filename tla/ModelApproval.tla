----------------------------- MODULE ModelApproval -----------------------------
(***************************************************************************)
(* Approving an AI model: the byte-level verification of its weight files  *)
(* as a background job (VerificationJobs.cs, WeightVerifier.cs) and the    *)
(* consoles that start it, poll it and then allow the model (App.jsx:      *)
(* AiModelDetail).                                                         *)
(***************************************************************************)
EXTENDS Naturals, FiniteSets, FiniteSetsExt

CONSTANTS
    Consoles,
    Files,         \* the weight files of the model
    Workers,       \* files verified at a time by one job
    MaxJobs,       \* bound: jobs ever started
    MaxFailures,   \* bound: requests and downloads that fail
    MaxRestarts    \* bound: restarts of the host

Jobs == 1..MaxJobs

VARIABLES
    bytes,         \* what the files really hold
    cache,         \* WeightVerifier: the verdicts remembered
    job,           \* per job, the stage of each of its files
    current,       \* the model's entry in the jobs table, 0 for none
    allowed,       \* the model is on the registry
    con,           \* per console, what it does
    view,          \* per console, the last snapshot of a job it polled
    failed, restarts,
    collided       \* history: whether two jobs had the same file open

vars == <<bytes, cache, job, current, allowed, con, view, failed, restarts, collided>>
serverVars == <<cache, job, current, collided>>

Verdicts == {"clean", "malicious", "inconclusive"}
Stages == {"queued", "reading", "done"}
NoJob == [started |-> FALSE, lost |-> FALSE, stage |-> [f \in Files |-> "queued"],
          verdict |-> [f \in Files |-> "inconclusive"]]

\* "starting" and "storing" are the two halves of VerificationJobService.Start.
Steps == {"closed", "starting", "storing", "polling", "idle", "crashed"}

\* What a console knows of the job: null, running, the verdicts of one that is over, or
\* the answer for a job the server does not have.
Snapshots == [status : {"null", "running", "none"}, verdict : {NoJob.verdict}]
                \cup [status : {"done"}, verdict : [Files -> Verdicts]]
Unknown == [status |-> "null", verdict |-> NoJob.verdict]

TypeOK ==
    /\ bytes \in [Files -> {"clean", "malicious"}]
    /\ cache \in [Files -> Verdicts \cup {"unknown"}]
    /\ job \in [Jobs -> [started : BOOLEAN, lost : BOOLEAN, stage : [Files -> Stages],
                         verdict : [Files -> Verdicts]]]
    /\ current \in 0..MaxJobs /\ allowed \in BOOLEAN
    /\ con \in [Consoles -> Steps] /\ view \in [Consoles -> Snapshots]
    /\ failed \in 0..MaxFailures /\ restarts \in 0..MaxRestarts /\ collided \in BOOLEAN

Init ==
    /\ bytes \in [Files -> {"clean", "malicious"}]
    /\ cache = [f \in Files |-> "unknown"]
    /\ job = [j \in Jobs |-> NoJob] /\ current = 0 /\ allowed = FALSE
    /\ con = [c \in Consoles |-> "closed"] /\ view = [c \in Consoles |-> Unknown]
    /\ failed = 0 /\ restarts = 0 /\ collided = FALSE

Fails == failed < MaxFailures /\ failed' = failed + 1
Goes(c, step) == con' = [con EXCEPT ![c] = step]

------------------------------------------------------------------------------
\* The server: verification jobs

Over(j) == \A f \in Files : job[j].stage[f] = "done"
Runs(j) == job[j].started /\ ~job[j].lost /\ ~Over(j)

\* Start, first half: the job that runs is looked up.
LookUp(c) ==
    /\ con[c] = "starting"
    /\ IF current # 0 /\ Runs(current) THEN Goes(c, "polling") ELSE Goes(c, "storing")
    /\ UNCHANGED <<bytes, serverVars, allowed, view, failed, restarts>>

\* Start, second half: a new job takes the entry and runs on its own.
Store(c) ==
    /\ con[c] = "storing" /\ Goes(c, "polling")
    /\ \E j \in Jobs : /\ \A i \in Jobs : job[i].started <=> i < j
                       /\ job' = [job EXCEPT ![j].started = TRUE] /\ current' = j
    /\ UNCHANGED <<bytes, cache, collided, allowed, view, failed, restarts>>

\* A file gets one of the job's workers.
OpenFile(j, f) ==
    /\ Runs(j) /\ job[j].stage[f] = "queued"
    /\ Cardinality({g \in Files : job[j].stage[g] = "reading"}) < Workers
    /\ job' = [job EXCEPT ![j].stage[f] = "reading"]
    /\ collided' = (collided \/ \E i \in Jobs \ {j} : Runs(i) /\ job[i].stage[f] = "reading")
    /\ UNCHANGED <<bytes, cache, current, allowed, con, view, failed, restarts>>

\* A remembered verdict is used again, an inconclusive one too; otherwise the bytes are
\* read, and whatever fails in it leaves the file inconclusive, and done.
Verify(j, f) ==
    /\ Runs(j) /\ job[j].stage[f] = "reading"
    /\ \E v \in IF cache[f] # "unknown" THEN {cache[f]} ELSE {bytes[f], "inconclusive"} :
         /\ IF cache[f] = "unknown" /\ v = "inconclusive" /\ ~collided THEN Fails ELSE UNCHANGED failed
         /\ job' = [job EXCEPT ![j].stage[f] = "done", ![j].verdict[f] = v]
         /\ cache' = [cache EXCEPT ![f] = v]
    /\ UNCHANGED <<bytes, current, collided, allowed, con, view, restarts>>

\* Mutant: the job goes with its files.
EvictJob ==
    /\ \E f \in Files : cache[f] # "unknown"
    /\ cache' = [f \in Files |-> "unknown"] /\ current' = 0
    /\ UNCHANGED <<bytes, job, collided, allowed, con, view, failed, restarts>>

\* The cached files and verdicts are deleted; the job and its verdicts stay.
Evict ==
    /\ \E f \in Files : cache[f] # "unknown"
    /\ cache' = [f \in Files |-> "unknown"]
    /\ UNCHANGED <<bytes, job, current, collided, allowed, con, view, failed, restarts>>

\* Jobs and remembered verdicts live in memory; the registry is in the policy file.
Restart ==
    /\ restarts < MaxRestarts /\ restarts' = restarts + 1
    /\ job' = [j \in Jobs |-> [job[j] EXCEPT !.lost = job[j].started]] /\ current' = 0
    /\ cache' = [f \in Files |-> "unknown"]
    /\ con' = [c \in Consoles |-> IF con[c] = "storing" THEN "idle" ELSE con[c]]
    /\ UNCHANGED <<bytes, allowed, view, failed, collided>>

------------------------------------------------------------------------------
\* The consoles

Open(c) ==
    /\ con[c] = "closed" /\ \E j \in Jobs : ~job[j].started
    /\ Goes(c, "starting") /\ view' = [view EXCEPT ![c] = Unknown]
    /\ UNCHANGED <<bytes, serverVars, allowed, failed, restarts>>

Close(c) ==
    /\ con[c] \in {"polling", "idle"} /\ Goes(c, "closed")
    /\ UNCHANGED <<bytes, serverVars, allowed, view, failed, restarts>>

\* The start is refused (the hub does not know the model just now): a refusal is an answer
\* too, and the polling starts.
Refused(c) ==
    /\ con[c] = "starting" /\ Fails /\ Goes(c, "polling")
    /\ UNCHANGED <<bytes, serverVars, allowed, view, restarts>>

\* A request gets no answer: nobody asks again.
Unanswered(c) ==
    /\ con[c] \in {"starting", "storing", "polling"} /\ Fails /\ Goes(c, "idle")
    /\ UNCHANGED <<bytes, serverVars, allowed, view, restarts>>

Snapshot ==
    IF current = 0 THEN [Unknown EXCEPT !.status = "none"]
    ELSE IF Over(current) THEN [status |-> "done", verdict |-> job[current].verdict]
    ELSE [Unknown EXCEPT !.status = "running"]

\* The polling goes on while the job runs.  "none" comes without a summary, and rendering
\* it throws: there is no error boundary, and the whole console is gone.
Poll(c) ==
    /\ con[c] = "polling"
    /\ view' = [view EXCEPT ![c] = Snapshot]
    /\ Goes(c, CASE Snapshot.status = "running" -> "polling"
                 [] Snapshot.status = "none"    -> "crashed"
                 [] OTHER                       -> "idle")
    /\ UNCHANGED <<bytes, serverVars, allowed, failed, restarts>>

Verifying(c) == view[c].status \in {"null", "running"}

\* Mutant: the button waits for a running job only.
AllowEarly(c) ==
    /\ con[c] \in {"polling", "idle"} /\ view[c].status # "running"
    /\ \A f \in Files : view[c].verdict[f] # "malicious"
    /\ ~allowed /\ allowed' = TRUE
    /\ UNCHANGED <<bytes, serverVars, con, view, failed, restarts>>

\* toggleAllow.  The server does not ask for a verification.
Allow(c) ==
    /\ con[c] \in {"polling", "idle"} /\ ~Verifying(c)
    /\ \A f \in Files : view[c].verdict[f] # "malicious"
    /\ ~allowed /\ allowed' = TRUE
    /\ UNCHANGED <<bytes, serverVars, con, view, failed, restarts>>

Disallow(c) ==
    /\ con[c] \in {"polling", "idle"}
    /\ allowed /\ allowed' = FALSE
    /\ UNCHANGED <<bytes, serverVars, con, view, failed, restarts>>

------------------------------------------------------------------------------

Worker(j) == \E f \in Files : OpenFile(j, f) \/ Verify(j, f)
Request(c) == LookUp(c) \/ Store(c) \/ Poll(c)

Next ==
    \/ \E j \in Jobs : Worker(j)
    \/ \E c \in Consoles : \/ Open(c) \/ Close(c) \/ Request(c) \/ Refused(c) \/ Unanswered(c)
                           \/ Allow(c) \/ Disallow(c)
    \/ Evict \/ Restart

Spec == Init /\ [][Next]_vars

------------------------------------------------------------------------------
\* Correctness

\* As long as nothing fails, only a model of which every file was found clean is allowed
\* from a console, whichever console started the job (verifying and malicious in
\* AiModelDetail).
AllowedIsVerified ==
    failed = 0 /\ restarts = 0 /\ ~collided /\ allowed => \A f \in Files : bytes[f] = "clean"

\* Without a refused start and without a restart no console meets a job the server does
\* not have, whatever is evicted meanwhile.
ConsoleSurvives ==
    failed = 0 /\ restarts = 0 => \A c \in Consoles : con[c] # "crashed"

------------------------------------------------------------------------------
\* What a comment says, and the code does not do

\* "byte-level weight verification must complete first - no model is allowed on an
\* extension guess" (AiDiscovery.review): of a model that is allowed, some job has read
\* the bytes of every file.
NoExtensionGuess ==
    allowed => \E j \in Jobs : Over(j) /\ \A f \in Files : job[j].verdict[f] # "inconclusive"
==============================================================================
