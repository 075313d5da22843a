----------------------------- MODULE VsixScanner -----------------------------
(***************************************************************************)
(* The extension scanner's sidecar (tools/vsix-scanner/server.mjs): a      *)
(* request runs the vsix-audit program and answers with the report that    *)
(* the program printed, whatever its exit code.                            *)
(***************************************************************************)
EXTENDS Naturals

CONSTANT Scans    \* requests under way at once

VARIABLES
    child,    \* per request, the program that was started for it
    answer    \* per request, the answer

scanVars == <<child, answer>>

------------------------------------------------------------------------------
\* What the program has printed, in the order it prints it, and the report it works on.
Printed == {"nothing", "banner", "half", "report"}
Reports == {"clean", "issues"}
Child == [at : {"idle", "running", "ok", "nonzero", "killed", "unstarted"},
          printed : Printed, report : Reports]
NoChild == [at |-> "idle", printed |-> "nothing", report |-> "clean"]
NoAnswer == [code |-> 0, body |-> "none"]
Failed == [code |-> 502, body |-> "scan failed"]

TypeOK ==
    /\ child \in [Scans -> Child]
    /\ answer \in [Scans -> [code : {0, 200, 400, 502}, body : Reports \cup {"none", "invalid id", "scan failed"}]]

Init == child = [s \in Scans |-> NoChild] /\ answer = [s \in Scans |-> NoAnswer]

\* A request with a valid id starts the program, or cannot.
Scan(s) ==
    /\ child[s].at = "idle" /\ answer[s] = NoAnswer
    /\ \E at \in {"running", "unstarted"}, r \in Reports :
         child' = [child EXCEPT ![s] = [at |-> at, printed |-> "nothing", report |-> r]]
    /\ UNCHANGED answer

Invalid(s) ==
    /\ child[s].at = "idle" /\ answer[s] = NoAnswer
    /\ answer' = [answer EXCEPT ![s] = [code |-> 400, body |-> "invalid id"]]
    /\ UNCHANGED child

\* The program (external): a banner, the report, and an exit code that tells of issues.
Prints(s) ==
    /\ child[s].at = "running" /\ child[s].printed # "report"
    /\ child' = [child EXCEPT ![s].printed = CASE @ = "nothing" -> "banner" [] @ = "banner" -> "half"
                                               [] @ = "half" -> "report"]
    /\ UNCHANGED answer

Exits(s) ==
    /\ child[s].at = "running"
    /\ \E at \in {"ok", "nonzero"} :
         /\ at = "ok" => child[s].printed = "report" /\ child[s].report = "clean"
         /\ child' = [child EXCEPT ![s].at = at]
    /\ UNCHANGED answer

\* Ninety seconds, or more output than the buffer takes.
Killed(s) ==
    /\ child[s].at = "running" /\ child' = [child EXCEPT ![s].at = "killed"]
    /\ UNCHANGED answer

\* Mutant: output that cannot be parsed is an empty report.
ExtractJsonLenient(c) ==
    IF c.printed = "report" THEN [code |-> 200, body |-> c.report] ELSE [code |-> 200, body |-> "clean"]

\* The report, from the first brace on; half a report does not parse.
ExtractJson(c) ==
    IF c.printed = "report" THEN [code |-> 200, body |-> c.report] ELSE Failed

\* The output is read whatever the exit code, if there is any.
RunScan(c) ==
    IF c.at = "ok" \/ (c.at \in {"nonzero", "killed"} /\ c.printed \in {"half", "report"})
    THEN ExtractJson(c) ELSE Failed

Respond(s) ==
    /\ child[s].at \notin {"idle", "running"}
    /\ answer' = [answer EXCEPT ![s] = RunScan(child[s])]
    /\ child' = [child EXCEPT ![s] = [@ EXCEPT !.at = "idle"]]

Over(s) ==
    /\ answer[s] # NoAnswer
    /\ answer' = [answer EXCEPT ![s] = NoAnswer] /\ child' = [child EXCEPT ![s] = NoChild]

Next == \E s \in Scans : Scan(s) \/ Invalid(s) \/ Prints(s) \/ Exits(s) \/ Killed(s) \/ Respond(s) \/ Over(s)

------------------------------------------------------------------------------
\* server.mjs:63: a failure is never reported as clean, and a report of issues, which comes with
\* a non-zero exit, is never reported as a failure: the answer is the report if it was printed whole.
HonestAnswer ==
    \A s \in Scans :
        /\ answer[s].code = 200 => child[s].printed = "report" /\ answer[s].body = child[s].report
        /\ answer[s].code = 502 => child[s].printed # "report"
==============================================================================
