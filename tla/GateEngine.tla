----------------------------- MODULE GateEngine ------------------------------
(***************************************************************************)
(* GateEngine.EvaluateAsync: one package and its dependency tree against   *)
(* every enabled source and the policy.  The steps are what lies between   *)
(* two awaits; the policy may be edited and the sources may fail in any of *)
(* them.  Scores are in tenths.                                            *)
(***************************************************************************)
EXTENDS DependencyWalk, FiniteSets

CONSTANTS
    Feeds,          \* sources asked about every package: osv, malware, artifactory
    Failures,       \* statuses of a feed that has no answer
    Available,      \* sources that have what they need (IsAvailable)
    Advisories,     \* what feeds know: see Advisory
    Worlds,         \* which advisories each feed has for each package
    Policies,       \* the policies operators set: see Policy
    Weights,        \* the model files that may be evaluated: see Weight
    None            \* no score; no audit entry

Keys == Feeds \cup {"kev", "epss", "vulncheck"}

Statuses == {"Ok", "Empty", "Errored", "Timeout", "NotConfigured", "Skipped"}

\* cve: the advisory's own id is a CVE; kev, vulncheck: whether its CVE, be it the
\* id or an alias, is on these lists; epss: the score that came with it; first: the
\* score FIRST has for its CVE.
Advisory == [id : STRING, malicious : BOOLEAN, exploited : BOOLEAN, cve : BOOLEAN, kev : BOOLEAN,
             vulncheck : BOOLEAN, epss : Nat \cup {None}, first : Nat \cup {None},
             cvss : Nat \cup {None}, severity : {"None", "Low", "Medium", "High", "Critical"}]

\* waives: it has exceptions that, by version and date, may match Root; aged, licenses, scorecard: the
\* conditions of these names are on; weights: those of WeightsPolicy that are on.
Policy == [enabled : SUBSET Keys, required : SUBSET (Keys \cup {"content-scan"}),
           cvss : Nat, epss : Nat, blockKev : BOOLEAN, quarantine : BOOLEAN, reach : BOOLEAN, downgrade : BOOLEAN,
           content : BOOLEAN, curation : SUBSET {"aged", "licenses", "scorecard"},
           oprisk : {"Disabled", "Notify", "Block"}, waives : BOOLEAN,
           weights : SUBSET {"safetensors", "nopickle", "pin", "registry"}]

\* flagged: the pickle scanner rates the file's bytes High, if it gets them.
Weight == [format : {"safetensors", "pickle", "other"}, bytes : BOOLEAN, flagged : BOOLEAN,
           pinned : BOOLEAN, listed : BOOLEAN]

ASSUME GateAssumption ==
    /\ Feeds \cap {"kev", "epss", "vulncheck", "content-scan"} = {}
    /\ Failures \subseteq {"Errored", "Timeout", "Skipped"}
    /\ Advisories \subseteq Advisory
    /\ Worlds \subseteq [Feeds -> [Packages -> SUBSET Advisories]]
    /\ Policies \subseteq Policy /\ Policies # {}
    /\ Weights \subseteq Weight
    /\ None \notin Nat \cup Statuses

VARIABLES
    current,        \* the policy in force
    kev,            \* the KEV catalogue in memory: never loaded, fresh or over a day old
    world,          \* what the feeds know
    phase,          \* where the evaluation is
    policy,         \* the policy it read when it began
    kind,           \* what is evaluated, and by which rules
    asked,          \* nodes of the tree the sources were asked about
    health,         \* worst status of each source
    findings, unreachable,
    content,        \* status of the content scan
    triggered, decision,
    entry,          \* the audit entry of the evaluation
    heard           \* history: which source answered about which package

result == <<triggered, decision>>
gathered == <<asked, health, findings, heard>>
vars == <<queue, nodes, answered, current, kev, world, phase, policy, kind, asked, health,
          findings, unreachable, content, triggered, decision, entry, heard>>

Phases == {"idle", "walk", "kev", "query", "judge", "curate", "finish", "done"}
Decisions == {"Allow", "Block", "Quarantine"}

\* Rules that are recorded and do not block
Notices == {"SEC-OPR-01:NOTIFY", "SEC-IAC-01:LOW", "EXCEPTION"}
Rules == Notices \cup {"SEC-MAL-01", "SEC-VULN-01", "SEC-VULN-02", "SEC-VULN-03", "SEC-SECRET-01",
    "SEC-IAC-01", "SEC-SC-01", "LEG-LIC-01", "SEC-OPR-01", "SEC-OSSF-01", "SEC-COV-02",
    "SEC-AIML-01", "SEC-AIML-02"}

Finding == [pkg : Packages, adv : Advisories, exploited : BOOLEAN, epss : Nat \cup {None}]
Entry == [policy : Policies, decision : Decisions, triggered : SUBSET Rules]

TypeOK ==
    /\ WalkTypeOK
    /\ current \in Policies /\ policy \in Policies /\ world \in Worlds
    /\ kev \in {"never", "fresh", "stale"}
    /\ phase \in Phases /\ kind \in {"tree", "weights", "waived"}
    /\ asked \in 0..Len(nodes)
    /\ health \in [Keys -> Statuses \cup {None}]
    /\ findings \in SUBSET Finding /\ unreachable \subseteq findings
    /\ content \in Statuses
    /\ triggered \in SUBSET Rules /\ decision \in Decisions
    /\ entry \in Entry \cup {None}
    /\ heard \in SUBSET (Packages \X Feeds)

\* The locals of EvaluateAsync before it begins
Fresh ==
    /\ queue = <<>> /\ nodes = <<>> /\ answered = {}
    /\ asked = 0 /\ health = [k \in Keys |-> None]
    /\ findings = {} /\ unreachable = {} /\ content = "Skipped" /\ heard = {}

Init ==
    /\ current \in Policies /\ policy = current
    /\ kev = "never" /\ world \in Worlds
    /\ phase = "idle" /\ kind = "tree"
    /\ Fresh /\ triggered = {} /\ decision = "Allow" /\ entry = None

------------------------------------------------------------------------------
\* The evaluation begins

\* EvaluateWeights: what a model file breaks.  The scanner's word replaces the ban on
\* pickles wherever it gets the bytes.
WeightRules(pol, w) ==
    {r \in {"SEC-AIML-01", "SEC-AIML-02"} :
        \/ r = "SEC-AIML-02" /\ "registry" \in pol.weights /\ ~w.listed
        \/ /\ r = "SEC-AIML-01"
           /\ \/ "pin" \in pol.weights /\ ~w.pinned
              \/ "safetensors" \in pol.weights /\ w.format # "safetensors"
              \/ w.format = "pickle" /\ w.bytes /\ w.flagged
              \/ w.format = "pickle" /\ ~w.bytes /\ "nopickle" \in pol.weights}

DecisionOf(rules) == IF rules \subseteq Notices THEN "Allow" ELSE "Block"

Verdict(k, rules) ==
    /\ kind' = k /\ phase' = "finish"
    /\ triggered' = rules /\ decision' = DecisionOf(rules)
    /\ UNCHANGED queue

Begin ==
    /\ phase = "idle"
    /\ policy' = current
    /\ \/ current.waives /\ Verdict("waived", {"EXCEPTION"})
       \/ \E w \in Weights : Verdict("weights", WeightRules(current, w))
       \/ /\ kind' = "tree" /\ phase' = "walk" /\ queue' = Start
          /\ UNCHANGED result
    /\ UNCHANGED <<nodes, answered, current, kev, world, gathered, unreachable, content, entry>>

Resolve ==
    /\ phase = "walk" /\ Walk
    /\ phase' = IF queue' = <<>> THEN "kev" ELSE "walk"
    /\ UNCHANGED <<current, kev, world, policy, kind, gathered, unreachable, content, result, entry>>

\* EnsureLoaded: a catalogue that was loaded once stays in use when it cannot be
\* loaded again.
EnsureLoaded ==
    /\ phase = "kev" /\ phase' = "query"
    /\ \/ "kev" \notin policy.enabled /\ UNCHANGED <<kev, health>>
       \/ /\ "kev" \in policy.enabled
          /\ \/ kev' = "fresh" /\ health' = [health EXCEPT !["kev"] = "Ok"]
             \/ /\ kev # "fresh" /\ UNCHANGED kev
                /\ health' = [health EXCEPT !["kev"] = IF kev = "never" THEN "Errored" ELSE "Ok"]
    /\ UNCHANGED <<walkVars, current, world, policy, kind, asked, findings, heard, unreachable,
                   content, result, entry>>

------------------------------------------------------------------------------
\* One package: its feeds, then the enrichment of what they found

Rank(s) == CASE s = "Errored" -> 6 [] s = "Timeout" -> 5 [] s = "NotConfigured" -> 4
             [] s = "Skipped" -> 3 [] s = "Empty" -> 2 [] s = "Ok" -> 1 [] s = None -> 0

WorstOf(S) == CHOOSE s \in S : \A t \in S : Rank(s) >= Rank(t)

\* Mutant: one good answer hides the failures.
WorseKeepsGood(a, b) == IF a # None /\ Rank(a) <= Rank(b) THEN a ELSE b

Worse(a, b) == WorstOf({a, b})

Asked == policy.enabled \cap Feeds \cap Available
VulnCheckOn == "vulncheck" \in policy.enabled \cap Available

\* KEV and FIRST are asked by the advisory's own id, VulnCheck by its CVE alias too.
OnKev(a) == "kev" \in policy.enabled /\ kev # "never" /\ a.cve /\ a.kev
Scored(a) == IF a.cve THEN a.first ELSE None

ToScore(found) == {a \in found : a.epss = None /\ "epss" \in policy.enabled}

Enriched(pkg, a, scores, hits) ==
    [pkg |-> pkg, adv |-> a, exploited |-> a.exploited \/ OnKev(a) \/ a \in hits,
     epss |-> IF a \in scores THEN Scored(a) ELSE a.epss]

ScoreStatus(a, scores) ==
    IF a \notin scores THEN "Errored" ELSE IF Scored(a) = None THEN "Empty" ELSE "Ok"

\* scores: advisories whose score FIRST was able to tell; hits: those VulnCheck
\* told to be exploited, which it does not when the lookup fails.
QueryNode ==
    /\ phase = "query" /\ asked < Len(nodes)
    /\ asked' = asked + 1
    /\ \E reply \in [Asked -> {"answer"} \cup Failures] :
       LET pkg == nodes[asked + 1].pkg
           from == {f \in Asked : reply[f] = "answer"}
           found == UNION {world[f][pkg] : f \in from}
           Replied(f) == IF f \notin from THEN reply[f]
                         ELSE IF world[f][pkg] = {} THEN "Empty" ELSE "Ok"
       IN \E scores \in SUBSET ToScore(found),
             hits \in SUBSET {a \in found : a.vulncheck /\ VulnCheckOn} :
          /\ findings' = findings \cup {Enriched(pkg, a, scores, hits) : a \in found}
          /\ heard' = heard \cup {<<pkg, f>> : f \in from}
          /\ health' = [k \in Keys |->
                CASE k \in Asked -> Worse(health[k], Replied(k))
                  [] k \in (Feeds \cup {"vulncheck"}) \cap (policy.enabled \ Available)
                       -> Worse(health[k], "NotConfigured")
                  [] k = "epss" -> WorstOf({health[k]} \cup {ScoreStatus(a, scores) : a \in ToScore(found)})
                  [] k = "vulncheck" /\ hits # {} -> Worse(health[k], "Ok")
                  [] OTHER -> health[k]]
    /\ phase' = IF asked' = Len(nodes) THEN "judge" ELSE "query"
    /\ UNCHANGED <<walkVars, current, kev, world, policy, kind, unreachable, content, result, entry>>

------------------------------------------------------------------------------
\* The rules

SeverityFloor(sev) == CASE sev = "Critical" -> 90 [] sev = "High" -> 70 [] sev = "Medium" -> 40
                        [] sev = "Low" -> 1 [] sev = "None" -> 0

FindingRules(pol, f) ==
    {r \in {"SEC-MAL-01", "SEC-VULN-01", "SEC-VULN-02", "SEC-VULN-03"} :
        \/ r = "SEC-MAL-01" /\ f.adv.malicious
        \/ r = "SEC-VULN-02" /\ pol.blockKev /\ f.exploited
        \/ r = "SEC-VULN-03" /\ f.epss # None /\ f.epss >= pol.epss
        \/ /\ r = "SEC-VULN-01"
           /\ (IF f.adv.cvss # None THEN f.adv.cvss ELSE SeverityFloor(f.adv.severity)) >= pol.cvss}

\* The findings that count: a finding among those the project does not reach may not.
Counting(pol, notReached) == IF pol.downgrade THEN findings \ notReached ELSE findings

TreeRules(pol, notReached) == UNION {FindingRules(pol, f) : f \in Counting(pol, notReached)}

\* AnnotateReachability, the rules over the findings, and ScanArtifactContent.  The
\* analyser, if there is one, tells which packages are not reached; content rules
\* are hit only where there are bytes to read.
Judge ==
    /\ phase = "judge" /\ phase' = "curate"
    /\ \E pkgs \in SUBSET {f.pkg : f \in findings} :
         /\ pkgs # {} => policy.reach
         /\ unreachable' = {f \in findings : f.pkg \in pkgs}
    /\ \E status \in {"Skipped", "Errored", "Empty", "Ok"},
          hits \in SUBSET {"SEC-SECRET-01", "SEC-IAC-01", "SEC-IAC-01:LOW"} :
         /\ status # "Skipped" => policy.content
         /\ status = "Ok" <=> hits # {}
         /\ content' = status
         /\ triggered' = TreeRules(policy, unreachable') \cup hits
    /\ decision' = DecisionOf(triggered')
    /\ UNCHANGED <<walkVars, current, kev, world, policy, kind, gathered, entry>>

\* EvaluateCuration: facts is what the registry and the scorecard say of Root.
CurationRules(pol, facts) ==
    {r \in {"SEC-SC-01", "LEG-LIC-01", "SEC-OPR-01", "SEC-OPR-01:NOTIFY", "SEC-OSSF-01"} :
        \/ r = "SEC-SC-01" /\ "immature" \in facts /\ "aged" \in pol.curation
        \/ r = "LEG-LIC-01" /\ "prohibited" \in facts /\ "licenses" \in pol.curation
        \/ r = "SEC-OPR-01" /\ "high-risk" \in facts /\ pol.oprisk = "Block"
        \/ r = "SEC-OPR-01:NOTIFY" /\ "high-risk" \in facts /\ pol.oprisk = "Notify"
        \/ r = "SEC-OSSF-01" /\ "low-score" \in facts /\ "scorecard" \in pol.curation}

\* Mutant: a gap in any enabled source counts.
InconclusiveAny(pol) == \E k \in pol.enabled : health[k] \notin {"Ok", "Empty"}

\* ~AllRequiredConclusive of BuildCoverage: a required source that is not enabled
\* has no row.
Inconclusive(pol) ==
    \/ \E k \in pol.enabled \cap pol.required : health[k] \notin {"Ok", "Empty"}
    \/ "content-scan" \in pol.required /\ content = "Errored"

\* EvaluateCuration, whose registry may not answer, and the coverage report
Curate ==
    /\ phase = "curate" /\ phase' = "finish"
    /\ \E facts \in SUBSET {"immature", "prohibited", "high-risk", "low-score"} :
         LET rules == triggered \cup CurationRules(policy, facts)
             uncertain == DecisionOf(rules) = "Allow" /\ policy.quarantine /\ Inconclusive(policy)
         IN /\ triggered' = IF uncertain THEN rules \cup {"SEC-COV-02"} ELSE rules
            /\ decision' = IF uncertain THEN "Quarantine" ELSE DecisionOf(rules)
    /\ UNCHANGED <<walkVars, current, kev, world, policy, kind, gathered, unreachable, content, entry>>

------------------------------------------------------------------------------
\* The end of the evaluation

\* Mutant: the entry is filed under the policy in force when it is written.
FinishUnderCurrent ==
    /\ phase = "finish" /\ phase' = "done"
    /\ entry' = [policy |-> current, decision |-> decision, triggered |-> triggered]
    /\ UNCHANGED <<walkVars, current, kev, world, policy, kind, gathered, unreachable, content, result>>

\* The rationale, the audit entry, the notification; none of the other two can fail.
Finish ==
    /\ phase = "finish" /\ phase' = "done"
    /\ entry' = [policy |-> policy, decision |-> decision, triggered |-> triggered]
    /\ UNCHANGED <<walkVars, current, kev, world, policy, kind, gathered, unreachable, content, result>>

\* The verdict goes to the caller; or the audit log throws, and there is none.
Return ==
    /\ phase \in {"finish", "done"} /\ phase' = "idle"
    /\ queue' = <<>> /\ nodes' = <<>> /\ answered' = {}
    /\ asked' = 0 /\ health' = [k \in Keys |-> None]
    /\ findings' = {} /\ unreachable' = {} /\ content' = "Skipped" /\ heard' = {}
    /\ triggered' = {} /\ decision' = "Allow" /\ entry' = None /\ kind' = "tree"
    /\ UNCHANGED <<current, kev, world, policy>>

------------------------------------------------------------------------------
\* What goes on meanwhile

Others == <<walkVars, world, phase, policy, kind, gathered, unreachable, content, result, entry>>

Edit == current' \in Policies \ {current} /\ UNCHANGED <<kev, Others>>

\* The catalogue gets a day old; another evaluation loads it.
Age == kev = "fresh" /\ kev' = "stale" /\ UNCHANGED <<current, Others>>
LoadedByOther == kev # "fresh" /\ kev' = "fresh" /\ UNCHANGED <<current, Others>>

Next == \/ Begin \/ Resolve \/ EnsureLoaded \/ QueryNode \/ Judge \/ Curate \/ Finish \/ Return
        \/ Edit \/ Age \/ LoadedByOther

Spec == Init /\ [][Next]_vars

------------------------------------------------------------------------------
\* Correctness

Given(d) == phase = "done" /\ kind = "tree" /\ decision = d

Bad(pol, a) == \/ a.malicious
               \/ pol.blockKev /\ a.exploited
               \/ a.epss # None /\ a.epss >= pol.epss
               \/ a.cvss # None /\ a.cvss >= pol.cvss

\* A package is allowed only if every required source that is enabled answered for
\* every package of its tree, the catalogue was loaded if it is one of them, and none of these
\* feeds has anything bad on any of these packages that is reached (EvaluateAsync).
AllowIsEarned ==
    Given("Allow") /\ policy.quarantine =>
        \A k \in policy.required \cap policy.enabled :
            /\ k = "kev" => kev # "never"
            /\ k \in Feeds => \A i \in DOMAIN nodes :
                 /\ <<nodes[i].pkg, k>> \in heard
                 /\ \A a \in world[k][nodes[i].pkg] : Bad(policy, a) =>
                       policy.downgrade /\ \E f \in unreachable : f.pkg = nodes[i].pkg /\ f.adv = a

\* A package is quarantined only if some required source left a gap: a feed did not
\* answer for a package of the tree, another source has no clean record, or the content could
\* not be read (BuildCoverage).
QuarantineHasGap ==
    Given("Quarantine") =>
        \/ \E k \in policy.required \cap Feeds, i \in DOMAIN nodes : <<nodes[i].pkg, k>> \notin heard
        \/ \E k \in policy.required \ Feeds : k \in Keys /\ health[k] \notin {"Ok", "Empty"}
        \/ "content-scan" \in policy.required /\ content = "Errored"

\* The audit entry names the policy that explains it, whatever was edited meanwhile:
\* the rules on record for the findings are those of that policy ("each audit entry references
\* the exact policy that decided it", FirewallPolicy).
EntryNamesPolicy ==
    entry # None /\ kind = "tree" =>
        entry.triggered \cap {"SEC-MAL-01", "SEC-VULN-01", "SEC-VULN-02", "SEC-VULN-03"}
            = TreeRules(entry.policy, unreachable)

------------------------------------------------------------------------------
\* What a comment says, and the code does not do

\* "BlockKnownExploited: anything on KEV -> hard block" (FirewallPolicy): no package
\* is allowed of which the feeds reported an advisory whose CVE the loaded catalogue lists.
KevIsBlocked ==
    Given("Allow") /\ policy.blockKev /\ health["kev"] = "Ok" =>
        \A f \in Counting(policy, unreachable) : ~f.adv.kev
==============================================================================
