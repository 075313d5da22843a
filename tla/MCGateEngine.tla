---------------------------- MODULE MCGateEngine -----------------------------
(* Instances of GateEngine for TLC. *)
EXTENDS GateEngine, TLC

CONSTANTS app, lib, dep, leaf, osv, malware

\* leaf is two levels down along dep, and three along lib.
Graph == app :> <<lib, dep>> @@ lib :> <<dep, app>> @@ dep :> <<leaf>> @@ leaf :> <<lib>>

\* An advisory with a GHSA id whose CVE alias is listed, one with a CVE id, and one
\* of the malicious-package feed.
Plain == [id |-> "", malicious |-> FALSE, exploited |-> FALSE, cve |-> FALSE, kev |-> FALSE,
          vulncheck |-> FALSE, epss |-> None, first |-> None, cvss |-> None, severity |-> "Medium"]
Aliased == [Plain EXCEPT !.id = "GHSA", !.kev = TRUE, !.vulncheck = TRUE, !.first = 6]
Named == [Plain EXCEPT !.id = "CVE", !.cve = TRUE, !.first = 6, !.cvss = 50]
Malicious == [Plain EXCEPT !.id = "MAL", !.malicious = TRUE, !.exploited = TRUE, !.epss = 10, !.cvss = 100,
                           !.severity = "Critical"]

Clean == [f \in {osv, malware} |-> [p \in {app, lib, dep, leaf} |-> {}]]
Known == {Clean, [Clean EXCEPT ![osv][lib] = {Aliased}, ![osv][dep] = {Named}, ![malware][leaf] = {Malicious}]}

Default == [enabled |-> {osv, malware, "kev", "epss"}, required |-> {osv, malware},
            cvss |-> 70, epss |-> 5, blockKev |-> TRUE, quarantine |-> TRUE, reach |-> FALSE, downgrade |-> FALSE,
            content |-> FALSE, curation |-> {}, oprisk |-> "Notify", waives |-> FALSE,
            weights |-> {"safetensors", "nopickle", "pin"}]
Strict == [Default EXCEPT !.enabled = @ \cup {"vulncheck"}, !.required = @ \cup {"kev"}, !.cvss = 40,
                          !.oprisk = "Block", !.weights = {"registry", "nopickle"}]
Lax == [Default EXCEPT !.enabled = {osv}, !.required = @ \cup {"content-scan"}, !.reach = TRUE, !.downgrade = TRUE,
                       !.content = TRUE, !.curation = {"aged", "licenses", "scorecard"}, !.waives = TRUE]
\* Only the aliased advisory, and the default policy
KnownAliased == {[Clean EXCEPT ![osv][lib] = {Aliased}]}
Shipped == {Default}

Reported == {Aliased, Named, Malicious}
Offered == {Strict, Lax}

ModelFiles == {[format |-> "pickle", bytes |-> b, flagged |-> FALSE, pinned |-> TRUE, listed |-> b] : b \in BOOLEAN}
==============================================================================
