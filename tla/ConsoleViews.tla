----------------------------- MODULE ConsoleViews -----------------------------
(***************************************************************************)
(* The console's other screens (App.jsx, BrainDashboard.jsx).              *)
(*                                                                         *)
(* A screen shows what the server last told it about its selection, and    *)
(* some operate on it.  They differ in discipline only: whether they drop  *)
(* the answer to an older selection, what a failed request leaves on the   *)
(* screen, whether they poll, whether an operation is followed by a        *)
(* reload.  A behaviour stays on one screen: leaving a screen unmounts it  *)
(* and drops its answers, which is Init again.                             *)
(***************************************************************************)
EXTENDS Naturals, FiniteSetsExt

CONSTANTS
    Keys,          \* what can be selected on a screen
    Slots,         \* bound: requests under way at once
    MaxVersion,    \* bound: changes at the server
    MaxFailures,   \* bound: requests that fail
    MaxSelections  \* bound: selections

VARIABLES
    d,         \* the screen's discipline
    sel,       \* what is selected
    shown,     \* what is on the screen
    loading,   \* the screen says that it is loading
    out,       \* requests under way
    server,    \* per key, the version of the server's data; odd while work on it goes on
    failed,    \* how many requests failed
    clicks,    \* how many selections were made
    crossed,   \* history: whether two requests for data were under way at once
    mine       \* history: the version an answered operation of this screen made

vars == <<d, sel, shown, loading, out, server, failed, clicks, crossed, mine>>

------------------------------------------------------------------------------
\* The screens

\* keyed: the selection changes while the screen is mounted.
\* mount: the first request goes out when the screen mounts, not at the first selection.
\* guard: the answer to a request that a new selection replaced is dropped.
\* fails: a failed request leaves a placeholder, the data as they were, or the loading line.
\* polls: again and again, while the data shown are unfinished, or never.
\* reload: after an operation that was answered, after any operation; "none": no operations.
Discipline == [keyed : BOOLEAN, mount : BOOLEAN, guard : BOOLEAN,
               fails : {"placeholder", "keeps", "waits"},
               polls : {"never", "always", "unfinished"},
               reload : {"none", "answered", "anyway"}]

Plain == [keyed |-> FALSE, mount |-> TRUE, guard |-> FALSE, fails |-> "placeholder",
          polls |-> "never", reload |-> "none"]

\* One request when the screen mounts
XrayOverview     == Plain
MyPackages       == Plain
OnDemandPackages == Plain
ScansSubTab      == Plain
RepoArtifacts    == Plain
Applications     == Plain
AppInsights      == [Plain EXCEPT !.fails = "waits"]

\* An effect per selection, with a flag its cleanup clears
Searched      == [Plain EXCEPT !.keyed = TRUE, !.guard = TRUE]
KevCatalog    == Searched
AiDiscovery   == Searched

\* An effect that runs once, with a flag its cleanup clears
SearchCves     == [Plain EXCEPT !.guard = TRUE]
BrainDashboard == [Plain EXCEPT !.guard = TRUE]

\* A request per click, whatever is still under way
Reports               == [Plain EXCEPT !.keyed = TRUE, !.mount = FALSE]
WatchViolationsDetail == Reports
ArtifactOverview      == [Reports EXCEPT !.mount = TRUE]

\* An interval
Polled             == [Plain EXCEPT !.polls = "always", !.fails = "keeps"]
DownloadsIndicator == [Polled EXCEPT !.guard = TRUE]
IntakeQueue        == [Polled EXCEPT !.guard = TRUE]
FlowCanvas         == [Polled EXCEPT !.guard = TRUE]
AimlOverview       == Polled
LlmGateway         == [Polled EXCEPT !.fails = "placeholder"]

\* Operations and the reload that follows them
ScansRepos       == [Plain EXCEPT !.reload = "answered"]
EcosystemFirewall == ScansRepos
Quarantine       == [Plain EXCEPT !.reload = "answered"]
ApprovedPackages == [Plain EXCEPT !.reload = "answered"]
AiCatalog        == [Plain EXCEPT !.reload = "anyway"]
AiRegistry       == AiCatalog
AiDetection      == [Plain EXCEPT !.reload = "anyway"]
Evolution        == [Polled EXCEPT !.reload = "anyway"]
OnDemandScanning == [Plain EXCEPT !.polls = "unfinished", !.reload = "anyway"]

Screens == {XrayOverview, MyPackages, OnDemandPackages, ScansSubTab, RepoArtifacts, Applications,
            AppInsights, KevCatalog, AiDiscovery, SearchCves, BrainDashboard, Reports,
            WatchViolationsDetail, DownloadsIndicator, IntakeQueue, FlowCanvas, AimlOverview,
            LlmGateway, ArtifactOverview, ScansRepos, EcosystemFirewall, Quarantine,
            ApprovedPackages, AiCatalog, AiRegistry, AiDetection, Evolution, OnDemandScanning}

------------------------------------------------------------------------------
\* Requests

Request == [at : {"idle", "sent", "answered", "failed"}, op : BOOLEAN, key : Keys,
            live : BOOLEAN, ver : Nat]

Idle == [at |-> "idle", op |-> FALSE, key |-> CHOOSE k \in Keys : TRUE, live |-> TRUE, ver |-> 0]
Get(k) == [Idle EXCEPT !.at = "sent", !.key = k]
Do(k) == [Get(k) EXCEPT !.op = TRUE]

Blank == [is |-> "nothing", key |-> Idle.key, ver |-> 0]
Placeholder(k) == [is |-> "placeholder", key |-> k, ver |-> 0]
Data(r) == [is |-> "data", key |-> r.key, ver |-> r.ver]

TypeOK ==
    /\ d \in Discipline /\ sel \in Keys /\ loading \in BOOLEAN
    /\ shown \in [is : {"nothing", "placeholder", "data"}, key : Keys, ver : Nat]
    /\ out \in [Slots -> Request] /\ server \in [Keys -> Nat]
    /\ failed \in 0..MaxFailures /\ clicks \in 0..MaxSelections /\ crossed \in BOOLEAN /\ mine \in Nat

Init ==
    /\ d \in Screens
    /\ sel = Idle.key /\ shown = Blank /\ loading = d.mount
    /\ LET first == CHOOSE s \in Slots : TRUE
       IN  out = [s \in Slots |-> IF s = first /\ d.mount THEN Get(sel) ELSE Idle]
    /\ server = [k \in Keys |-> 0]
    /\ failed = 0 /\ clicks = 0 /\ crossed = FALSE /\ mine = 0

Free(s) == out[s].at = "idle"
Asking == {s \in Slots : ~Free(s) /\ ~out[s].op}

\* r goes out in slot s.
Sends(s, r) == out' = [out EXCEPT ![s] = r]
Crossing(s) == crossed' = (crossed \/ Asking \ {s} # {})

\* Mutant: the cleanup of the effect forgets its flag.
SelectUnguarded(k, s) ==
    /\ d.keyed /\ Free(s) /\ clicks < MaxSelections /\ clicks' = clicks + 1
    /\ sel' = k /\ loading' = TRUE
    /\ Sends(s, Get(k)) /\ Crossing(s)
    /\ UNCHANGED <<d, shown, server, failed, mine>>

\* A new selection: what is under way is for the old one.
Select(k, s) ==
    /\ d.keyed /\ Free(s) /\ clicks < MaxSelections /\ clicks' = clicks + 1
    /\ sel' = k /\ loading' = TRUE
    /\ out' = [[x \in Slots |-> [out[x] EXCEPT !.live = ~d.guard]] EXCEPT ![s] = Get(k)]
    /\ Crossing(s)
    /\ UNCHANGED <<d, shown, server, failed, mine>>

Unfinished == shown.is = "data" /\ shown.ver % 2 = 1

\* Mutant: the interval ends with the first answer.
PollUntilShown(s) ==
    /\ shown.is = "nothing" /\ d.polls # "never" /\ Free(s)
    /\ Sends(s, Get(sel)) /\ Crossing(s)
    /\ UNCHANGED <<d, sel, shown, loading, server, failed, mine, clicks>>

\* The interval comes round.
Poll(s) ==
    /\ d.polls = "always" \/ (d.polls = "unfinished" /\ Unfinished)
    /\ Free(s)
    /\ Sends(s, Get(sel)) /\ Crossing(s)
    /\ UNCHANGED <<d, sel, shown, loading, server, failed, mine, clicks>>

\* A button: promote, revoke, provision, enforce, evolve ...
Operate(s) ==
    /\ d.reload # "none" /\ Free(s) /\ server[sel] < MaxVersion
    /\ Sends(s, Do(sel))
    /\ UNCHANGED <<d, sel, shown, loading, server, failed, crossed, mine, clicks>>

------------------------------------------------------------------------------
\* The server and the network

\* A scan is started when none is running; any other operation at any time.
Changes(k) == server[k] < MaxVersion /\ (d.polls = "unfinished" => server[k] % 2 = 0)

Serve(s) ==
    /\ out[s].at = "sent"
    /\ LET k == out[s].key
           v == IF out[s].op /\ Changes(k) THEN server[k] + 1 ELSE server[k]
       IN  /\ server' = [server EXCEPT ![k] = v]
           /\ out' = [out EXCEPT ![s].at = "answered", ![s].ver = v]
    /\ UNCHANGED <<d, sel, shown, loading, failed, crossed, mine, clicks>>

\* A request that fails may have been carried out.
Lose(s) ==
    /\ out[s].at \in {"sent", "answered"} /\ failed < MaxFailures
    /\ out' = [out EXCEPT ![s].at = "failed"] /\ failed' = failed + 1
    /\ UNCHANGED <<d, sel, shown, loading, server, crossed, mine, clicks>>

\* Other operators, the bridge, the gateways
Elsewhere ==
    /\ d.polls # "unfinished"
    /\ \E k \in Keys : server[k] < MaxVersion /\ server' = [server EXCEPT ![k] = @ + 1]
    /\ UNCHANGED <<d, sel, shown, loading, out, failed, crossed, mine, clicks>>

\* The scans that were running end.
Finish ==
    /\ d.polls = "unfinished"
    /\ \E k \in Keys : server[k] % 2 = 1 /\ server' = [server EXCEPT ![k] = @ + 1]
    /\ UNCHANGED <<d, sel, shown, loading, out, failed, crossed, mine, clicks>>

------------------------------------------------------------------------------
\* Answers

\* then, catch and finally of a request for data
Show(s) ==
    /\ ~out[s].op /\ out[s].at \in {"answered", "failed"}
    /\ Sends(s, Idle)
    /\ IF ~out[s].live THEN UNCHANGED <<shown, loading>>
       ELSE IF out[s].at = "answered" THEN shown' = Data(out[s]) /\ loading' = FALSE
       ELSE CASE d.fails = "keeps"       -> UNCHANGED <<shown, loading>>
              [] d.fails = "waits"       -> shown' = Blank /\ UNCHANGED loading
              [] d.fails = "placeholder" -> shown' = Placeholder(out[s].key) /\ loading' = FALSE
    /\ UNCHANGED <<d, sel, server, failed, crossed, mine, clicks>>

\* Mutant: the answer of the operation is all the screen looks at.
ReloadForgotten(s) ==
    /\ out[s].op /\ out[s].at \in {"answered", "failed"}
    /\ mine' = IF out[s].at = "answered" THEN out[s].ver ELSE mine
    /\ Sends(s, Idle)
    /\ UNCHANGED <<d, sel, shown, loading, server, failed, crossed, clicks>>

\* An operation ends; the reload goes out.
Reload(s) ==
    /\ out[s].op /\ out[s].at \in {"answered", "failed"}
    /\ mine' = IF out[s].at = "answered" THEN Max({mine, out[s].ver}) ELSE mine
    /\ IF out[s].at = "answered" \/ d.reload = "anyway"
       THEN Sends(s, Get(out[s].key)) /\ Crossing(s)
       ELSE Sends(s, Idle) /\ UNCHANGED crossed
    /\ UNCHANGED <<d, sel, shown, loading, server, failed, clicks>>

Transport(s) == Serve(s) \/ Lose(s)
Receive(s) == Show(s) \/ Reload(s)

Next ==
    \/ \E s \in Slots : Poll(s) \/ Operate(s) \/ Transport(s) \/ Receive(s)
    \/ \E s \in Slots, k \in Keys : Select(k, s)
    \/ Elsewhere \/ Finish

Spec == Init /\ [][Next]_vars

------------------------------------------------------------------------------
\* Correctness

\* A screen that has finished loading shows what is selected, however late the answers
\* to earlier selections come; the screens without a guard do so only as long as no two
\* of their requests are under way at once (KevCatalog, AiDiscovery, Reports).
ShowsSelection ==
    ~loading /\ shown.is # "nothing" /\ (d.guard \/ ~crossed) => shown.key = sel

\* When all requests have settled, an operation that was answered is on the screen:
\* the reload was sent after it (Quarantine.promote, ApprovedPackages.revoke,
\* ScansRepos.provision, AiRegistry.toggle).  A second request under way may undo this.
OwnOperationShown ==
    (\A s \in Slots : Free(s)) /\ ~crossed /\ failed = 0 => shown.ver >= mine

\* A screen shows what the server has.
CaughtUp == shown.is = "data" /\ shown.ver = server[sel]
==============================================================================
