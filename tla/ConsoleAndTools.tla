--------------------------- MODULE ConsoleAndTools ---------------------------
(***************************************************************************)
(* The screens of the console and the small programs beside the host: each *)
(* of them is a world of its own, and a behaviour is a behaviour of one.   *)
(* They share no state, so that interleaving them would add nothing; a     *)
(* variable that is not of the world at hand is Off.                       *)
(***************************************************************************)
EXTENDS Naturals, FiniteSets

CONSTANTS
    Off,
    Slots, MaxClicks, MaxFailures, MaxRestarts,    \* of several worlds
    Ecos, Names, None,                             \* Catalog
    Keys, MaxVersion, MaxSelections,               \* ConsoleViews
    Consoles, Files, Workers, MaxJobs,             \* ModelApproval
    MaxRuns, MaxPolls, MaxRequests, Merges,        \* EvolutionRuns
    Types, Chunks, Clip,                           \* PrivacyFilter
    SourceFiles, MaxStatements,                    \* Reachability
    Scans                                          \* VsixScanner

\* The bounds are numbers, and so are the data files of the model and the looks of the cycle, of
\* which there is one at least; there is something to select and something to look up; the name of a
\* category is not a place in a text.
ASSUME ConstantsAssumption ==
    /\ {MaxClicks, MaxFailures, MaxRestarts, MaxSelections, MaxJobs, MaxRuns, MaxRequests, Chunks,
         Clip} \subseteq Nat
    /\ MaxPolls \in Nat \ {0}
    /\ Keys # {} /\ Ecos # {} /\ Names # {}
    /\ Types \cap (0..Clip) = {}

VARIABLES
    world,
    view, loading, out, clicks, failed, cache, runs, restarts,    \* of several worlds
    eco, page, send, post, provisioned, queued, seen, wanted, overlapped, strayed,
    d, sel, shown, server, crossed, mine,
    bytes, job, current, allowed, con, collided,
    cycle, pr, merging, requests, approved, refused, inTime, implemented,
    step, loadState, online, served, reply,
    project, named, left, bindings, members, verdict,
    child, answer

Catalogue == INSTANCE Catalog
Views == INSTANCE ConsoleViews
Approval == INSTANCE ModelApproval
Evolution == INSTANCE EvolutionRuns
Filter == INSTANCE PrivacyFilter
Reach == INSTANCE Reachability
Scanner == INSTANCE VsixScanner

ofCatalogue == <<eco, page, send, post, provisioned, queued, seen, wanted, overlapped, strayed>>
ofViews == <<d, sel, shown, server, crossed, mine>>
ofApproval == <<bytes, job, current, allowed, con, collided>>
ofEvolution == <<cycle, pr, merging, requests, approved, refused, inTime, implemented>>
ofFilter == <<step, loadState, online, served, reply>>
ofReach == <<project, named, left, bindings, members, verdict>>
ofScanner == <<child, answer>>

vars == <<world, view, loading, out, clicks, failed, cache, runs, restarts, ofCatalogue, ofViews,
          ofApproval, ofEvolution, ofFilter, ofReach, ofScanner>>

CatalogueOff ==
    /\ eco = Off /\ page = Off /\ send = Off /\ post = Off /\ provisioned = Off /\ queued = Off
    /\ seen = Off /\ wanted = Off /\ overlapped = Off /\ strayed = Off
ViewsOff == d = Off /\ sel = Off /\ shown = Off /\ server = Off /\ crossed = Off /\ mine = Off
ApprovalOff ==
    bytes = Off /\ job = Off /\ current = Off /\ allowed = Off /\ con = Off /\ collided = Off
EvolutionOff ==
    /\ cycle = Off /\ pr = Off /\ merging = Off /\ requests = Off /\ approved = Off /\ refused = Off
    /\ inTime = Off /\ implemented = Off
FilterOff == step = Off /\ loadState = Off /\ online = Off /\ served = Off /\ reply = Off
ReachOff ==
    project = Off /\ named = Off /\ left = Off /\ bindings = Off /\ members = Off /\ verdict = Off
ScannerOff == child = Off /\ answer = Off

Init ==
    \/ /\ world = "catalogue" /\ Catalogue!Init
       /\ cache = Off /\ runs = Off /\ restarts = Off
       /\ ViewsOff /\ ApprovalOff /\ EvolutionOff /\ FilterOff /\ ReachOff /\ ScannerOff
    \/ /\ world = "views" /\ Views!Init
       /\ view = Off /\ cache = Off /\ runs = Off /\ restarts = Off
       /\ CatalogueOff /\ ApprovalOff /\ EvolutionOff /\ FilterOff /\ ReachOff /\ ScannerOff
    \/ /\ world = "approval" /\ Approval!Init
       /\ loading = Off /\ out = Off /\ clicks = Off /\ runs = Off
       /\ CatalogueOff /\ ViewsOff /\ EvolutionOff /\ FilterOff /\ ReachOff /\ ScannerOff
    \/ /\ world = "evolution" /\ Evolution!Init
       /\ view = Off /\ loading = Off /\ out = Off /\ clicks = Off /\ failed = Off /\ cache = Off
       /\ restarts = Off
       /\ CatalogueOff /\ ViewsOff /\ ApprovalOff /\ FilterOff /\ ReachOff /\ ScannerOff
    \/ /\ world = "filter" /\ Filter!Init
       /\ view = Off /\ loading = Off /\ out = Off /\ clicks = Off /\ failed = Off
       /\ CatalogueOff /\ ViewsOff /\ ApprovalOff /\ EvolutionOff /\ ReachOff /\ ScannerOff
    \/ /\ world \in {"reach", "scanner"}
       /\ view = Off /\ loading = Off /\ out = Off /\ clicks = Off /\ failed = Off /\ cache = Off
       /\ runs = Off /\ restarts = Off
       /\ CatalogueOff /\ ViewsOff /\ ApprovalOff /\ EvolutionOff /\ FilterOff
       /\ IF world = "reach" THEN Reach!Init /\ ScannerOff ELSE Scanner!Init /\ ReachOff

\* A step of a world, that leaves what is Off alone
InCatalogue(A) ==
    /\ world = "catalogue" /\ A
    /\ UNCHANGED <<world, cache, runs, restarts, ofViews, ofApproval, ofEvolution, ofFilter, ofReach, ofScanner>>
InViews(A) ==
    /\ world = "views" /\ A
    /\ UNCHANGED <<world, view, cache, runs, restarts, ofCatalogue, ofApproval, ofEvolution, ofFilter, ofReach, ofScanner>>
InApproval(A) ==
    /\ world = "approval" /\ A
    /\ UNCHANGED <<world, loading, out, clicks, runs, ofCatalogue, ofViews, ofEvolution, ofFilter, ofReach, ofScanner>>
InEvolution(A) ==
    /\ world = "evolution" /\ A
    /\ UNCHANGED <<world, view, loading, out, clicks, failed, cache, restarts, ofCatalogue, ofViews,
                   ofApproval, ofFilter, ofReach, ofScanner>>
InFilter(A) ==
    /\ world = "filter" /\ A
    /\ UNCHANGED <<world, view, loading, out, clicks, failed, ofCatalogue, ofViews, ofApproval,
                   ofEvolution, ofReach, ofScanner>>
InTool(w, A) ==
    /\ world = w /\ A
    /\ UNCHANGED <<world, view, loading, out, clicks, failed, cache, runs, restarts, ofCatalogue,
                   ofViews, ofApproval, ofEvolution, ofFilter>>

Next ==
    \/ InCatalogue(Catalogue!Next)
    \/ InViews(Views!Next)
    \/ InApproval(Approval!Next)
    \/ InEvolution(Evolution!Next)
    \/ InFilter(Filter!Next)
    \/ InTool("reach", Reach!Next /\ UNCHANGED ofScanner)
    \/ InTool("scanner", Scanner!Next /\ UNCHANGED ofReach)

Spec == Init /\ [][Next]_vars

\* Requests settle and handlers run; a poll of an interval comes round, and scans end;
\* verification jobs run on and timers are served; the background task of a mutation run goes
\* on, and building ends.  What different worlds do fairly is put into one condition: in a
\* behaviour only one of the alternatives is ever enabled.
Fair ==
    /\ \A s \in Slots : /\ WF_vars(InCatalogue(Catalogue!Answer(s)) \/ InViews(Views!Transport(s)))
                        /\ WF_vars(InViews(Views!Receive(s)))
    /\ WF_vars(InCatalogue(Catalogue!Posting) \/ InViews(\E s \in Slots : Views!Poll(s)))
    /\ WF_vars(InViews(Views!Finish))
    /\ \A j \in 1..MaxJobs : WF_vars(InApproval(Approval!Worker(j)))
    /\ \A c \in Consoles : WF_vars(InApproval(Approval!Request(c)))
    /\ \A i \in 1..MaxRuns : /\ WF_vars(InEvolution(Evolution!Cycle(i)))
                             /\ WF_vars(InEvolution(Evolution!Implement(i)))

FairSpec == Spec /\ Fair

------------------------------------------------------------------------------
\* Every world keeps its types.
TypeOK ==
    CASE world = "catalogue" -> Catalogue!TypeOK
      [] world = "views"     -> Views!TypeOK
      [] world = "approval"  -> Approval!TypeOK
      [] world = "evolution" -> Evolution!TypeOK
      [] world = "filter"    -> Filter!TypeOK
      [] world = "reach"     -> Reach!TypeOK
      [] world = "scanner"   -> Scanner!TypeOK

\* Where PackageOverview says that a package was sent, it is in the intake queue.
SentMeansSent == world = "catalogue" => Catalogue!SentMeansSent
\* What the catalogue puts into the intake queue was on the screen as it was put there (sendToPipeline).
EnqueuedWasShown == world = "catalogue" => Catalogue!EnqueuedWasShown
\* What goes to the pipeline is what the operator saw, and what is said to have gone did go.
PipelineGetsWhatIsShown == SentMeansSent /\ EnqueuedWasShown

\* The catalogue opens what was asked for (openPkg).
OpensWhatWasAsked == world = "catalogue" => Catalogue!OpensWhatWasAsked
\* "Sending..." goes away, after failures too (the catch clauses of sendToPipeline).
SendingEnds == world = "catalogue" /\ send = "sending" ~> send # "sending"

\* A screen shows what is selected on it (the effects and the click handlers of App.jsx).
ShowsSelection == world = "views" => Views!ShowsSelection
\* The last thing asked for is what is on the screen, whatever order the answers came in.
ShowsWhatWasAsked == OpensWhatWasAsked /\ ShowsSelection

\* A screen shows what it did itself (the reload after promote, revoke, provision, enforce ...).
OwnOperationShown == world = "views" => Views!OwnOperationShown
\* A screen that polls ends up with what the server has, whatever order the answers
\* came in, and a scan is not shown as running for ever (IntakeQueue, LlmGateway,
\* OnDemandScanning).
PollsCatchUp ==
    /\ <>[](world = "views" /\ d.polls = "always" => Views!CaughtUp)
    /\ world = "views" /\ d.polls = "unfinished" /\ Views!Unfinished
          ~> (world = "views" => ~Views!Unfinished)
\* Loading ends, in the catalogue (the finally of the lookups) and on every screen that handles
\* failures, with the data or with what a failure leaves; AppInsights waits for ever.
LoadingEnds ==
    (world = "catalogue" \/ (world = "views" /\ d.fails # "waits")) /\ loading ~> loading # TRUE

\* Only a model found clean is allowed from a console (AiModelDetail), as long as nothing fails.
AllowedIsVerified == world = "approval" => Approval!AllowedIsVerified
\* No console meets a job the server lost, unless a start was refused or the host restarted.
ConsoleSurvives == world = "approval" => Approval!ConsoleSurvives
\* "Verifying weights..." ends, unless the console is closed or a request of it gets no
\* answer (the polling effect of AiModelDetail).
VerifyingEnds ==
    \A c \in Consoles :
        world = "approval" /\ con[c] = "polling" /\ Approval!Verifying(c)
            ~> (world = "approval" => ~Approval!Verifying(c) \/ con[c] = "closed" \/ failed > 0)

\* No pull request without an approval (GroqCycleRun).
NoPRUnapproved == world = "evolution" => Evolution!NoPRUnapproved
\* A run is released only with its pull request merged (DecideMergeAsync).
ReleasedIsMerged == world = "evolution" => Evolution!ReleasedIsMerged
\* No pull request is opened but by an approval, and no run released but by a merge.
PRsAreDecided == NoPRUnapproved /\ ReleasedIsMerged

\* A plan that waits for approval stops waiting, decided or not (the poll limit of
\* GroqCycleRun).
WaitingEnds ==
    \A i \in 1..MaxRuns :
        world = "evolution" /\ runs[i].status = "awaiting-approval"
            ~> (world = "evolution" => runs[i].status # "awaiting-approval")
\* Nothing that an operator waits for waits for ever: no spinner of a screen, and no plan.
WaitsEnd == SendingEnds /\ LoadingEnds /\ VerifyingEnds /\ WaitingEnds
\* An approval that came before the last look is acted upon, unless the run is rejected or
\* cleared (GroqCycleRun, Decide).
ApprovalCounts ==
    \A i \in 1..MaxRuns :
        (/\ world = "evolution" /\ i \in inTime
         /\ cycle[i].step = "waiting" /\ cycle[i].polls < MaxPolls)
            ~> (world = "evolution" => i \in implemented \/ i \in refused \/ ~runs[i].there)

\* A volume that was loaded from once is enough for ever (load in privacy-filter/server.mjs).
RunsOffline == world = "filter" => Filter!RunsOffline
\* The redacted text lacks what the model labelled, and nothing else (infer, redact).
RedactsWhatIsLabelled == world = "filter" => Filter!RedactsWhatIsLabelled

\* A use of the symbol that is in plain sight is found (analyze.mjs).
UsesAreFound == world = "reach" => Reach!UsesAreFound
\* An import that does not tell its members never makes a package NotReachable (analyze.mjs).
UnsureIsNotExonerated == world = "reach" => Reach!UnsureIsNotExonerated
\* No verdict of the analyser says less than what its files showed.
VerdictIsSound == UsesAreFound /\ UnsureIsNotExonerated

\* A scan is answered with its report or with a failure, never with a made-up one (vsix-scanner/server.mjs).
HonestAnswer == world = "scanner" => Scanner!HonestAnswer
==============================================================================
