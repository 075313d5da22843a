-------------------------------- MODULE Catalog --------------------------------
(***************************************************************************)
(* The package catalogue of the console (App.jsx: Catalog, PackageOverview)*)
(* and its way into the intake queue.                                      *)
(*                                                                         *)
(* Searches, packages and advisories are opened one after the other; their *)
(* answers come in any order and share one loading flag.  The page of a    *)
(* package sends the package to the pipeline and remembers that it did.    *)
(***************************************************************************)
EXTENDS Naturals

CONSTANTS
    Ecos, Names,   \* ecosystems, and names of packages and advisories
    Slots,         \* bound: lookups under way at once
    MaxClicks,     \* bound: what the operator does
    MaxFailures,   \* bound: requests that fail
    None           \* null, not an item

VARIABLES
    eco,           \* the selected ecosystem
    view,          \* landing, results, package or cve
    page,          \* what each of the views has to show
    loading,
    out,           \* lookups under way
    send,          \* the send button of the mounted package page
    post,          \* its request under way
    provisioned,   \* server: ecosystems with a quarantine repository
    queued,        \* server: packages in the intake queue
    seen,          \* history: packages that were on the screen
    wanted,        \* history: the package that was asked for last
    overlapped,    \* history: whether two lookups were under way at once
    strayed,       \* history: whether a package was asked for in another ecosystem than the selected
    clicks, failed

vars == <<eco, view, page, loading, out, send, post, provisioned, queued, seen, wanted,
          overlapped, strayed, clicks, failed>>
server == <<provisioned, queued>>

Item == [eco : Ecos, name : Names]

Views == {"results", "package", "cve"}
SomeItem == CHOOSE i \in Item : TRUE
NoLookup == [at |-> "idle", kind |-> "results", item |-> SomeItem]
NoPost == [at |-> "idle", item |-> SomeItem, live |-> FALSE]

\* PackageOverview is on the screen.
Mounted == view = "package" /\ ~loading /\ page["package"] # None

TypeOK ==
    /\ eco \in Ecos /\ view \in Views \cup {"landing"} /\ loading \in BOOLEAN
    /\ page \in [Views -> Item \cup {None}]
    /\ out \in [Slots -> [at : {"idle", "sent"}, kind : Views, item : Item]]
    /\ send \in {"idle", "sending", "sent", "notprov", "error"}
    /\ post \in [at : {"idle", "provision", "enqueue", "queued", "refused"}, item : Item, live : BOOLEAN]
    /\ provisioned \in SUBSET Ecos /\ queued \in SUBSET Item /\ seen \in SUBSET Item
    /\ wanted \in Item \cup {None} /\ overlapped \in BOOLEAN /\ strayed \in BOOLEAN
    /\ clicks \in 0..MaxClicks /\ failed \in 0..MaxFailures

Init ==
    /\ eco = SomeItem.eco /\ view = "landing" /\ page = [v \in Views |-> None] /\ loading = FALSE
    /\ out = [s \in Slots |-> NoLookup]
    /\ send = "idle" /\ post = NoPost
    /\ provisioned \in SUBSET Ecos /\ queued = {} /\ seen = {}
    /\ wanted = None /\ overlapped = FALSE /\ strayed = FALSE
    /\ clicks = 0 /\ failed = 0

Clicks == clicks < MaxClicks /\ clicks' = clicks + 1
Fails == failed < MaxFailures /\ failed' = failed + 1

\* The page of the package is unmounted: its button is forgotten, and a late answer has
\* nothing to report to.
Unmount == send' = "idle" /\ post' = [post EXCEPT !.live = FALSE]

SetEco ==
    /\ Clicks
    /\ \E e \in Ecos \ {eco} : eco' = e
    /\ UNCHANGED <<view, page, loading, out, send, post, server, seen, wanted, overlapped,
                   strayed, failed>>

\* setLoading(true); setView(v); the old answer goes; the request goes out.
Lookup(s, v, i) ==
    /\ out[s].at = "idle"
    /\ out' = [out EXCEPT ![s] = [at |-> "sent", kind |-> v, item |-> i]]
    /\ view' = v /\ loading' = TRUE /\ page' = [page EXCEPT ![v] = None]
    /\ overlapped' = (overlapped \/ \E x \in Slots : out[x].at # "idle")
    /\ Unmount

RunSearch(s) ==
    /\ Clicks
    /\ \E n \in Names : Lookup(s, "results", [eco |-> eco, name |-> n])
    /\ UNCHANGED <<eco, server, seen, wanted, strayed, failed>>

\* A suggestion, a search result or a sample: always in the selected ecosystem
OpenPkg(s, i) ==
    /\ Lookup(s, "package", [eco |-> eco, name |-> i.name])
    /\ wanted' = i /\ strayed' = (strayed \/ i.eco # eco)

OpenHit(s) ==
    /\ Clicks
    /\ \E n \in Names : OpenPkg(s, [eco |-> eco, name |-> n])
    /\ UNCHANGED <<eco, server, seen, failed>>

\* Another version of the package on the screen
OnVersion(s) ==
    /\ Clicks /\ Mounted /\ OpenPkg(s, page["package"])
    /\ UNCHANGED <<eco, server, seen, failed>>

OpenCve(s) ==
    /\ Clicks
    /\ \E n \in Names : Lookup(s, "cve", [eco |-> eco, name |-> n])
    /\ UNCHANGED <<eco, server, seen, wanted, strayed, failed>>

\* A package an advisory affects: its ecosystem is selected, and the package is opened in
\* the ecosystem selected until now.
CvePkg(s) ==
    /\ Clicks /\ view = "cve" /\ ~loading /\ page["cve"] # None
    /\ \E i \in Item : eco' = i.eco /\ OpenPkg(s, i)
    /\ UNCHANGED <<server, seen, failed>>

Landing ==
    /\ Clicks
    /\ view' = "landing" /\ page' = [page EXCEPT !["package"] = None, !["results"] = None]
    /\ Unmount
    /\ UNCHANGED <<eco, loading, out, server, seen, wanted, overlapped, strayed, failed>>

\* The answer, or the placeholder for a failed lookup: the view shows it, whichever
\* lookup it belongs to, and loading is over.
Answer(s) ==
    /\ out[s].at = "sent"
    /\ out' = [out EXCEPT ![s] = NoLookup]
    /\ page' = [page EXCEPT ![out[s].kind] = out[s].item] /\ loading' = FALSE
    /\ seen' = IF view = "package" /\ page'["package"] # None THEN seen \cup {page'["package"]} ELSE seen
    /\ Fails \/ UNCHANGED failed
    /\ UNCHANGED <<eco, view, send, post, server, wanted, overlapped, strayed, clicks>>

------------------------------------------------------------------------------
\* sendToPipeline

\* Mutant: the selected ecosystem goes out.
SendSelected ==
    /\ Clicks /\ Mounted /\ post.at = "idle"
    /\ \/ send \in {"idle", "error", "notprov"} /\ post' = [at |-> "enqueue", item |-> [page["package"] EXCEPT !.eco = eco], live |-> TRUE]
       \/ send = "notprov" /\ post' = [at |-> "provision", item |-> page["package"], live |-> TRUE]
    /\ send' = "sending"
    /\ UNCHANGED <<eco, view, page, loading, out, server, seen, wanted, overlapped, strayed, failed>>

\* The button is for the package on the screen; after a refusal a second one provisions
\* its ecosystem first.  Bound: one post at a time.
SendToPipeline ==
    /\ Clicks /\ Mounted /\ post.at = "idle"
    /\ \/ send \in {"idle", "error", "notprov"} /\ post' = [at |-> "enqueue", item |-> page["package"], live |-> TRUE]
       \/ send = "notprov" /\ post' = [at |-> "provision", item |-> page["package"], live |-> TRUE]
    /\ send' = "sending"
    /\ UNCHANGED <<eco, view, page, loading, out, server, seen, wanted, overlapped, strayed, failed>>

\* Nobody looks at whether the ecosystem was provisioned.
Provision ==
    /\ post.at = "provision" /\ post' = [post EXCEPT !.at = "enqueue"]
    /\ provisioned' \in {provisioned, provisioned \cup {post.item.eco}}
    /\ UNCHANGED <<eco, view, page, loading, out, send, queued, seen, wanted, overlapped,
                   strayed, clicks, failed>>

\* 422 for an ecosystem without a quarantine repository
Enqueue ==
    /\ post.at = "enqueue"
    /\ IF post.item.eco \in provisioned
       THEN post' = [post EXCEPT !.at = "queued"] /\ queued' = queued \cup {post.item}
       ELSE post' = [post EXCEPT !.at = "refused"] /\ UNCHANGED queued
    /\ UNCHANGED <<eco, view, page, loading, out, send, provisioned, seen, wanted, overlapped,
                   strayed, clicks, failed>>

Report(st) == send' = (IF post.live THEN st ELSE send) /\ post' = NoPost

\* Mutant: nobody handles a failure.
SentOnly ==
    /\ \/ post.at = "queued" /\ Report("sent") /\ UNCHANGED failed
       \/ post.at = "refused" /\ Report("notprov") /\ UNCHANGED failed
       \/ post.at # "idle" /\ Fails /\ post' = NoPost /\ UNCHANGED send
    /\ UNCHANGED <<eco, view, page, loading, out, server, seen, wanted, overlapped, strayed, clicks>>

\* A failure may come before or after the server did its part.
Sent ==
    /\ \/ post.at = "queued" /\ Report("sent") /\ UNCHANGED failed
       \/ post.at = "refused" /\ Report("notprov") /\ UNCHANGED failed
       \/ post.at # "idle" /\ Fails /\ Report("error")
    /\ UNCHANGED <<eco, view, page, loading, out, server, seen, wanted, overlapped, strayed, clicks>>

------------------------------------------------------------------------------

Open(s) == RunSearch(s) \/ OpenHit(s) \/ OnVersion(s) \/ OpenCve(s) \/ CvePkg(s)

Posting == Provision \/ Enqueue \/ Sent

Next ==
    \/ \E s \in Slots : Open(s) \/ Answer(s)
    \/ SetEco \/ Landing \/ SendToPipeline \/ Posting

Spec == Init /\ [][Next]_vars

------------------------------------------------------------------------------
\* Correctness

\* Where the page says "Sent to Intake queue", the package on it is in the queue.  Two
\* lookups at once may exchange the package under the button (PackageOverview has no key).
SentMeansSent == ~overlapped /\ Mounted /\ send = "sent" => page["package"] \in queued

\* Only packages that were on the screen reach the intake queue, in the ecosystem they
\* were shown with, whatever ecosystem is selected meanwhile (sendToPipeline).
EnqueuedWasShown == queued \subseteq seen

\* The package on the screen is the one asked for last, unless lookups overlapped or the
\* package was asked for from a page of another ecosystem (openPkg uses the selected one).
OpensWhatWasAsked == ~overlapped /\ ~strayed /\ Mounted => page["package"] = wanted
==============================================================================
