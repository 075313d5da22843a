------------------------- MODULE ConsoleAndToolsProofs -------------------------
(***************************************************************************)
(* Proofs about the screens of the console and the programs beside the     *)
(* host: every safety invariant of ConsoleAndTools, for any number of      *)
(* slots, keys, consoles, files, runs and scans, and for every bound.      *)
(*                                                                         *)
(* Each world has an inductive invariant of its own, and lemmas XInit,     *)
(* XNext and XStays about it; IInv puts them together at the end, where    *)
(* the theorems are.  What a record set holds is stated under a name and   *)
(* once (XTypes), so that the steps need not look into it.                 *)
(***************************************************************************)
EXTENDS ConsoleAndTools, SequenceTheorems, WellFoundedInduction, TLAPS

------------------------------------------------------------------------------
\* The catalogue

Item == Catalogue!Item

\* What goes to the pipeline was on the screen.
Shown ==
    /\ view = "package" /\ page["package"] # None => page["package"] \in seen
    /\ post.at # "idle" => post.item \in seen
    /\ post.at = "queued" => post.item \in queued
    /\ queued \subseteq seen

\* As long as no two lookups were under way at once: while one is, the page of the package is not on
\* the screen, so that the button, and the request of it that is alive, are for the package shown.
OneLookup ==
    /\ \A s, x \in Slots : out[s].at # "idle" /\ out[x].at # "idle" => s = x
    /\ ~loading => \A s \in Slots : out[s].at = "idle"
    /\ post.live \/ send # "idle" => Catalogue!Mounted
    /\ post.live => post.item = page["package"]
    /\ send = "sent" => page["package"] \in queued

\* And as long as packages were asked for in the selected ecosystem only
AsAsked ==
    /\ \A s \in Slots : out[s].at # "idle" /\ out[s].kind = "package" => out[s].item = wanted
    /\ page["package"] # None => page["package"] = wanted

CatalogueInv ==
    /\ Catalogue!TypeOK /\ Shown
    /\ ~overlapped => OneLookup
    /\ ~overlapped /\ ~strayed => AsAsked

LEMMA ItemFacts ==
    /\ Catalogue!SomeItem \in Item
    /\ \A i \in Item : i.eco \in Ecos /\ i.name \in Names
    /\ \A e \in Ecos, n \in Names : [eco |-> e, name |-> n] \in Item
    /\ \A i \in Item : i = [eco |-> i.eco, name |-> i.name]
<1>1. \A e \in Ecos, n \in Names : [eco |-> e, name |-> n] \in Item
  BY DEF Item, Catalogue!Item
<1>2. PICK e \in Ecos, n \in Names : TRUE
  BY ConstantsAssumption
<1>3. Catalogue!SomeItem \in Item
  BY <1>1, <1>2 DEF Catalogue!SomeItem, Item
<1> QED
  BY <1>1, <1>3 DEF Item, Catalogue!Item

Lookups == [at : {"idle", "sent"}, kind : Catalogue!Views, item : Item]
Posts == [at : {"idle", "provision", "enqueue", "queued", "refused"}, item : Item, live : BOOLEAN]

\* The types, with a name for those of lookups and posts.
CatalogueTyped ==
    /\ eco \in Ecos /\ view \in Catalogue!Views \cup {"landing"} /\ loading \in BOOLEAN
    /\ page \in [Catalogue!Views -> Item \cup {None}] /\ out \in [Slots -> Lookups]
    /\ send \in {"idle", "sending", "sent", "notprov", "error"} /\ post \in Posts
    /\ provisioned \in SUBSET Ecos /\ queued \in SUBSET Item /\ seen \in SUBSET Item
    /\ wanted \in Item \cup {None} /\ overlapped \in BOOLEAN /\ strayed \in BOOLEAN
    /\ clicks \in 0..MaxClicks /\ failed \in 0..MaxFailures

LEMMA CatalogueTypes ==
    /\ Catalogue!TypeOK <=> CatalogueTyped
    /\ Catalogue!TypeOK' <=> CatalogueTyped'
  BY DEF Catalogue!TypeOK, CatalogueTyped, Lookups, Posts, Item

LEMMA NothingOut == Catalogue!NoLookup \in Lookups /\ Catalogue!NoPost \in Posts
  BY ItemFacts DEF Catalogue!NoLookup, Catalogue!NoPost, Lookups, Posts, Catalogue!Views

\* Counters of the bounds
LEMMA CatalogueCounts ==
    ASSUME CatalogueTyped
    PROVE  /\ Catalogue!Clicks => clicks' \in 0..MaxClicks
           /\ Catalogue!Fails => failed' \in 0..MaxFailures
  BY ConstantsAssumption DEF CatalogueTyped, Catalogue!Clicks, Catalogue!Fails

LEMMA CatalogueInit == Catalogue!Init => CatalogueInv
<1> SUFFICES ASSUME Catalogue!Init PROVE CatalogueInv
  OBVIOUS
<1>1. /\ eco = Catalogue!SomeItem.eco /\ view = "landing" /\ page = [v \in Catalogue!Views |-> None]
      /\ loading = FALSE /\ out = [s \in Slots |-> Catalogue!NoLookup]
      /\ send = "idle" /\ post = Catalogue!NoPost /\ provisioned \in SUBSET Ecos
      /\ queued = {} /\ seen = {} /\ wanted = None /\ overlapped = FALSE /\ strayed = FALSE
      /\ clicks = 0 /\ failed = 0
  BY DEF Catalogue!Init
<1>2. 0 \in 0..MaxClicks /\ 0 \in 0..MaxFailures
  BY ConstantsAssumption
<1>3. Catalogue!TypeOK
  BY <1>1, <1>2, ItemFacts, NothingOut, CatalogueTypes DEF CatalogueTyped
<1>4. /\ Catalogue!NoLookup.at = "idle" /\ Catalogue!NoPost.at = "idle" /\ Catalogue!NoPost.live = FALSE
  BY DEF Catalogue!NoLookup, Catalogue!NoPost
<1>5. page["package"] = None
  BY <1>1 DEF Catalogue!Views
<1> QED
  BY <1>1, <1>3, <1>4, <1>5 DEF CatalogueInv, Shown, OneLookup, AsAsked

\* A lookup goes out: the page of the package is left, and if no other lookup is under way, this
\* one is the only one.
LEMMA LookupStep ==
    ASSUME CatalogueInv, NEW s \in Slots, NEW v \in Catalogue!Views, NEW i \in Item,
           Catalogue!Lookup(s, v, i), eco' \in Ecos, Catalogue!Clicks,
           UNCHANGED <<provisioned, queued, seen, failed>>,
           wanted' \in Item \cup {None}, strayed' \in BOOLEAN, ~strayed' => ~strayed,
           IF v = "package" THEN ~strayed' => wanted' = i ELSE wanted' = wanted
    PROVE  CatalogueInv'
<1>1. /\ CatalogueTyped /\ Shown
      /\ ~overlapped => OneLookup
      /\ ~overlapped /\ ~strayed => AsAsked
  BY CatalogueTypes DEF CatalogueInv
<1> DEFINE new == [at |-> "sent", kind |-> v, item |-> i]
           p == [post EXCEPT !.live = FALSE]
<1>2. /\ out' = [out EXCEPT ![s] = new] /\ out[s].at = "idle"
      /\ view' = v /\ loading' = TRUE /\ page' = [page EXCEPT ![v] = None]
      /\ overlapped' = (overlapped \/ \E x \in Slots : out[x].at # "idle")
      /\ send' = "idle" /\ post' = p
  BY DEF Catalogue!Lookup, Catalogue!Unmount
<1>3. /\ new \in Lookups /\ new.at = "sent" /\ new.kind = v /\ new.item = i
      /\ p \in Posts /\ p.live = FALSE /\ p.at = post.at /\ p.item = post.item
  BY <1>1 DEF Lookups, Posts, CatalogueTyped
<1> HIDE DEF new, p
<1>4. /\ out' \in [Slots -> Lookups] /\ \A x \in Slots : out'[x] = IF x = s THEN new ELSE out[x]
      /\ page' \in [Catalogue!Views -> Item \cup {None}]
      /\ \A x \in Catalogue!Views : page'[x] = IF x = v THEN None ELSE page[x]
  BY <1>1, <1>2, <1>3 DEF CatalogueTyped
<1>5. "package" \in Catalogue!Views
  BY DEF Catalogue!Views
<1>6. Catalogue!TypeOK'
  <2>1. overlapped' \in BOOLEAN /\ clicks' \in 0..MaxClicks
    BY <1>1, <1>2, CatalogueCounts DEF CatalogueTyped
  <2> QED
    BY <1>1, <1>2, <1>3, <1>4, <2>1, CatalogueTypes DEF CatalogueTyped
<1>7. Shown'
  BY <1>1, <1>2, <1>3, <1>4, <1>5 DEF Shown
<1>8. ~overlapped' => OneLookup'
  BY <1>2, <1>3, <1>4 DEF OneLookup
<1>9. ~overlapped' /\ ~strayed' => AsAsked'
  BY <1>1, <1>2, <1>3, <1>4, <1>5 DEF AsAsked
<1> QED
  BY <1>6, <1>7, <1>8, <1>9 DEF CatalogueInv

\* What is opened is what is asked for, if that is in the selected ecosystem.
LEMMA OpenStep ==
    ASSUME CatalogueInv, NEW s \in Slots, NEW i \in Item, Catalogue!OpenPkg(s, i), Catalogue!Clicks,
           eco' \in Ecos, UNCHANGED <<provisioned, queued, seen, failed>>
    PROVE  CatalogueInv'
<1>1. CatalogueTyped
  BY CatalogueTypes DEF CatalogueInv
<1> DEFINE j == [eco |-> eco, name |-> i.name]
<1>2. /\ Catalogue!Lookup(s, "package", j) /\ wanted' = i
      /\ strayed' = (strayed \/ i.eco # eco)
  BY DEF Catalogue!OpenPkg
<1>3. j \in Item /\ (i.eco = eco => i = j)
  BY <1>1, ItemFacts DEF CatalogueTyped
<1>4. strayed' \in BOOLEAN /\ (~strayed' => ~strayed /\ i = j)
  BY <1>1, <1>2, <1>3 DEF CatalogueTyped
<1> HIDE DEF j
<1>5. "package" \in Catalogue!Views
  BY DEF Catalogue!Views
<1> QED
  BY <1>2, <1>3, <1>4, <1>5, LookupStep

LEMMA OpenMoves ==
    ASSUME CatalogueInv, NEW s \in Slots, Catalogue!Open(s)
    PROVE  CatalogueInv'
<1>1. CatalogueTyped /\ "package" \in Catalogue!Views /\ "results" \in Catalogue!Views
      /\ "cve" \in Catalogue!Views
  BY CatalogueTypes DEF CatalogueInv, Catalogue!Views
<1>2. ASSUME NEW v \in {"results", "cve"}, NEW n \in Names,
             Catalogue!Lookup(s, v, [eco |-> eco, name |-> n]), Catalogue!Clicks,
             UNCHANGED <<eco, provisioned, queued, seen, wanted, strayed, failed>>
      PROVE  CatalogueInv'
  <2>1. [eco |-> eco, name |-> n] \in Item
    BY <1>1, ItemFacts DEF CatalogueTyped
  <2> QED
    BY <1>1, <1>2, <2>1, LookupStep DEF CatalogueTyped
<1>3. CASE Catalogue!RunSearch(s)
  BY <1>2, <1>3 DEF Catalogue!RunSearch, Catalogue!server
<1>4. CASE Catalogue!OpenCve(s)
  BY <1>2, <1>4 DEF Catalogue!OpenCve, Catalogue!server
<1>5. CASE Catalogue!OpenHit(s)
  <2>1. PICK n \in Names : Catalogue!OpenPkg(s, [eco |-> eco, name |-> n])
    BY <1>5 DEF Catalogue!OpenHit
  <2>2. [eco |-> eco, name |-> n] \in Item
    BY <1>1, ItemFacts DEF CatalogueTyped
  <2>3. Catalogue!Clicks /\ UNCHANGED <<eco, provisioned, queued, seen, failed>> /\ eco \in Ecos
    BY <1>1, <1>5 DEF Catalogue!OpenHit, Catalogue!server, CatalogueTyped
  <2> QED
    BY <2>1, <2>2, <2>3, OpenStep
<1>6. CASE Catalogue!OnVersion(s)
  <2>1. /\ Catalogue!OpenPkg(s, page["package"]) /\ Catalogue!Clicks /\ page["package"] # None
        /\ UNCHANGED <<eco, provisioned, queued, seen, failed>>
    BY <1>6 DEF Catalogue!OnVersion, Catalogue!Mounted, Catalogue!server
  <2>2. page["package"] \in Item /\ eco \in Ecos
    BY <1>1, <2>1 DEF CatalogueTyped
  <2> QED
    BY <2>1, <2>2, OpenStep
<1>7. CASE Catalogue!CvePkg(s)
  <2>1. PICK i \in Item : eco' = i.eco /\ Catalogue!OpenPkg(s, i)
    BY <1>7 DEF Catalogue!CvePkg, Item
  <2>2. Catalogue!Clicks /\ UNCHANGED <<provisioned, queued, seen, failed>> /\ eco' \in Ecos
    BY <1>7, <2>1, ItemFacts DEF Catalogue!CvePkg, Catalogue!server
  <2> QED
    BY <2>1, <2>2, OpenStep
<1> QED
  BY <1>3, <1>4, <1>5, <1>6, <1>7 DEF Catalogue!Open

\* An answer is shown, and counts as seen where a package is on the screen.
LEMMA AnswerMoves ==
    ASSUME CatalogueInv, NEW s \in Slots, Catalogue!Answer(s)
    PROVE  CatalogueInv'
<1>1. /\ CatalogueTyped /\ Shown
      /\ ~overlapped => OneLookup
      /\ ~overlapped /\ ~strayed => AsAsked
  BY CatalogueTypes DEF CatalogueInv
<1> DEFINE k == out[s].kind  i == out[s].item
<1>2. /\ out[s].at = "sent" /\ out' = [out EXCEPT ![s] = Catalogue!NoLookup]
      /\ page' = [page EXCEPT ![k] = i] /\ loading' = FALSE
      /\ seen' = IF view = "package" /\ page'["package"] # None
                 THEN seen \cup {page'["package"]} ELSE seen
      /\ Catalogue!Fails \/ UNCHANGED failed
      /\ UNCHANGED <<eco, view, send, post, provisioned, queued, wanted, overlapped, strayed, clicks>>
  BY DEF Catalogue!Answer, Catalogue!server
<1>3. k \in Catalogue!Views /\ i \in Item /\ "package" \in Catalogue!Views
  BY <1>1 DEF CatalogueTyped, Lookups, Catalogue!Views
<1>4. Catalogue!NoLookup \in Lookups /\ Catalogue!NoLookup.at = "idle"
  BY NothingOut DEF Catalogue!NoLookup
<1> HIDE DEF k, i
<1>5. /\ out' \in [Slots -> Lookups]
      /\ \A x \in Slots : out'[x] = IF x = s THEN Catalogue!NoLookup ELSE out[x]
      /\ page' \in [Catalogue!Views -> Item \cup {None}]
      /\ \A x \in Catalogue!Views : page'[x] = IF x = k THEN i ELSE page[x]
  BY <1>1, <1>2, <1>3, <1>4 DEF CatalogueTyped
<1>6. Catalogue!TypeOK'
  <2>1. failed' \in 0..MaxFailures
    BY <1>1, <1>2, CatalogueCounts DEF CatalogueTyped
  <2>2. seen' \in SUBSET Item
    BY <1>1, <1>2, <1>3, <1>5 DEF CatalogueTyped
  <2> QED
    BY <1>1, <1>2, <1>5, <2>1, <2>2, CatalogueTypes DEF CatalogueTyped
<1>7. Shown'
  BY <1>1, <1>2 DEF Shown
<1>8. ~overlapped' => OneLookup'
  <2> SUFFICES ASSUME ~overlapped' PROVE OneLookup'
    OBVIOUS
  <2>1. OneLookup /\ loading
    BY <1>1, <1>2 DEF OneLookup, CatalogueTyped
  <2>2. post.live = FALSE /\ send = "idle"
    BY <1>1, <2>1 DEF OneLookup, Catalogue!Mounted, CatalogueTyped, Posts
  <2>3. \A x \in Slots : out'[x].at = "idle"
    BY <1>2, <1>4, <1>5, <2>1 DEF OneLookup
  <2> QED
    BY <1>2, <2>2, <2>3 DEF OneLookup
<1>9. ~overlapped' /\ ~strayed' => AsAsked'
  <2> SUFFICES ASSUME ~overlapped', ~strayed' PROVE AsAsked'
    OBVIOUS
  <2>1. AsAsked /\ (k = "package" => i = wanted)
    BY <1>1, <1>2 DEF AsAsked, k, i
  <2> QED
    BY <1>2, <1>3, <1>4, <1>5, <2>1 DEF AsAsked
<1> QED
  BY <1>6, <1>7, <1>8, <1>9 DEF CatalogueInv

\* The ecosystem is selected, or the page left for the landing page.
LEMMA AroundMoves ==
    ASSUME CatalogueInv, Catalogue!SetEco \/ Catalogue!Landing
    PROVE  CatalogueInv'
<1>1. /\ CatalogueTyped /\ Shown
      /\ ~overlapped => OneLookup
      /\ ~overlapped /\ ~strayed => AsAsked
  BY CatalogueTypes DEF CatalogueInv
<1>2. /\ clicks' \in 0..MaxClicks
      /\ UNCHANGED <<loading, out, provisioned, queued, seen, wanted, overlapped, strayed, failed>>
  BY <1>1, CatalogueCounts DEF Catalogue!SetEco, Catalogue!Landing, Catalogue!server
<1>3. CASE Catalogue!SetEco
  <2>1. eco' \in Ecos /\ UNCHANGED <<view, page, send, post>>
    BY <1>3 DEF Catalogue!SetEco
  <2>2. Catalogue!TypeOK'
    BY <1>1, <1>2, <2>1, CatalogueTypes DEF CatalogueTyped
  <2> QED
    BY <1>1, <1>2, <2>1, <2>2 DEF CatalogueInv, Shown, OneLookup, AsAsked, Catalogue!Mounted
<1>4. CASE Catalogue!Landing
  <2> DEFINE p == [post EXCEPT !.live = FALSE]
  <2>1. /\ view' = "landing" /\ send' = "idle" /\ post' = p /\ eco' = eco
        /\ page' = [page EXCEPT !["package"] = None, !["results"] = None]
    BY <1>4 DEF Catalogue!Landing, Catalogue!Unmount
  <2>2. p \in Posts /\ p.live = FALSE /\ p.at = post.at /\ p.item = post.item
    BY <1>1 DEF CatalogueTyped, Posts
  <2>3. page' \in [Catalogue!Views -> Item \cup {None}] /\ page'["package"] = None
    BY <1>1, <2>1 DEF CatalogueTyped, Catalogue!Views
  <2> HIDE DEF p
  <2>4. Catalogue!TypeOK'
    BY <1>1, <1>2, <2>1, <2>2, <2>3, CatalogueTypes DEF CatalogueTyped
  <2>5. Shown'
    BY <1>1, <1>2, <2>1, <2>2 DEF Shown
  <2>6. ~overlapped' => OneLookup'
    BY <1>1, <1>2, <2>1, <2>2 DEF OneLookup
  <2>7. ~overlapped' /\ ~strayed' => AsAsked'
    BY <1>1, <1>2, <2>3 DEF AsAsked
  <2> QED
    BY <2>4, <2>5, <2>6, <2>7 DEF CatalogueInv
<1> QED
  BY <1>3, <1>4

\* A post starts, goes on at the server or ends: the screen stays what it is, but for the button.
LEMMA PostStep ==
    ASSUME CatalogueInv, post' \in Posts, clicks' \in 0..MaxClicks, failed' \in 0..MaxFailures,
           send' \in {"idle", "sending", "sent", "notprov", "error"}, provisioned' \in SUBSET Ecos,
           UNCHANGED <<eco, view, page, loading, out, seen, wanted, overlapped, strayed>>,
           post'.at # "idle" => post'.item \in seen,
           post'.at = "queued" => post'.item \in queued',
           queued' \in SUBSET seen, queued \subseteq queued',
           ~overlapped /\ OneLookup =>
              /\ post'.live \/ send' # "idle" => Catalogue!Mounted
              /\ post'.live => post'.item = page["package"]
              /\ send' = "sent" => page["package"] \in queued'
    PROVE  CatalogueInv'
<1>1. /\ CatalogueTyped /\ Shown
      /\ ~overlapped => OneLookup
      /\ ~overlapped /\ ~strayed => AsAsked
  BY CatalogueTypes DEF CatalogueInv
<1>2. Catalogue!TypeOK'
  BY <1>1, CatalogueTypes DEF CatalogueTyped
<1>3. Shown'
  BY <1>1 DEF Shown
<1>4. ~overlapped' => OneLookup'
  BY <1>1 DEF OneLookup, Catalogue!Mounted
<1>5. ~overlapped' /\ ~strayed' => AsAsked'
  BY <1>1 DEF AsAsked
<1> QED
  BY <1>2, <1>3, <1>4, <1>5 DEF CatalogueInv

LEMMA SendMoves ==
    ASSUME CatalogueInv, Catalogue!SendToPipeline
    PROVE  CatalogueInv'
<1>1. CatalogueTyped /\ Shown
  BY CatalogueTypes DEF CatalogueInv
<1>2. PICK at \in {"enqueue", "provision"} :
         post' = [at |-> at, item |-> page["package"], live |-> TRUE]
  BY DEF Catalogue!SendToPipeline
<1>3. /\ Catalogue!Clicks /\ Catalogue!Mounted /\ send' = "sending"
      /\ UNCHANGED <<eco, view, page, loading, out, provisioned, queued, seen, wanted, overlapped,
                     strayed, failed>>
  BY DEF Catalogue!SendToPipeline, Catalogue!server
<1>4. page["package"] \in Item /\ page["package"] \in seen
  BY <1>1, <1>3 DEF CatalogueTyped, Shown, Catalogue!Mounted, Catalogue!Views
<1>5. post' \in Posts /\ post'.at = at /\ post'.item = page["package"] /\ post'.live = TRUE
  BY <1>2, <1>4 DEF Posts
<1>6. clicks' \in 0..MaxClicks /\ failed' \in 0..MaxFailures
  BY <1>1, <1>3, CatalogueCounts DEF CatalogueTyped
<1>7. queued' \in SUBSET seen /\ queued \subseteq queued' /\ provisioned' \in SUBSET Ecos
  BY <1>1, <1>3 DEF CatalogueTyped, Shown
<1> QED
  BY <1>3, <1>4, <1>5, <1>6, <1>7, PostStep

LEMMA ServerMoves ==
    ASSUME CatalogueInv, Catalogue!Provision \/ Catalogue!Enqueue
    PROVE  CatalogueInv'
<1>1. CatalogueTyped /\ Shown
  BY CatalogueTypes DEF CatalogueInv
<1>2. PICK at \in {"enqueue", "queued", "refused"} :
         /\ post' = [post EXCEPT !.at = at]
         /\ at = "queued" => queued' = queued \cup {post.item}
         /\ at # "queued" => queued' = queued
  BY DEF Catalogue!Provision, Catalogue!Enqueue
<1>3. /\ post.at # "idle" /\ provisioned' \in SUBSET Ecos
      /\ UNCHANGED <<eco, view, page, loading, out, send, seen, wanted, overlapped, strayed, clicks,
                     failed>>
  <2>1. post.item.eco \in Ecos
    BY <1>1, ItemFacts DEF CatalogueTyped, Posts
  <2> QED
    BY <1>1, <2>1 DEF Catalogue!Provision, Catalogue!Enqueue, CatalogueTyped
<1>4. post' \in Posts /\ post'.at = at /\ post'.item = post.item /\ post'.live = post.live
  BY <1>1, <1>2 DEF CatalogueTyped, Posts
<1>5. post.item \in seen /\ queued' \in SUBSET seen /\ queued \subseteq queued'
  BY <1>1, <1>2, <1>3 DEF Shown
<1>6. /\ send' \in {"idle", "sending", "sent", "notprov", "error"}
      /\ clicks' \in 0..MaxClicks /\ failed' \in 0..MaxFailures
  BY <1>1, <1>3 DEF CatalogueTyped
<1>7. OneLookup => /\ post'.live \/ send' # "idle" => Catalogue!Mounted
                   /\ post'.live => post'.item = page["package"]
                   /\ send' = "sent" => page["package"] \in queued'
  BY <1>3, <1>4, <1>5 DEF OneLookup
<1> QED
  BY <1>2, <1>3, <1>4, <1>5, <1>6, <1>7, PostStep

\* Only the button of a page that is still there hears of the outcome.
LEMMA SentMoves ==
    ASSUME CatalogueInv, Catalogue!Sent
    PROVE  CatalogueInv'
<1>1. CatalogueTyped /\ Shown
  BY CatalogueTypes DEF CatalogueInv
<1>2. PICK st \in {"sent", "notprov", "error"} :
         /\ send' = (IF post.live THEN st ELSE send) /\ post' = Catalogue!NoPost
         /\ st = "sent" => post.at = "queued"
  BY DEF Catalogue!Sent, Catalogue!Report
<1>3. /\ Catalogue!Fails \/ UNCHANGED failed
      /\ UNCHANGED <<eco, view, page, loading, out, provisioned, queued, seen, wanted, overlapped,
                     strayed, clicks>>
  BY DEF Catalogue!Sent, Catalogue!server
<1>4. post' \in Posts /\ post'.at = "idle" /\ post'.live = FALSE
  BY <1>2, NothingOut DEF Catalogue!NoPost
<1>5. clicks' \in 0..MaxClicks /\ failed' \in 0..MaxFailures
  BY <1>1, <1>3, CatalogueCounts DEF CatalogueTyped
<1>6. /\ send' \in {"idle", "sending", "sent", "notprov", "error"}
      /\ queued' \in SUBSET seen /\ queued \subseteq queued' /\ provisioned' \in SUBSET Ecos
  BY <1>1, <1>2, <1>3 DEF CatalogueTyped, Shown
<1>7. OneLookup => /\ send' # "idle" => Catalogue!Mounted
                   /\ send' = "sent" => page["package"] \in queued'
  BY <1>1, <1>2, <1>3 DEF OneLookup, Shown
<1> QED
  BY <1>3, <1>4, <1>5, <1>6, <1>7, PostStep

LEMMA CatalogueNext == CatalogueInv /\ Catalogue!Next => CatalogueInv'
  BY OpenMoves, AnswerMoves, AroundMoves, SendMoves, ServerMoves, SentMoves
     DEF Catalogue!Next, Catalogue!Posting

LEMMA CatalogueStays == CatalogueInv /\ UNCHANGED Catalogue!vars => CatalogueInv'
<1> SUFFICES ASSUME CatalogueInv, UNCHANGED Catalogue!vars PROVE CatalogueInv'
  OBVIOUS
<1>1. /\ CatalogueTyped
      /\ UNCHANGED <<eco, view, page, loading, out, send, post, provisioned, queued, seen, wanted,
                     overlapped, strayed, clicks, failed>>
  BY CatalogueTypes DEF CatalogueInv, Catalogue!vars
<1>2. Catalogue!TypeOK'
  BY <1>1, CatalogueTypes DEF CatalogueTyped
<1> QED
  BY <1>1, <1>2 DEF CatalogueInv, Shown, OneLookup, AsAsked, Catalogue!Mounted

\* What the operator is shown, sends and is told, from the invariant
LEMMA CatalogueSound ==
    CatalogueInv => /\ Catalogue!TypeOK /\ Catalogue!SentMeansSent /\ Catalogue!EnqueuedWasShown
                    /\ Catalogue!OpensWhatWasAsked
  BY DEF CatalogueInv, Shown, OneLookup, AsAsked, Catalogue!SentMeansSent,
         Catalogue!EnqueuedWasShown, Catalogue!OpensWhatWasAsked, Catalogue!Mounted
------------------------------------------------------------------------------
\* The screens

\* What is selected on a screen on which nothing is selected
Home == Views!Idle.key

\* A request for data that is under way
Asks(r) == r.at # "idle" /\ ~r.op

\* A screen with a selection has no operations and no interval; one without stays where it is.
KindKept ==
    IF d.keyed
    THEN /\ d.reload = "none" /\ d.polls = "never"
         /\ mine = 0 /\ \A s \in Slots : ~out[s].op
    ELSE /\ sel = Home /\ shown.key = Home
         /\ \A s \in Slots : out[s].key = Home /\ out[s].live

\* No answer is ahead of the server.
VersionsBound ==
    /\ mine <= server[Home]
    /\ \A s \in Slots : out[s].at = "answered" => out[s].ver <= server[out[s].key]

\* What may be shown yet is what is selected: the answers that a guard lets through, and the only
\* answer under way where there is no guard.
SelectionFollowed ==
    /\ d.guard => \A s \in Slots : Asks(out[s]) /\ out[s].live => out[s].key = sel
    /\ ~crossed => /\ \A s, x \in Slots : Asks(out[s]) /\ Asks(out[x]) => s = x
                   /\ ~d.guard => \A s \in Slots : Asks(out[s]) => out[s].key = sel

\* The own operation is on the screen, or the reload that follows it is under way.
OperationFollowed ==
    ~crossed /\ failed = 0 =>
       /\ \A s \in Slots : Asks(out[s]) /\ out[s].at = "answered" => out[s].ver >= mine
       /\ shown.ver >= mine \/ \E s \in Slots : Asks(out[s])

ViewsInv ==
    /\ Views!TypeOK /\ Views!ShowsSelection
    /\ KindKept /\ VersionsBound /\ SelectionFollowed /\ OperationFollowed
    /\ failed = 0 => \A s \in Slots : out[s].at # "failed"

ShownType == [is : {"nothing", "placeholder", "data"}, key : Keys, ver : Nat]

\* The types, with a name for that of what is shown.
ViewsTyped ==
    /\ d \in Views!Discipline /\ sel \in Keys /\ loading \in BOOLEAN /\ shown \in ShownType
    /\ out \in [Slots -> Views!Request] /\ server \in [Keys -> Nat]
    /\ failed \in 0..MaxFailures /\ clicks \in 0..MaxSelections /\ crossed \in BOOLEAN /\ mine \in Nat

LEMMA ViewsTypes == (Views!TypeOK <=> ViewsTyped) /\ (Views!TypeOK' <=> ViewsTyped')
  BY DEF Views!TypeOK, ViewsTyped, ShownType

\* The screens of the console are disciplines, and none with a selection operates or polls.
Sound(x) == x \in Views!Discipline /\ (x.keyed => x.reload = "none" /\ x.polls = "never")

LEMMA ScreenFacts == \A x \in Views!Screens : Sound(x)
<1>1. /\ Views!Plain \in Views!Discipline
      /\ ~Views!Plain.keyed /\ Views!Plain.reload = "none" /\ Views!Plain.polls = "never"
  BY DEF Views!Plain, Views!Discipline
<1>2. /\ Views!Searched \in Views!Discipline
      /\ Views!Searched.reload = "none" /\ Views!Searched.polls = "never"
  BY <1>1 DEF Views!Searched, Views!Discipline
<1>3. /\ Views!Reports \in Views!Discipline
      /\ Views!Reports.reload = "none" /\ Views!Reports.polls = "never"
  BY <1>1 DEF Views!Reports, Views!Discipline
<1>4. Views!Polled \in Views!Discipline /\ ~Views!Polled.keyed
  BY <1>1 DEF Views!Polled, Views!Discipline
<1>5. /\ Views!ScansRepos \in Views!Discipline /\ ~Views!ScansRepos.keyed
      /\ Views!AiCatalog \in Views!Discipline /\ ~Views!AiCatalog.keyed
  BY <1>1 DEF Views!ScansRepos, Views!AiCatalog, Views!Discipline
<1>6. \A x \in {Views!XrayOverview, Views!MyPackages, Views!OnDemandPackages, Views!ScansSubTab,
                Views!RepoArtifacts, Views!Applications} : Sound(x)
  BY <1>1 DEF Sound, Views!XrayOverview, Views!MyPackages, Views!OnDemandPackages,
              Views!ScansSubTab, Views!RepoArtifacts, Views!Applications
<1>7. Sound(Views!AppInsights) /\ Sound(Views!SearchCves) /\ Sound(Views!BrainDashboard)
  <2>1. Sound(Views!AppInsights)
    BY <1>1 DEF Sound, Views!AppInsights, Views!Discipline
  <2>2. Sound(Views!SearchCves) /\ Sound(Views!BrainDashboard)
    BY <1>1 DEF Sound, Views!SearchCves, Views!BrainDashboard, Views!Discipline
  <2> QED
    BY <2>1, <2>2
<1>8. Sound(Views!KevCatalog) /\ Sound(Views!AiDiscovery)
  BY <1>2 DEF Sound, Views!KevCatalog, Views!AiDiscovery
<1>9. Sound(Views!Reports) /\ Sound(Views!WatchViolationsDetail) /\ Sound(Views!ArtifactOverview)
  BY <1>3 DEF Sound, Views!WatchViolationsDetail, Views!ArtifactOverview, Views!Discipline
<1>10. Sound(Views!AimlOverview) /\ Sound(Views!LlmGateway)
  BY <1>4 DEF Sound, Views!AimlOverview, Views!LlmGateway, Views!Discipline
<1>11. Sound(Views!DownloadsIndicator) /\ Sound(Views!IntakeQueue) /\ Sound(Views!FlowCanvas)
  BY <1>4 DEF Sound, Views!DownloadsIndicator, Views!IntakeQueue, Views!FlowCanvas, Views!Discipline
<1>12. Sound(Views!Evolution) /\ Sound(Views!OnDemandScanning)
  <2>1. Sound(Views!Evolution)
    BY <1>4 DEF Sound, Views!Evolution, Views!Discipline
  <2>2. Sound(Views!OnDemandScanning)
    BY <1>1 DEF Sound, Views!OnDemandScanning, Views!Discipline
  <2> QED
    BY <2>1, <2>2
<1>13. /\ Sound(Views!ScansRepos) /\ Sound(Views!EcosystemFirewall)
       /\ Sound(Views!AiCatalog) /\ Sound(Views!AiRegistry)
  BY <1>5 DEF Sound, Views!EcosystemFirewall, Views!AiRegistry
<1>14. Sound(Views!Quarantine) /\ Sound(Views!ApprovedPackages) /\ Sound(Views!AiDetection)
  <2>1. Sound(Views!Quarantine) /\ Sound(Views!ApprovedPackages)
    BY <1>1 DEF Sound, Views!Quarantine, Views!ApprovedPackages, Views!Discipline
  <2>2. Sound(Views!AiDetection)
    BY <1>1 DEF Sound, Views!AiDetection, Views!Discipline
  <2> QED
    BY <2>1, <2>2
<1> QED
  BY <1>6, <1>7, <1>8, <1>9, <1>10, <1>11, <1>12, <1>13, <1>14 DEF Views!Screens

\* The requests that go out
LEMMA RequestFacts ==
    /\ Home \in Keys
    /\ Views!Idle \in Views!Request /\ Views!Idle.at = "idle" /\ Views!Idle.live /\ ~Views!Idle.op
    /\ \A k \in Keys : /\ Views!Get(k) \in Views!Request /\ Views!Get(k).at = "sent"
                       /\ ~Views!Get(k).op /\ Views!Get(k).key = k /\ Views!Get(k).live
                       /\ Views!Do(k) \in Views!Request /\ Views!Do(k).at = "sent"
                       /\ Views!Do(k).op /\ Views!Do(k).key = k /\ Views!Do(k).live
    /\ Views!Blank \in ShownType /\ Views!Blank.is = "nothing"
    /\ Views!Blank.key = Home /\ Views!Blank.ver = 0
<1>1. Home \in Keys
  BY ConstantsAssumption DEF Home, Views!Idle
<1>2. /\ Views!Idle \in Views!Request /\ Views!Idle.at = "idle" /\ Views!Idle.live /\ ~Views!Idle.op
      /\ Views!Idle.key = Home
  BY <1>1 DEF Home, Views!Idle, Views!Request
<1>3. ASSUME NEW k \in Keys
      PROVE  /\ Views!Get(k) \in Views!Request /\ Views!Get(k).at = "sent"
             /\ ~Views!Get(k).op /\ Views!Get(k).key = k /\ Views!Get(k).live
  BY <1>2 DEF Views!Get, Views!Request
<1>4. ASSUME NEW k \in Keys
      PROVE  /\ Views!Do(k) \in Views!Request /\ Views!Do(k).at = "sent"
             /\ Views!Do(k).op /\ Views!Do(k).key = k /\ Views!Do(k).live
  BY <1>3 DEF Views!Do, Views!Request
<1>5. /\ Views!Blank \in ShownType /\ Views!Blank.is = "nothing"
      /\ Views!Blank.key = Home /\ Views!Blank.ver = 0
  BY <1>1, <1>2 DEF Views!Blank, ShownType
<1> QED
  BY <1>1, <1>2, <1>3, <1>4, <1>5

LEMMA MaxFacts ==
    ASSUME NEW m \in Nat, NEW n \in Nat
    PROVE  Views!Max({m, n}) \in {m, n} /\ Views!Max({m, n}) >= m /\ Views!Max({m, n}) >= n
<1>1. \E x \in {m, n} : \A y \in {m, n} : x >= y
  OBVIOUS
<1>2. Views!Max({m, n}) \in {m, n} /\ \A y \in {m, n} : Views!Max({m, n}) >= y
  BY <1>1 DEF Views!Max
<1> QED
  BY <1>2

LEMMA ViewsInit == Views!Init => ViewsInv
<1> SUFFICES ASSUME Views!Init PROVE ViewsInv
  OBVIOUS
<1>1. /\ d \in Views!Screens /\ sel = Home /\ shown = Views!Blank /\ loading = d.mount
      /\ server = [k \in Keys |-> 0]
      /\ failed = 0 /\ clicks = 0 /\ crossed = FALSE /\ mine = 0
  BY DEF Views!Init, Home
<1>2. PICK first : out = [s \in Slots |-> IF s = first /\ d.mount THEN Views!Get(sel) ELSE Views!Idle]
  BY DEF Views!Init
<1>3. /\ d \in Views!Discipline /\ (d.keyed => d.reload = "none" /\ d.polls = "never")
      /\ d.mount \in BOOLEAN
  BY <1>1, ScreenFacts DEF Sound, Views!Discipline
<1>4. \A s \in Slots : /\ out[s] \in Views!Request /\ ~out[s].op /\ out[s].live
                       /\ out[s].at \in {"idle", "sent"} /\ out[s].key = Home
                       /\ out[s].at # "idle" => s = first
  BY <1>1, <1>2, RequestFacts DEF Home
<1>5. Views!TypeOK
  <2>1. out \in [Slots -> Views!Request] /\ server \in [Keys -> Nat]
    BY <1>1, <1>2, <1>4
  <2>2. failed \in 0..MaxFailures /\ clicks \in 0..MaxSelections
    BY <1>1, ConstantsAssumption
  <2> QED
    BY <1>1, <1>3, <2>1, <2>2, RequestFacts, ViewsTypes DEF ViewsTyped
<1>6. KindKept
  BY <1>1, <1>3, <1>4, RequestFacts DEF KindKept
<1>7. VersionsBound
  BY <1>1, <1>4, RequestFacts DEF VersionsBound
<1>8. SelectionFollowed /\ Views!ShowsSelection
  BY <1>1, <1>4, RequestFacts DEF SelectionFollowed, Asks, Views!ShowsSelection
<1>9. OperationFollowed
  BY <1>1, <1>4, RequestFacts DEF OperationFollowed
<1> QED
  BY <1>4, <1>5, <1>6, <1>7, <1>8, <1>9 DEF ViewsInv
\* What a step that puts r into slot s has to see to
SlotKept(s, r) ==
    /\ out' = [out EXCEPT ![s] = r] /\ r \in Views!Request
    /\ d' = d /\ sel' = sel /\ clicks' = clicks
    /\ server' \in [Keys -> Nat] /\ \A k \in Keys : server'[k] >= server[k]
    /\ shown' \in ShownType /\ loading' \in BOOLEAN
    /\ failed' \in 0..MaxFailures /\ (failed' = 0 => failed = 0 /\ r.at # "failed")
    /\ crossed' \in BOOLEAN /\ (crossed => crossed')
    /\ mine' \in Nat /\ mine' <= server'[Home]

SlotKind(r) ==
    /\ d.keyed => mine' = 0 /\ ~r.op
    /\ ~d.keyed => r.key = Home /\ r.live /\ shown'.key = Home

SlotFollows(s, r) ==
    /\ r.at = "answered" => r.ver <= server'[r.key]
    /\ d.guard /\ Asks(r) /\ r.live => r.key = sel
    /\ ~crossed' /\ Asks(r) => \A x \in Slots : Asks(out[x]) => x = s
    /\ ~crossed' /\ Asks(r) /\ ~d.guard => r.key = sel
    /\ Views!ShowsSelection'

SlotOperates(s, r) ==
    ~crossed' /\ failed' = 0 =>
       /\ Asks(r) /\ r.at = "answered" => r.ver >= mine'
       /\ mine' = mine \/ \A x \in Slots : Asks(out[x]) => x = s
       /\ shown'.ver >= mine' \/ Asks(r) \/ (shown' = shown /\ mine' = mine /\ ~Asks(out[s]))

LEMMA SlotStep ==
    ASSUME ViewsInv, NEW s \in Slots, NEW r,
           SlotKept(s, r), SlotKind(r), SlotFollows(s, r), SlotOperates(s, r)
    PROVE  ViewsInv'
<1>1. ViewsTyped
  BY ViewsTypes DEF ViewsInv
<1>2. /\ out'[s] = r /\ \A x \in Slots : x # s => out'[x] = out[x]
      /\ out' \in [Slots -> Views!Request]
  BY <1>1 DEF SlotKept, ViewsTyped
<1>3. Views!TypeOK'
  <2>1. ViewsTyped'
    BY <1>1, <1>2 DEF SlotKept, ViewsTyped
  <2> QED
    BY <2>1, ViewsTypes
<1>4. KindKept'
  <2>1. CASE d.keyed
    BY <1>2, <2>1 DEF ViewsInv, KindKept, SlotKept, SlotKind
  <2>2. CASE ~d.keyed
    BY <1>2, <2>2 DEF ViewsInv, KindKept, SlotKept, SlotKind
  <2> QED
    BY <2>1, <2>2
<1>5. VersionsBound'
  <2>1. ASSUME NEW x \in Slots, out'[x].at = "answered"
        PROVE  out'[x].ver <= server'[out'[x].key]
    <3>1. CASE x = s
      BY <1>2, <2>1, <3>1 DEF SlotFollows
    <3>2. CASE x # s
      <4>1. out'[x] = out[x] /\ out[x].ver <= server[out[x].key]
        BY <1>2, <2>1, <3>2 DEF ViewsInv, VersionsBound
      <4>2. out[x].ver \in Nat /\ out[x].key \in Keys
        BY <1>1 DEF ViewsTyped, Views!Request
      <4>3. server[out[x].key] \in Nat /\ server'[out[x].key] \in Nat
            /\ server'[out[x].key] >= server[out[x].key]
        BY <1>1, <4>2 DEF SlotKept, ViewsTyped
      <4> QED
        BY <4>1, <4>2, <4>3
    <3> QED
      BY <3>1, <3>2
  <2> QED
    BY <2>1 DEF VersionsBound, SlotKept
<1>6. SelectionFollowed'
  <2>1. ASSUME d'.guard, NEW x \in Slots, Asks(out'[x]), out'[x].live
        PROVE  out'[x].key = sel'
    BY <1>2, <2>1 DEF ViewsInv, SelectionFollowed, SlotFollows, SlotKept
  <2>2. ASSUME ~crossed', NEW x \in Slots, NEW y \in Slots, Asks(out'[x]), Asks(out'[y])
        PROVE  x = y
    <3>1. ~crossed
      BY <2>2 DEF SlotKept
    <3>2. CASE x = s \/ y = s
      BY <1>2, <2>2, <3>2 DEF SlotFollows
    <3>3. CASE x # s /\ y # s
      BY <1>2, <2>2, <3>1, <3>3 DEF ViewsInv, SelectionFollowed
    <3> QED
      BY <3>2, <3>3
  <2>3. ASSUME ~crossed', ~d'.guard, NEW x \in Slots, Asks(out'[x])
        PROVE  out'[x].key = sel'
    BY <1>2, <2>3 DEF ViewsInv, SelectionFollowed, SlotFollows, SlotKept
  <2> QED
    BY <2>1, <2>2, <2>3 DEF SelectionFollowed
<1>7. OperationFollowed'
  <2> SUFFICES ASSUME ~crossed', failed' = 0
               PROVE  /\ \A x \in Slots : Asks(out'[x]) /\ out'[x].at = "answered"
                                             => out'[x].ver >= mine'
                      /\ shown'.ver >= mine' \/ \E x \in Slots : Asks(out'[x])
    BY DEF OperationFollowed
  <2>1. ~crossed /\ failed = 0
    BY DEF SlotKept
  <2>2. ASSUME NEW x \in Slots, Asks(out'[x]), out'[x].at = "answered"
        PROVE  out'[x].ver >= mine'
    <3>1. CASE x = s
      BY <1>2, <2>2, <3>1 DEF SlotOperates
    <3>2. CASE x # s
      BY <1>2, <2>1, <2>2, <3>2 DEF ViewsInv, OperationFollowed, SlotOperates
    <3> QED
      BY <3>1, <3>2
  <2>3. shown'.ver >= mine' \/ \E x \in Slots : Asks(out'[x])
    <3>1. CASE shown'.ver >= mine' \/ Asks(r)
      BY <1>2, <3>1
    <3>2. CASE shown' = shown /\ mine' = mine /\ ~Asks(out[s])
      <4>1. shown.ver >= mine \/ \E x \in Slots : Asks(out[x])
        BY <2>1 DEF ViewsInv, OperationFollowed
      <4>2. ASSUME NEW x \in Slots, Asks(out[x])
            PROVE  Asks(out'[x])
        BY <1>2, <3>2, <4>2
      <4> QED
        BY <3>2, <4>1, <4>2
    <3> QED
      BY <3>1, <3>2 DEF SlotOperates
  <2> QED
    BY <2>2, <2>3
<1>8. failed' = 0 => \A x \in Slots : out'[x].at # "failed"
  BY <1>2 DEF ViewsInv, SlotKept
<1>9. Views!ShowsSelection'
  BY DEF SlotFollows
<1> QED
  BY <1>3, <1>4, <1>5, <1>6, <1>7, <1>8, <1>9 DEF ViewsInv

\* What the invariant says of a slot, and the other requests where a step may cross them
LEMMA SlotFacts ==
    ASSUME ViewsInv, NEW s \in Slots
    PROVE  /\ out[s] \in Views!Request /\ sel \in Keys /\ shown \in ShownType
           /\ loading \in BOOLEAN /\ crossed \in BOOLEAN /\ mine \in Nat /\ failed \in 0..MaxFailures
           /\ server \in [Keys -> Nat] /\ mine <= server[Home]
           /\ d.keyed => mine = 0 /\ ~out[s].op /\ d.reload = "none" /\ d.polls = "never"
           /\ ~d.keyed => sel = Home /\ shown.key = Home /\ out[s].key = Home /\ out[s].live
           /\ failed = 0 => out[s].at # "failed"
           /\ Views!Crossing(s) => /\ crossed' \in BOOLEAN /\ (crossed => crossed')
                                   /\ ~crossed' => \A x \in Slots : Asks(out[x]) => x = s
<1>1. ViewsTyped
  BY ViewsTypes DEF ViewsInv
<1>2. /\ out[s] \in Views!Request /\ sel \in Keys /\ shown \in ShownType
      /\ loading \in BOOLEAN /\ crossed \in BOOLEAN /\ mine \in Nat /\ failed \in 0..MaxFailures
      /\ server \in [Keys -> Nat] /\ mine <= server[Home]
  BY <1>1 DEF ViewsTyped, ViewsInv, VersionsBound
<1>3. /\ d.keyed => mine = 0 /\ ~out[s].op /\ d.reload = "none" /\ d.polls = "never"
      /\ ~d.keyed => sel = Home /\ shown.key = Home /\ out[s].key = Home /\ out[s].live
      /\ failed = 0 => out[s].at # "failed"
  BY DEF ViewsInv, KindKept
<1>4. ASSUME Views!Crossing(s)
      PROVE  /\ crossed' \in BOOLEAN /\ (crossed => crossed')
             /\ ~crossed' => \A x \in Slots : Asks(out[x]) => x = s
  BY <1>2, <1>4 DEF Views!Crossing, Views!Asking, Views!Free, Asks
<1> QED
  BY <1>2, <1>3, <1>4

LEMMA ServerStays ==
    ASSUME ViewsInv, server' = server
    PROVE  /\ server' \in [Keys -> Nat] /\ \A k \in Keys : server'[k] >= server[k]
           /\ mine <= server'[Home]
<1>1. server \in [Keys -> Nat] /\ mine <= server[Home]
  BY ViewsTypes DEF ViewsInv, ViewsTyped, VersionsBound
<1>2. \A k \in Keys : server[k] \in Nat
  BY <1>1
<1>3. \A k \in Keys : server[k] >= server[k]
  BY <1>2
<1> QED
  BY <1>1, <1>3

LEMMA PollKeeps == ASSUME ViewsInv, NEW s \in Slots, Views!Poll(s) PROVE ViewsInv'
<1>1. /\ out' = [out EXCEPT ![s] = Views!Get(sel)] /\ out[s].at = "idle" /\ ~d.keyed
      /\ d' = d /\ sel' = sel /\ clicks' = clicks /\ server' = server /\ shown' = shown
      /\ loading' = loading /\ failed' = failed /\ mine' = mine /\ Views!Crossing(s)
  BY SlotFacts DEF Views!Poll, Views!Sends, Views!Free
<1> DEFINE r == Views!Get(sel)
<1>2. /\ r \in Views!Request /\ r.at = "sent" /\ ~r.op /\ r.key = sel /\ r.live
  BY SlotFacts, RequestFacts
<1> HIDE DEF r
<1>3. out' = [out EXCEPT ![s] = r]
  BY <1>1 DEF r
<1>4. SlotKept(s, r)
  BY <1>1, <1>2, <1>3, SlotFacts, ServerStays DEF SlotKept
<1>5. SlotKind(r)
  BY <1>1, <1>2, SlotFacts DEF SlotKind
<1>6. SlotFollows(s, r)
  BY <1>1, <1>2, SlotFacts DEF SlotFollows, ViewsInv, Views!ShowsSelection
<1>7. SlotOperates(s, r)
  BY <1>1, <1>2 DEF SlotOperates, Asks
<1> QED
  BY <1>4, <1>5, <1>6, <1>7, SlotStep

LEMMA OperateKeeps == ASSUME ViewsInv, NEW s \in Slots, Views!Operate(s) PROVE ViewsInv'
<1>1. /\ out' = [out EXCEPT ![s] = Views!Do(sel)] /\ out[s].at = "idle" /\ ~d.keyed
      /\ d' = d /\ sel' = sel /\ clicks' = clicks /\ server' = server /\ shown' = shown
      /\ loading' = loading /\ failed' = failed /\ mine' = mine /\ crossed' = crossed
  BY SlotFacts DEF Views!Operate, Views!Sends, Views!Free
<1> DEFINE r == Views!Do(sel)
<1>2. /\ r \in Views!Request /\ r.at = "sent" /\ r.op /\ r.key = sel /\ r.live
  BY SlotFacts, RequestFacts
<1> HIDE DEF r
<1>3. out' = [out EXCEPT ![s] = r]
  BY <1>1 DEF r
<1>4. SlotKept(s, r)
  BY <1>1, <1>2, <1>3, SlotFacts, ServerStays DEF SlotKept
<1>5. SlotKind(r)
  BY <1>1, <1>2, SlotFacts DEF SlotKind
<1>6. SlotFollows(s, r)
  BY <1>1, <1>2, SlotFacts DEF SlotFollows, ViewsInv, Views!ShowsSelection, Asks
<1>7. SlotOperates(s, r)
  BY <1>1, <1>2 DEF SlotOperates, Asks
<1> QED
  BY <1>4, <1>5, <1>6, <1>7, SlotStep

LEMMA ServeKeeps == ASSUME ViewsInv, NEW s \in Slots, Views!Serve(s) PROVE ViewsInv'
<1> DEFINE k == out[s].key
           v == IF out[s].op /\ Views!Changes(k) THEN server[k] + 1 ELSE server[k]
           r == [out[s] EXCEPT !.at = "answered", !.ver = v]
<1>1. /\ out' = [out EXCEPT ![s].at = "answered", ![s].ver = v] /\ out[s].at = "sent"
      /\ server' = [server EXCEPT ![k] = v]
      /\ d' = d /\ sel' = sel /\ clicks' = clicks /\ shown' = shown
      /\ loading' = loading /\ failed' = failed /\ mine' = mine /\ crossed' = crossed
  BY DEF Views!Serve
<1>2. k \in Keys /\ v \in Nat /\ v >= server[k]
  BY SlotFacts DEF Views!Request
<1> HIDE DEF v
<1>3. /\ r \in Views!Request /\ r.at = "answered" /\ r.op = out[s].op /\ r.key = k
      /\ r.live = out[s].live /\ r.ver = v
  BY <1>2, SlotFacts DEF Views!Request
<1>4. out' = [out EXCEPT ![s] = r]
  <2>1. out \in [Slots -> Views!Request]
    BY ViewsTypes DEF ViewsInv, ViewsTyped
  <2> QED
    BY <1>1, <2>1
<1> HIDE DEF r
<1>5. /\ server' \in [Keys -> Nat] /\ server'[k] = v /\ \A x \in Keys : server'[x] >= server[x]
  BY <1>1, <1>2, SlotFacts
<1>6. SlotKept(s, r)
  <2>1. Home \in Keys /\ mine \in Nat /\ mine <= server[Home] /\ server[Home] \in Nat
    BY SlotFacts, RequestFacts
  <2>2. mine <= server'[Home]
    BY <1>5, <2>1
  <2> QED
    BY <1>1, <1>3, <1>4, <1>5, <2>2, SlotFacts DEF SlotKept
<1>7. SlotKind(r)
  BY <1>1, <1>3, SlotFacts DEF SlotKind
<1>8. SlotFollows(s, r)
  <2>1. Asks(r) <=> Asks(out[s])
    BY <1>1, <1>3 DEF Asks
  <2>2. r.ver <= server'[r.key]
    BY <1>2, <1>3, <1>5
  <2> QED
    BY <1>1, <1>3, <2>1, <2>2 DEF SlotFollows, ViewsInv, SelectionFollowed, Views!ShowsSelection
<1>9. SlotOperates(s, r)
  <2>1. v >= mine
    <3>1. CASE d.keyed
      BY <1>2, <3>1, SlotFacts
    <3>2. CASE ~d.keyed
      BY <1>2, <3>2, SlotFacts
    <3> QED
      BY <3>1, <3>2
  <2>2. Asks(r) <=> Asks(out[s])
    BY <1>1, <1>3 DEF Asks
  <2>3. CASE Asks(r)
    BY <1>1, <1>3, <2>1, <2>3 DEF SlotOperates
  <2>4. CASE ~Asks(r)
    BY <1>1, <2>2, <2>4 DEF SlotOperates
  <2> QED
    BY <2>3, <2>4
<1> QED
  BY <1>6, <1>7, <1>8, <1>9, SlotStep

LEMMA LoseKeeps == ASSUME ViewsInv, NEW s \in Slots, Views!Lose(s) PROVE ViewsInv'
<1> DEFINE r == [out[s] EXCEPT !.at = "failed"]
<1>1. /\ out' = [out EXCEPT ![s].at = "failed"] /\ out[s].at \in {"sent", "answered"}
      /\ failed < MaxFailures /\ failed' = failed + 1
      /\ d' = d /\ sel' = sel /\ clicks' = clicks /\ shown' = shown /\ server' = server
      /\ loading' = loading /\ mine' = mine /\ crossed' = crossed
  BY DEF Views!Lose
<1>2. /\ r \in Views!Request /\ r.at = "failed" /\ r.op = out[s].op /\ r.key = out[s].key
      /\ r.live = out[s].live
  BY SlotFacts DEF Views!Request
<1>3. out' = [out EXCEPT ![s] = r]
  <2>1. out \in [Slots -> Views!Request]
    BY ViewsTypes DEF ViewsInv, ViewsTyped
  <2> QED
    BY <1>1, <2>1
<1> HIDE DEF r
<1>4. failed' \in 0..MaxFailures /\ failed' # 0
  BY <1>1, SlotFacts, ConstantsAssumption
<1>5. SlotKept(s, r)
  BY <1>1, <1>2, <1>3, <1>4, SlotFacts, ServerStays DEF SlotKept
<1>6. SlotKind(r)
  BY <1>1, <1>2, SlotFacts DEF SlotKind
<1>7. SlotFollows(s, r)
  <2>1. Asks(r) <=> Asks(out[s])
    BY <1>1, <1>2 DEF Asks
  <2> QED
    BY <1>1, <1>2, <2>1 DEF SlotFollows, ViewsInv, SelectionFollowed, Views!ShowsSelection
<1>8. SlotOperates(s, r)
  BY <1>4 DEF SlotOperates
<1> QED
  BY <1>5, <1>6, <1>7, <1>8, SlotStep

LEMMA ShowKeeps == ASSUME ViewsInv, NEW s \in Slots, Views!Show(s) PROVE ViewsInv'
<1> DEFINE r == Views!Idle
<1>1. /\ out' = [out EXCEPT ![s] = r] /\ ~out[s].op /\ out[s].at \in {"answered", "failed"}
      /\ d' = d /\ sel' = sel /\ clicks' = clicks /\ server' = server
      /\ failed' = failed /\ mine' = mine /\ crossed' = crossed
  BY DEF Views!Show, Views!Sends
<1>2. r \in Views!Request /\ r.at = "idle" /\ ~r.op /\ r.key = Home /\ r.live /\ ~Asks(r)
  BY RequestFacts DEF Home, Asks
<1> HIDE DEF r
<1>3. Asks(out[s])
  BY <1>1 DEF Asks
\* What comes on the screen
<1>4. \/ shown' = shown /\ loading' = loading /\ (out[s].live => out[s].at = "failed")
      \/ out[s].live /\ out[s].at = "answered" /\ shown' = Views!Data(out[s]) /\ loading' = FALSE
      \/ out[s].at = "failed" /\ shown' = Views!Blank /\ loading' = loading
      \/ /\ out[s].live /\ out[s].at = "failed" /\ shown' = Views!Placeholder(out[s].key)
         /\ loading' = FALSE
  <2>1. d.fails \in {"placeholder", "keeps", "waits"}
    BY ViewsTypes DEF ViewsInv, ViewsTyped, Views!Discipline
  <2> QED
    BY <1>1, <2>1 DEF Views!Show
<1>5. /\ Views!Data(out[s]) \in ShownType /\ Views!Data(out[s]).key = out[s].key
      /\ Views!Data(out[s]).ver = out[s].ver
      /\ Views!Placeholder(out[s].key) \in ShownType
      /\ Views!Placeholder(out[s].key).key = out[s].key
  BY SlotFacts DEF Views!Data, Views!Placeholder, ShownType, Views!Request
<1>6. shown' \in ShownType /\ loading' \in BOOLEAN
  BY <1>4, <1>5, SlotFacts, RequestFacts
<1>7. SlotKept(s, r)
  BY <1>1, <1>2, <1>6, SlotFacts, ServerStays DEF SlotKept
<1>8. SlotKind(r)
  BY <1>1, <1>2, <1>4, <1>5, SlotFacts, RequestFacts DEF SlotKind
<1>9. SlotFollows(s, r)
  <2>1. Views!ShowsSelection'
    <3>1. d.guard \/ ~crossed => (out[s].live => out[s].key = sel)
      BY <1>3 DEF ViewsInv, SelectionFollowed
    <3> QED
      BY <1>1, <1>4, <1>5, <3>1, RequestFacts DEF ViewsInv, Views!ShowsSelection
  <2> QED
    BY <1>2, <2>1 DEF SlotFollows
<1>10. SlotOperates(s, r)
  <2> SUFFICES ASSUME ~crossed', failed' = 0
               PROVE  shown'.ver >= mine
    BY <1>1, <1>2 DEF SlotOperates
  <2>1. out[s].at = "answered" /\ out[s].ver >= mine
    BY <1>1, <1>3, SlotFacts DEF ViewsInv, OperationFollowed
  <2>2. CASE out[s].live
    BY <1>4, <1>5, <2>1, <2>2
  <2>3. CASE ~out[s].live
    <3>1. mine = 0 /\ shown'.ver \in Nat
      BY <1>6, <2>3, SlotFacts DEF ShownType
    <3> QED
      BY <3>1
  <2> QED
    BY <2>2, <2>3
<1> QED
  BY <1>7, <1>8, <1>9, <1>10, SlotStep

LEMMA ReloadKeeps == ASSUME ViewsInv, NEW s \in Slots, Views!Reload(s) PROVE ViewsInv'
<1>1. /\ out[s].op /\ out[s].at \in {"answered", "failed"} /\ ~d.keyed
      /\ mine' = (IF out[s].at = "answered" THEN Views!Max({mine, out[s].ver}) ELSE mine)
      /\ d' = d /\ sel' = sel /\ clicks' = clicks /\ server' = server /\ shown' = shown
      /\ loading' = loading /\ failed' = failed
  BY SlotFacts DEF Views!Reload
<1>2. /\ out[s].key = Home /\ sel = Home /\ shown.key = Home /\ Home \in Keys /\ ~Asks(out[s])
      /\ out[s].ver \in Nat /\ mine \in Nat
  BY <1>1, SlotFacts, RequestFacts DEF Asks, Views!Request
<1>3. mine' \in Nat /\ mine' <= server[Home]
  <2>1. CASE out[s].at = "answered"
    <3>1. out[s].ver <= server[Home] /\ mine <= server[Home]
      BY <1>2, <2>1 DEF ViewsInv, VersionsBound
    <3> QED
      BY <1>1, <1>2, <2>1, <3>1, MaxFacts
  <2>2. CASE out[s].at # "answered"
    BY <1>1, <2>2, SlotFacts
  <2> QED
    BY <2>1, <2>2
<1>4. CASE out' = [out EXCEPT ![s] = Views!Get(out[s].key)] /\ Views!Crossing(s)
  <2> DEFINE r == Views!Get(out[s].key)
  <2>1. r \in Views!Request /\ r.at = "sent" /\ ~r.op /\ r.key = Home /\ r.live /\ Asks(r)
    BY <1>2, RequestFacts DEF Asks
  <2> HIDE DEF r
  <2>2. out' = [out EXCEPT ![s] = r]
    BY <1>4 DEF r
  <2>3. SlotKept(s, r)
    BY <1>1, <1>3, <1>4, <2>1, <2>2, SlotFacts, ServerStays DEF SlotKept
  <2>4. SlotKind(r)
    BY <1>1, <1>2, <2>1 DEF SlotKind
  <2>5. SlotFollows(s, r)
    BY <1>1, <1>2, <1>4, <2>1, SlotFacts DEF SlotFollows, ViewsInv, Views!ShowsSelection
  <2>6. SlotOperates(s, r)
    BY <1>4, <2>1, SlotFacts DEF SlotOperates
  <2> QED
    BY <2>3, <2>4, <2>5, <2>6, SlotStep
<1>5. CASE out' = [out EXCEPT ![s] = Views!Idle] /\ crossed' = crossed /\ out[s].at # "answered"
  <2> DEFINE r == Views!Idle
  <2>1. r \in Views!Request /\ r.at = "idle" /\ ~r.op /\ r.key = Home /\ r.live /\ ~Asks(r)
    BY RequestFacts DEF Asks, Home
  <2> HIDE DEF r
  <2>2. out' = [out EXCEPT ![s] = r]
    BY <1>5 DEF r
  <2>3. SlotKept(s, r)
    BY <1>1, <1>3, <1>5, <2>1, <2>2, SlotFacts, ServerStays DEF SlotKept
  <2>4. SlotKind(r)
    BY <1>1, <1>2, <2>1 DEF SlotKind
  <2>5. SlotFollows(s, r)
    BY <1>1, <1>5, <2>1 DEF SlotFollows, ViewsInv, Views!ShowsSelection
  <2>6. SlotOperates(s, r)
    BY <1>1, <1>2, <1>5, <2>1 DEF SlotOperates
  <2> QED
    BY <2>3, <2>4, <2>5, <2>6, SlotStep
<1> QED
  BY <1>1, <1>4, <1>5 DEF Views!Reload, Views!Sends

LEMMA SelectKeeps ==
    ASSUME ViewsInv, NEW s \in Slots, NEW k \in Keys, Views!Select(k, s) PROVE ViewsInv'
<1>1. /\ d.keyed /\ clicks < MaxSelections /\ clicks' = clicks + 1 /\ sel' = k /\ loading' = TRUE
      /\ out' = [[x \in Slots |-> [out[x] EXCEPT !.live = ~d.guard]] EXCEPT ![s] = Views!Get(k)]
      /\ Views!Crossing(s)
      /\ d' = d /\ shown' = shown /\ server' = server /\ failed' = failed /\ mine' = mine
  BY DEF Views!Select
<1>2. ViewsTyped
  BY ViewsTypes DEF ViewsInv
<1>3. out'[s] = Views!Get(k)
  BY <1>1
<1>4. ASSUME NEW x \in Slots, x # s
      PROVE  /\ out'[x] \in Views!Request /\ out'[x].at = out[x].at /\ out'[x].op = out[x].op
             /\ out'[x].key = out[x].key /\ out'[x].ver = out[x].ver /\ out'[x].live = ~d.guard
  <2>1. out'[x] = [out[x] EXCEPT !.live = ~d.guard] /\ out[x] \in Views!Request
    BY <1>1, <1>2, <1>4 DEF ViewsTyped
  <2>2. d.guard \in BOOLEAN
    BY <1>2 DEF ViewsTyped, Views!Discipline
  <2> QED
    BY <2>1, <2>2 DEF Views!Request
<1>5. /\ Views!Get(k) \in Views!Request /\ Views!Get(k).at = "sent" /\ ~Views!Get(k).op
      /\ Views!Get(k).key = k
  BY RequestFacts
<1>6. \A x \in Slots : out'[x] \in Views!Request /\ ~out'[x].op
  BY <1>1, <1>3, <1>4, <1>5 DEF ViewsInv, KindKept
<1>7. mine = 0
  BY <1>1 DEF ViewsInv, KindKept
<1>8. Views!TypeOK'
  <2>1. out' \in [Slots -> Views!Request]
    <3>1. DOMAIN out' = Slots /\ out' = [x \in DOMAIN out' |-> out'[x]]
      BY <1>1
    <3> QED
      BY <1>6, <3>1
  <2>2. clicks' \in 0..MaxSelections
    BY <1>1, <1>2, ConstantsAssumption DEF ViewsTyped
  <2>3. crossed' \in BOOLEAN
    BY <1>1, SlotFacts
  <2>4. ViewsTyped'
    BY <1>1, <1>2, <2>1, <2>2, <2>3 DEF ViewsTyped
  <2> QED
    BY <2>4, ViewsTypes
<1>9. KindKept'
  BY <1>1, <1>6 DEF ViewsInv, KindKept
<1>10. VersionsBound'
  BY <1>1, <1>3, <1>4, <1>5 DEF ViewsInv, VersionsBound
<1>11. SelectionFollowed'
  <2>1. d'.guard => \A x \in Slots : Asks(out'[x]) /\ out'[x].live => out'[x].key = sel'
    BY <1>1, <1>3, <1>4, <1>5
  <2>2. ASSUME ~crossed', NEW x \in Slots, Asks(out'[x])
        PROVE  x = s /\ out'[x].key = sel'
    <3>1. x = s
      BY <1>1, <1>4, <2>2, SlotFacts DEF Asks
    <3> QED
      BY <1>1, <1>3, <1>5, <3>1
  <2> QED
    BY <2>1, <2>2 DEF SelectionFollowed
<1>12. OperationFollowed'
  <2>1. \A x \in Slots : out'[x].ver >= 0
    BY <1>6 DEF Views!Request
  <2>2. shown'.ver >= 0
    BY <1>1, <1>2 DEF ViewsTyped, ShownType
  <2> QED
    BY <1>1, <1>7, <2>1, <2>2 DEF OperationFollowed
<1>13. failed' = 0 => \A x \in Slots : out'[x].at # "failed"
  BY <1>1, <1>3, <1>4, <1>5 DEF ViewsInv
<1>14. Views!ShowsSelection'
  BY <1>1 DEF Views!ShowsSelection
<1> QED
  BY <1>8, <1>9, <1>10, <1>11, <1>12, <1>13, <1>14 DEF ViewsInv

\* The server goes on by itself: nothing of the screen changes.
LEMMA ServerKeeps == ASSUME ViewsInv, Views!Elsewhere \/ Views!Finish PROVE ViewsInv'
<1>1. PICK k \in Keys : server' = [server EXCEPT ![k] = server[k] + 1]
  BY DEF Views!Elsewhere, Views!Finish
<1>2. /\ d' = d /\ sel' = sel /\ shown' = shown /\ loading' = loading /\ out' = out
      /\ failed' = failed /\ crossed' = crossed /\ mine' = mine /\ clicks' = clicks
  BY DEF Views!Elsewhere, Views!Finish
<1>3. ViewsTyped
  BY ViewsTypes DEF ViewsInv
<1>4. /\ server \in [Keys -> Nat] /\ server' \in [Keys -> Nat]
      /\ \A x \in Keys : server[x] \in Nat /\ server'[x] \in Nat /\ server'[x] >= server[x]
  BY <1>1, <1>3 DEF ViewsTyped
<1>5. Views!TypeOK'
  <2>1. ViewsTyped'
    BY <1>2, <1>3, <1>4 DEF ViewsTyped
  <2> QED
    BY <2>1, ViewsTypes
<1>6. VersionsBound'
  <2>1. mine' <= server'[Home]
    <3>1. Home \in Keys /\ mine \in Nat /\ mine <= server[Home]
      BY <1>3, RequestFacts DEF ViewsTyped, ViewsInv, VersionsBound
    <3> QED
      BY <1>2, <1>4, <3>1
  <2>2. ASSUME NEW x \in Slots, out'[x].at = "answered"
        PROVE  out'[x].ver <= server'[out'[x].key]
    <3>1. out[x].ver <= server[out[x].key]
      BY <1>2, <2>2 DEF ViewsInv, VersionsBound
    <3>2. out[x].key \in Keys /\ out[x].ver \in Nat
      BY <1>3 DEF ViewsTyped, Views!Request
    <3> QED
      BY <1>2, <1>4, <3>1, <3>2
  <2> QED
    BY <2>1, <2>2 DEF VersionsBound
<1>7. KindKept' /\ SelectionFollowed' /\ OperationFollowed' /\ Views!ShowsSelection'
  BY <1>2 DEF ViewsInv, KindKept, SelectionFollowed, OperationFollowed, Views!ShowsSelection
<1> QED
  BY <1>2, <1>5, <1>6, <1>7 DEF ViewsInv

LEMMA ViewsStays == ASSUME ViewsInv, UNCHANGED Views!vars PROVE ViewsInv'
  BY DEF Views!vars, ViewsInv, Views!TypeOK, Views!ShowsSelection, KindKept, VersionsBound,
         SelectionFollowed, OperationFollowed

LEMMA ViewsNext == ASSUME ViewsInv, Views!Next PROVE ViewsInv'
<1>1. CASE \E s \in Slots : Views!Poll(s)
  BY <1>1, PollKeeps
<1>2. CASE \E s \in Slots : Views!Operate(s)
  BY <1>2, OperateKeeps
<1>3. CASE \E s \in Slots : Views!Transport(s)
  BY <1>3, ServeKeeps, LoseKeeps DEF Views!Transport
<1>4. CASE \E s \in Slots : Views!Receive(s)
  BY <1>4, ShowKeeps, ReloadKeeps DEF Views!Receive
<1>5. CASE \E s \in Slots, k \in Keys : Views!Select(k, s)
  BY <1>5, SelectKeeps
<1>6. CASE Views!Elsewhere \/ Views!Finish
  BY <1>6, ServerKeeps
<1> QED
  BY <1>1, <1>2, <1>3, <1>4, <1>5, <1>6 DEF Views!Next

\* What the runs check follows.
LEMMA ViewsSound == ViewsInv => Views!TypeOK /\ Views!ShowsSelection /\ Views!OwnOperationShown
  BY DEF ViewsInv, OperationFollowed, Asks, Views!OwnOperationShown, Views!Free

------------------------------------------------------------------------------
\* The approval of a model

NothingFailed == failed = 0 /\ restarts = 0

\* Every verdict that is remembered, that a job reached or that a console saw is what the bytes are.
Truthful ==
    \A f \in Files :
       /\ cache[f] \in {"unknown", bytes[f]}
       /\ \A j \in Approval!Jobs : job[j].stage[f] = "done" => job[j].verdict[f] = bytes[f]
       /\ \A c \in Consoles : view[c].status = "done" => view[c].verdict[f] = bytes[f]

ApprovalInv ==
    /\ Approval!TypeOK /\ Approval!AllowedIsVerified /\ Approval!ConsoleSurvives
    /\ \A c \in Consoles : view[c].status = "none" => con[c] = "crashed"
    /\ NothingFailed => \A c \in Consoles : con[c] = "polling" => current # 0
    /\ NothingFailed /\ ~collided => Truthful

JobRecord == [started : BOOLEAN, lost : BOOLEAN, stage : [Files -> Approval!Stages],
              verdict : [Files -> Approval!Verdicts]]

\* The types, with a name for those of a job.
ApprovalTyped ==
    /\ bytes \in [Files -> {"clean", "malicious"}]
    /\ cache \in [Files -> Approval!Verdicts \cup {"unknown"}]
    /\ job \in [Approval!Jobs -> JobRecord]
    /\ current \in 0..MaxJobs /\ allowed \in BOOLEAN
    /\ con \in [Consoles -> Approval!Steps] /\ view \in [Consoles -> Approval!Snapshots]
    /\ failed \in 0..MaxFailures /\ restarts \in 0..MaxRestarts /\ collided \in BOOLEAN

LEMMA ApprovalTypes == (Approval!TypeOK <=> ApprovalTyped) /\ (Approval!TypeOK' <=> ApprovalTyped')
  BY DEF Approval!TypeOK, ApprovalTyped, JobRecord

LEMMA NoJobIsJob == Approval!NoJob \in JobRecord /\ Approval!Unknown \in Approval!Snapshots
  BY DEF Approval!NoJob, JobRecord, Approval!Unknown, Approval!Snapshots, Approval!Stages,
         Approval!Verdicts

\* Something failed before, or nothing failed in this step either.
LEMMA FailedGrows ==
    ASSUME Approval!TypeOK,
           \/ UNCHANGED <<failed, restarts>> \/ (Approval!Fails /\ UNCHANGED restarts)
    PROVE  /\ failed' \in 0..MaxFailures /\ restarts' \in 0..MaxRestarts
           /\ NothingFailed' => NothingFailed /\ failed' = failed
           /\ Approval!Fails => ~NothingFailed'
  BY ConstantsAssumption DEF Approval!TypeOK, NothingFailed, Approval!Fails

LEMMA ApprovalInit == Approval!Init => ApprovalInv
<1> SUFFICES ASSUME Approval!Init PROVE ApprovalInv
  OBVIOUS
<1>1. /\ bytes \in [Files -> {"clean", "malicious"}] /\ cache = [f \in Files |-> "unknown"]
      /\ job = [j \in Approval!Jobs |-> Approval!NoJob] /\ current = 0 /\ allowed = FALSE
      /\ con = [c \in Consoles |-> "closed"] /\ view = [c \in Consoles |-> Approval!Unknown]
      /\ failed = 0 /\ restarts = 0 /\ collided = FALSE
  BY DEF Approval!Init
<1>2. Approval!TypeOK
  <2>1. job \in [Approval!Jobs -> JobRecord] /\ view \in [Consoles -> Approval!Snapshots]
    BY <1>1, NoJobIsJob
  <2>2. /\ cache \in [Files -> Approval!Verdicts \cup {"unknown"}]
        /\ con \in [Consoles -> Approval!Steps] /\ allowed \in BOOLEAN /\ collided \in BOOLEAN
    BY <1>1 DEF Approval!Steps
  <2>3. current \in 0..MaxJobs /\ failed \in 0..MaxFailures /\ restarts \in 0..MaxRestarts
    BY <1>1, ConstantsAssumption
  <2> QED
    BY <1>1, <2>1, <2>2, <2>3, ApprovalTypes DEF ApprovalTyped
<1>3. \A c \in Consoles : view[c].status = "null"
  BY <1>1 DEF Approval!Unknown
<1>4. \A j \in Approval!Jobs, f \in Files : job[j].stage[f] = "queued"
  BY <1>1 DEF Approval!NoJob
<1>5. Truthful
  BY <1>1, <1>3, <1>4 DEF Truthful
<1> QED
  BY <1>1, <1>2, <1>3, <1>5 DEF ApprovalInv, Approval!AllowedIsVerified, Approval!ConsoleSurvives

\* What a console does, and with it the job that Start stores: the entry of the table stays while
\* nothing fails, and what the console sees of an ended job is what the job found.
LEMMA ConsoleStep ==
    ASSUME ApprovalInv, NEW c \in Consoles, NEW st \in Approval!Steps, NEW v \in Approval!Snapshots,
           con' = [con EXCEPT ![c] = st], view' = [view EXCEPT ![c] = v], con[c] # "crashed",
           UNCHANGED <<bytes, cache, collided, allowed>>, current' \in 0..MaxJobs,
           UNCHANGED <<failed, restarts>> \/ (Approval!Fails /\ UNCHANGED restarts),
           job' \in [Approval!Jobs -> JobRecord],
           \A j \in Approval!Jobs, f \in Files :
              /\ job'[j].stage[f] = job[j].stage[f] /\ job'[j].verdict[f] = job[j].verdict[f],
           v.status = "none" => st = "crashed",
           NothingFailed' => /\ st # "crashed" /\ (st = "polling" => current' # 0)
                             /\ current # 0 => current' # 0,
           NothingFailed' /\ ~collided /\ v.status = "done" => \A f \in Files : v.verdict[f] = bytes[f]
    PROVE  ApprovalInv'
<1>1. ApprovalTyped /\ Approval!TypeOK
  BY ApprovalTypes DEF ApprovalInv
<1>2. /\ failed' \in 0..MaxFailures /\ restarts' \in 0..MaxRestarts
      /\ NothingFailed' => NothingFailed /\ failed' = failed
  BY <1>1, FailedGrows
<1>3. /\ con' \in [Consoles -> Approval!Steps] /\ view' \in [Consoles -> Approval!Snapshots]
      /\ \A x \in Consoles : /\ con'[x] = IF x = c THEN st ELSE con[x]
                             /\ view'[x] = IF x = c THEN v ELSE view[x]
  BY <1>1 DEF ApprovalTyped
<1>4. Approval!TypeOK'
  BY <1>1, <1>2, <1>3, ApprovalTypes DEF ApprovalTyped
<1>5. \A x \in Consoles : view'[x].status = "none" => con'[x] = "crashed"
  BY <1>3 DEF ApprovalInv
<1>6. NothingFailed' => \A x \in Consoles : /\ con'[x] # "crashed"
                                            /\ con'[x] = "polling" => current' # 0
  BY <1>2, <1>3 DEF ApprovalInv, Approval!ConsoleSurvives, NothingFailed
<1>7. NothingFailed' /\ ~collided' => Truthful'
  <2> SUFFICES ASSUME NothingFailed', ~collided' PROVE Truthful'
    OBVIOUS
  <2>1. Truthful
    BY <1>2 DEF ApprovalInv
  <2> QED
    BY <1>3, <2>1 DEF Truthful, Approval!Jobs
<1>8. Approval!AllowedIsVerified'
  BY <1>2 DEF ApprovalInv, Approval!AllowedIsVerified, NothingFailed
<1>9. Approval!ConsoleSurvives'
  BY <1>6 DEF Approval!ConsoleSurvives, NothingFailed
<1> QED
  BY <1>4, <1>5, <1>6, <1>7, <1>8, <1>9 DEF ApprovalInv

\* A console that opens, closes, is refused or gets no answer, or finds a job that runs.
LEMMA ConsoleMoves ==
    ASSUME ApprovalInv, NEW c \in Consoles,
           \/ Approval!Open(c) \/ Approval!Close(c) \/ Approval!LookUp(c)
           \/ Approval!Refused(c) \/ Approval!Unanswered(c)
    PROVE  ApprovalInv'
<1>1. ApprovalTyped /\ Approval!TypeOK
  BY ApprovalTypes DEF ApprovalInv
<1>2. PICK st \in Approval!Steps \ {"crashed"}, v \in {view[c], Approval!Unknown} :
        con' = [con EXCEPT ![c] = st] /\ view' = [view EXCEPT ![c] = v]
  BY <1>1 DEF ApprovalTyped, Approval!Steps, Approval!Open, Approval!Close, Approval!LookUp,
              Approval!Refused, Approval!Unanswered, Approval!Goes
<1>3. /\ con[c] # "crashed" /\ UNCHANGED <<bytes, cache, collided, allowed, current, job>>
      /\ UNCHANGED <<failed, restarts>> \/ (Approval!Fails /\ UNCHANGED restarts)
      /\ st = "polling" => Approval!Fails \/ current # 0
  BY <1>1, <1>2 DEF ApprovalTyped, Approval!Steps, Approval!Open, Approval!Close, Approval!LookUp,
              Approval!Refused, Approval!Unanswered, Approval!Goes, Approval!serverVars
<1>4. Approval!Unknown \in Approval!Snapshots /\ Approval!Unknown.status = "null"
  BY NoJobIsJob DEF Approval!Unknown
<1>5. v \in Approval!Snapshots /\ v.status # "none"
  BY <1>1, <1>3, <1>4 DEF ApprovalTyped, ApprovalInv
<1>6. /\ Approval!Fails => ~NothingFailed'
      /\ NothingFailed' => NothingFailed
  BY <1>1, <1>3, FailedGrows
<1>7. NothingFailed' /\ ~collided /\ v.status = "done" => \A f \in Files : v.verdict[f] = bytes[f]
  BY <1>4, <1>6 DEF ApprovalInv, Truthful
<1> QED
  BY <1>1, <1>2, <1>3, <1>5, <1>6, <1>7, ConsoleStep DEF ApprovalTyped

LEMMA StoreMoves ==
    ASSUME ApprovalInv, NEW c \in Consoles, Approval!Store(c)
    PROVE  ApprovalInv'
<1>1. ApprovalTyped
  BY ApprovalTypes DEF ApprovalInv
<1>2. /\ con[c] = "storing" /\ con' = [con EXCEPT ![c] = "polling"] /\ view' = view
      /\ UNCHANGED <<bytes, cache, collided, allowed, failed, restarts>>
  BY DEF Approval!Store, Approval!Goes
<1>3. PICK j \in Approval!Jobs : job' = [job EXCEPT ![j].started = TRUE] /\ current' = j
  BY DEF Approval!Store
<1>4. /\ job' \in [Approval!Jobs -> JobRecord]
      /\ \A i \in Approval!Jobs, f \in Files :
            job'[i].stage[f] = job[i].stage[f] /\ job'[i].verdict[f] = job[i].verdict[f]
  <2>1. /\ [job[j] EXCEPT !.started = TRUE] \in JobRecord
        /\ [job[j] EXCEPT !.started = TRUE].stage = job[j].stage
        /\ [job[j] EXCEPT !.started = TRUE].verdict = job[j].verdict
    BY <1>1 DEF ApprovalTyped, JobRecord
  <2> QED
    BY <1>1, <1>3, <2>1 DEF ApprovalTyped
<1>5. current' \in 0..MaxJobs /\ current' # 0
  BY <1>3, ConstantsAssumption DEF Approval!Jobs
<1>6. /\ view' = [view EXCEPT ![c] = view[c]] /\ view[c] \in Approval!Snapshots
      /\ view[c].status # "none"
  BY <1>1, <1>2 DEF ApprovalTyped, ApprovalInv
<1>7. NothingFailed' => NothingFailed
  BY <1>2 DEF NothingFailed
<1>8. NothingFailed' /\ ~collided /\ view[c].status = "done"
        => \A f \in Files : view[c].verdict[f] = bytes[f]
  BY <1>7 DEF ApprovalInv, Truthful
<1> QED
  BY <1>2, <1>4, <1>5, <1>6, <1>8, ConsoleStep DEF Approval!Steps

\* A poll sees the job of the table, which is there while nothing failed.
LEMMA PollMoves ==
    ASSUME ApprovalInv, NEW c \in Consoles, Approval!Poll(c)
    PROVE  ApprovalInv'
<1> DEFINE v == Approval!Snapshot
           st == CASE v.status = "running" -> "polling" [] v.status = "none" -> "crashed"
                   [] OTHER -> "idle"
<1>1. ApprovalTyped
  BY ApprovalTypes DEF ApprovalInv
<1>2. /\ con[c] = "polling" /\ con' = [con EXCEPT ![c] = st] /\ view' = [view EXCEPT ![c] = v]
      /\ UNCHANGED <<bytes, cache, job, current, collided, allowed, failed, restarts>>
  BY DEF Approval!Poll, Approval!Goes, Approval!serverVars
<1>3. /\ v \in Approval!Snapshots
      /\ v.status = "none" => current = 0
      /\ v.status = "done" => /\ current \in Approval!Jobs /\ v.verdict = job[current].verdict
                              /\ \A f \in Files : job[current].stage[f] = "done"
  <2>1. CASE current = 0
    BY <2>1 DEF Approval!Snapshot, Approval!Snapshots, Approval!Unknown
  <2>2. CASE current # 0 /\ Approval!Over(current)
    <3>1. current \in Approval!Jobs /\ job[current].verdict \in [Files -> Approval!Verdicts]
      BY <1>1, <2>2, ConstantsAssumption DEF ApprovalTyped, Approval!Jobs, JobRecord
    <3>2. v = [status |-> "done", verdict |-> job[current].verdict]
      BY <2>2 DEF Approval!Snapshot
    <3> QED
      BY <2>2, <3>1, <3>2 DEF Approval!Snapshots, Approval!Over
  <2>3. CASE current # 0 /\ ~Approval!Over(current)
    BY <2>3 DEF Approval!Snapshot, Approval!Snapshots, Approval!Unknown
  <2> QED
    BY <2>1, <2>2, <2>3
<1> HIDE DEF v
<1>4. /\ st \in Approval!Steps /\ (st = "crashed" <=> v.status = "none")
  BY DEF Approval!Steps
<1>5. NothingFailed' => NothingFailed /\ current # 0
  BY <1>2 DEF NothingFailed, ApprovalInv
<1>6. NothingFailed' /\ ~collided /\ v.status = "done" => \A f \in Files : v.verdict[f] = bytes[f]
  BY <1>3, <1>5 DEF ApprovalInv, Truthful
<1> HIDE DEF st
<1> QED
  BY <1>1, <1>2, <1>3, <1>4, <1>5, <1>6, ConsoleStep DEF ApprovalTyped

\* The button is there once the verdicts are, and for a model with no malicious file.
LEMMA AllowMoves ==
    ASSUME ApprovalInv, NEW c \in Consoles, Approval!Allow(c) \/ Approval!Disallow(c)
    PROVE  ApprovalInv'
<1>1. ApprovalTyped
  BY ApprovalTypes DEF ApprovalInv
<1>2. /\ UNCHANGED <<bytes, cache, job, current, collided, con, view, failed, restarts>>
      /\ con[c] # "crashed" /\ allowed' \in BOOLEAN
      /\ allowed' => /\ view[c].status \notin {"null", "running"}
                     /\ \A f \in Files : view[c].verdict[f] # "malicious"
  BY DEF Approval!Allow, Approval!Disallow, Approval!Verifying, Approval!serverVars
<1>3. allowed' => view[c].status = "done"
  BY <1>1, <1>2 DEF ApprovalTyped, ApprovalInv, Approval!Snapshots
<1>4. Approval!TypeOK'
  BY <1>1, <1>2, ApprovalTypes DEF ApprovalTyped
<1>5. NothingFailed' /\ ~collided' /\ allowed' => \A f \in Files : bytes[f] = "clean"
  BY <1>1, <1>2, <1>3 DEF ApprovalInv, Truthful, ApprovalTyped, NothingFailed
<1>6. Approval!AllowedIsVerified'
  BY <1>2, <1>5 DEF Approval!AllowedIsVerified, NothingFailed
<1> QED
  BY <1>2, <1>4, <1>6 DEF ApprovalInv, Approval!ConsoleSurvives, NothingFailed, Truthful, Approval!Jobs

\* A job goes on with a file: the verdict is what was remembered or what the bytes are, or
\* something failed.
LEMMA WorkerMoves ==
    ASSUME ApprovalInv, NEW j \in Approval!Jobs, Approval!Worker(j)
    PROVE  ApprovalInv'
<1>1. ApprovalTyped /\ Approval!TypeOK
  BY ApprovalTypes DEF ApprovalInv
<1>2. PICK f \in Files : Approval!OpenFile(j, f) \/ Approval!Verify(j, f)
  BY DEF Approval!Worker
<1>3. UNCHANGED <<bytes, current, allowed, con, view, restarts>>
  BY <1>2 DEF Approval!OpenFile, Approval!Verify
<1>4. CASE Approval!OpenFile(j, f)
  <2> DEFINE r == [job[j] EXCEPT !.stage[f] = "reading"]
  <2>1. /\ UNCHANGED <<cache, failed>> /\ job' = [job EXCEPT ![j] = r]
        /\ collided' \in BOOLEAN /\ (~collided' => ~collided)
    BY <1>1, <1>4 DEF Approval!OpenFile, ApprovalTyped
  <2>2. /\ r \in JobRecord /\ r.verdict = job[j].verdict
        /\ \A g \in Files : r.stage[g] = "done" => job[j].stage[g] = "done"
    BY <1>1 DEF ApprovalTyped, JobRecord, Approval!Stages
  <2> HIDE DEF r
  <2>3. /\ job' \in [Approval!Jobs -> JobRecord]
        /\ \A i \in Approval!Jobs, g \in Files :
              job'[i].stage[g] = "done" => /\ job[i].stage[g] = "done"
                                           /\ job'[i].verdict[g] = job[i].verdict[g]
    BY <1>1, <2>1, <2>2 DEF ApprovalTyped
  <2>4. Approval!TypeOK'
    BY <1>1, <1>3, <2>1, <2>3, ApprovalTypes DEF ApprovalTyped
  <2>5. Truthful => Truthful'
    BY <1>3, <2>1, <2>3 DEF Truthful, Approval!Jobs
  <2> QED
    BY <1>3, <2>1, <2>4, <2>5
       DEF ApprovalInv, NothingFailed, Approval!AllowedIsVerified, Approval!ConsoleSurvives
<1>5. CASE Approval!Verify(j, f)
  <2>1. PICK v \in (IF cache[f] # "unknown" THEN {cache[f]} ELSE {bytes[f], "inconclusive"}) :
           /\ IF cache[f] = "unknown" /\ v = "inconclusive" /\ ~collided
              THEN Approval!Fails ELSE UNCHANGED failed
           /\ job' = [job EXCEPT ![j].stage[f] = "done", ![j].verdict[f] = v]
           /\ cache' = [cache EXCEPT ![f] = v]
    BY <1>5 DEF Approval!Verify
  <2>2. collided' = collided /\ v \in Approval!Verdicts
    BY <1>1, <1>5, <2>1 DEF Approval!Verify, ApprovalTyped, Approval!Verdicts
  <2>3. /\ failed' \in 0..MaxFailures
        /\ NothingFailed' => NothingFailed /\ failed' = failed
        /\ Approval!Fails => ~NothingFailed'
    BY <1>1, <1>3, <2>1, FailedGrows
  <2> DEFINE r == [job[j] EXCEPT !.stage[f] = "done", !.verdict[f] = v]
  <2>4. /\ r \in JobRecord
        /\ r.stage = [job[j].stage EXCEPT ![f] = "done"]
        /\ r.verdict = [job[j].verdict EXCEPT ![f] = v]
    BY <1>1, <2>2 DEF ApprovalTyped, JobRecord, Approval!Stages
  <2>5. job' = [job EXCEPT ![j] = r]
    BY <2>1
  <2> HIDE DEF r
  <2>6. /\ job' \in [Approval!Jobs -> JobRecord]
        /\ \A i \in Approval!Jobs : job'[i] = IF i = j THEN r ELSE job[i]
    BY <1>1, <2>4, <2>5 DEF ApprovalTyped
  <2>7. /\ cache' \in [Files -> Approval!Verdicts \cup {"unknown"}]
        /\ \A g \in Files : cache'[g] = IF g = f THEN v ELSE cache[g]
    BY <1>1, <2>1, <2>2 DEF ApprovalTyped
  <2>8. Approval!TypeOK'
    BY <1>1, <1>3, <2>2, <2>3, <2>6, <2>7, ApprovalTypes DEF ApprovalTyped
  <2>9. NothingFailed' /\ ~collided' => Truthful'
    <3> SUFFICES ASSUME NothingFailed', ~collided' PROVE Truthful'
      OBVIOUS
    <3>1. Truthful
      BY <2>2, <2>3 DEF ApprovalInv
    <3>2. v = bytes[f]
      BY <2>1, <2>2, <2>3, <3>1 DEF Truthful
    <3>3. /\ job[j].stage \in [Files -> Approval!Stages]
          /\ job[j].verdict \in [Files -> Approval!Verdicts]
      BY <1>1 DEF ApprovalTyped, JobRecord
    <3>4. \A g \in Files : r.stage[g] = "done" => r.verdict[g] = bytes[g]
      BY <2>4, <3>1, <3>2, <3>3 DEF Truthful
    <3>5. \A i \in Approval!Jobs, g \in Files :
             job'[i].stage[g] = "done" => job'[i].verdict[g] = bytes[g]
      BY <2>6, <3>1, <3>4 DEF Truthful
    <3>6. \A g \in Files : cache'[g] \in {"unknown", bytes[g]}
      BY <2>7, <3>1, <3>2 DEF Truthful
    <3> QED
      BY <1>3, <3>1, <3>5, <3>6 DEF Truthful, Approval!Jobs
  <2> QED
    BY <1>3, <2>2, <2>3, <2>8, <2>9
       DEF ApprovalInv, NothingFailed, Approval!AllowedIsVerified, Approval!ConsoleSurvives
<1> QED
  BY <1>2, <1>4, <1>5

\* Nothing is remembered that was not verified: it is forgotten.
LEMMA EvictMoves == ApprovalInv /\ Approval!Evict => ApprovalInv'
<1> SUFFICES ASSUME ApprovalInv, Approval!Evict PROVE ApprovalInv'
  OBVIOUS
<1>1. /\ ApprovalTyped /\ cache' = [f \in Files |-> "unknown"]
      /\ UNCHANGED <<bytes, job, current, collided, allowed, con, view, failed, restarts>>
  BY ApprovalTypes DEF ApprovalInv, Approval!Evict
<1>2. Approval!TypeOK'
  BY <1>1, ApprovalTypes DEF ApprovalTyped
<1>3. Truthful => Truthful'
  BY <1>1 DEF Truthful, Approval!Jobs
<1> QED
  BY <1>1, <1>2, <1>3
     DEF ApprovalInv, NothingFailed, Approval!AllowedIsVerified, Approval!ConsoleSurvives

\* After a restart nothing is promised; the types are kept, and a console that is gone stays gone.
LEMMA RestartMoves == ApprovalInv /\ Approval!Restart => ApprovalInv'
<1> SUFFICES ASSUME ApprovalInv, Approval!Restart PROVE ApprovalInv'
  OBVIOUS
<1>1. /\ ApprovalTyped /\ restarts < MaxRestarts /\ restarts' = restarts + 1 /\ current' = 0
      /\ cache' = [f \in Files |-> "unknown"]
      /\ job' = [j \in Approval!Jobs |-> [job[j] EXCEPT !.lost = job[j].started]]
      /\ con' = [c \in Consoles |-> IF con[c] = "storing" THEN "idle" ELSE con[c]]
      /\ UNCHANGED <<bytes, allowed, view, failed, collided>>
  BY ApprovalTypes DEF ApprovalInv, Approval!Restart
<1>2. job' \in [Approval!Jobs -> JobRecord]
  BY <1>1 DEF ApprovalTyped, JobRecord
<1>3. restarts' \in 0..MaxRestarts /\ ~NothingFailed' /\ current' \in 0..MaxJobs
  BY <1>1, ConstantsAssumption DEF ApprovalTyped, NothingFailed
<1>4. Approval!TypeOK'
  BY <1>1, <1>2, <1>3, ApprovalTypes DEF ApprovalTyped, Approval!Steps
<1>5. \A c \in Consoles : view'[c].status = "none" => con'[c] = "crashed"
  BY <1>1 DEF ApprovalInv
<1>6. Approval!AllowedIsVerified' /\ Approval!ConsoleSurvives'
  BY <1>3 DEF NothingFailed, Approval!AllowedIsVerified, Approval!ConsoleSurvives
<1> QED
  BY <1>3, <1>4, <1>5, <1>6 DEF ApprovalInv

LEMMA ApprovalNext == ApprovalInv /\ Approval!Next => ApprovalInv'
  BY ConsoleMoves, StoreMoves, PollMoves, AllowMoves, WorkerMoves, EvictMoves, RestartMoves
     DEF Approval!Next, Approval!Request

LEMMA ApprovalStays == ApprovalInv /\ UNCHANGED Approval!vars => ApprovalInv'
<1> SUFFICES ASSUME ApprovalInv, UNCHANGED Approval!vars PROVE ApprovalInv'
  OBVIOUS
<1>1. /\ ApprovalTyped
      /\ UNCHANGED <<bytes, cache, job, current, allowed, con, view, failed, restarts, collided>>
  BY ApprovalTypes DEF ApprovalInv, Approval!vars
<1>2. Approval!TypeOK'
  BY <1>1, ApprovalTypes DEF ApprovalTyped
<1> QED
  BY <1>1, <1>2 DEF ApprovalInv, NothingFailed, Truthful, Approval!Jobs,
                    Approval!AllowedIsVerified, Approval!ConsoleSurvives
------------------------------------------------------------------------------
\* The mutation runs: proved in EvolutionRunsProofs, for the module by itself.  Ev is that
\* module with the variables of this one, and what it defines is what Evolution defines.

Ev == INSTANCE EvolutionRunsProofs

EvolutionInv == Ev!FullInv /\ Ev!TypeInv

LEMMA EvolutionHelpers ==
    /\ Evolution!Ids = Ev!Ids
    /\ \A i : Evolution!Fresh(i) <=> Ev!Fresh(i)
    /\ Evolution!Asked <=> Ev!Asked
    /\ \A i, s : Evolution!Goes(i, s) <=> Ev!Goes(i, s)
    /\ \A i, s : Evolution!Reports(i, s) <=> Ev!Reports(i, s)
    /\ UNCHANGED Evolution!history <=> UNCHANGED Ev!history
    /\ UNCHANGED Evolution!vars <=> UNCHANGED Ev!vars
    /\ Evolution!NoRun = Ev!NoRun /\ Evolution!NoCycle = Ev!NoCycle
    /\ Evolution!Run = Ev!Run
<1>1. Evolution!Ids = Ev!Ids /\ Evolution!NoRun = Ev!NoRun /\ Evolution!NoCycle = Ev!NoCycle
  BY DEF Evolution!Ids, Ev!Ids, Evolution!NoRun, Ev!NoRun, Evolution!NoCycle, Ev!NoCycle
<1>2. \A i : Evolution!Fresh(i) <=> Ev!Fresh(i)
  BY DEF Evolution!Fresh, Ev!Fresh, Evolution!Used, Ev!Used
<1>3. Evolution!Asked <=> Ev!Asked
  BY DEF Evolution!Asked, Ev!Asked
<1>4. \A i, s : Evolution!Goes(i, s) <=> Ev!Goes(i, s)
  BY DEF Evolution!Goes, Ev!Goes
<1>5. \A i, s : Evolution!Reports(i, s) <=> Ev!Reports(i, s)
  BY DEF Evolution!Reports, Ev!Reports
<1>6. /\ UNCHANGED Evolution!history <=> UNCHANGED Ev!history
      /\ UNCHANGED Evolution!vars <=> UNCHANGED Ev!vars
  BY DEF Evolution!history, Ev!history, Evolution!vars, Ev!vars
<1>7. Evolution!Run = Ev!Run
  BY DEF Evolution!Run, Ev!Run, Evolution!Statuses, Ev!Statuses
<1> QED
  BY <1>1, <1>2, <1>3, <1>4, <1>5, <1>6, <1>7

LEMMA EvolutionIsEv ==
    /\ Evolution!Init => Ev!Init
    /\ Evolution!Next => Ev!Next
    /\ Ev!TypeOK => Evolution!TypeOK
    /\ Ev!NoPRUnapproved => Evolution!NoPRUnapproved
    /\ Ev!FullInv => Evolution!ReleasedIsMerged
<1>1. Evolution!Init => Ev!Init
  BY EvolutionHelpers DEF Evolution!Init, Ev!Init
<1>2. Ev!TypeOK => Evolution!TypeOK
  BY EvolutionHelpers DEF Evolution!TypeOK, Ev!TypeOK
<1>3. Ev!NoPRUnapproved => Evolution!NoPRUnapproved
  BY EvolutionHelpers DEF Evolution!NoPRUnapproved, Ev!NoPRUnapproved
<1>4. Ev!FullInv => Evolution!ReleasedIsMerged
  BY EvolutionHelpers DEF Evolution!ReleasedIsMerged, Ev!FullInv, Ev!IInv, Ev!Marked
<1>5. ASSUME NEW i
      PROVE  /\ Evolution!GroqCycleRun(i) => Ev!GroqCycleRun(i)
             /\ Evolution!SubmitPlan(i) => Ev!SubmitPlan(i)
             /\ Evolution!TimeOut(i) => Ev!TimeOut(i)
             /\ Evolution!Build(i) => Ev!Build(i)
             /\ Evolution!Implement(i) => Ev!Implement(i)
             /\ Evolution!Poll(i) => Ev!Poll(i)
             /\ Evolution!Approve(i) => Ev!Approve(i)
             /\ Evolution!Reject(i) => Ev!Reject(i)
  <2>1. Evolution!GroqCycleRun(i) => Ev!GroqCycleRun(i)
    BY EvolutionHelpers DEF Evolution!GroqCycleRun, Ev!GroqCycleRun
  <2>2. Evolution!SubmitPlan(i) => Ev!SubmitPlan(i)
    BY EvolutionHelpers DEF Evolution!SubmitPlan, Ev!SubmitPlan
  <2>3. Evolution!TimeOut(i) => Ev!TimeOut(i)
    BY EvolutionHelpers DEF Evolution!TimeOut, Ev!TimeOut
  <2>4. Evolution!Build(i) => Ev!Build(i)
    BY EvolutionHelpers DEF Evolution!Build, Ev!Build
  <2>5. Evolution!Implement(i) => Ev!Implement(i)
    BY EvolutionHelpers DEF Evolution!Implement, Ev!Implement
  <2>6. Evolution!Poll(i) => Ev!Poll(i)
    BY EvolutionHelpers DEF Evolution!Poll, Ev!Poll
  <2>7. Evolution!Approve(i) => Ev!Approve(i)
    BY EvolutionHelpers DEF Evolution!Approve, Ev!Approve
  <2>8. Evolution!Reject(i) => Ev!Reject(i)
    BY EvolutionHelpers DEF Evolution!Reject, Ev!Reject
  <2> QED
    BY <2>1, <2>2, <2>3, <2>4, <2>5, <2>6, <2>7, <2>8
<1>6. Evolution!ClearRuns => Ev!ClearRuns
  BY EvolutionHelpers DEF Evolution!ClearRuns, Ev!ClearRuns
<1>7. ASSUME NEW m
      PROVE  /\ Evolution!Merged(m) => Ev!Merged(m)
             /\ \A i : Evolution!Merge(m, i) => Ev!Merge(m, i)
  BY EvolutionHelpers DEF Evolution!Merged, Ev!Merged, Evolution!Merge, Ev!Merge
<1>8. Evolution!Next => Ev!Next
  BY <1>5, <1>6, <1>7, EvolutionHelpers DEF Evolution!Next, Ev!Next, Evolution!Cycle, Ev!Cycle
<1> QED
  BY <1>1, <1>2, <1>3, <1>4, <1>8

LEMMA EvolutionBounds == Ev!BoundsAreNumbers
  BY ConstantsAssumption DEF Ev!BoundsAreNumbers

LEMMA EvolutionInit == Evolution!Init => EvolutionInv
  BY EvolutionIsEv, EvolutionBounds, Ev!InitFull, Ev!InitTypes DEF EvolutionInv

LEMMA EvolutionNext == ASSUME EvolutionInv, Evolution!Next PROVE EvolutionInv'
  BY EvolutionIsEv, EvolutionBounds, Ev!NextFull, Ev!NextTypes DEF EvolutionInv

LEMMA EvolutionStays == ASSUME EvolutionInv, UNCHANGED Evolution!vars PROVE EvolutionInv'
<1>1. [Ev!Next]_Ev!vars
  BY EvolutionHelpers
<1> QED
  BY <1>1, EvolutionBounds, Ev!NextFull, Ev!NextTypes DEF EvolutionInv

\* What the runs check follows.
LEMMA EvolutionSound ==
    EvolutionInv => Evolution!TypeOK /\ Evolution!NoPRUnapproved /\ Evolution!ReleasedIsMerged
  BY EvolutionIsEv DEF EvolutionInv, Ev!FullInv, Ev!IInv, Ev!TypeInv

------------------------------------------------------------------------------
\* The privacy filter: what is redacted
\*
\* decodeBioes and redact are loops, and the model has them as recursive functions.  That such a
\* function is what its definition says, and what a loop keeps from pass to pass, is shown by the
\* first pass for which it would not hold.

\* Every set of numbers that is not empty has a least number.
LEMMA Least ==
    ASSUME NEW T \in SUBSET Nat, T # {}
    PROVE  \E n \in T : \A m \in T : n <= m
<1> DEFINE R == OpToRel(<, Nat)
<1>1. PICK n \in T : \A m \in T : ~(<<m, n>> \in R)
  <2>1. IsWellFoundedOn(R, Nat)
    BY NatLessThanWellFounded
  <2> HIDE DEF R
  <2> QED
    BY <2>1, WFMin
<1>2. \A m \in T : ~(m < n)
  BY <1>1, Zenon DEF OpToRel
<1> HIDE DEF R
<1>3. \A m \in T : n \in Nat /\ m \in Nat
  OBVIOUS
<1> QED
  BY <1>2, <1>3

\* What decodeBioes has after each of the labels.
Start == [ents |-> {}, cur |-> Filter!NoEntity]
IsUpTo(f, labels, k) ==
    f = [i \in 0..k |-> IF i = 0 THEN Start ELSE Filter!ReadLabel(f[i - 1], labels[i], i)]
UpTo(labels) ==
    CHOOSE f : f = [i \in 0..Len(labels) |->
                      IF i = 0 THEN Start ELSE Filter!ReadLabel(f[i - 1], labels[i], i)]

\* There is such a function: if not, there is a first label at which there is none, and one more value
\* can be given to the function that goes as far as the label before.
LEMMA UpToIs ==
    ASSUME NEW labels, Len(labels) \in Nat
    PROVE  IsUpTo(UpTo(labels), labels, Len(labels))
<1> DEFINE Bad == {k \in 0..Len(labels) : ~\E g : IsUpTo(g, labels, k)}
<1>1. Bad = {}
  <2> SUFFICES ASSUME Bad # {} PROVE FALSE
    OBVIOUS
  <2>1. PICK k \in Bad : \A m \in Bad : k <= m
    BY Least, Bad \in SUBSET Nat
  <2>2. CASE k = 0
    <3> DEFINE g == [i \in 0..0 |-> Start]
    <3>1. IsUpTo(g, labels, 0)
      BY DEF IsUpTo
    <3> QED
      BY <2>2, <3>1
  <2>3. CASE k # 0
    <3>1. k - 1 \in 0..Len(labels) /\ k - 1 \notin Bad /\ k \in Nat
      BY <2>1, <2>3
    <3>2. PICK g : IsUpTo(g, labels, k - 1)
      BY <3>1
    <3> DEFINE h == [i \in 0..k |-> IF i = k THEN Filter!ReadLabel(g[k - 1], labels[k], k) ELSE g[i]]
    <3>3. \A i \in 0..k - 1 :
             g[i] = IF i = 0 THEN Start ELSE Filter!ReadLabel(g[i - 1], labels[i], i)
      BY <3>1, <3>2 DEF IsUpTo
    <3>4. \A i \in 0..k : i # 0 => h[i - 1] = g[i - 1]
      BY <3>1
    <3>5. \A i \in 0..k :
             h[i] = IF i = 0 THEN Start ELSE Filter!ReadLabel(h[i - 1], labels[i], i)
      BY <2>3, <3>1, <3>3, <3>4
    <3>6. h = [i \in 0..k |-> h[i]]
      OBVIOUS
    <3> HIDE DEF h
    <3>7. IsUpTo(h, labels, k)
      BY <3>5, <3>6 DEF IsUpTo
    <3> QED
      BY <3>7
  <2> QED
    BY <2>2, <2>3
<1>2. \E g : IsUpTo(g, labels, Len(labels))
  BY <1>1
<1> QED
  BY <1>2 DEF IsUpTo, UpTo

\* What decodeBioes answers is what it has after the last label, and the entity at hand.
LEMMA DecodeIs ==
    ASSUME NEW labels
    PROVE  Filter!DecodeBioes(labels)
             = Filter!Push(UpTo(labels)[Len(labels)].ents, UpTo(labels)[Len(labels)].cur)
  BY DEF Filter!DecodeBioes, UpTo, Start

\* What an entity holds
LEMMA EntityIs ==
    ASSUME NEW t, NEW s, NEW e
    PROVE  /\ Filter!Entity(t, s, e).type = t
           /\ Filter!Entity(t, s, e).s = s
           /\ Filter!Entity(t, s, e).e = e
  BY DEF Filter!Entity

\* An entity that starts at a token is not the absence of one.
LEMMA EntityIsOne ==
    ASSUME NEW t, NEW s \in Nat \ {0}, NEW e
    PROVE  Filter!Entity(t, s, e) # Filter!NoEntity
<1>1. Filter!Entity(t, s, e).s = s /\ Filter!NoEntity.s = 0
  BY EntityIs DEF Filter!NoEntity
<1> QED
  BY <1>1

\* What holds of the entities and of the one at hand when i labels were read: they are apart, the one
\* at hand is the last, what they cover are the labels that are not O, and those of their category.
Reading(labels, i, E, cur) ==
    /\ \A a \in E : a.type \in Types /\ a.s \in 1..i /\ a.e \in 1..i /\ a.s <= a.e
    /\ \A a, b \in E : a = b \/ a.e < b.s \/ b.e < a.s
    /\ cur # Filter!NoEntity =>
         /\ cur.type \in Types /\ cur.s \in 1..i /\ cur.e = i
         /\ \A a \in E : a.e < cur.s
         /\ \A k \in 1..i : cur.s <= k => labels[k].type = cur.type
    /\ \A a \in E : \A k \in 1..i : a.s <= k /\ k <= a.e => labels[k].type = a.type
    /\ \A k \in 1..i :
         labels[k].tag # "O" <=> \/ \E a \in E : a.s <= k /\ k <= a.e
                                 \/ cur # Filter!NoEntity /\ cur.s <= k

\* The entity at hand is put with the others.
LEMMA ReadingPush ==
    ASSUME NEW labels, NEW i \in Nat, NEW E, NEW cur, Reading(labels, i, E, cur)
    PROVE  Reading(labels, i, Filter!Push(E, cur), Filter!NoEntity)
<1>1. CASE cur = Filter!NoEntity
  BY <1>1 DEF Filter!Push
<1>2. CASE cur # Filter!NoEntity
  <2>1. Filter!Push(E, cur) = E \cup {cur}
    BY <1>2 DEF Filter!Push
  <2>2. /\ cur.type \in Types /\ cur.s \in 1..i /\ cur.e = i
        /\ \A a \in E : a.e < cur.s
    BY <1>2 DEF Reading
  <2>3. \A a \in E \cup {cur} : a.type \in Types /\ a.s \in 1..i /\ a.e \in 1..i /\ a.s <= a.e
    BY <2>2 DEF Reading
  <2>4. \A a, b \in E \cup {cur} : a = b \/ a.e < b.s \/ b.e < a.s
    BY <2>2 DEF Reading
  <2>5. ASSUME NEW k \in 1..i
        PROVE  labels[k].tag # "O" <=> \E a \in E \cup {cur} : a.s <= k /\ k <= a.e
    <3>1. labels[k].tag # "O" <=> (\E a \in E : a.s <= k /\ k <= a.e) \/ cur.s <= k
      BY <1>2 DEF Reading
    <3>2. k <= cur.e
      BY <2>2
    <3> QED
      BY <3>1, <3>2
  <2>6. \A a \in E \cup {cur} : \A k \in 1..i : a.s <= k /\ k <= a.e => labels[k].type = a.type
    BY <1>2 DEF Reading
  <2> QED
    BY <2>1, <2>3, <2>4, <2>5, <2>6 DEF Reading
<1> QED
  BY <1>1, <1>2

\* A token that is labelled O, with no entity at hand
LEMMA ReadingNothing ==
    ASSUME NEW labels, NEW i \in Nat \ {0}, NEW E, Reading(labels, i - 1, E, Filter!NoEntity),
           labels[i].tag = "O"
    PROVE  Reading(labels, i, E, Filter!NoEntity)
<1>1. \A a \in E : /\ a.type \in Types /\ a.s \in 1..i - 1 /\ a.e \in 1..i - 1 /\ a.s <= a.e
                   /\ a.s \in 1..i /\ a.e \in 1..i /\ ~(i <= a.e)
  BY DEF Reading
<1>2. ASSUME NEW k \in 1..i
      PROVE  labels[k].tag # "O" <=> \E a \in E : a.s <= k /\ k <= a.e
  <2>1. CASE k = i
    BY <1>1, <2>1
  <2>2. CASE k \in 1..i - 1
    BY <2>2 DEF Reading
  <2> QED
    BY <2>1, <2>2
<1>3. ASSUME NEW a \in E, NEW k \in 1..i, a.s <= k, k <= a.e
      PROVE  labels[k].type = a.type
  <2>1. k \in 1..i - 1
    BY <1>1, <1>3
  <2> QED
    BY <1>3, <2>1 DEF Reading
<1> QED
  BY <1>1, <1>2, <1>3 DEF Reading

\* A label that starts an entity
LEMMA ReadingNew ==
    ASSUME NEW labels, NEW i \in Nat \ {0}, NEW E, Reading(labels, i - 1, E, Filter!NoEntity),
           labels[i].tag # "O", NEW t \in Types, labels[i].type = t
    PROVE  Reading(labels, i, E, Filter!Entity(t, i, i))
<1> DEFINE cur == Filter!Entity(t, i, i)
<1>1. \A a \in E : /\ a.type \in Types /\ a.s \in 1..i - 1 /\ a.e \in 1..i - 1 /\ a.s <= a.e
                   /\ a.s \in 1..i /\ a.e \in 1..i /\ a.e < i
  BY DEF Reading
<1>2. cur # Filter!NoEntity /\ cur.type = t /\ cur.s = i /\ cur.e = i
  BY EntityIs, EntityIsOne
<1> HIDE DEF cur
<1>3. ASSUME NEW k \in 1..i
      PROVE  labels[k].tag # "O" <=> (\E a \in E : a.s <= k /\ k <= a.e) \/ cur.s <= k
  <2>1. CASE k = i
    BY <1>2, <2>1
  <2>2. CASE k \in 1..i - 1
    <3>1. ~(cur.s <= k)
      BY <1>2, <2>2
    <3> QED
      BY <2>2, <3>1 DEF Reading
  <2> QED
    BY <2>1, <2>2
<1>4. ASSUME NEW a \in E, NEW k \in 1..i, a.s <= k, k <= a.e
      PROVE  labels[k].type = a.type
  <2>1. k \in 1..i - 1
    BY <1>1, <1>4
  <2> QED
    BY <1>4, <2>1 DEF Reading
<1>5. \A k \in 1..i : cur.s <= k => labels[k].type = cur.type
  BY <1>2
<1>6. Reading(labels, i, E, cur)
  BY <1>1, <1>2, <1>3, <1>4, <1>5 DEF Reading
<1> QED
  BY <1>6 DEF cur

\* A label that carries the entity at hand on
LEMMA ReadingOn ==
    ASSUME NEW labels, NEW i \in Nat \ {0}, NEW E, NEW last, Reading(labels, i - 1, E, last),
           last # Filter!NoEntity, labels[i].tag # "O", NEW t \in Types, labels[i].type = t,
           last.type = t
    PROVE  Reading(labels, i, E, Filter!Entity(t, last.s, i))
<1> DEFINE cur == Filter!Entity(t, last.s, i)
<1>1. \A a \in E : /\ a.type \in Types /\ a.s \in 1..i /\ a.e \in 1..i /\ a.s <= a.e
                   /\ a.e < last.s
  BY DEF Reading
<1>2. last.s \in 1..i - 1
  BY DEF Reading
<1>3. cur # Filter!NoEntity /\ cur.type = t /\ cur.s = last.s /\ cur.e = i
  BY <1>2, EntityIs, EntityIsOne
<1> HIDE DEF cur
<1>4. ASSUME NEW k \in 1..i
      PROVE  labels[k].tag # "O" <=> (\E a \in E : a.s <= k /\ k <= a.e) \/ cur.s <= k
  <2>1. CASE k = i
    BY <1>2, <1>3, <2>1
  <2>2. CASE k \in 1..i - 1
    BY <1>3, <2>2 DEF Reading
  <2> QED
    BY <2>1, <2>2
<1>5. \A a, b \in E : a = b \/ a.e < b.s \/ b.e < a.s
  BY DEF Reading
<1>6. cur.type \in Types /\ cur.s \in 1..i /\ \A a \in E : a.e < cur.s
  BY <1>1, <1>2, <1>3
<1>7. ASSUME NEW a \in E, NEW k \in 1..i, a.s <= k, k <= a.e
      PROVE  labels[k].type = a.type
  <2>1. k \in 1..i - 1
    BY <1>1, <1>2, <1>7
  <2> QED
    BY <1>7, <2>1 DEF Reading
<1>8. ASSUME NEW k \in 1..i, cur.s <= k
      PROVE  labels[k].type = cur.type
  <2>1. CASE k = i
    BY <1>3, <2>1
  <2>2. CASE k \in 1..i - 1
    BY <1>3, <1>8, <2>2 DEF Reading
  <2> QED
    BY <2>1, <2>2
<1>9. Reading(labels, i, E, cur)
  BY <1>1, <1>3, <1>4, <1>5, <1>6, <1>7, <1>8 DEF Reading
<1> QED
  BY <1>9 DEF cur

\* What a label holds
LEMMA LabelIs ==
    ASSUME NEW lab \in Filter!Label
    PROVE  /\ lab.tag \in {"O", "B", "I", "E", "S"}
           /\ lab.tag # "O" => lab.type \in Types
  BY DEF Filter!Label

\* Each pass of decodeBioes, whatever the label
LEMMA ReadLabelKeeps ==
    ASSUME NEW labels, NEW i \in Nat \ {0}, NEW acc, Reading(labels, i - 1, acc.ents, acc.cur),
           labels[i] \in Filter!Label
    PROVE  LET r == Filter!ReadLabel(acc, labels[i], i) IN Reading(labels, i, r.ents, r.cur)
<1> DEFINE lab == labels[i]
           none == Filter!NoEntity
           pushed == Filter!Push(acc.ents, acc.cur)
           new == Filter!Entity(lab.type, i, i)
           on == Filter!Entity(lab.type, acc.cur.s, i)
           same == acc.cur # none /\ acc.cur.type = lab.type
           R(E, cur) == Filter!ReadLabel(acc, lab, i) = [ents |-> E, cur |-> cur]
<1>1. /\ lab.tag \in {"O", "B", "I", "E", "S"}
      /\ lab.tag # "O" => lab.type \in Types
  BY LabelIs
<1>2. Reading(labels, i - 1, pushed, none)
  BY ReadingPush
<1>3. ASSUME NEW E, NEW cur, R(E, cur), Reading(labels, i, E, cur)
      PROVE  LET r == Filter!ReadLabel(acc, lab, i) IN Reading(labels, i, r.ents, r.cur)
  BY <1>3
<1>4. CASE lab.tag = "O"
  <2>1. R(pushed, none)
    BY <1>4 DEF Filter!ReadLabel
  <2>2. Reading(labels, i, pushed, none)
    BY <1>2, <1>4, ReadingNothing
  <2> QED
    BY <1>3, <2>1, <2>2
<1>5. CASE lab.tag # "O"
  <2>1. Reading(labels, i, pushed, new) /\ new # none
    BY <1>1, <1>2, <1>5, ReadingNew, EntityIsOne
  <2>2. Reading(labels, i, pushed \cup {new}, none)
    BY <2>1, ReadingPush DEF Filter!Push
  <2>3. ASSUME same
        PROVE  /\ Reading(labels, i, acc.ents, on)
               /\ Reading(labels, i, acc.ents \cup {on}, none)
    <3>1. Reading(labels, i, acc.ents, on)
      BY <1>1, <1>5, <2>3, ReadingOn
    <3>2. acc.cur.s \in Nat \ {0}
      BY <2>3 DEF Reading
    <3>3. on # none
      BY <3>2, EntityIsOne
    <3> QED
      BY <3>1, <3>3, ReadingPush DEF Filter!Push
  <2>4. CASE lab.tag = "S"
    <3>1. R(pushed \cup {new}, none)
      BY <2>4 DEF Filter!ReadLabel
    <3> QED
      BY <1>3, <2>2, <3>1
  <2>5. CASE lab.tag = "B"
    <3>1. R(pushed, new)
      BY <2>5 DEF Filter!ReadLabel
    <3> QED
      BY <1>3, <2>1, <3>1
  <2>6. CASE lab.tag = "I"
    <3>1. IF same THEN R(acc.ents, on) ELSE R(pushed, new)
      BY <2>6 DEF Filter!ReadLabel
    <3> QED
      BY <1>3, <2>1, <2>3, <3>1
  <2>7. CASE lab.tag = "E"
    <3>1. IF same THEN R(acc.ents \cup {on}, none) ELSE R(pushed \cup {new}, none)
      BY <2>7 DEF Filter!ReadLabel
    <3> QED
      BY <1>3, <2>2, <2>3, <3>1
  <2> QED
    BY <1>1, <1>5, <2>4, <2>5, <2>6, <2>7
<1> QED
  BY <1>4, <1>5

\* The entities that decodeBioes finds lie apart, what they cover are the tokens that are not labelled
\* O, and each is of the category of its labels, however the labels are put together.
LEMMA DecodeCovers ==
    ASSUME NEW n \in Nat, NEW labels \in [1..n -> Filter!Label]
    PROVE  /\ \A a \in Filter!DecodeBioes(labels) :
                a.type \in Types /\ a.s \in 1..n /\ a.e \in 1..n /\ a.s <= a.e
           /\ \A a, b \in Filter!DecodeBioes(labels) : a = b \/ a.e < b.s \/ b.e < a.s
           /\ \A a \in Filter!DecodeBioes(labels) : \A k \in 1..n :
                a.s <= k /\ k <= a.e => labels[k].type = a.type
           /\ \A k \in 1..n :
                labels[k].tag # "O" <=> \E a \in Filter!DecodeBioes(labels) : a.s <= k /\ k <= a.e
<1> DEFINE f == UpTo(labels)
           Keeps(i) == Reading(labels, i, f[i].ents, f[i].cur)
           Bad == {i \in 0..n : ~Keeps(i)}
<1>1. Len(labels) = n
  BY LenProperties, labels \in Seq(Filter!Label)
<1>2. \A i \in 0..n : f[i] = IF i = 0 THEN Start ELSE Filter!ReadLabel(f[i - 1], labels[i], i)
  BY <1>1, UpToIs DEF IsUpTo
<1>3. Keeps(0)
  <2>1. f[0].ents = {} /\ f[0].cur = Filter!NoEntity
    BY <1>2 DEF Start
  <2> QED
    BY <2>1 DEF Reading
<1>4. ASSUME NEW i \in 1..n, Keeps(i - 1)
      PROVE  Keeps(i)
  <2>1. f[i] = Filter!ReadLabel(f[i - 1], labels[i], i)
    BY <1>2
  <2> QED
    BY <1>4, <2>1, ReadLabelKeeps
<1> HIDE DEF Keeps
<1>5. Bad = {}
  <2> SUFFICES ASSUME Bad # {} PROVE FALSE
    OBVIOUS
  <2>1. PICK k \in Bad : \A m \in Bad : k <= m
    BY Least, Bad \in SUBSET Nat
  <2>2. k \in 1..n /\ k - 1 \in 0..n /\ k - 1 \notin Bad
    BY <1>3, <2>1
  <2> QED
    BY <1>4, <2>1, <2>2
<1>6. Reading(labels, n, f[n].ents, f[n].cur)
  BY <1>5 DEF Keeps
<1> HIDE DEF f
<1>7. Reading(labels, n, Filter!DecodeBioes(labels), Filter!NoEntity)
  BY <1>1, <1>6, ReadingPush, DecodeIs DEF f
<1> QED
  BY <1>7 DEF Reading

\* A text: each place holds a blank or is a letter of its own.
IsClip(clip, n) ==
    /\ clip \in [1..n -> 0..n]
    /\ \A i \in 1..n : clip[i] = Filter!Blank \/ clip[i] = i

\* The ends of m tokens that follow one another and take up a text of n places
IsTokenization(ends, m, n) ==
    /\ ends \in [1..m -> 1..n] /\ ends[m] = n
    /\ \A i, j \in 1..m : i < j => ends[i] < ends[j]

\* What ends holds are the ends of tokens that follow one another.
LEMMA TokensAre ==
    ASSUME NEW n \in Nat, NEW clip, IsClip(clip, n), NEW ends \in Filter!Tokenizations(clip)
    PROVE  \E m \in 1..n : IsTokenization(ends, m, n) /\ DOMAIN ends = 1..m
<1>1. DOMAIN clip = 1..n /\ Len(clip) = n
  BY LenProperties, clip \in Seq(0..n) DEF IsClip
<1>2. PICK m \in 1..n : ends \in [1..m -> 1..n]
  BY <1>1 DEF Filter!Tokenizations
<1>3. DOMAIN ends = 1..m /\ Len(ends) = m
  BY <1>2, LenProperties, m \in Nat, ends \in Seq(1..n)
<1>4. IsTokenization(ends, m, n)
  BY <1>1, <1>2, <1>3 DEF Filter!Tokenizations, IsTokenization
<1> QED
  BY <1>3, <1>4

\* A token has a start, that is not after its end, after every earlier token, and not after any later one.
LEMMA TokenIs ==
    ASSUME NEW m \in Nat, NEW n \in Nat, NEW ends, IsTokenization(ends, m, n), NEW k \in 1..m
    PROVE  /\ ends[k] \in 1..n
           /\ Filter!StartOf(ends, k) \in 1..n /\ Filter!StartOf(ends, k) <= ends[k]
           /\ \A j \in 1..m : j < k => ends[j] < Filter!StartOf(ends, k)
           /\ \A j \in 1..m : k <= j => /\ ends[k] <= ends[j]
                                        /\ Filter!StartOf(ends, k) <= Filter!StartOf(ends, j)
<1>1. \A j \in 1..m : ends[j] \in 1..n
  BY DEF IsTokenization
<1>2. \A i, j \in 1..m : i < j => ends[i] < ends[j]
  BY DEF IsTokenization
<1>3. ASSUME NEW j \in 1..m
      PROVE  Filter!StartOf(ends, j) \in 1..n /\ Filter!StartOf(ends, j) <= ends[j]
  <2>1. CASE j = 1
    BY <1>1, <2>1 DEF Filter!StartOf
  <2>2. CASE j # 1
    <3>1. j - 1 \in 1..m /\ j - 1 < j
      BY <2>2
    <3>2. ends[j - 1] < ends[j] /\ ends[j - 1] \in 1..n /\ ends[j] \in 1..n
      BY <1>1, <1>2, <3>1
    <3> QED
      BY <2>2, <3>2 DEF Filter!StartOf
  <2> QED
    BY <2>1, <2>2
<1>4. ASSUME NEW i \in 1..m, NEW j \in 1..m, i < j
      PROVE  ends[i] < Filter!StartOf(ends, j)
  <2>1. j - 1 \in 1..m /\ (i = j - 1 \/ i < j - 1) /\ j # 1
    BY <1>4
  <2>2. ends[i] <= ends[j - 1] /\ ends[i] \in Nat /\ ends[j - 1] \in Nat
    BY <1>1, <1>2, <2>1
  <2> QED
    BY <2>1, <2>2 DEF Filter!StartOf
<1>5. ASSUME NEW j \in 1..m, k <= j
      PROVE  ends[k] <= ends[j] /\ Filter!StartOf(ends, k) <= Filter!StartOf(ends, j)
  <2>1. CASE k = j
    BY <1>1, <1>3, <2>1
  <2>2. CASE k < j
    BY <1>1, <1>2, <1>3, <1>4, <2>2
  <2> QED
    BY <1>5, <2>1, <2>2
<1> QED
  BY <1>1, <1>3, <1>4, <1>5

\* A place is on the tokens from s to e.
OnTokens(ends, s, e, q) == q \in Filter!StartOf(ends, s)..ends[e]

\* The places of consecutive tokens are those of each of them.
LEMMA TokensCover ==
    ASSUME NEW m \in Nat, NEW n \in Nat, NEW ends, IsTokenization(ends, m, n),
           NEW s \in 1..m, NEW e \in 1..m, s <= e, NEW q \in 1..n
    PROVE  OnTokens(ends, s, e, q) <=> \E k \in 1..m : s <= k /\ k <= e /\ OnTokens(ends, k, k, q)
<1>1. \A k \in 1..m : /\ ends[k] \in 1..n /\ Filter!StartOf(ends, k) \in 1..n
                      /\ \A j \in 1..m : k <= j => /\ ends[k] <= ends[j]
                                                   /\ Filter!StartOf(ends, k) <= Filter!StartOf(ends, j)
  BY TokenIs
<1>2. ASSUME NEW k \in 1..m, s <= k, k <= e, q \in Filter!StartOf(ends, k)..ends[k]
      PROVE  q \in Filter!StartOf(ends, s)..ends[e]
  BY <1>1, <1>2
<1>3. ASSUME q \in Filter!StartOf(ends, s)..ends[e]
      PROVE  \E k \in 1..m : s <= k /\ k <= e /\ q \in Filter!StartOf(ends, k)..ends[k]
  <2> DEFINE T == {k \in 1..m : s <= k /\ k <= e /\ q <= ends[k]}
  <2>1. e \in T /\ T \in SUBSET Nat
    BY <1>1, <1>3
  <2>2. PICK k \in T : \A j \in T : k <= j
    BY <2>1, Least
  <2>3. k \in 1..m /\ s <= k /\ k <= e /\ q <= ends[k]
    OBVIOUS
  <2>4. Filter!StartOf(ends, k) <= q
    <3>1. CASE k = s
      BY <1>1, <1>3, <3>1
    <3>2. CASE k # s
      <4>1. k - 1 \in 1..m /\ s <= k - 1 /\ k - 1 <= e /\ k - 1 \notin T /\ k # 1
        BY <2>2, <2>3, <3>2
      <4>2. ends[k - 1] < q
        BY <1>1, <4>1
      <4> QED
        BY <1>1, <4>1, <4>2 DEF Filter!StartOf
    <3> QED
      BY <3>1, <3>2
  <2> QED
    BY <1>1, <2>3, <2>4
<1> QED
  BY <1>2, <1>3 DEF OnTokens

\* What a span holds
LEMMA SpanIs ==
    ASSUME NEW start, NEW end, NEW t
    PROVE  /\ Filter!Span(start, end, t).start = start
           /\ Filter!Span(start, end, t).end = end
           /\ Filter!Span(start, end, t).type = t
  BY DEF Filter!Span

\* What is trimmed off an entity are blanks.
LEMMA TrimmedIs ==
    ASSUME NEW clip, NEW ends, NEW ent, NEW from \in Nat \ {0}, NEW to \in Nat,
           from = Filter!StartOf(ends, ent.s), to = ends[ent.e]
    PROVE  LET e == Filter!Trimmed(clip, ends, ent)
           IN  /\ e.type = ent.type /\ e.start \in Nat /\ e.end \in Nat
               /\ e.start <= e.end => from <= e.start /\ e.end <= to
               /\ \A q \in from..to : clip[q] # Filter!Blank => e.start <= q /\ q <= e.end
<1> DEFINE e == Filter!Trimmed(clip, ends, ent)
           letters == {i \in from..to : clip[i] # Filter!Blank}
           first == CHOOSE i \in letters : \A j \in letters : i <= j
           last == CHOOSE i \in letters : \A j \in letters : j <= i
<1>1. CASE letters = {}
  <2>1. e = Filter!Span(from, from - 1, ent.type)
    BY <1>1 DEF Filter!Trimmed
  <2>2. e.start = from /\ e.end = from - 1 /\ e.type = ent.type
    BY <2>1, SpanIs
  <2> QED
    BY <1>1, <2>2
<1>2. CASE letters # {}
  <2>1. e = Filter!Span(first, last, ent.type)
    BY <1>2 DEF Filter!Trimmed
  <2>3. \A i \in letters : i \in Nat /\ from <= i /\ i <= to
    OBVIOUS
  <2>4. first \in letters /\ \A j \in letters : first <= j
    <3>1. \E i \in letters : \A j \in letters : i <= j
      BY <1>2, <2>3, Least, letters \in SUBSET Nat
    <3> QED
      BY <3>1
  <2>5. last \in letters /\ \A j \in letters : j <= last
    <3> DEFINE back == {to - i : i \in letters}
    <3>1. back \in SUBSET Nat /\ back # {}
      BY <1>2, <2>3
    <3>2. PICK b \in back : \A c \in back : b <= c
      BY <3>1, Least
    <3>3. PICK i \in letters : b = to - i
      OBVIOUS
    <3>4. ASSUME NEW j \in letters PROVE j <= i
      <4>1. to - j \in back /\ to - i \in Nat /\ to - j \in Nat
        BY <2>3
      <4>2. to - i <= to - j
        BY <3>2, <3>3, <4>1
      <4> HIDE DEF letters, back
      <4> QED
        BY <2>3, <4>2
    <3> QED
      BY <3>3, <3>4
  <2>6. \A q \in from..to : clip[q] # Filter!Blank => q \in letters
    OBVIOUS
  <2> HIDE DEF first, last, letters, e
  <2>2. e.start = first /\ e.end = last /\ e.type = ent.type
    BY <2>1, SpanIs
  <2> QED
    BY <2>2, <2>3, <2>4, <2>5, <2>6 DEF e
<1> QED
  BY <1>1, <1>2

\* What is to be replaced: spans of the text that lie apart.
IsApart(E, n) ==
    /\ \A e \in E : e.type \in Types /\ e.start \in 1..n /\ e.end \in 1..n /\ e.start <= e.end
    /\ \A a, b \in E : a = b \/ a.end < b.start \/ b.end < a.start
Covers(E, q, t) == \E e \in E : e.type = t /\ e.start <= q /\ q <= e.end

\* The spans that infer answers lie apart, and cover of the letters those that are under a label of
\* their category.
LEMMA InferCovers ==
    ASSUME NEW n \in Nat, NEW clip, IsClip(clip, n), NEW ends \in Filter!Tokenizations(clip),
           NEW labels \in [DOMAIN ends -> Filter!Label]
    PROVE  /\ IsApart(Filter!Infer(clip, ends, labels), n)
           /\ \A q \in 1..n, t \in Types :
                <<q, t>> \in Filter!Labelled(clip, ends, labels)
                  <=> clip[q] # Filter!Blank /\ Covers(Filter!Infer(clip, ends, labels), q, t)
<1> DEFINE D == Filter!DecodeBioes(labels)
           T(ent) == Filter!Trimmed(clip, ends, ent)
           E == Filter!Infer(clip, ends, labels)
           L == Filter!Labelled(clip, ends, labels)
<1>1. PICK m \in 1..n : IsTokenization(ends, m, n) /\ DOMAIN ends = 1..m
  BY TokensAre
<1>2. m \in Nat /\ labels \in [1..m -> Filter!Label]
  BY <1>1
<1>3. /\ \A a \in D : a.type \in Types /\ a.s \in 1..m /\ a.e \in 1..m /\ a.s <= a.e
      /\ \A a, b \in D : a = b \/ a.e < b.s \/ b.e < a.s
      /\ \A a \in D : \A k \in 1..m : a.s <= k /\ k <= a.e => labels[k].type = a.type
      /\ \A k \in 1..m : labels[k].tag # "O" <=> \E a \in D : a.s <= k /\ k <= a.e
  BY <1>2, DecodeCovers
<1>4. E = {e \in {T(ent) : ent \in D} : e.start <= e.end}
  BY DEF Filter!Infer
<1>5. ASSUME NEW q \in 1..n, NEW t \in Types
      PROVE  <<q, t>> \in L
               <=> /\ clip[q] # Filter!Blank
                   /\ \E k \in 1..m : /\ labels[k].tag # "O" /\ labels[k].type = t
                                      /\ OnTokens(ends, k, k, q)
  <2>1. DOMAIN clip = 1..n
    BY DEF IsClip
  <2>2. <<q, t>>[1] = q /\ <<q, t>>[2] = t /\ <<q, t>> \in (1..n) \X Types
    OBVIOUS
  <2> QED
    BY <1>1, <2>1, <2>2 DEF Filter!Labelled, OnTokens
<1> HIDE DEF D, E, L
<1>6. ASSUME NEW a \in D
      PROVE  /\ Filter!StartOf(ends, a.s) \in 1..n /\ ends[a.e] \in 1..n
             /\ T(a).type = a.type /\ a.type \in Types /\ T(a).start \in Nat /\ T(a).end \in Nat
             /\ T(a).start <= T(a).end =>
                  Filter!StartOf(ends, a.s) <= T(a).start /\ T(a).end <= ends[a.e]
             /\ \A q \in Filter!StartOf(ends, a.s)..ends[a.e] :
                  clip[q] # Filter!Blank => T(a).start <= q /\ q <= T(a).end
  <2>1. a.type \in Types /\ a.s \in 1..m /\ a.e \in 1..m /\ a.s <= a.e
    BY <1>3
  <2>2. Filter!StartOf(ends, a.s) \in 1..n /\ ends[a.e] \in 1..n
    BY <1>1, <1>2, <2>1, TokenIs
  <2>3. Filter!StartOf(ends, a.s) \in Nat \ {0} /\ ends[a.e] \in Nat
    BY <2>2
  <2> HIDE DEF T
  <2> QED
    BY <2>1, <2>2, <2>3, TrimmedIs DEF T
<1> HIDE DEF T
<1>7. \A e \in E : \E a \in D : e = T(a) /\ T(a).start <= T(a).end
  BY <1>4
<1>8. \A a \in D : T(a).start <= T(a).end => T(a) \in E
  BY <1>4
<1>9. \A e \in E : e.type \in Types /\ e.start \in 1..n /\ e.end \in 1..n /\ e.start <= e.end
  BY <1>6, <1>7
<1>10. ASSUME NEW x \in E, NEW y \in E
       PROVE  x = y \/ x.end < y.start \/ y.end < x.start
  <2>1. PICK a \in D : x = T(a) /\ T(a).start <= T(a).end
    BY <1>7
  <2>2. PICK b \in D : y = T(b) /\ T(b).start <= T(b).end
    BY <1>7
  <2>3. ASSUME NEW u \in D, NEW v \in D, u.e < v.s, T(u).start <= T(u).end, T(v).start <= T(v).end
        PROVE  T(u).end < T(v).start
    <3>1. u.e \in 1..m /\ v.s \in 1..m
      BY <1>3
    <3>2. ends[u.e] < Filter!StartOf(ends, v.s)
      BY <1>1, <1>2, <2>3, <3>1, TokenIs
    <3>3. T(u).end <= ends[u.e] /\ Filter!StartOf(ends, v.s) <= T(v).start
      BY <1>6, <2>3
    <3>4. /\ T(u).end \in Nat /\ ends[u.e] \in Nat
          /\ Filter!StartOf(ends, v.s) \in Nat /\ T(v).start \in Nat
      BY <1>6
    <3> QED
      BY <3>2, <3>3, <3>4
  <2>4. a = b \/ a.e < b.s \/ b.e < a.s
    BY <1>3
  <2> QED
    BY <2>1, <2>2, <2>3, <2>4
<1>11. ASSUME NEW q \in 1..n, clip[q] # Filter!Blank, NEW t \in Types
       PROVE  <<q, t>> \in L <=> \E e \in E : e.type = t /\ e.start <= q /\ q <= e.end
  <2>1. ASSUME NEW a \in D
        PROVE  OnTokens(ends, a.s, a.e, q)
                 <=> \E k \in 1..m : a.s <= k /\ k <= a.e /\ OnTokens(ends, k, k, q)
    <3>1. a.s \in 1..m /\ a.e \in 1..m /\ a.s <= a.e
      BY <1>3
    <3>2. IsTokenization(ends, m, n) /\ m \in Nat
      BY <1>1, <1>2
    <3>3. ASSUME NEW s \in 1..m, NEW e \in 1..m, s <= e
          PROVE  OnTokens(ends, s, e, q)
                   <=> \E k \in 1..m : s <= k /\ k <= e /\ OnTokens(ends, k, k, q)
      BY <3>2, <3>3, TokensCover
    <3> QED
      BY <3>1, <3>3
  <2>2. <<q, t>> \in L <=> \E a \in D : a.type = t /\ OnTokens(ends, a.s, a.e, q)
    <3>1. <<q, t>> \in L
            <=> \E k \in 1..m : (\E a \in D : a.type = t /\ a.s <= k /\ k <= a.e)
                                /\ OnTokens(ends, k, k, q)
      BY <1>3, <1>5, <1>11
    <3> QED
      BY <2>1, <3>1
  <2>3. ASSUME NEW a \in D, a.type = t, q \in Filter!StartOf(ends, a.s)..ends[a.e]
        PROVE  \E e \in E : e.type = t /\ e.start <= q /\ q <= e.end
    <3>1. /\ T(a).start <= q /\ q <= T(a).end /\ T(a).start \in Nat /\ T(a).end \in Nat
          /\ T(a).type = t
      BY <1>6, <1>11, <2>3
    <3>2. T(a) \in E
      BY <1>8, <3>1
    <3> QED
      BY <3>1, <3>2
  <2>4. ASSUME NEW e \in E, e.type = t, e.start <= q, q <= e.end
        PROVE  \E a \in D : a.type = t /\ q \in Filter!StartOf(ends, a.s)..ends[a.e]
    <3>1. PICK a \in D : e = T(a) /\ T(a).start <= T(a).end
      BY <1>7
    <3>2. Filter!StartOf(ends, a.s) <= T(a).start /\ T(a).end <= ends[a.e] /\ a.type = t
      BY <1>6, <2>4, <3>1
    <3>3. /\ Filter!StartOf(ends, a.s) \in Nat /\ ends[a.e] \in Nat
          /\ T(a).start \in Nat /\ T(a).end \in Nat
      BY <1>6
    <3>4. q \in Filter!StartOf(ends, a.s)..ends[a.e]
      BY <2>4, <3>1, <3>2, <3>3
    <3> QED
      BY <3>2, <3>4
  <2> QED
    BY <2>2, <2>3, <2>4 DEF OnTokens
<1>12. \A q \in 1..n, t \in Types : <<q, t>> \in L => clip[q] # Filter!Blank
  BY <1>5
<1> QED
  BY <1>9, <1>10, <1>11, <1>12 DEF IsApart, Covers, E, L

\* What redact has when it has dealt with the spans that start at p or after.
Replaced(r, p, E) ==
    IF \E e \in E : e.start = p THEN Filter!Splice(r, CHOOSE e \in E : e.start = p) ELSE r
IsFrom(f, clip, E, lo) ==
    f = [p \in lo..Len(clip) + 1 |-> IF p > Len(clip) THEN clip ELSE Replaced(f[p + 1], p, E)]
From(clip, E) ==
    CHOOSE f : f = [p \in 1..Len(clip) + 1 |->
                      IF p > Len(clip) THEN clip
                      ELSE IF \E e \in E : e.start = p
                           THEN Filter!Splice(f[p + 1], CHOOSE e \in E : e.start = p)
                           ELSE f[p + 1]]

\* There is such a function, from the end of the text: as for UpToIs.
LEMMA FromIs ==
    ASSUME NEW clip, Len(clip) \in Nat, NEW E
    PROVE  IsFrom(From(clip, E), clip, E, 1)
<1> DEFINE n == Len(clip)
           Bad == {k \in 0..n : ~\E g : IsFrom(g, clip, E, n + 1 - k)}
<1>1. Bad = {}
  <2> SUFFICES ASSUME Bad # {} PROVE FALSE
    OBVIOUS
  <2>1. PICK k \in Bad : \A m \in Bad : k <= m
    BY Least, Bad \in SUBSET Nat
  <2>2. CASE k = 0
    <3> DEFINE g == [p \in n + 1..n + 1 |-> clip]
    <3>1. \A p \in n + 1..n + 1 : p > n
      OBVIOUS
    <3>2. g = [p \in n + 1..n + 1 |-> IF p > n THEN clip ELSE Replaced(g[p + 1], p, E)]
      BY <3>1
    <3>3. IsFrom(g, clip, E, n + 1)
      BY <3>2 DEF IsFrom
    <3>4. n + 1 - k = n + 1
      BY <2>2
    <3> QED
      BY <3>3, <3>4
  <2>3. CASE k # 0
    <3> DEFINE lo == n + 1 - k
    <3>1. /\ k - 1 \in 0..n /\ k - 1 \notin Bad /\ k \in Nat /\ n + 1 - (k - 1) = lo + 1
          /\ lo \in 1..n
      BY <2>1, <2>3
    <3>2. PICK g : IsFrom(g, clip, E, lo + 1)
      BY <3>1
    <3> DEFINE h == [p \in lo..n + 1 |-> IF p = lo THEN Replaced(g[lo + 1], lo, E) ELSE g[p]]
    <3> HIDE DEF lo
    <3>3. \A p \in lo + 1..n + 1 : g[p] = IF p > n THEN clip ELSE Replaced(g[p + 1], p, E)
      BY <3>1, <3>2 DEF IsFrom
    <3>4. \A p \in lo..n + 1 : p <= n => h[p + 1] = g[p + 1]
      BY <3>1
    <3>5. \A p \in lo..n + 1 : h[p] = IF p > n THEN clip ELSE Replaced(h[p + 1], p, E)
      BY <3>1, <3>3, <3>4
    <3>6. h = [p \in lo..n + 1 |-> h[p]]
      OBVIOUS
    <3> HIDE DEF h
    <3>7. IsFrom(h, clip, E, lo)
      BY <3>5, <3>6 DEF IsFrom
    <3> QED
      BY <3>7 DEF lo
  <2> QED
    BY <2>2, <2>3
<1>2. \E g : IsFrom(g, clip, E, 1)
  <2>1. n \in 0..n /\ n + 1 - n = 1
    OBVIOUS
  <2> QED
    BY <1>1, <2>1
<1> QED
  BY <1>2 DEF IsFrom, From, Replaced

\* What redact answers is what it has at the first place.
LEMMA RedactIs ==
    ASSUME NEW clip, NEW E
    PROVE  Filter!Redact(clip, E) = From(clip, E)[1]
  BY DEF Filter!Redact, From

\* The things from start to end have one thing in their place.
IsSpliced(S, r, e, o) ==
    /\ o \in Seq(S)
    /\ Len(o) = Len(r) - (e.end - e.start)
    /\ \A i \in 1..Len(r) - (e.end - e.start) :
         o[i] = IF i < e.start THEN r[i] ELSE IF i = e.start THEN e.type
                ELSE r[i + (e.end - e.start)]
\* e is a span of r, and of a type that may stand in it.
CanSplice(S, r, e) ==
    /\ r \in Seq(S) /\ e.start \in 1..Len(r) /\ e.end \in 1..Len(r) /\ e.start <= e.end
    /\ e.type \in S

\* What Splice does is that.
LEMMA SpliceIs ==
    ASSUME NEW S, NEW r, NEW e, CanSplice(S, r, e)
    PROVE  IsSpliced(S, r, e, Filter!Splice(r, e))
<1> DEFINE s == e.start
           t == e.end
           n == Len(r)
           a == SubSeq(r, 1, s - 1)
           b == <<e.type>>
           c == SubSeq(r, t + 1, n)
<1>1. n \in Nat /\ s \in 1..n /\ t \in 1..n /\ s <= t /\ \A i \in 1..n : r[i] \in S
  BY LenProperties, ElementOfSeq DEF CanSplice
<1>2. Filter!Splice(r, e) = (a \o b) \o c
  BY DEF Filter!Splice
<1> HIDE DEF s, t, n
<1>3. a \in Seq(S) /\ Len(a) = s - 1 /\ \A i \in 1..s - 1 : a[i] = r[i]
  <2>1. \A i \in 1..s - 1 : r[i] \in S
    BY <1>1
  <2>2. /\ SubSeq(r, 1, s - 1) \in Seq(S)
        /\ Len(SubSeq(r, 1, s - 1)) = IF 1 <= s - 1 THEN (s - 1) - 1 + 1 ELSE 0
        /\ \A i \in 1..(s - 1) - 1 + 1 : SubSeq(r, 1, s - 1)[i] = r[1 + i - 1]
    BY <1>1, <2>1, SubSeqProperties
  <2> QED
    BY <1>1, <2>2
<1>4. b \in Seq(S) /\ Len(b) = 1 /\ b[1] = e.type
  BY DEF CanSplice
<1>5. c \in Seq(S) /\ Len(c) = n - t /\ \A i \in 1..n - t : c[i] = r[i + t]
  <2> DEFINE u == t + 1
  <2>1. u \in Int /\ n \in Int /\ \A i \in u..n : r[i] \in S
    BY <1>1
  <2> HIDE DEF u
  <2>2. /\ SubSeq(r, u, n) \in Seq(S)
        /\ Len(SubSeq(r, u, n)) = IF u <= n THEN n - u + 1 ELSE 0
        /\ \A i \in 1..n - u + 1 : SubSeq(r, u, n)[i] = r[u + i - 1]
    BY <2>1, SubSeqProperties
  <2>3. c = SubSeq(r, u, n) /\ n - u + 1 = n - t /\ \A i \in 1..n - t : u + i - 1 = i + t
    BY <1>1 DEF c, u
  <2>4. (IF u <= n THEN n - u + 1 ELSE 0) = n - t
    BY <1>1 DEF u
  <2> HIDE DEF c
  <2> QED
    BY <2>2, <2>3, <2>4
<1> HIDE DEF a, b, c
<1>6. /\ a \o b \in Seq(S) /\ Len(a \o b) = s
      /\ \A i \in 1..s : (a \o b)[i] = IF i < s THEN r[i] ELSE e.type
  <2>1. /\ a \o b \in Seq(S) /\ Len(a \o b) = Len(a) + Len(b)
        /\ \A i \in 1..Len(a) + Len(b) : (a \o b)[i] = IF i <= Len(a) THEN a[i] ELSE b[i - Len(a)]
    BY <1>3, <1>4, ConcatProperties
  <2> QED
    BY <1>1, <1>3, <1>4, <2>1
<1> DEFINE ab == a \o b
<1> HIDE DEF ab
<1>7. /\ ab \o c \in Seq(S) /\ Len(ab \o c) = n - (t - s)
      /\ \A i \in 1..n - (t - s) :
           (ab \o c)[i] = IF i < s THEN r[i] ELSE IF i = s THEN e.type ELSE r[i + (t - s)]
  <2>1. ab \in Seq(S) /\ Len(ab) = s /\ \A i \in 1..s : ab[i] = IF i < s THEN r[i] ELSE e.type
    BY <1>6 DEF ab
  <2>2. /\ ab \o c \in Seq(S) /\ Len(ab \o c) = Len(ab) + Len(c)
        /\ \A i \in 1..Len(ab) + Len(c) : (ab \o c)[i] = IF i <= Len(ab) THEN ab[i] ELSE c[i - Len(ab)]
    BY <1>5, <2>1, ConcatProperties
  <2>3. s + (n - t) = n - (t - s)
    BY <1>1
  <2>4. ASSUME NEW i \in 1..n - (t - s)
        PROVE  (ab \o c)[i] = IF i < s THEN r[i] ELSE IF i = s THEN e.type ELSE r[i + (t - s)]
    <3>1. (ab \o c)[i] = IF i <= s THEN ab[i] ELSE c[i - s]
      BY <1>1, <1>5, <2>1, <2>2, <2>3
    <3>2. CASE i <= s
      BY <1>1, <2>1, <3>1, <3>2
    <3>3. CASE i > s
      <4>1. i - s \in 1..n - t /\ (i - s) + t = i + (t - s)
        BY <1>1, <3>3
      <4>2. c[i - s] = r[(i - s) + t]
        BY <1>5, <4>1
      <4>3. ~(i < s) /\ i # s /\ ~(i <= s)
        BY <1>1, <3>3
      <4>4. r[(i - s) + t] = r[i + (t - s)]
        BY <4>1, Zenon
      <4> QED
        BY <3>1, <4>2, <4>3, <4>4, Zenon
    <3>4. i <= s \/ i > s
      BY <1>1
    <3> QED
      BY <3>2, <3>3, <3>4, Zenon
  <2> QED
    BY <1>1, <1>5, <2>1, <2>2, <2>3, <2>4
<1> QED
  BY <1>2, <1>7 DEF ab, s, t, n, IsSpliced

\* What holds of the text when the spans that start at p or after are replaced: what lies before all of
\* those is as it was; of the letters those are there that none of them covers, in their order; and a
\* letter that one of them covers has its category in its place.
Marked(r, t, q, n) ==
    \E i \in 1..Len(r) : /\ r[i] = t
                          /\ \A j \in 1..Len(r) : r[j] \in 1..n => (r[j] < q <=> j < i)
Redacted(clip, n, E, p, r) ==
    /\ r \in Seq((0..n) \cup Types)
    /\ \A i \in 1..n :
         (\A e \in E : p <= e.start => i < e.start) => i <= Len(r) /\ r[i] = clip[i]
    /\ \A q \in 1..n :
         (\E i \in 1..Len(r) : r[i] = q)
           <=> clip[q] # Filter!Blank /\ \A e \in E : p <= e.start => ~(e.start <= q /\ q <= e.end)
    /\ \A i, j \in 1..Len(r) : i < j /\ r[i] \in 1..n /\ r[j] \in 1..n => r[i] < r[j]
    /\ \A e \in E : p <= e.start =>
         \A q \in 1..n : e.start <= q /\ q <= e.end => Marked(r, e.type, q, n)

\* Before the first pass the text is as it was.
LEMMA NothingReplaced ==
    ASSUME NEW n \in Nat, NEW clip, IsClip(clip, n), NEW E, IsApart(E, n)
    PROVE  Redacted(clip, n, E, n + 1, clip)
<1>1. clip \in Seq((0..n) \cup Types) /\ Len(clip) = n
  <2>1. clip \in Seq((0..n) \cup Types)
    BY DEF IsClip
  <2> QED
    BY <2>1, LenProperties DEF IsClip
<1>2. \A e \in E : e.start \in 1..n
  BY DEF IsApart
<1>3. \A i \in 1..n : clip[i] \in 0..n /\ (clip[i] = 0 \/ clip[i] = i)
  BY DEF IsClip, Filter!Blank
<1>4. \A q \in 1..n : (\E i \in 1..n : clip[i] = q) <=> clip[q] # 0
  BY <1>3
<1> QED
  BY <1>1, <1>2, <1>3, <1>4 DEF Redacted, Filter!Blank

\* A pass that finds no span that starts at its place
LEMMA NoneReplaced ==
    ASSUME NEW n \in Nat, NEW clip, NEW E, IsApart(E, n), NEW p \in 1..n, NEW r,
           Redacted(clip, n, E, p + 1, r), ~\E e \in E : e.start = p
    PROVE  Redacted(clip, n, E, p, r)
<1>1. \A e \in E : p <= e.start <=> p + 1 <= e.start
  BY DEF IsApart
<1> QED
  BY <1>1 DEF Redacted

\* A pass that replaces a span: all before its end is as it was, so that the places of the span are its
\* places in the text still.
LEMMA OneReplaced ==
    ASSUME NEW n \in Nat, Types \cap (0..n) = {}, NEW clip, IsClip(clip, n), NEW E, IsApart(E, n),
           NEW p \in 1..n, NEW r, Redacted(clip, n, E, p + 1, r), NEW x \in E, x.start = p
    PROVE  Redacted(clip, n, E, p, Filter!Splice(r, x))
<1> DEFINE S == (0..n) \cup Types
           t == x.end
           len == Len(r)
           o == Filter!Splice(r, x)
           Later(i) == \A e \in E : p + 1 <= e.start => i < e.start
           Clear(k, q) == \A e \in E : k <= e.start => ~(e.start <= q /\ q <= e.end)
<1>1. /\ \A e \in E : e.type \in Types /\ e.start \in 1..n /\ e.end \in 1..n /\ e.start <= e.end
      /\ \A a, b \in E : a = b \/ a.end < b.start \/ b.end < a.start
  BY DEF IsApart
<1>2. /\ r \in Seq(S)
      /\ \A i \in 1..n : Later(i) => i <= len /\ r[i] = clip[i]
      /\ \A q \in 1..n : (\E i \in 1..len : r[i] = q) <=> clip[q] # 0 /\ Clear(p + 1, q)
      /\ \A i, j \in 1..len : i < j /\ r[i] \in 1..n /\ r[j] \in 1..n => r[i] < r[j]
  BY DEF Redacted, Filter!Blank
<1>3. \A i \in 1..n : clip[i] \in 0..n /\ (clip[i] = 0 \/ clip[i] = i)
  BY DEF IsClip, Filter!Blank
<1>4. len \in Nat /\ t \in 1..n /\ p <= t /\ x.type \in Types
  BY <1>1, <1>2, LenProperties
<1>5. \A e \in E : p + 1 <= e.start => t < e.start
  BY <1>1, <1>4
<1>6. \A i \in 1..t : i <= len /\ r[i] = clip[i] /\ r[i] \in 0..n /\ (r[i] = 0 \/ r[i] = i)
  <2>1. \A i \in 1..t : i \in 1..n /\ Later(i)
    BY <1>1, <1>4, <1>5
  <2> QED
    BY <1>2, <1>3, <2>1
<1>7. t <= len
  BY <1>4, <1>6
<1> DEFINE m == len - (t - p)
<1>8. /\ o \in Seq(S) /\ Len(o) = m /\ m \in Nat /\ p <= m
      /\ \A i \in 1..m : o[i] = IF i < p THEN r[i] ELSE IF i = p THEN x.type ELSE r[i + (t - p)]
  <2>1. CanSplice(S, r, x)
    BY <1>2, <1>4, <1>7 DEF CanSplice
  <2>2. IsSpliced(S, r, x, o)
    BY <2>1, SpliceIs
  <2>3. m \in Nat /\ p <= m
    BY <1>4, <1>7
  <2> HIDE DEF o
  <2> QED
    BY <2>2, <2>3 DEF IsSpliced
<1> HIDE DEF S, o, t, len, m, Later, Clear
\* Where a thing of the new text was in the old one.
<1> DEFINE Old(i) == IF i < p THEN i ELSE i + (t - p)
<1>9. ASSUME NEW i \in 1..m
      PROVE  /\ Old(i) \in 1..len /\ (i # p => o[i] = r[Old(i)])
             /\ (i < p => Old(i) = i) /\ (i > p => Old(i) > t)
  <2>1. Old(i) \in 1..len /\ (i < p => Old(i) = i) /\ (i > p => Old(i) > t)
    <3>1. CASE i < p
      <4>1. Old(i) = i /\ i \in 1..len
        BY <1>4, <1>7, <3>1 DEF m
      <4> QED
        BY <3>1, <4>1
    <3>2. CASE ~(i < p)
      <4>1. Old(i) = i + (t - p)
        BY <3>2
      <4>2. i + (t - p) \in 1..len /\ (i > p => i + (t - p) > t)
        BY <1>4, <1>7, <3>2 DEF m
      <4> HIDE DEF Old
      <4> QED
        BY <3>2, <4>1, <4>2
    <3> QED
      BY <3>1, <3>2
  <2>2. i # p => o[i] = r[Old(i)]
    <3>1. CASE i < p
      BY <1>8, <3>1
    <3>2. CASE i > p
      BY <1>4, <1>8, <3>2
    <3> QED
      BY <1>4, <1>8, <3>1, <3>2
  <2> QED
    BY <2>1, <2>2
<1>10. \A i, j \in 1..m : i < j => Old(i) < Old(j)
  BY <1>4, <1>7 DEF m
<1>11. \A k \in 1..len : k < p \/ t < k => \E i \in 1..m : i # p /\ Old(i) = k
  <2> SUFFICES ASSUME NEW k \in 1..len, k < p \/ t < k
               PROVE  \E i \in 1..m : i # p /\ Old(i) = k
    OBVIOUS
  <2>1. CASE k < p
    <3>1. k \in 1..m /\ k # p /\ Old(k) = k
      BY <1>8, <2>1
    <3> QED
      BY <3>1
  <2>2. CASE t < k
    <3>1. k - (t - p) \in 1..m /\ k - (t - p) # p /\ Old(k - (t - p)) = k
      BY <1>4, <1>7, <2>2 DEF m
    <3> HIDE DEF Old
    <3> QED
      BY <3>1
  <2> QED
    BY <2>1, <2>2
<1>12. o[p] \notin 1..n
  BY <1>4, <1>8
<1> HIDE DEF Old
<1>13. \A i, j \in 1..m : i < j /\ o[i] \in 1..n /\ o[j] \in 1..n => o[i] < o[j]
  <2> SUFFICES ASSUME NEW i \in 1..m, NEW j \in 1..m, i < j, o[i] \in 1..n, o[j] \in 1..n
               PROVE  o[i] < o[j]
    OBVIOUS
  <2>1. i # p /\ j # p
    BY <1>12
  <2> QED
    BY <1>2, <1>9, <1>10, <2>1
<1>14. \A q \in 1..n : (\E i \in 1..m : o[i] = q)
                         <=> (\E k \in 1..len : (k < p \/ t < k) /\ r[k] = q)
  <2> SUFFICES ASSUME NEW q \in 1..n
               PROVE  (\E i \in 1..m : o[i] = q)
                         <=> (\E k \in 1..len : (k < p \/ t < k) /\ r[k] = q)
    OBVIOUS
  <2>1. ASSUME NEW i \in 1..m, o[i] = q
        PROVE  \E k \in 1..len : (k < p \/ t < k) /\ r[k] = q
    <3>1. i # p
      BY <1>12, <2>1
    <3>2. Old(i) \in 1..len /\ (Old(i) < p \/ t < Old(i)) /\ r[Old(i)] = q
      BY <1>9, <2>1, <3>1
    <3> QED
      BY <3>2
  <2>2. ASSUME NEW k \in 1..len, k < p \/ t < k, r[k] = q
        PROVE  \E i \in 1..m : o[i] = q
    BY <1>9, <1>11, <2>2
  <2> QED
    BY <2>1, <2>2
<1>15. \A q \in 1..n : (\E k \in 1..len : (k < p \/ t < k) /\ r[k] = q)
                         <=> (\E k \in 1..len : r[k] = q) /\ ~(p <= q /\ q <= t)
  <2> SUFFICES ASSUME NEW q \in 1..n
               PROVE  (\E k \in 1..len : (k < p \/ t < k) /\ r[k] = q)
                         <=> (\E k \in 1..len : r[k] = q) /\ ~(p <= q /\ q <= t)
    OBVIOUS
  <2>1. ASSUME NEW k \in 1..len, k < p \/ t < k, r[k] = q
        PROVE  ~(p <= q /\ q <= t)
    <3> SUFFICES ASSUME p <= q, q <= t PROVE FALSE
      OBVIOUS
    <3>1. q \in 1..t /\ q \in 1..len
      BY <1>4, <1>7
    <3>2. clip[q] # 0
      BY <1>2, <2>1
    <3>3. r[q] = q
      BY <1>3, <1>6, <3>1, <3>2
    <3>4. CASE k < p
      <4>1. k \in 1..t /\ k # q
        BY <1>4, <3>4
      <4> QED
        BY <1>6, <2>1, <4>1
    <3>5. CASE t < k
      <4>1. q < k /\ r[q] \in 1..n /\ r[k] \in 1..n
        BY <1>4, <2>1, <3>3, <3>5
      <4>2. r[q] < r[k]
        BY <1>2, <3>1, <4>1
      <4> QED
        BY <2>1, <3>3, <4>2
    <3> QED
      BY <2>1, <3>4, <3>5
  <2>2. ASSUME NEW k \in 1..len, r[k] = q, ~(p <= q /\ q <= t)
        PROVE  k < p \/ t < k
    <3> SUFFICES ASSUME p <= k, k <= t PROVE FALSE
      BY <1>4
    <3>1. k \in 1..t
      BY <1>4
    <3>2. r[k] = k
      BY <1>6, <2>2, <3>1
    <3> QED
      BY <2>2, <3>1, <3>2
  <2> QED
    BY <2>1, <2>2
<1>16. \A q \in 1..n : Clear(p, q) <=> Clear(p + 1, q) /\ ~(p <= q /\ q <= t)
  <2>1. \A e \in E : p <= e.start => e = x \/ p + 1 <= e.start
    BY <1>1, <1>4
  <2>2. \A e \in E : p + 1 <= e.start => p <= e.start
    BY <1>1
  <2> QED
    BY <2>1, <2>2 DEF Clear, t
<1>17. \A q \in 1..n : (\E i \in 1..m : o[i] = q) <=> clip[q] # 0 /\ Clear(p, q)
  BY <1>2, <1>14, <1>15, <1>16
<1>18. \A k \in 1..len : t < k /\ r[k] \in 1..n => t < r[k]
  <2> SUFFICES ASSUME NEW k \in 1..len, t < k, r[k] \in 1..n, r[k] <= t
               PROVE  FALSE
    BY <1>4
  <2>1. (\E c \in 1..len : r[c] = r[k]) /\ ~(p <= r[k] /\ r[k] <= t)
    BY <1>15
  <2>2. r[k] \in 1..t
    OBVIOUS
  <2>3. clip[r[k]] # 0
    BY <1>2, <2>1
  <2>4. r[r[k]] = r[k] /\ r[k] \in 1..len /\ r[k] < k
    BY <1>3, <1>4, <1>6, <1>7, <2>2, <2>3
  <2>5. r[r[k]] < r[k]
    BY <1>2, <2>4
  <2> QED
    BY <2>4, <2>5
<1>19. \A q \in 1..n : p <= q /\ q <= t => Marked(o, x.type, q, n)
  <2> SUFFICES ASSUME NEW q \in 1..n, p <= q, q <= t
               PROVE  Marked(o, x.type, q, n)
    OBVIOUS
  <2>1. p \in 1..m /\ o[p] = x.type
    BY <1>8
  <2>2. ASSUME NEW j \in 1..m, o[j] \in 1..n
        PROVE  o[j] < q <=> j < p
    <3>1. CASE j < p
      <4>1. j \in 1..t /\ o[j] = r[j]
        BY <1>4, <1>8, <3>1
      <4>2. o[j] = j
        BY <1>6, <2>2, <4>1
      <4> QED
        BY <3>1, <4>2
    <3>2. CASE j > p
      <4>1. Old(j) \in 1..len /\ t < Old(j) /\ o[j] = r[Old(j)]
        BY <1>9, <3>2
      <4>2. t < o[j]
        BY <1>18, <2>2, <4>1
      <4> QED
        BY <1>4, <2>2, <3>2, <4>2
    <3>3. j # p
      BY <1>12, <2>2
    <3> QED
      BY <3>1, <3>2, <3>3
  <2> QED
    BY <1>8, <2>1, <2>2 DEF Marked
<1>20. ASSUME NEW e \in E, p + 1 <= e.start, NEW q \in 1..n, e.start <= q, q <= e.end
       PROVE  Marked(o, e.type, q, n)
  <2>1. Marked(r, e.type, q, n)
    BY <1>20 DEF Redacted
  <2>2. PICK k \in 1..len : /\ r[k] = e.type
                            /\ \A j \in 1..len : r[j] \in 1..n => (r[j] < q <=> j < k)
    BY <2>1 DEF Marked, len
  <2>3. r[k] \notin 0..n
    BY <1>1, <2>2
  <2>4. t < k
    BY <1>4, <1>6, <2>3
  <2>5. PICK i \in 1..m : i # p /\ Old(i) = k
    BY <1>11, <2>4
  <2>6. o[i] = e.type
    BY <1>9, <2>2, <2>5
  <2>7. ASSUME NEW j \in 1..m, o[j] \in 1..n
        PROVE  o[j] < q <=> j < i
    <3>1. Old(j) \in 1..len /\ o[j] = r[Old(j)]
      BY <1>9, <1>12, <2>7
    <3>2. o[j] < q <=> Old(j) < Old(i)
      BY <2>2, <2>5, <2>7, <3>1
    <3>3. Old(i) \in Nat /\ Old(j) \in Nat
      BY <1>9
    <3>4. (j < i => Old(j) < Old(i)) /\ (i < j => Old(i) < Old(j))
      BY <1>10
    <3> QED
      BY <3>2, <3>3, <3>4
  <2> QED
    BY <1>8, <2>6, <2>7 DEF Marked
<1>21. ASSUME NEW e \in E, p <= e.start, NEW q \in 1..n, e.start <= q, q <= e.end
       PROVE  Marked(o, e.type, q, n)
  <2>1. CASE e.start = p
    <3>1. e = x
      BY <1>1, <1>4, <2>1
    <3> QED
      BY <1>19, <1>21, <3>1 DEF t
  <2>2. CASE e.start # p
    <3>1. p + 1 <= e.start
      BY <1>1, <1>21, <2>2
    <3> QED
      BY <1>20, <1>21, <3>1
  <2> QED
    BY <2>1, <2>2
<1>22. ASSUME NEW i \in 1..n, \A e \in E : p <= e.start => i < e.start
       PROVE  i <= m /\ o[i] = clip[i]
  <2>1. i < p
    BY <1>22
  <2>2. i \in 1..t /\ i \in 1..m
    BY <1>4, <1>8, <2>1
  <2> QED
    BY <1>6, <1>8, <2>1, <2>2
<1> QED
  BY <1>8, <1>13, <1>17, <1>21, <1>22 DEF Redacted, Filter!Blank, Clear, S, o

\* What redact answers: the text with each of the spans replaced.
LEMMA RedactKeeps ==
    ASSUME NEW n \in Nat, Types \cap (0..n) = {}, NEW clip, IsClip(clip, n), NEW E, IsApart(E, n)
    PROVE  Redacted(clip, n, E, 1, Filter!Redact(clip, E))
<1> DEFINE f == From(clip, E)
           Keeps(p) == Redacted(clip, n, E, p, f[p])
           Bad == {k \in 0..n : ~Keeps(n + 1 - k)}
<1>1. Len(clip) = n
  BY LenProperties, clip \in Seq(0..n) DEF IsClip
<1>2. \A p \in 1..n + 1 : f[p] = IF p > n THEN clip ELSE Replaced(f[p + 1], p, E)
  BY <1>1, FromIs DEF IsFrom
<1>3. Keeps(n + 1)
  <2>1. f[n + 1] = clip
    BY <1>2
  <2> QED
    BY <2>1, NothingReplaced
<1>4. ASSUME NEW p \in 1..n, Keeps(p + 1)
      PROVE  Keeps(p)
  <2>1. f[p] = Replaced(f[p + 1], p, E)
    BY <1>2
  <2>2. CASE \E e \in E : e.start = p
    <3> DEFINE x == CHOOSE e \in E : e.start = p
    <3>1. x \in E /\ x.start = p
      BY <2>2
    <3>2. f[p] = Filter!Splice(f[p + 1], x)
      BY <2>1, <2>2 DEF Replaced
    <3> HIDE DEF x
    <3> QED
      BY <1>4, <3>1, <3>2, OneReplaced
  <2>3. CASE ~\E e \in E : e.start = p
    <3>1. f[p] = f[p + 1]
      BY <2>1, <2>3 DEF Replaced
    <3> QED
      BY <1>4, <2>3, <3>1, NoneReplaced
  <2> QED
    BY <2>2, <2>3
<1> HIDE DEF Keeps
<1>5. Bad = {}
  <2> SUFFICES ASSUME Bad # {} PROVE FALSE
    OBVIOUS
  <2>1. PICK k \in Bad : \A m \in Bad : k <= m
    BY Least, Bad \in SUBSET Nat
  <2>2. k # 0
    BY <1>3, <2>1
  <2>3. k - 1 \in 0..n /\ k - 1 \notin Bad /\ n + 1 - k \in 1..n /\ n + 1 - (k - 1) = (n + 1 - k) + 1
    BY <2>1, <2>2
  <2> QED
    BY <1>4, <2>1, <2>3
<1>6. Keeps(1)
  <2>1. n \in 0..n /\ n + 1 - n = 1
    OBVIOUS
  <2> QED
    BY <1>5, <2>1
<1> QED
  BY <1>6, RedactIs DEF Keeps

\* What is read of a text is a text.
LEMMA ClipIs ==
    ASSUME NEW text \in Filter!Texts
    PROVE  \E n \in 0..Clip : IsClip(Filter!ClipOf(text), n)
<1>1. Clip \in Nat
  BY ConstantsAssumption
<1>2. PICK k \in 1..Clip + 1 :
         \E B \in SUBSET (1..k) : text = [i \in 1..k |-> IF i \in B THEN Filter!Blank ELSE i]
  BY DEF Filter!Texts
<1> DEFINE n == IF Len(text) > Clip THEN Clip ELSE Len(text)
<1>3. k \in Nat /\ \A i \in 1..k : text[i] = 0 \/ text[i] = i
  BY <1>1, <1>2 DEF Filter!Blank
<1>4. text \in Seq(0..k) /\ Len(text) = k
  <2>1. text \in [1..k -> 0..k]
    BY <1>2, <1>3 DEF Filter!Blank
  <2>2. text \in Seq(0..k)
    BY <1>3, <2>1
  <2> QED
    BY <1>3, <2>1, <2>2, LenProperties
<1>5. n \in 0..Clip /\ n \in Nat /\ n <= k
  BY <1>1, <1>3, <1>4
<1>6. Filter!ClipOf(text) = SubSeq(text, 1, n)
  BY DEF Filter!ClipOf
<1> HIDE DEF n
<1> DEFINE c == SubSeq(text, 1, n)
<1>7. c \in Seq(0..n) /\ Len(c) = n /\ \A i \in 1..n : c[i] = text[i]
  <2>1. 1 \in Int /\ n \in Int /\ \A i \in 1..n : text[i] \in 0..n
    BY <1>3, <1>5
  <2>2. /\ c \in Seq(0..n)
        /\ Len(c) = IF 1 <= n THEN n - 1 + 1 ELSE 0
        /\ \A i \in 1..n - 1 + 1 : c[i] = text[1 + i - 1]
    BY <2>1, SubSeqProperties
  <2> QED
    BY <1>5, <2>2
<1> HIDE DEF c
<1>8. c \in [1..n -> 0..n]
  BY <1>7, LenProperties
<1>9. IsClip(c, n)
  BY <1>3, <1>5, <1>7, <1>8 DEF IsClip, Filter!Blank
<1> QED
  BY <1>5, <1>6, <1>9 DEF c

\* RedactsWhatIsLabelled, of any reply
PlaceOf(r, q, i) == \A j \in DOMAIN r : r[j] \in 1..Clip => (r[j] < q <=> j < i)
RightAnswer(text, labelled, r) ==
    /\ Filter!Letters(r) = Filter!Letters(text) \ {l[1] : l \in labelled}
    /\ \A i \in DOMAIN r : r[i] \in 1..Clip => PlaceOf(r, r[i], i)
    /\ \A l \in labelled : \E i \in DOMAIN r : r[i] = l[2] /\ PlaceOf(r, l[1], i)

\* The answer to any text, with any tokens and any labels
LEMMA AnswerRedacts ==
    ASSUME NEW text \in Filter!Texts, NEW ends \in Filter!Tokenizations(Filter!ClipOf(text)),
           NEW labels \in [DOMAIN ends -> Filter!Label]
    PROVE  LET clip == Filter!ClipOf(text)
           IN  RightAnswer(clip, Filter!Labelled(clip, ends, labels),
                               Filter!Redact(clip, Filter!Infer(clip, ends, labels)))
<1> DEFINE clip == Filter!ClipOf(text)
           E == Filter!Infer(clip, ends, labels)
           L == Filter!Labelled(clip, ends, labels)
           r == Filter!Redact(clip, E)
<1>1. PICK n \in 0..Clip : IsClip(clip, n)
  BY ClipIs
<1>2. Clip \in Nat /\ n \in Nat /\ n <= Clip /\ Types \cap (0..n) = {} /\ Types \cap (0..Clip) = {}
  BY <1>1, ConstantsAssumption
<1> HIDE DEF clip
<1>3. /\ IsApart(E, n)
      /\ \A q \in 1..n, t \in Types : <<q, t>> \in L <=> clip[q] # 0 /\ Covers(E, q, t)
  BY <1>1, <1>2, InferCovers DEF clip, Filter!Blank
<1>4. \A l \in L : l = <<l[1], l[2]>> /\ l[1] \in 1..n /\ l[2] \in Types
  <2>1. DOMAIN clip = 1..n
    BY <1>1 DEF IsClip
  <2>2. \A l \in L : l \in (1..n) \X Types
    BY <2>1 DEF Filter!Labelled
  <2> QED
    BY <2>2
<1> HIDE DEF E
<1>5. Redacted(clip, n, E, 1, r)
  BY <1>1, <1>2, <1>3, RedactKeeps
<1> HIDE DEF L, r
<1> DEFINE gone == {l[1] : l \in L}
<1>6. \A e \in E : e.start \in 1..n /\ e.type \in Types
  BY <1>3 DEF IsApart
<1>7. \A q \in 1..n : q \in gone <=> clip[q] # 0 /\ \E e \in E : e.start <= q /\ q <= e.end
  <2> SUFFICES ASSUME NEW q \in 1..n
               PROVE  q \in gone <=> clip[q] # 0 /\ \E e \in E : e.start <= q /\ q <= e.end
    OBVIOUS
  <2>1. ASSUME NEW l \in L, q = l[1]
        PROVE  clip[q] # 0 /\ \E e \in E : e.start <= q /\ q <= e.end
    <3>1. l[2] \in Types /\ <<q, l[2]>> \in L
      BY <1>4, <2>1
    <3> QED
      BY <1>3, <3>1 DEF Covers
  <2>2. ASSUME clip[q] # 0, NEW e \in E, e.start <= q, q <= e.end
        PROVE  \E l \in L : q = l[1]
    <3>1. e.type \in Types /\ Covers(E, q, e.type)
      BY <1>6, <2>2 DEF Covers
    <3>2. <<q, e.type>> \in L
      BY <1>3, <2>2, <3>1
    <3>3. <<q, e.type>>[1] = q
      OBVIOUS
    <3> QED
      BY <3>2, <3>3
  <2> QED
    BY <2>1, <2>2
<1> HIDE DEF gone
<1>8. /\ r \in Seq((0..n) \cup Types)
      /\ \A q \in 1..n : (\E i \in 1..Len(r) : r[i] = q) <=> clip[q] # 0 /\ q \notin gone
      /\ \A i, j \in 1..Len(r) : i < j /\ r[i] \in 1..n /\ r[j] \in 1..n => r[i] < r[j]
      /\ \A e \in E : \A q \in 1..n : e.start <= q /\ q <= e.end => Marked(r, e.type, q, n)
  BY <1>5, <1>6, <1>7 DEF Redacted, Filter!Blank
<1>9. DOMAIN r = 1..Len(r) /\ \A i \in 1..Len(r) : r[i] \in (0..n) \cup Types
  BY <1>8, LenProperties, ElementOfSeq
<1>10. \A i \in 1..Len(r) : r[i] \in 1..Clip <=> r[i] \in 1..n
  BY <1>2, <1>9
<1>11. DOMAIN clip = 1..n /\ \A i \in 1..n : clip[i] \in 0..n /\ (clip[i] = 0 \/ clip[i] = i)
  BY <1>1 DEF IsClip, Filter!Blank
<1>12. Filter!Letters(clip) = {q \in 1..n : clip[q] # 0}
  BY <1>2, <1>11 DEF Filter!Letters
<1>13. Filter!Letters(r) = {q \in 1..n : \E i \in 1..Len(r) : r[i] = q}
  BY <1>2, <1>9, <1>10 DEF Filter!Letters
<1>14. Filter!Letters(r) = Filter!Letters(clip) \ gone
  BY <1>8, <1>12, <1>13
<1>15. \A i \in DOMAIN r : r[i] \in 1..Clip => PlaceOf(r, r[i], i)
  <2> SUFFICES ASSUME NEW i \in 1..Len(r), r[i] \in 1..n, NEW j \in 1..Len(r), r[j] \in 1..n
               PROVE  r[j] < r[i] <=> j < i
    BY <1>9, <1>10 DEF PlaceOf
  <2>1. i \in Nat /\ j \in Nat
    BY <1>8, LenProperties
  <2>2. (j < i => r[j] < r[i]) /\ (i < j => r[i] < r[j])
    BY <1>8
  <2> QED
    BY <2>1, <2>2
<1>16. ASSUME NEW l \in L
       PROVE  \E i \in DOMAIN r : r[i] = l[2] /\ PlaceOf(r, l[1], i)
  <2>1. l[1] \in 1..n /\ l[2] \in Types /\ Covers(E, l[1], l[2])
    BY <1>3, <1>4
  <2>2. Marked(r, l[2], l[1], n)
    BY <1>8, <2>1 DEF Covers
  <2> QED
    BY <1>9, <1>10, <2>2 DEF Marked, PlaceOf
<1>17. RightAnswer(clip, L, r)
  BY <1>14, <1>15, <1>16 DEF RightAnswer, gone
<1> QED
  BY <1>17 DEF clip, E, L, r

\* The property is that of the reply.
LEMMA RedactsWhatIsLabelledIs ==
    /\ Filter!RedactsWhatIsLabelled <=> RightAnswer(reply.text, reply.labelled, reply.redacted)
    /\ Filter!RedactsWhatIsLabelled'
         <=> RightAnswer(reply'.text, reply'.labelled, reply'.redacted)
  BY DEF Filter!RedactsWhatIsLabelled, RightAnswer, Filter!Letters, Filter!InPlace, PlaceOf

\* Nothing was asked, and nothing answered.
LEMMA NoReplyRedacts ==
    RightAnswer(Filter!NoReply.text, Filter!NoReply.labelled, Filter!NoReply.redacted)
<1>1. /\ Filter!NoReply.text = <<>> /\ Filter!NoReply.labelled = {}
      /\ Filter!NoReply.redacted = <<>>
  BY DEF Filter!NoReply
<1>2. DOMAIN <<>> = {}
  OBVIOUS
<1>3. RightAnswer(<<>>, {}, <<>>)
  BY <1>2 DEF RightAnswer, Filter!Letters
<1> QED
  BY <1>1, <1>3

\* What is answered, as one record
AnswerTo(text, ends, labels) ==
    [text |-> Filter!ClipOf(text),
     labelled |-> Filter!Labelled(Filter!ClipOf(text), ends, labels),
     redacted |-> Filter!Redact(Filter!ClipOf(text), Filter!Infer(Filter!ClipOf(text), ends, labels))]

\* No step but an answer changes the reply to one that redacts anything.
LEMMA FilterReplies ==
    ASSUME Filter!RedactsWhatIsLabelled, [Filter!Next]_Filter!filterVars
    PROVE  Filter!RedactsWhatIsLabelled'
<1>1. CASE Filter!Answer
  <2>1. PICK text \in Filter!Texts :
          \E ends \in Filter!Tokenizations(Filter!ClipOf(text)) :
            \E labels \in [DOMAIN ends -> Filter!Label] : reply' = AnswerTo(text, ends, labels)
    BY <1>1 DEF Filter!Answer, AnswerTo
  <2>2. PICK ends \in Filter!Tokenizations(Filter!ClipOf(text)) :
          \E labels \in [DOMAIN ends -> Filter!Label] : reply' = AnswerTo(text, ends, labels)
    BY <2>1
  <2>3. PICK labels \in [DOMAIN ends -> Filter!Label] : reply' = AnswerTo(text, ends, labels)
    BY <2>2
  <2>4. /\ reply'.text = Filter!ClipOf(text)
        /\ reply'.labelled = Filter!Labelled(Filter!ClipOf(text), ends, labels)
        /\ reply'.redacted = Filter!Redact(Filter!ClipOf(text),
                                           Filter!Infer(Filter!ClipOf(text), ends, labels))
    BY <2>3 DEF AnswerTo
  <2>5. RightAnswer(reply'.text, reply'.labelled, reply'.redacted)
    BY <2>4, AnswerRedacts
  <2> QED
    BY <2>5, RedactsWhatIsLabelledIs
<1>2. CASE Filter!Answered
  <2>1. reply' = Filter!NoReply
    BY <1>2 DEF Filter!Answered
  <2> QED
    BY <2>1, NoReplyRedacts, RedactsWhatIsLabelledIs
<1>3. ASSUME reply' = reply PROVE Filter!RedactsWhatIsLabelled'
  BY <1>3, RedactsWhatIsLabelledIs
<1>4. CASE Filter!Load \/ Filter!Restart \/ Filter!Network \/ UNCHANGED Filter!filterVars
  <2>1. reply' = reply
    BY <1>4 DEF Filter!Load, Filter!Restart, Filter!Network, Filter!filterVars, Filter!Cached,
                Filter!Downloaded, Filter!Refused, Filter!CutOff, Filter!CreateSession
  <2> QED
    BY <1>3, <2>1
<1> QED
  BY <1>1, <1>2, <1>4 DEF Filter!Next
------------------------------------------------------------------------------
\* The privacy filter: the load of the model

\* Once the model was ready, the volume holds every file that the site has.
FilterInv ==
    /\ Filter!TypeOK /\ Filter!RunsOffline
    /\ served => \A f \in Filter!Downloads : Filter!Upstream(f) => cache[f] = "whole"

LEMMA FilterInit == Filter!Init => FilterInv
<1> SUFFICES ASSUME Filter!Init PROVE FilterInv
  OBVIOUS
<1>1. /\ cache \in [Filter!Downloads -> {"absent", "part", "whole"}]
      /\ loadState = "loading" /\ runs \in BOOLEAN /\ online \in BOOLEAN /\ served = FALSE
  BY DEF Filter!Init
<1>2. step \in Filter!Downloads /\ restarts \in 0..MaxRestarts
  BY ConstantsAssumption DEF Filter!Init, Filter!Downloads
<1> QED
  BY <1>1, <1>2 DEF FilterInv, Filter!TypeOK, Filter!RunsOffline

\* The steps of the load: a file that the site has is never missing once the model was ready, so
\* that no failure of a download ends a load.
LEMMA FilterFiles ==
    ASSUME FilterInv, NEW f \in Filter!Downloads,
           Filter!Cached(f) \/ Filter!Downloaded(f) \/ Filter!Refused(f) \/ Filter!CutOff(f)
    PROVE  FilterInv'
<1>1. /\ Filter!TypeOK /\ f \in Nat /\ Chunks \in Nat
      /\ served => loadState # "error" /\ (Filter!Upstream(f) => cache[f] = "whole")
      /\ served => \A g \in Filter!Downloads : Filter!Upstream(g) => cache[g] = "whole"
  BY ConstantsAssumption DEF FilterInv, Filter!Downloads, Filter!RunsOffline
<1>2. f + 1 \in Filter!Downloads \cup {Filter!Session} /\ 5 \in Filter!Downloads
  BY DEF Filter!Downloads, Filter!Session
<1>3. UNCHANGED <<runs, online, restarts, served>>
  BY DEF Filter!Cached, Filter!Downloaded, Filter!Refused, Filter!CutOff
<1>4. /\ cache' \in [Filter!Downloads -> {"absent", "part", "whole"}]
      /\ step' \in Filter!Downloads \cup {Filter!Session}
      /\ loadState' \in {"loading", "ready", "error", "cpu-unsupported"}
  BY <1>1, <1>2 DEF Filter!TypeOK, Filter!Cached, Filter!Downloaded, Filter!Refused, Filter!CutOff,
                    Filter!Fails
<1>5. Filter!TypeOK'
  BY <1>1, <1>3, <1>4 DEF Filter!TypeOK
<1>6. ASSUME served PROVE loadState' # "error" /\ cache' = cache
  <2>1. CASE Filter!Cached(f)
    BY <1>1, <1>6, <2>1 DEF Filter!Cached, Filter!Upstream
  <2>2. CASE Filter!Downloaded(f) \/ Filter!CutOff(f)
    BY <1>1, <1>6, <2>2 DEF Filter!Downloaded, Filter!CutOff
  <2>3. CASE Filter!Refused(f)
    <3>1. cache[f] = "absent" /\ cache' = cache /\ loadState' \in {loadState, "error"}
          /\ (loadState' = "error" => loadState = "error" \/ ~Filter!Optional(f))
      BY <2>3 DEF Filter!Refused, Filter!Fails
    <3>2. Filter!Optional(f)
      BY <1>1, <1>6, <3>1 DEF Filter!Upstream, Filter!Optional
    <3> QED
      BY <1>1, <1>6, <3>1, <3>2
  <2> QED
    BY <2>1, <2>2, <2>3
<1> QED
  BY <1>1, <1>3, <1>5, <1>6 DEF FilterInv, Filter!RunsOffline, Filter!Upstream, Filter!Downloads

LEMMA FilterSession ==
    ASSUME FilterInv, Filter!CreateSession
    PROVE  FilterInv'
<1>1. /\ Filter!TypeOK /\ Filter!RunsOffline
      /\ served => \A f \in Filter!Downloads : Filter!Upstream(f) => cache[f] = "whole"
      /\ UNCHANGED <<cache, step, runs, online, restarts>>
      /\ served' = (served \/ loadState' = "ready")
      /\ loadState' = IF \E f \in Filter!Downloads : Filter!Upstream(f) /\ cache[f] # "whole" THEN "error"
                      ELSE IF runs THEN "ready" ELSE "cpu-unsupported"
  BY DEF FilterInv, Filter!CreateSession
<1>2. Filter!TypeOK'
  BY <1>1 DEF Filter!TypeOK
<1>3. served' => \A f \in Filter!Downloads : Filter!Upstream(f) => cache[f] = "whole"
  BY <1>1
<1>4. served' => loadState' # "error"
  BY <1>1, <1>3
<1> QED
  BY <1>1, <1>2, <1>3, <1>4 DEF FilterInv, Filter!RunsOffline, Filter!Upstream, Filter!Downloads

\* Nothing else touches the volume, and a restart loads again.
LEMMA FilterRest ==
    ASSUME FilterInv,
           \/ Filter!Answer \/ Filter!Answered \/ Filter!Restart \/ Filter!Network
           \/ UNCHANGED Filter!filterVars
    PROVE  FilterInv'
<1>1. /\ UNCHANGED <<cache, runs, served>> /\ online' \in BOOLEAN
      /\ <<loadState', step'>> \in {<<loadState, step>>, <<"loading", 1>>}
      /\ restarts' = restarts \/ (restarts < MaxRestarts /\ restarts' = restarts + 1)
  BY DEF FilterInv, Filter!TypeOK, Filter!Answer, Filter!Answered, Filter!Restart, Filter!Network,
         Filter!filterVars
<1>2. /\ Filter!TypeOK /\ Filter!RunsOffline
      /\ served => \A f \in Filter!Downloads : Filter!Upstream(f) => cache[f] = "whole"
  BY DEF FilterInv
<1>3. restarts' \in 0..MaxRestarts
  BY <1>1, <1>2, ConstantsAssumption DEF Filter!TypeOK
<1>4. Filter!TypeOK' /\ Filter!RunsOffline'
  BY <1>1, <1>2, <1>3 DEF Filter!TypeOK, Filter!RunsOffline, Filter!Downloads
<1> QED
  BY <1>1, <1>2, <1>4 DEF FilterInv, Filter!Upstream, Filter!Downloads

LEMMA FilterNext == FilterInv /\ Filter!Next => FilterInv'
  BY FilterFiles, FilterSession, FilterRest DEF Filter!Next, Filter!Load

LEMMA FilterStays == FilterInv /\ UNCHANGED Filter!filterVars => FilterInv'
  BY FilterRest
------------------------------------------------------------------------------
\* The reachability analyser

\* The symbols used that are filed under the package itself.
Used == {m \in {"bad", "fine"} : <<"pkg", m>> \in members}

\* What the files hold, that were read and could be read.
Gathered ==
    \A f \in Reach!Present \ left :
       project[f].is # "unreadable" => /\ Reach!FileBindings(project[f]) \subseteq bindings
                                       /\ Reach!FileMembers(project[f]) \subseteq members

ReachInv ==
    /\ Reach!TypeOK
    /\ \A f \in SourceFiles : \A i \in DOMAIN project[f].code :
          i \in Nat /\ project[f].code[i] \in Reach!Statement
    /\ left \subseteq Reach!Present /\ Gathered
    /\ verdict # "none" => left = {} /\ verdict = Reach!Judge(bindings, Used)

\* What is gathered from a file of statements is of the right kind.
LEMMA FileTypes ==
    ASSUME NEW file, \A i \in DOMAIN file.code : file.code[i] \in Reach!Statement
    PROVE  /\ Reach!FileBindings(file) \subseteq {Reach!Local, "*"}
           /\ Reach!FileMembers(file) \subseteq Reach!Paths \X {"bad", "fine"}
<1>1. Reach!FileBindings(file) \subseteq {Reach!Local, "*"}
  BY DEF Reach!FileBindings
<1>2. \A b \in Reach!BindsLocal(file) : file.code[b].of \in Reach!Paths
  BY DEF Reach!BindsLocal, Reach!Statement
<1>3. \A u \in DOMAIN file.code : file.code[u].do = "use" => file.code[u].of \in {"bad", "fine"}
  BY DEF Reach!Statement
<1>4. \A m \in Reach!FileMembers(file) : m \in Reach!Paths \X {"bad", "fine"}
  BY <1>2, <1>3 DEF Reach!FileMembers
<1> QED
  BY <1>1, <1>4

\* An import of the package leaves its mark among the bindings.
LEMMA ImportIsBound ==
    ASSUME NEW file, NEW i \in DOMAIN file.code,
           file.code[i].do # "use", Reach!Base(file.code[i].of) = "pkg"
    PROVE  /\ Reach!FileBindings(file) # {}
           /\ ~(file.is = "parsed" /\ file.code[i].do = "bind") => "*" \in Reach!FileBindings(file)
  BY DEF Reach!FileBindings

\* A use after the only binding is filed under what the name is bound to.
LEMMA UseIsFiled ==
    ASSUME NEW file, NEW b \in DOMAIN file.code, NEW u \in DOMAIN file.code, b \in Nat,
           Reach!BindsLocal(file) = {b}, b < u, file.is = "parsed", file.code[u].do = "use"
    PROVE  <<file.code[b].of, file.code[u].of>> \in Reach!FileMembers(file)
<1>1. b \in {x \in Reach!BindsLocal(file) : \A c \in Reach!BindsLocal(file) : c <= x}
  OBVIOUS
<1>2. u \in {x \in DOMAIN file.code : /\ file.is = "parsed" /\ file.code[x].do = "use"
                                     /\ \E c \in Reach!BindsLocal(file) : c < x}
  OBVIOUS
<1> QED
  BY <1>1, <1>2 DEF Reach!FileMembers

LEMMA ReachInit == Reach!Init => ReachInv
<1> SUFFICES ASSUME Reach!Init PROVE ReachInv
  OBVIOUS
<1>1. /\ project \in [SourceFiles -> Reach!File] /\ named \in SUBSET {"bad"}
      /\ left = Reach!Present /\ bindings = {} /\ members = {} /\ verdict = "none"
  BY DEF Reach!Init
<1>2. ASSUME NEW f \in SourceFiles, NEW i \in DOMAIN project[f].code
      PROVE  i \in Nat /\ project[f].code[i] \in Reach!Statement
  <2>1. project[f] \in Reach!File
    BY <1>1
  <2>2. CASE project[f].code = <<>>
    BY <1>2, <2>2
  <2>3. CASE project[f].code \in Reach!SeqOf(Reach!Statement, MaxStatements)
    <3>1. PICK m \in 0..MaxStatements : project[f].code \in [1..m -> Reach!Statement]
      BY <2>3 DEF Reach!SeqOf
    <3> QED
      BY <1>2, <3>1
  <2> QED
    BY <2>1, <2>2, <2>3 DEF Reach!File
<1>3. Reach!TypeOK
  BY <1>1 DEF Reach!TypeOK, Reach!Present
<1> QED
  BY <1>1, <1>2, <1>3 DEF ReachInv, Gathered

LEMMA ReachRead ==
    ASSUME ReachInv, NEW f \in SourceFiles, Reach!Read(f)
    PROVE  ReachInv'
<1>1. /\ f \in left /\ left' = left \ {f} /\ UNCHANGED <<project, named, verdict>>
      /\ IF project[f].is = "unreadable" THEN UNCHANGED <<bindings, members>>
         ELSE /\ bindings' = bindings \cup Reach!FileBindings(project[f])
              /\ members' = members \cup Reach!FileMembers(project[f])
  BY DEF Reach!Read
<1>2. /\ Reach!TypeOK /\ left \subseteq Reach!Present /\ Gathered /\ verdict = "none"
      /\ \A g \in SourceFiles : \A i \in DOMAIN project[g].code : project[g].code[i] \in Reach!Statement
  BY <1>1 DEF ReachInv
<1>3. Reach!TypeOK'
  BY <1>1, <1>2, FileTypes DEF Reach!TypeOK
<1>4. Reach!Present' = Reach!Present
  BY <1>1 DEF Reach!Present
<1>5. /\ bindings \subseteq bindings' /\ members \subseteq members'
      /\ project[f].is # "unreadable" => /\ Reach!FileBindings(project[f]) \subseteq bindings'
                                         /\ Reach!FileMembers(project[f]) \subseteq members'
  BY <1>1
<1>6. \A g \in Reach!Present \ left' :
         project[g].is # "unreadable" => /\ Reach!FileBindings(project[g]) \subseteq bindings'
                                         /\ Reach!FileMembers(project[g]) \subseteq members'
  BY <1>1, <1>2, <1>5 DEF Gathered
<1>7. Gathered'
  BY <1>1, <1>4, <1>6 DEF Gathered, Reach!FileBindings, Reach!FileMembers, Reach!BindsLocal
<1> QED
  BY <1>1, <1>2, <1>3, <1>4, <1>7 DEF ReachInv

LEMMA ReachStays == ReachInv /\ UNCHANGED Reach!reachVars => ReachInv'
<1> SUFFICES ASSUME ReachInv, UNCHANGED <<project, named, left, bindings, members, verdict>>
             PROVE  ReachInv'
  BY DEF Reach!reachVars
<1>1. Reach!TypeOK' /\ Reach!Present' = Reach!Present /\ Used' = Used
  BY DEF ReachInv, Reach!TypeOK, Reach!Present, Used
<1>2. Gathered'
  BY <1>1 DEF ReachInv, Gathered, Reach!FileBindings, Reach!FileMembers, Reach!BindsLocal
<1>3. Reach!Judge(bindings, Used)' = Reach!Judge(bindings, Used)
  BY <1>1 DEF Reach!Judge
<1> QED
  BY <1>1, <1>2, <1>3 DEF ReachInv

LEMMA ReachReport == ReachInv /\ Reach!Report => ReachInv'
<1> SUFFICES ASSUME ReachInv, Reach!Report PROVE ReachInv'
  OBVIOUS
<1>1. /\ left = {} /\ UNCHANGED <<project, named, left, bindings, members>>
      /\ verdict' = Reach!Judge(bindings, Used)
  BY DEF Reach!Report, Used
<1>2. Reach!TypeOK'
  BY <1>1 DEF ReachInv, Reach!TypeOK, Reach!Judge
<1>3. Gathered' /\ Reach!Present' = Reach!Present
  BY <1>1 DEF ReachInv, Gathered, Reach!Present, Reach!FileBindings, Reach!FileMembers, Reach!BindsLocal
<1>4. Reach!Judge(bindings, Used)' = Reach!Judge(bindings, Used)
  BY <1>1, <1>3 DEF Reach!Judge, Used
<1> QED
  BY <1>1, <1>2, <1>3, <1>4 DEF ReachInv

LEMMA ReachNext == ReachInv /\ Reach!Next => ReachInv'
  BY ReachRead, ReachReport DEF Reach!Next

\* What was gathered decides on the verdict, so that the marks of one file suffice.
LEMMA ReachSound == ReachInv => Reach!UsesAreFound /\ Reach!UnsureIsNotExonerated
<1> SUFFICES ASSUME ReachInv PROVE Reach!UsesAreFound /\ Reach!UnsureIsNotExonerated
  OBVIOUS
<1>1. ASSUME NEW f \in SourceFiles, verdict # "none", project[f].is \in {"parsed", "choked"}
      PROVE  /\ f \in Reach!Present /\ verdict = Reach!Judge(bindings, Used)
             /\ Reach!FileBindings(project[f]) \subseteq bindings
             /\ Reach!FileMembers(project[f]) \subseteq members
  BY <1>1 DEF ReachInv, Gathered, Reach!Present
<1>2. ASSUME NEW f \in SourceFiles, verdict # "none", project[f].is = "parsed", named # {},
             NEW b \in DOMAIN project[f].code, NEW u \in DOMAIN project[f].code,
             b < u, Reach!BindsLocal(project[f]) = {b},
             project[f].code[b].of = "pkg", project[f].code[u] = [do |-> "use", of |-> "bad"]
      PROVE  verdict = "Reachable"
  <2>1. project[f].code[b].do = "bind" /\ Reach!Base("pkg") = "pkg"
    BY <1>2 DEF Reach!BindsLocal, Reach!Base
  <2>2. bindings # {}
    BY <1>1, <1>2, <2>1, ImportIsBound
  <2>3. b \in Nat /\ project[f].code[u].do = "use" /\ project[f].code[u].of = "bad"
    BY <1>2 DEF ReachInv
  <2>4. <<"pkg", "bad">> \in members
    BY <1>1, <1>2, <2>3, UseIsFiled
  <2>5. "bad" \in Used /\ named = {"bad"}
    BY <1>2, <2>4 DEF Used, ReachInv, Reach!TypeOK
  <2> QED
    BY <1>1, <1>2, <2>2, <2>5 DEF Reach!Judge
<1>3. ASSUME verdict = "NotReachable", NEW f \in SourceFiles,
             project[f].is \in {"parsed", "choked"}, NEW i \in DOMAIN project[f].code,
             project[f].code[i].do # "use", Reach!Base(project[f].code[i].of) = "pkg"
      PROVE  project[f].is = "parsed" /\ project[f].code[i].do = "bind"
  <2> SUFFICES ASSUME ~(project[f].is = "parsed" /\ project[f].code[i].do = "bind") PROVE FALSE
    OBVIOUS
  <2>1. "*" \in bindings
    BY <1>1, <1>3, ImportIsBound
  <2> QED
    BY <1>1, <1>3, <2>1 DEF Reach!Judge
<1>4. ASSUME NEW f \in SourceFiles, NEW i \in DOMAIN project[f].code, project[f].code[i].do = "pick"
      PROVE  Reach!Base(project[f].code[i].of) = "pkg"
  <2>1. project[f].code[i] \in Reach!Statement
    BY DEF ReachInv
  <2> QED
    BY <1>4, <2>1 DEF Reach!Statement, Reach!Base
<1>5. Reach!UsesAreFound
  BY <1>2 DEF Reach!UsesAreFound
<1>6. Reach!UnsureIsNotExonerated
  BY <1>3, <1>4 DEF Reach!UnsureIsNotExonerated, Reach!Imports
<1> QED
  BY <1>5, <1>6
------------------------------------------------------------------------------
\* The extension scanner

\* While the program runs there is no answer, and what was printed tells how it can have ended.
ScannerInv ==
    /\ Scanner!TypeOK /\ Scanner!HonestAnswer
    /\ \A s \in Scans : /\ answer[s] # Scanner!NoAnswer => child[s].at = "idle"
                        /\ child[s].at = "unstarted" => child[s].printed = "nothing"
                        /\ child[s].at = "ok" => child[s].printed = "report"

Answers == [code : {0, 200, 400, 502}, body : Scanner!Reports \cup {"none", "invalid id", "scan failed"}]

Whole(r) == [code |-> 200, body |-> r]
BadId == [code |-> 400, body |-> "invalid id"]

\* The answers the sidecar gives, and what they say.
LEMMA TheAnswers ==
    /\ \A r \in Scanner!Reports : Whole(r) \in Answers /\ Whole(r).code = 200 /\ Whole(r).body = r
    /\ BadId \in Answers /\ BadId.code = 400
    /\ Scanner!Failed \in Answers /\ Scanner!Failed.code = 502
    /\ Scanner!NoAnswer \in Answers /\ Scanner!NoAnswer.code = 0
<1>1. \A r \in Scanner!Reports : Whole(r) \in Answers
  BY DEF Answers, Whole
<1>2. \A r \in Scanner!Reports : Whole(r).code = 200 /\ Whole(r).body = r
  BY DEF Whole
<1>3. BadId \in Answers /\ Scanner!Failed \in Answers /\ Scanner!NoAnswer \in Answers
  BY DEF Answers, BadId, Scanner!Failed, Scanner!NoAnswer
<1>4. BadId.code = 400 /\ Scanner!Failed.code = 502 /\ Scanner!NoAnswer.code = 0
  BY DEF BadId, Scanner!Failed, Scanner!NoAnswer
<1> QED
  BY <1>1, <1>2, <1>3, <1>4

\* One request, its program c and its answer a: what the invariant says of it.
Honest(c, a) ==
    /\ c \in Scanner!Child /\ a \in Answers
    /\ a.code = 200 => c.printed = "report" /\ a.body = c.report
    /\ a.code = 502 => c.printed # "report"
    /\ a # Scanner!NoAnswer => c.at = "idle"
    /\ c.at = "unstarted" => c.printed = "nothing"
    /\ c.at = "ok" => c.printed = "report"

LEMMA ScannerTypes ==
    Scanner!TypeOK <=> child \in [Scans -> Scanner!Child] /\ answer \in [Scans -> Answers]
  BY DEF Scanner!TypeOK, Answers

LEMMA ScannerTypesNext ==
    Scanner!TypeOK' <=> child' \in [Scans -> Scanner!Child] /\ answer' \in [Scans -> Answers]
  BY DEF Scanner!TypeOK, Answers

\* The requests have nothing to do with each other.
LEMMA ScannerOne ==
    ASSUME ScannerInv, NEW s \in Scans, NEW c, NEW a, Honest(c, a),
           child' = [child EXCEPT ![s] = c], answer' = [answer EXCEPT ![s] = a]
    PROVE  ScannerInv'
<1>1. child \in [Scans -> Scanner!Child] /\ answer \in [Scans -> Answers]
  BY ScannerTypes DEF ScannerInv
<1>2. c \in Scanner!Child /\ a \in Answers
  BY DEF Honest
<1>3. child' \in [Scans -> Scanner!Child] /\ answer' \in [Scans -> Answers]
  BY <1>1, <1>2
<1>4. \A x \in Scans : Honest(child[x], answer[x])
  BY <1>1 DEF ScannerInv, Honest, Scanner!HonestAnswer
<1>5. \A x \in Scans : /\ child'[x] = IF x = s THEN c ELSE child[x]
                       /\ answer'[x] = IF x = s THEN a ELSE answer[x]
  BY <1>1
<1>6. \A x \in Scans : Honest(child'[x], answer'[x])
  BY <1>4, <1>5
<1>7. Scanner!TypeOK'
  BY <1>3, ScannerTypesNext
<1> QED
  BY <1>6, <1>7 DEF ScannerInv, Honest, Scanner!HonestAnswer

LEMMA ScannerInit == Scanner!Init => ScannerInv
<1> SUFFICES ASSUME Scanner!Init PROVE ScannerInv
  OBVIOUS
<1>1. /\ Scanner!NoChild \in Scanner!Child /\ Scanner!NoChild.at = "idle"
  BY DEF Scanner!NoChild, Scanner!Child, Scanner!Printed, Scanner!Reports
<1>2. Scanner!TypeOK
  BY <1>1, ScannerTypes, TheAnswers DEF Scanner!Init
<1> QED
  BY <1>1, <1>2, TheAnswers DEF Scanner!Init, ScannerInv, Scanner!HonestAnswer

\* What the program printed decides on the answer.
LEMMA ScannerAnswer ==
    ASSUME NEW c, NEW a, Honest(c, a), c.at \notin {"idle", "running"}
    PROVE  Honest([c EXCEPT !.at = "idle"], Scanner!RunScan(c))
<1> DEFINE i == [c EXCEPT !.at = "idle"]
<1>1. /\ c.at \in {"ok", "nonzero", "killed", "unstarted"} /\ c.report \in Scanner!Reports
      /\ i \in Scanner!Child /\ i.at = "idle" /\ i.printed = c.printed /\ i.report = c.report
  BY DEF Honest, Scanner!Child
<1>2. /\ c.at = "unstarted" => c.printed = "nothing"
      /\ c.at = "ok" => c.printed = "report"
  BY DEF Honest
<1> HIDE DEF i
<1>3. CASE c.printed = "report"
  <2>1. Scanner!RunScan(c) = Whole(c.report)
    BY <1>1, <1>2, <1>3 DEF Scanner!RunScan, Scanner!ExtractJson, Whole
  <2>2. Honest(i, Whole(c.report))
    BY <1>1, <1>3, TheAnswers DEF Honest
  <2> QED
    BY <2>1, <2>2 DEF i
<1>4. CASE c.printed # "report"
  <2>1. Scanner!RunScan(c) = Scanner!Failed
    BY <1>1, <1>2, <1>4 DEF Scanner!RunScan, Scanner!ExtractJson
  <2>2. Honest(i, Scanner!Failed)
    BY <1>1, <1>4, TheAnswers DEF Honest
  <2> QED
    BY <2>1, <2>2 DEF i
<1> QED
  BY <1>3, <1>4

\* A step of a request is a step from an honest pair to an honest pair.
LEMMA ScannerNext == ScannerInv /\ Scanner!Next => ScannerInv'
<1> SUFFICES ASSUME ScannerInv, Scanner!Next PROVE ScannerInv'
  OBVIOUS
<1>1. PICK s \in Scans : \/ Scanner!Scan(s) \/ Scanner!Invalid(s) \/ Scanner!Prints(s)
                         \/ Scanner!Exits(s) \/ Scanner!Killed(s) \/ Scanner!Respond(s)
                         \/ Scanner!Over(s)
  BY DEF Scanner!Next
<1> DEFINE c == child[s]  a == answer[s]
<1>2. child \in [Scans -> Scanner!Child] /\ answer \in [Scans -> Answers]
  BY ScannerTypes DEF ScannerInv
<1>3. /\ Honest(c, a)
      /\ child = [child EXCEPT ![s] = c] /\ answer = [answer EXCEPT ![s] = a]
  BY <1>2 DEF ScannerInv, Honest, Scanner!HonestAnswer
<1>4. CASE Scanner!Scan(s)
  <2>1. PICK at \in {"running", "unstarted"}, r \in Scanner!Reports :
           child' = [child EXCEPT ![s] = [at |-> at, printed |-> "nothing", report |-> r]]
    BY <1>4 DEF Scanner!Scan
  <2>2. a = Scanner!NoAnswer /\ answer' = answer
    BY <1>4 DEF Scanner!Scan
  <2>3. Honest([at |-> at, printed |-> "nothing", report |-> r], a)
    BY <2>2, TheAnswers DEF Honest, Scanner!Child, Scanner!Printed
  <2> QED
    BY <1>3, <2>1, <2>2, <2>3, ScannerOne
<1>5. CASE Scanner!Invalid(s)
  <2>1. c.at = "idle" /\ child' = child /\ answer' = [answer EXCEPT ![s] = BadId]
    BY <1>5 DEF Scanner!Invalid, BadId
  <2>2. Honest(c, BadId)
    BY <1>3, <2>1, TheAnswers DEF Honest
  <2> QED
    BY <1>3, <2>1, <2>2, ScannerOne
<1>6. CASE Scanner!Prints(s)
  <2> DEFINE p == CASE c.printed = "nothing" -> "banner" [] c.printed = "banner" -> "half"
                    [] c.printed = "half" -> "report"
             n == [c EXCEPT !.printed = p]
  <2>1. /\ child' = [child EXCEPT ![s] = n] /\ answer' = answer
        /\ c.at = "running" /\ c.printed # "report"
    BY <1>6 DEF Scanner!Prints
  <2>2. n \in Scanner!Child /\ n.at = "running"
    BY <1>3, <2>1 DEF Honest, Scanner!Child, Scanner!Printed
  <2>3. a = Scanner!NoAnswer
    BY <1>3, <2>1 DEF Honest
  <2> HIDE DEF n
  <2>4. Honest(n, a)
    BY <2>2, <2>3, TheAnswers DEF Honest
  <2> QED
    BY <1>3, <2>1, <2>4, ScannerOne
<1>7. CASE Scanner!Exits(s) \/ Scanner!Killed(s)
  <2>1. PICK at \in {"ok", "nonzero", "killed"} :
           /\ at = "ok" => c.printed = "report"
           /\ child' = [child EXCEPT ![s] = [c EXCEPT !.at = at]]
    BY <1>7 DEF Scanner!Exits, Scanner!Killed
  <2> DEFINE n == [c EXCEPT !.at = at]
  <2>2. c.at = "running" /\ answer' = answer
    BY <1>7 DEF Scanner!Exits, Scanner!Killed
  <2>3. n \in Scanner!Child /\ n.at = at /\ n.printed = c.printed
    BY <1>3 DEF Honest, Scanner!Child
  <2>4. a = Scanner!NoAnswer
    BY <1>3, <2>2 DEF Honest
  <2>5. Honest(n, a)
    BY <2>1, <2>3, <2>4, TheAnswers DEF Honest
  <2> QED
    BY <1>3, <2>1, <2>2, <2>5, ScannerOne
<1>8. CASE Scanner!Respond(s)
  <2>1. /\ child' = [child EXCEPT ![s] = [c EXCEPT !.at = "idle"]]
        /\ answer' = [answer EXCEPT ![s] = Scanner!RunScan(c)] /\ c.at \notin {"idle", "running"}
    BY <1>8 DEF Scanner!Respond
  <2> QED
    BY <1>3, <2>1, ScannerAnswer, ScannerOne
<1>9. CASE Scanner!Over(s)
  <2>1. Honest(Scanner!NoChild, Scanner!NoAnswer)
    BY TheAnswers DEF Scanner!NoChild, Honest, Scanner!Child, Scanner!Printed,
                      Scanner!Reports
  <2> QED
    BY <1>9, <2>1, ScannerOne DEF Scanner!Over
<1> QED
  BY <1>1, <1>4, <1>5, <1>6, <1>7, <1>8, <1>9

LEMMA ScannerStays == ScannerInv /\ UNCHANGED Scanner!scanVars => ScannerInv'
<1> SUFFICES ASSUME ScannerInv, child' = child, answer' = answer PROVE ScannerInv'
  BY DEF Scanner!scanVars
<1>1. Scanner!TypeOK'
  BY ScannerTypes, ScannerTypesNext DEF ScannerInv
<1> QED
  BY <1>1 DEF ScannerInv, Scanner!HonestAnswer
------------------------------------------------------------------------------
\* The worlds together

Worlds == {"catalogue", "views", "approval", "evolution", "filter", "reach", "scanner"}

\* In every world its own invariant.  A step is one of the world at hand, and the variables of the
\* others are not looked at.
IInv ==
    /\ world \in Worlds
    /\ world = "catalogue" => CatalogueInv
    /\ world = "views" => ViewsInv
    /\ world = "approval" => ApprovalInv
    /\ world = "evolution" => EvolutionInv
    /\ world = "filter" => FilterInv /\ Filter!RedactsWhatIsLabelled
    /\ world = "reach" => ReachInv
    /\ world = "scanner" => ScannerInv

LEMMA InitInv == Init => IInv
<1> SUFFICES ASSUME Init PROVE IInv
  OBVIOUS
<1>1. CASE world = "catalogue"
  BY <1>1, CatalogueInit DEF Init, IInv, Worlds
<1>2. CASE world = "views"
  BY <1>2, ViewsInit DEF Init, IInv, Worlds
<1>3. CASE world = "approval"
  BY <1>3, ApprovalInit DEF Init, IInv, Worlds
<1>4. CASE world = "evolution"
  BY <1>4, EvolutionInit DEF Init, IInv, Worlds
<1>5. CASE world = "filter"
  <2>1. Filter!Init /\ reply = Filter!NoReply
    BY <1>5 DEF Init, Filter!Init
  <2>2. FilterInv /\ Filter!RedactsWhatIsLabelled
    BY <2>1, FilterInit, NoReplyRedacts, RedactsWhatIsLabelledIs
  <2> QED
    BY <1>5, <2>2 DEF IInv, Worlds
<1>6. CASE world = "reach"
  BY <1>6, ReachInit DEF Init, IInv, Worlds
<1>7. CASE world = "scanner"
  BY <1>7, ScannerInit DEF Init, IInv, Worlds
<1> QED
  BY <1>1, <1>2, <1>3, <1>4, <1>5, <1>6, <1>7 DEF Init

LEMMA NextInv == IInv /\ [Next]_vars => IInv'
<1> SUFFICES ASSUME IInv, [Next]_vars PROVE IInv'
  OBVIOUS
<1>1. CASE InCatalogue(Catalogue!Next)
  BY <1>1, CatalogueNext DEF InCatalogue, IInv
<1>2. CASE InViews(Views!Next)
  BY <1>2, ViewsNext DEF InViews, IInv
<1>3. CASE InApproval(Approval!Next)
  BY <1>3, ApprovalNext DEF InApproval, IInv
<1>4. CASE InEvolution(Evolution!Next)
  BY <1>4, EvolutionNext DEF InEvolution, IInv
<1>5. CASE InFilter(Filter!Next)
  <2>1. FilterInv' /\ Filter!RedactsWhatIsLabelled'
    BY <1>5, FilterNext, FilterReplies DEF InFilter, IInv
  <2> QED
    BY <1>5, <2>1 DEF InFilter, IInv
<1>6. CASE InTool("reach", Reach!Next /\ UNCHANGED ofScanner)
  BY <1>6, ReachNext DEF InTool, IInv
<1>7. CASE InTool("scanner", Scanner!Next /\ UNCHANGED ofReach)
  BY <1>7, ScannerNext DEF InTool, IInv
<1>8. CASE UNCHANGED vars
  <2>1. /\ UNCHANGED Catalogue!vars /\ UNCHANGED Views!vars /\ UNCHANGED Approval!vars
        /\ UNCHANGED Evolution!vars /\ UNCHANGED Filter!filterVars /\ UNCHANGED Reach!reachVars
        /\ UNCHANGED Scanner!scanVars /\ world' = world
    BY <1>8 DEF vars, ofCatalogue, ofViews, ofApproval, ofEvolution, ofFilter, ofReach, ofScanner,
                Catalogue!vars, Views!vars, Approval!vars, Evolution!vars, Evolution!history,
                Filter!filterVars, Reach!reachVars, Scanner!scanVars
  <2>2. Filter!RedactsWhatIsLabelled => Filter!RedactsWhatIsLabelled'
    BY <2>1, FilterReplies
  <2> QED
    BY <2>1, <2>2, CatalogueStays, ViewsStays, ApprovalStays, EvolutionStays, FilterStays, ReachStays,
       ScannerStays DEF IInv
<1> QED
  BY <1>1, <1>2, <1>3, <1>4, <1>5, <1>6, <1>7, <1>8 DEF Next

LEMMA SpecInv == Spec => []IInv
  BY InitInv, NextInv, PTL DEF Spec

------------------------------------------------------------------------------
\* The theorems

\* Every world keeps its types, whatever it goes through: the counters of the model stay within
\* their bounds, and every record within its set.
THEOREM TypesAreKept == Spec => []TypeOK
<1>1. IInv => TypeOK
  <2> SUFFICES ASSUME IInv PROVE TypeOK
    OBVIOUS
  <2>1. /\ world = "catalogue" => Catalogue!TypeOK
        /\ world = "views" => Views!TypeOK
        /\ world = "approval" => Approval!TypeOK
        /\ world = "evolution" => Evolution!TypeOK
        /\ world = "filter" => Filter!TypeOK
        /\ world = "reach" => Reach!TypeOK
        /\ world = "scanner" => Scanner!TypeOK
    BY CatalogueSound, ViewsSound, EvolutionSound DEF IInv, ApprovalInv, FilterInv, ReachInv, ScannerInv
  <2> QED
    BY <2>1 DEF IInv, Worlds, TypeOK
<1> QED
  BY <1>1, SpecInv, PTL

\* What goes to the pipeline from the catalogue was on the screen of the operator, whatever is under
\* way, and what the screen says was sent is in the intake queue, unless two lookups overlapped
\* (sendToPipeline).
THEOREM PipelineGetsShown == Spec => []PipelineGetsWhatIsShown
<1>1. IInv => PipelineGetsWhatIsShown
  BY CatalogueSound DEF IInv, PipelineGetsWhatIsShown, SentMeansSent, EnqueuedWasShown
<1> QED
  BY <1>1, SpecInv, PTL

\* The catalogue opens the package that was asked for last, unless two lookups overlapped or it was
\* asked for from a page of another ecosystem; a screen that has finished loading shows what is
\* selected on it, with any number of requests under way where it has a guard, and as long as no two
\* are where it has none (openPkg, KevCatalog, Reports).
THEOREM AskedIsShown == Spec => []ShowsWhatWasAsked
<1>1. IInv => ShowsWhatWasAsked
  BY CatalogueSound, ViewsSound DEF IInv, ShowsWhatWasAsked, OpensWhatWasAsked, ShowsSelection
<1> QED
  BY <1>1, SpecInv, PTL

\* When a screen has settled, an operation of it that was answered is on it, unless a request failed
\* or two were under way at once: the reload was sent after the operation (Quarantine.promote,
\* ApprovedPackages.revoke).
THEOREM OperationIsShown == Spec => []OwnOperationShown
<1>1. IInv => OwnOperationShown
  BY ViewsSound DEF IInv, OwnOperationShown
<1> QED
  BY <1>1, SpecInv, PTL

\* A model that was allowed from a console has clean bytes in every file, as long as nothing failed
\* and no two jobs read the same file at once, for any number of consoles, jobs, files and workers
\* (AiModelDetail).
THEOREM AllowedWasVerified == Spec => []AllowedIsVerified
<1>1. IInv => AllowedIsVerified
  BY DEF IInv, ApprovalInv, AllowedIsVerified
<1> QED
  BY <1>1, SpecInv, PTL

\* A console meets a job that the server does not have only after a request that failed or a restart
\* of the host, whatever jobs are evicted (AiModelDetail).
THEOREM ConsolesSurvive == Spec => []ConsoleSurvives
<1>1. IInv => ConsoleSurvives
  BY DEF IInv, ApprovalInv, ConsoleSurvives
<1> QED
  BY <1>1, SpecInv, PTL

\* No pull request without an operator's approval, and no released run without its merge, however
\* approvals, rejections, clearings and merges fall (GroqCycleRun, DecideMergeAsync).
THEOREM PRsWereDecided == Spec => []PRsAreDecided
<1>1. IInv => PRsAreDecided
  BY EvolutionSound DEF IInv, PRsAreDecided, NoPRUnapproved, ReleasedIsMerged
<1> QED
  BY <1>1, SpecInv, PTL

\* A model that was ready once is never missing again, on line or not, whatever the restarts and
\* the downloads cut off in between (load in privacy-filter/server.mjs).
THEOREM VolumeIsEnough == Spec => []RunsOffline
<1>1. IInv => RunsOffline
  BY DEF IInv, FilterInv, RunsOffline
<1> QED
  BY <1>1, SpecInv, PTL

\* What the model labelled is gone from the answer of /redact and has its category in its place, and
\* every other letter is there, once and in its order: for a text of any length and with any blanks,
\* any tokens, and any labels, the broken sequences included (decodeBioes, infer, redact).
THEOREM LabelledIsRedacted == Spec => []RedactsWhatIsLabelled
<1>1. IInv => RedactsWhatIsLabelled
  BY DEF IInv, RedactsWhatIsLabelled
<1> QED
  BY <1>1, SpecInv, PTL

\* The analyser never says less than what its files showed: a use that is in plain sight is found,
\* and an import that does not tell its members exonerates nothing, whatever the order of the files
\* and however many cannot be read (analyze.mjs).
THEOREM VerdictsAreSound == Spec => []VerdictIsSound
<1>1. IInv => VerdictIsSound
  BY ReachSound DEF IInv, VerdictIsSound, UsesAreFound, UnsureIsNotExonerated
<1> QED
  BY <1>1, SpecInv, PTL

\* A scan of an extension is answered with the report that its program printed, or with a failure,
\* for any number of scans at once (vsix-scanner/server.mjs).
THEOREM AnswersAreHonest == Spec => []HonestAnswer
<1>1. IInv => HonestAnswer
  BY DEF IInv, ScannerInv, HonestAnswer
<1> QED
  BY <1>1, SpecInv, PTL
==============================================================================
