-------------------------- MODULE PolicyConsoleProofs --------------------------
(***************************************************************************)
(* What holds of the PolicyConsole for any controls, tickets, thresholds,  *)
(* outages and overlaps of requests.                                       *)
(***************************************************************************)
EXTENDS PolicyConsole, TLAPS

\* Nothing but loads is under way before the first load is over.
Started == draft = NoPolicy => \A s \in Slots \ Loads : At(s, "idle")

\* Unless requests crossed, a grant or a revocation has the register to itself.
Apart ==
    ~astray =>
        /\ At("grant", "idle") \/ At("revoke", "idle")
        /\ \A s \in Loads \cup {"commit"} :
             At(s, "idle") \/ (At("grant", "idle") /\ At("revoke", "idle"))

\* An exception of ticket t is wherever the next policy in force may come from ...
Held(t) ==
    /\ server.exc[t] > 0
    /\ draft # NoPolicy /\ ~offline => draft.exc[t] > 0
    /\ ~At("commit", "idle") => calls["commit"].pol.exc[t] > 0
    /\ \A s \in Loads : At(s, "served") => calls[s].pol.exc[t] > 0

\* ... or nowhere.
Clear(t) ==
    /\ server.exc[t] = 0
    /\ draft # NoPolicy /\ ~offline => draft.exc[t] = 0
    /\ ~At("commit", "idle") => calls["commit"].pol.exc[t] = 0
    /\ \A s \in Loads : At(s, "served") => calls[s].pol.exc[t] = 0

GrantInv ==
    ~astray =>
        /\ \A t \in due : Held(t)
        /\ At("grant", "served") => server.exc[calls["grant"].t] > 0
        /\ ~At("revoke", "idle") => calls["revoke"].t \notin due

\* The row of a revocation under way is no longer in the draft.
RevokeInv ==
    ~astray =>
        /\ \A t \in gone : Clear(t)
        /\ ~At("grant", "idle") => calls["grant"].t \notin gone
        /\ ~At("revoke", "idle") /\ ~offline /\ calls["revoke"].pol.exc[calls["revoke"].t] = 1
             => draft.exc[calls["revoke"].t] = 0

IInv == TypeOK /\ Started /\ Apart /\ GrantInv /\ RevokeInv

USE ConsoleAssumption, NoPolicyIsNone

LEMMA SampleTypes == Fresh \in Policy /\ Demo \in Policy /\ NoCall \in Call /\ NoCall.at = "idle"
  BY DEF Fresh, Demo, Policy, NoCall, Call

\* A click yields a policy, and leaves the exceptions alone.
LEMMA ClickTypes ==
    ASSUME NEW p \in Policy, NEW q \in Clicks(p)
    PROVE  q \in Policy /\ q.exc = p.exc
<1>1. CASE q \in Switched(p)
  BY <1>1 DEF Switched, Policy
<1>2. CASE q \in Stepped(p)
  BY <1>2 DEF Stepped, Policy
<1>3. CASE q \in Chipped(p)
  BY <1>3 DEF Chipped, Policy
<1>4. CASE q \in Recommended(p)
  <2>1. CVSS.High \in Nat
    BY DEF CVSS
  <2> QED
    BY <1>4, <2>1 DEF Recommended, Policy
<1>5. CASE q \in Preset(p)
  <2>1. \A k \in DOMAIN PresetThreshold : PresetThreshold[k] \in Nat
    BY DEF PresetThreshold
  <2> QED
    BY <1>5, <2>1 DEF Preset, Policy
<1>6. CASE q \in Toggled(p)
  BY <1>6 DEF Toggled, Policy
<1>7. CASE q \in FeedPreset(p)
  BY <1>7 DEF FeedPreset, Policy
<1> QED
  BY <1>1, <1>2, <1>3, <1>4, <1>5, <1>6, <1>7 DEF Clicks, Guided

\* What the assistant answers is a policy's worth, and has no exceptions in it.
LEMMA RuleTypes ==
    ASSUME NEW p \in Policy, NEW cap \in Policy, NEW r \in Rules
    PROVE  /\ WithRules(p, cap, r) \in Policy
           /\ \A f \in Fields \ {"kev", "cvss", "lic"} : WithRules(p, cap, r)[f] = p[f]
           /\ WithRules(p, cap, r).exc = p.exc
<1>1. r.kev \in BOOLEAN /\ r.cvss \in Nat /\ r.lic \in SUBSET Licences
  BY DEF Rules, CVSS
<1>2. WithRules(p, cap, r) \in Policy
  BY <1>1 DEF WithRules, Policy
<1>3. \A f \in Fields \ {"kev", "cvss", "lic"} : WithRules(p, cap, r)[f] = p[f]
  BY DEF WithRules, Policy, Fields
<1> QED
  BY <1>2, <1>3 DEF Fields

\* One more or no exception of a ticket.
LEMMA RegisterTypes ==
    ASSUME NEW p \in Policy, NEW t \in Tickets, NEW n \in Nat
    PROVE  /\ [p EXCEPT !.exc[t] = n] \in Policy
           /\ [p EXCEPT !.exc[t] = n].exc[t] = n
           /\ \A u \in Tickets \ {t} : [p EXCEPT !.exc[t] = n].exc[u] = p.exc[u]
           /\ p.exc[t] \in Nat
           /\ \A f \in Fields \ {"exc"} : [p EXCEPT !.exc[t] = n][f] = p[f]
  BY DEF Policy, Fields

LEMMA OneMore ==
    ASSUME NEW p \in Policy, NEW t \in Tickets
    PROVE  /\ [p EXCEPT !.exc[t] = @ + 1] \in Policy
           /\ [p EXCEPT !.exc[t] = @ + 1].exc[t] = p.exc[t] + 1
           /\ \A u \in Tickets \ {t} : [p EXCEPT !.exc[t] = @ + 1].exc[u] = p.exc[u]
<1>1. p.exc[t] + 1 \in Nat
  BY DEF Policy
<1>2. \A n \in Nat : /\ [p EXCEPT !.exc[t] = n] \in Policy
                     /\ [p EXCEPT !.exc[t] = n].exc[t] = n
                     /\ \A u \in Tickets \ {t} : [p EXCEPT !.exc[t] = n].exc[u] = p.exc[u]
  BY RegisterTypes
<1> QED
  BY <1>1, <1>2

\* One slot gets another request.
LEMMA SlotStep ==
    ASSUME calls \in [Slots -> Call], NEW s \in Slots, NEW c \in Call,
           calls' = [calls EXCEPT ![s] = c]
    PROVE  /\ calls' \in [Slots -> Call]
           /\ calls'[s] = c
           /\ \A o \in Slots \ {s} : calls'[o] = calls[o]
  OBVIOUS

LEMMA Slot == /\ Loads \subseteq Slots
              /\ {"commit", "grant", "revoke", "rules", "feeds"} \subseteq Slots
              /\ Slots \ Loads = {"commit", "grant", "revoke", "rules", "feeds"}
              /\ Loads = {"load", "reload"}
  BY DEF Loads, Slots

\* A request is sent.
LEMMA SendStep ==
    ASSUME calls \in [Slots -> Call], NEW s \in Slots, NEW p \in Policy, NEW t \in Tickets,
           Send(s, p, t)
    PROVE  /\ calls' \in [Slots -> Call]
           /\ calls'[s] = [at |-> "sent", pol |-> p, t |-> t]
           /\ \A o \in Slots \ {s} : calls'[o] = calls[o]
<1>1. [at |-> "sent", pol |-> p, t |-> t] \in Call
  BY DEF Call
<1> QED
  BY <1>1, SlotStep DEF Send

LEMMA CallFields ==
    ASSUME NEW a, NEW p, NEW u
    PROVE  [at |-> a, pol |-> p, t |-> u].pol = p /\ [at |-> a, pol |-> p, t |-> u].t = u
  OBVIOUS

\* A request is over.
LEMMA SettleStep ==
    ASSUME calls \in [Slots -> Call], NEW s \in Slots, calls' = Settled(s)
    PROVE  /\ calls' \in [Slots -> Call]
           /\ calls'[s] = NoCall
           /\ \A o \in Slots \ {s} : calls'[o] = calls[o]
  BY SampleTypes, SlotStep DEF Settled

------------------------------------------------------------------------------

LEMMA InitIInv == Init => IInv /\ UntouchedAsLoaded
<1> SUFFICES ASSUME Init PROVE IInv /\ UntouchedAsLoaded
  OBVIOUS
<1>1. \A s \in Slots : calls[s] = [NoCall EXCEPT !.at = IF s = "load" THEN "sent" ELSE "idle"]
  BY DEF Init
<1>2. \A s \in Slots : /\ calls[s] \in Call
                       /\ calls[s].at = IF s = "load" THEN "sent" ELSE "idle"
  <2>1. ASSUME NEW x \in {"idle", "sent"}
        PROVE  [NoCall EXCEPT !.at = x] \in Call /\ [NoCall EXCEPT !.at = x].at = x
    BY SampleTypes DEF NoCall, Call
  <2> QED
    BY <1>1, <2>1
<1>3. TypeOK
  BY <1>2, SampleTypes DEF Init, TypeOK
<1>4. /\ \A s \in Slots : ~At(s, "served")
      /\ \A s \in Slots \ Loads : At(s, "idle")
  BY <1>2, Slot DEF At
<1>5. Started /\ Apart
  BY <1>4, Slot DEF Started, Apart
<1>6. GrantInv /\ RevokeInv
  BY <1>4, Slot DEF GrantInv, RevokeInv, Init
<1> QED
  BY <1>3, <1>5, <1>6 DEF IInv, UntouchedAsLoaded, Init

\* No step of the console, the operator or the server leaves the types, and none but
\* the answer of a load ends the time before the first load.
LEMMA TypeStep == IInv /\ [Next]_vars => TypeOK' /\ Started'
<1> SUFFICES ASSUME IInv, [Next]_vars PROVE TypeOK' /\ Started'
  OBVIOUS
<1> USE Slot, SampleTypes
<1>1. /\ TypeOK /\ Started /\ server \in Policy /\ calls \in [Slots -> Call]
      /\ ops \in Nat /\ outages \in Nat
      /\ \A s \in Slots : calls[s].pol \in Policy /\ calls[s].t \in Tickets
      /\ draft # NoPolicy => draft \in Policy
  BY DEF IInv, TypeOK, Call
<1>2. \A n \in Nat : n + 1 \in Nat
  OBVIOUS
<1>a. CASE Edit
  <2>1. PICK q \in Clicks(draft) : Amend(q, Changed(draft, q))
    BY <1>a DEF Edit
  <2>2. q \in Policy
    BY <1>1, <1>a, <2>1, ClickTypes DEF Edit, Operates
  <2>3. TypeOK'
    BY <1>1, <1>2, <1>a, <2>1, <2>2 DEF Edit, Operates, Amend, Changed, TypeOK, history
  <2> QED
    BY <1>a, <2>1, <2>2, <2>3 DEF Amend, Started
<1>b. CASE AskRules
  <2>1. draft \in Policy /\ SampleTicket \in Tickets
    BY <1>1, <1>b DEF AskRules, Operates
  <2>2. calls' \in [Slots -> Call]
    BY <1>1, <1>b, <2>1, SendStep DEF AskRules
  <2> QED
    BY <1>1, <1>2, <1>b, <2>1, <2>2 DEF AskRules, Operates, TypeOK, Started, history
<1>c. CASE AskFeeds
  <2>1. draft \in Policy /\ SampleTicket \in Tickets
    BY <1>1, <1>c DEF AskFeeds, Operates
  <2>2. [Fresh EXCEPT !.feeds = draft.feeds] \in Policy
    BY <2>1 DEF Policy
  <2>3. calls' \in [Slots -> Call]
    BY <1>1, <1>c, <2>1, <2>2, SendStep DEF AskFeeds
  <2> QED
    BY <1>1, <1>2, <1>c, <2>1, <2>3 DEF AskFeeds, Operates, TypeOK, Started, history
<1>d. CASE Commit
  <2>1. draft \in Policy /\ SampleTicket \in Tickets
    BY <1>1, <1>d DEF Commit, Operates
  <2>2. calls' \in [Slots -> Call]
    BY <1>1, <1>d, <2>1, SendStep DEF Commit
  <2>3. astray' \in BOOLEAN
    BY <1>1, <1>d DEF Commit, TypeOK
  <2> QED
    BY <1>1, <1>2, <1>d, <2>1, <2>2, <2>3 DEF Commit, Operates, TypeOK, Started
<1>e. ASSUME NEW t \in Tickets, Grant(t) PROVE TypeOK' /\ Started'
  <2>1. draft \in Policy
    BY <1>1, <1>e DEF Grant, Operates
  <2>2. calls' \in [Slots -> Call]
    BY <1>1, <1>e, SendStep DEF Grant
  <2>3. astray' \in BOOLEAN
    BY <1>1, <1>e DEF Grant, TypeOK
  <2> QED
    BY <1>1, <1>2, <1>e, <2>1, <2>2, <2>3 DEF Grant, Operates, TypeOK, Started
<1>f. ASSUME NEW t \in Tickets, Revoke(t) PROVE TypeOK' /\ Started'
  <2>1. draft \in Policy
    BY <1>1, <1>f DEF Revoke, Operates
  <2>2. [Fresh EXCEPT !.exc = draft.exc] \in Policy /\ draft.exc[t] - 1 \in Nat
    BY <1>f, <2>1 DEF Policy, Revoke
  <2>3. calls' \in [Slots -> Call]
    BY <1>1, <1>f, <2>2, SendStep DEF Revoke
  <2>4. draft' \in Policy /\ touched' \in SUBSET Fields
    BY <1>1, <1>f, <2>1, <2>2, RegisterTypes DEF Revoke, Amend, TypeOK, Fields
  <2>5. astray' \in BOOLEAN
    BY <1>1, <1>f DEF Revoke, TypeOK
  <2> QED
    BY <1>1, <1>2, <1>f, <2>3, <2>4, <2>5 DEF Revoke, Operates, TypeOK, Started
<1>g. ASSUME NEW s \in Loads, SendLoad(s) PROVE TypeOK' /\ Started'
  <2>1. calls' \in [Slots -> Call] /\ \A o \in Slots \ {s} : calls'[o] = calls[o]
    BY <1>1, <1>g, SendStep DEF SendLoad
  <2>2. astray' \in BOOLEAN
    BY <1>1, <1>g DEF SendLoad, TypeOK
  <2> QED
    BY <1>1, <1>g, <2>1, <2>2 DEF SendLoad, TypeOK, Started, At
<1>h. CASE ApplyFeeds
  <2>1. draft \in Policy
    BY <1>1, <1>h DEF ApplyFeeds, Started, At
  <2>2. PICK want \in SUBSET Feeds :
          Amend([draft EXCEPT !.feeds = calls["feeds"].pol.feeds \cup want], {"feeds"})
    BY <1>h DEF ApplyFeeds
  <2>3. draft' \in Policy /\ touched' \in SUBSET Fields
    BY <1>1, <2>1, <2>2 DEF Amend, TypeOK, Fields, Policy
  <2>4. calls' \in [Slots -> Call]
    BY <1>1, <1>h, SettleStep DEF ApplyFeeds
  <2> QED
    BY <1>1, <1>h, <2>3, <2>4 DEF ApplyFeeds, TypeOK, Started, history
<1>i. CASE ApplyRules
  <2>1. draft \in Policy
    BY <1>1, <1>i DEF ApplyRules, Started, At
  <2>2. PICK r \in Rules :
          Amend(WithRules(draft, calls["rules"].pol, r), {"kev", "cvss", "lic"})
    BY <1>i DEF ApplyRules
  <2>3. draft' \in Policy /\ touched' \in SUBSET Fields
    BY <1>1, <2>1, <2>2, RuleTypes DEF Amend, TypeOK, Fields
  <2>4. calls' \in [Slots -> Call]
    BY <1>1, <1>i, SettleStep DEF ApplyRules
  <2> QED
    BY <1>1, <1>i, <2>3, <2>4 DEF ApplyRules, TypeOK, Started, history
<1>j. ASSUME NEW s \in Requests, Serve(s) PROVE TypeOK' /\ Started'
  <2>1. s \in Slots
    BY <1>j DEF Requests
  <2>2. server' \in Policy
    <3>2. [server EXCEPT !.exc[calls[s].t] = @ + 1] \in Policy
      BY <1>1, <2>1, OneMore
    <3>3. [server EXCEPT !.exc[calls[s].t] = 0] \in Policy
      BY <1>1, <2>1, RegisterTypes
    <3> QED
      BY <1>1, <1>j, <2>1, <3>2, <3>3 DEF Serve, After
  <2>3. calls' \in [Slots -> Call] /\ \A o \in Slots \ {s} : calls'[o] = calls[o]
    <3>1. CASE s = "revoke"
      BY <1>1, <1>j, <2>1, <3>1, SettleStep DEF Serve
    <3>2. CASE s # "revoke"
      <4> DEFINE c == [calls[s] EXCEPT !.at = "served", !.pol = IF s \in Loads THEN server ELSE @]
      <4>1. c \in Call
        BY <1>1, <2>1 DEF Call
      <4>2. calls' = [calls EXCEPT ![s] = c]
        BY <1>1, <1>j, <2>1, <3>2 DEF Serve, Call
      <4> QED
        BY <1>1, <2>1, <4>1, <4>2, SlotStep
    <3> QED
      BY <3>1, <3>2
  <2>4. gone' \in SUBSET Tickets
    BY <1>1, <1>j, <2>1 DEF Serve, TypeOK
  <2>5. Started'
    BY <1>1, <1>j, <2>1, <2>3 DEF Serve, Started, At
  <2> QED
    BY <1>1, <1>j, <2>2, <2>3, <2>4, <2>5 DEF Serve, TypeOK
<1>k. ASSUME NEW s \in Requests, Fail(s) PROVE TypeOK' /\ Started'
  <2>1. s \in Slots /\ [NoCall EXCEPT !.at = "failed"] \in Call
    BY <1>k DEF Requests, Call
  <2>2. calls' \in [Slots -> Call] /\ \A o \in Slots \ {s} : calls'[o] = calls[o]
    BY <1>1, <1>k, <2>1, SlotStep, SettleStep DEF Fail
  <2>3. Started'
    BY <1>1, <1>k, <2>1, <2>2 DEF Fail, Started, At
  <2> QED
    BY <1>1, <1>k, <2>2, <2>3 DEF Fail, TypeOK, history
<1>l. ASSUME NEW s \in Loads, Loaded(s) \/ LoadFailed(s) PROVE TypeOK' /\ Started'
  <2>1. calls' \in [Slots -> Call]
    BY <1>1, <1>l, SettleStep DEF Loaded, LoadFailed
  <2>2. draft' \in Policy /\ base' \in Policy /\ touched' = {} /\ offline' \in BOOLEAN
    BY <1>1, <1>l DEF Loaded, LoadFailed, Replace
  <2> QED
    BY <1>1, <1>l, <2>1, <2>2 DEF Loaded, LoadFailed, TypeOK, Started, history
<1>m. CASE Committed
  <2>1. calls' \in [Slots -> Call]
    BY <1>1, <1>m, SettleStep DEF Committed
  <2>2. draft' \in Policy /\ base' \in Policy /\ touched' = {}
    BY <1>1, <1>m DEF Committed, Replace
  <2> QED
    BY <1>1, <1>m, <2>1, <2>2 DEF Committed, TypeOK, Started, history
<1>n. ASSUME NEW t \in Tickets, Granted(t) PROVE TypeOK' /\ Started'
  <2>1. draft \in Policy
    BY <1>1, <1>n DEF Granted, Started, At
  <2>2. calls' \in [Slots -> Call]
    BY <1>1, <1>n, SettleStep DEF Granted
  <2>3. draft.exc[t] + 1 \in Nat
    BY <2>1 DEF Policy
  <2>4. draft' \in Policy /\ touched' \in SUBSET Fields
    BY <1>1, <1>n, <2>1, <2>3, RegisterTypes DEF Granted, Amend, TypeOK, Fields
  <2> QED
    BY <1>1, <1>n, <2>2, <2>4 DEF Granted, TypeOK, Started
<1>o. CASE Elsewhere
  <2>1. server' \in Policy
    <3>1. server \in Policy
      BY <1>1
    <3>2. \A t \in Tickets : [server EXCEPT !.exc[t] = @ + 1] \in Policy
      BY ONLY <3>1, OneMore
    <3>3. server.ai + 1 \in Nat
      BY <1>1 DEF Policy
    <3>4. [server EXCEPT !.ai = @ + 1] \in Policy
      BY <1>1, <3>3 DEF Policy
    <3> QED
      BY <1>o, <3>2, <3>4 DEF Elsewhere
  <2>2. gone' \in SUBSET Tickets
    BY <1>1, <1>o DEF Elsewhere, TypeOK
  <2> QED
    BY <1>1, <1>2, <1>o, <2>1, <2>2 DEF Elsewhere, Operates, TypeOK, Started, At
<1>p. CASE Down \/ Recover
  BY <1>1, <1>2, <1>p DEF Down, Recover, TypeOK, Started, At, history
<1>q. CASE UNCHANGED vars
  BY <1>1, <1>q DEF vars, TypeOK, Started, At
<1> QED
  BY <1>a, <1>b, <1>c, <1>d, <1>e, <1>f, <1>g, <1>h, <1>i, <1>j, <1>k, <1>l, <1>m, <1>n, <1>o, <1>p, <1>q
  DEF Next, Operator, Transport, Receive, OpenLedger, Retry

------------------------------------------------------------------------------

LEMMA UntouchedStep == IInv /\ UntouchedAsLoaded /\ [Next]_vars => UntouchedAsLoaded'
<1> SUFFICES ASSUME IInv, UntouchedAsLoaded, [Next]_vars PROVE UntouchedAsLoaded'
  OBVIOUS
<1> USE Slot
<1>1. /\ Started /\ \A s \in Slots : calls[s].pol \in Policy
      /\ draft # NoPolicy => draft \in Policy
  BY DEF IInv, TypeOK, Call
<1>2. ASSUME NEW q, NEW fs, draft # NoPolicy, Amend(q, fs), base' = base,
             \A f \in Fields \ fs : q[f] = draft[f]
      PROVE  UntouchedAsLoaded'
  BY <1>2 DEF Amend, UntouchedAsLoaded
<1>3. ASSUME NEW p, Replace(p) PROVE UntouchedAsLoaded'
  BY <1>3 DEF Replace, UntouchedAsLoaded
<1>a. CASE Edit
  <2>1. PICK q \in Clicks(draft) : Amend(q, Changed(draft, q))
    BY <1>a DEF Edit
  <2>2. \A f \in Fields \ Changed(draft, q) : q[f] = draft[f]
    BY DEF Changed
  <2> QED
    BY <1>2, <1>a, <2>1, <2>2 DEF Edit, Operates
<1>f. ASSUME NEW t \in Tickets, Revoke(t) PROVE UntouchedAsLoaded'
  <2>1. draft \in Policy /\ draft.exc[t] - 1 \in Nat
    BY <1>1, <1>f DEF Revoke, Operates, Policy
  <2>2. \A f \in Fields \ {"exc"} : [draft EXCEPT !.exc[t] = @ - 1][f] = draft[f]
    BY <2>1, RegisterTypes
  <2> QED
    BY <1>2, <1>f, <2>2 DEF Revoke, Operates
<1>h. CASE ApplyFeeds
  <2>1. draft \in Policy /\ draft # NoPolicy
    BY <1>1, <1>h DEF ApplyFeeds, Started, At
  <2>2. PICK want \in SUBSET Feeds :
          Amend([draft EXCEPT !.feeds = calls["feeds"].pol.feeds \cup want], {"feeds"})
    BY <1>h DEF ApplyFeeds
  <2>3. \A f \in Fields \ {"feeds"} :
          [draft EXCEPT !.feeds = calls["feeds"].pol.feeds \cup want][f] = draft[f]
    BY <2>1 DEF Fields, Policy
  <2> QED
    BY <1>2, <1>h, <2>1, <2>2, <2>3 DEF ApplyFeeds
<1>i. CASE ApplyRules
  <2>1. draft \in Policy /\ draft # NoPolicy
    BY <1>1, <1>i DEF ApplyRules, Started, At
  <2>2. PICK r \in Rules :
          Amend(WithRules(draft, calls["rules"].pol, r), {"kev", "cvss", "lic"})
    BY <1>i DEF ApplyRules
  <2>3. \A f \in Fields \ {"kev", "cvss", "lic"} :
          WithRules(draft, calls["rules"].pol, r)[f] = draft[f]
    BY <1>1, <2>1, RuleTypes
  <2> QED
    BY <1>2, <1>i, <2>1, <2>2, <2>3 DEF ApplyRules
<1>l. ASSUME NEW s \in Loads, Loaded(s) \/ LoadFailed(s) PROVE UntouchedAsLoaded'
  BY <1>3, <1>l DEF Loaded, LoadFailed
<1>m. CASE Committed
  BY <1>3, <1>m DEF Committed
<1>n. ASSUME NEW t \in Tickets, Granted(t) PROVE UntouchedAsLoaded'
  <2>1. draft \in Policy /\ draft # NoPolicy
    BY <1>1, <1>n DEF Granted, Started, At
  <2>2. draft.exc[t] + 1 \in Nat
    BY <2>1 DEF Policy
  <2>3. \A f \in Fields \ {"exc"} : [draft EXCEPT !.exc[t] = @ + 1][f] = draft[f]
    BY <2>1, <2>2, RegisterTypes
  <2> QED
    BY <1>2, <1>n, <2>1, <2>3 DEF Granted
<1>o. ASSUME UNCHANGED <<draft, base, touched>> PROVE UntouchedAsLoaded'
  BY <1>o DEF UntouchedAsLoaded
<1>p. CASE AskRules \/ AskFeeds \/ Commit \/ Elsewhere \/ Down \/ Recover
  BY <1>o, <1>p DEF AskRules, AskFeeds, Commit, Elsewhere, Down, Recover
<1>q. ASSUME NEW t \in Tickets, Grant(t) PROVE UntouchedAsLoaded'
  BY <1>o, <1>q DEF Grant
<1>r. ASSUME NEW s \in Loads, SendLoad(s) PROVE UntouchedAsLoaded'
  BY <1>o, <1>r DEF SendLoad
<1>s. ASSUME NEW s \in Requests, Serve(s) \/ Fail(s) PROVE UntouchedAsLoaded'
  BY <1>o, <1>s DEF Serve, Fail
<1>t. CASE UNCHANGED vars
  BY <1>o, <1>t DEF vars
<1> QED
  BY <1>a, <1>f, <1>h, <1>i, <1>l, <1>m, <1>n, <1>p, <1>q, <1>r, <1>s, <1>t
  DEF Next, Operator, Transport, Receive, OpenLedger, Retry

------------------------------------------------------------------------------

\* A request that would cross another is marked when it is sent.
LEMMA ApartStep == IInv /\ [Next]_vars => Apart'
<1> SUFFICES ASSUME IInv, [Next]_vars PROVE Apart'
  OBVIOUS
<1> USE Slot
<1>1. Apart /\ calls \in [Slots -> Call] /\ astray \in BOOLEAN
      /\ (\A s \in Slots : calls[s].pol \in Policy /\ calls[s].t \in Tickets)
      /\ (draft # NoPolicy => draft \in Policy)
  BY DEF IInv, TypeOK, Call
<1>2. ASSUME NEW s \in Slots, ~astray' => ~astray,
             \A o \in Slots \ {s} : calls'[o] = calls[o],
             At(s, "idle")' \/ ~At(s, "idle")
      PROVE  Apart'
  BY <1>1, <1>2 DEF Apart, At
<1>3. ASSUME NEW s \in Slots, astray' = (astray \/ Crosses(s)),
             \A o \in Slots \ {s} : calls'[o] = calls[o]
      PROVE  Apart'
  BY ZenonT(60), <1>1, <1>3 DEF Apart, At, Crosses
<1>a. CASE UNCHANGED <<calls, astray>>
  BY <1>1, <1>a DEF Apart, At
<1>b. CASE AskRules \/ AskFeeds
  <2>1. draft \in Policy /\ SampleTicket \in Tickets
    BY <1>1, <1>b DEF AskRules, AskFeeds, Operates
  <2>2. [Fresh EXCEPT !.feeds = draft.feeds] \in Policy
    BY <2>1, SampleTypes DEF Policy
  <2>3. \A o \in Slots \ {"rules", "feeds"} : calls'[o] = calls[o]
    BY <1>1, <1>b, <2>1, <2>2, SendStep DEF AskRules, AskFeeds
  <2> QED
    BY <1>1, <1>b, <2>3 DEF AskRules, AskFeeds, Apart, At, history
<1>c. CASE Commit
  <2>1. draft \in Policy /\ SampleTicket \in Tickets
    BY <1>1, <1>c DEF Commit, Operates
  <2>2. \A o \in Slots \ {"commit"} : calls'[o] = calls[o]
    BY <1>1, <1>c, <2>1, SendStep DEF Commit
  <2>3. ~astray' => ~astray /\ ~Crosses("commit")
    BY <1>1, <1>c DEF Commit
  <2> QED
    BY <1>1, <2>2, <2>3 DEF Apart, At, Crosses
<1>d. ASSUME NEW t \in Tickets, Grant(t) PROVE Apart'
  <2>1. \A o \in Slots \ {"grant"} : calls'[o] = calls[o]
    BY <1>1, <1>d, SendStep, SampleTypes DEF Grant
  <2> QED
    BY <1>3, <1>d, <2>1 DEF Grant
<1>e. ASSUME NEW t \in Tickets, Revoke(t) PROVE Apart'
  <2>1. [Fresh EXCEPT !.exc = draft.exc] \in Policy
    BY <1>1, <1>e, SampleTypes DEF Revoke, Operates, Policy
  <2>2. \A o \in Slots \ {"revoke"} : calls'[o] = calls[o]
    BY <1>1, <1>e, <2>1, SendStep DEF Revoke
  <2> QED
    BY <1>3, <1>e, <2>2 DEF Revoke
<1>f. ASSUME NEW s \in Loads, SendLoad(s) PROVE Apart'
  <2>1. \A o \in Slots \ {s} : calls'[o] = calls[o]
    BY <1>1, <1>f, SendStep, SampleTypes DEF SendLoad
  <2> QED
    BY <1>3, <1>f, <2>1 DEF SendLoad
<1>g. ASSUME NEW s \in Slots, calls' = Settled(s), ~astray' => ~astray PROVE Apart'
  <2>1. (\A o \in Slots \ {s} : calls'[o] = calls[o]) /\ calls'[s].at = "idle"
    BY <1>1, <1>g, SettleStep, SampleTypes
  <2> QED
    BY <1>2, <1>g, <2>1 DEF At
<1>h. ASSUME NEW s \in Requests, Serve(s) \/ Fail(s) PROVE Apart'
  <2>1. s \in Slots /\ ~At(s, "idle") /\ astray' = astray
    BY <1>h DEF Requests, Serve, Fail, At, history
  <2>2. \A o \in Slots \ {s} : calls'[o] = calls[o]
    BY <1>1, <1>h, <2>1 DEF Serve, Fail, Settled
  <2> QED
    BY <1>2, <2>1, <2>2
<1>i. CASE ApplyFeeds \/ ApplyRules \/ Committed
  BY <1>g, <1>i DEF ApplyFeeds, ApplyRules, Committed, history
<1>j. ASSUME NEW s \in Loads, Loaded(s) \/ LoadFailed(s) PROVE Apart'
  BY <1>g, <1>j DEF Loaded, LoadFailed, history
<1>k. ASSUME NEW t \in Tickets, Granted(t) PROVE Apart'
  BY <1>g, <1>k DEF Granted
<1>l. CASE Edit \/ Elsewhere \/ Down \/ Recover \/ UNCHANGED vars
  BY <1>a, <1>l DEF Edit, Elsewhere, Down, Recover, vars, history
<1> QED
  BY <1>b, <1>c, <1>d, <1>e, <1>f, <1>h, <1>i, <1>j, <1>k, <1>l
  DEF Next, Operator, Transport, Receive, OpenLedger, Retry

------------------------------------------------------------------------------

\* Wherever the next policy in force comes from, it has the exceptions whose grant was
\* answered, and has none that was revoked as the only one.
LEMMA RegisterStep == IInv /\ [Next]_vars => GrantInv' /\ RevokeInv'
<1> SUFFICES ASSUME IInv, [Next]_vars PROVE GrantInv' /\ RevokeInv'
  OBVIOUS
<1> USE Slot
<1>1. /\ Apart /\ GrantInv /\ RevokeInv /\ Started
      /\ calls \in [Slots -> Call] /\ server \in Policy
      /\ due \in SUBSET Tickets /\ gone \in SUBSET Tickets
      /\ astray \in BOOLEAN /\ offline \in BOOLEAN
      /\ (\A s \in Slots : calls[s].pol \in Policy /\ calls[s].t \in Tickets)
      /\ (draft # NoPolicy => draft \in Policy)
  BY DEF IInv, TypeOK, Call
<1>2. ASSUME NEW p \in Policy, NEW t \in Tickets PROVE p.exc[t] \in Nat
  BY <1>2 DEF Policy
<1>3. NoCall.at = "idle"
  BY SampleTypes
\* Steps that keep the register of the server, and of the draft unless it goes away
<1>4. ASSUME server'.exc = server.exc, due' = due, gone' = gone, ~astray' => ~astray,
             draft' # NoPolicy /\ ~offline' =>
                 draft # NoPolicy /\ ~offline /\ draft'.exc = draft.exc,
             \A s \in {"commit", "grant", "revoke"} : calls'[s] = calls[s] \/ calls'[s].at = "idle",
             \A s \in Loads : calls'[s] = calls[s] \/ calls'[s].at # "served"
      PROVE  GrantInv' /\ RevokeInv'
  <2>1. ASSUME NEW t \in Tickets, Held(t) PROVE Held(t)'
    BY <1>4, <2>1 DEF Held, At
  <2>2. ASSUME NEW t \in Tickets, Clear(t) PROVE Clear(t)'
    BY <1>4, <2>2 DEF Clear, At
  <2>3. GrantInv'
    BY <1>1, <1>4, <2>1 DEF GrantInv, At
  <2>4. ASSUME ~astray', calls'["revoke"].at # "idle", ~offline',
               calls'["revoke"].pol.exc[calls'["revoke"].t] = 1
        PROVE  draft'.exc[calls'["revoke"].t] = 0
    <3>1. Started' /\ calls'["revoke"] = calls["revoke"] /\ ~astray
      BY <1>4, <2>4, TypeStep
    <3>2. draft' # NoPolicy
      BY <2>4, <3>1 DEF Started, At
    <3>3. ~offline /\ draft'.exc = draft.exc
      BY <1>4, <2>4, <3>2
    <3>4. draft.exc[calls["revoke"].t] = 0
      BY <1>1, <2>4, <3>1, <3>3 DEF RevokeInv, At
    <3> QED
      BY <3>1, <3>3, <3>4
  <2>5. RevokeInv'
    BY <1>1, <1>4, <2>2, <2>4 DEF RevokeInv, At
  <2> QED
    BY <2>3, <2>5

<1>a. CASE Edit
  <2>1. PICK q \in Clicks(draft) : draft' = q
    BY <1>a DEF Edit, Amend
  <2>2. draft # NoPolicy /\ draft'.exc = draft.exc
    BY <1>1, <1>a, <2>1, ClickTypes DEF Edit, Operates
  <2> QED
    BY <1>4, <1>a, <2>2 DEF Edit, history
<1>b. CASE AskRules \/ AskFeeds
  <2>1. draft \in Policy /\ SampleTicket \in Tickets
    BY <1>1, <1>b DEF AskRules, AskFeeds, Operates
  <2>2. [Fresh EXCEPT !.feeds = draft.feeds] \in Policy
    BY <2>1, SampleTypes DEF Policy
  <2>3. \A o \in Slots \ {"rules", "feeds"} : calls'[o] = calls[o]
    BY <1>1, <1>b, <2>1, <2>2, SendStep DEF AskRules, AskFeeds
  <2> QED
    BY <1>4, <1>b, <2>3 DEF AskRules, AskFeeds, history
<1>c. CASE ApplyFeeds
  <2>1. draft \in Policy /\ draft # NoPolicy
    BY <1>1, <1>c DEF ApplyFeeds, Started, At
  <2>2. draft'.exc = draft.exc
    BY <1>c, <2>1 DEF ApplyFeeds, Amend, Policy
  <2>3. \A o \in Slots \ {"feeds"} : calls'[o] = calls[o]
    BY <1>1, <1>c, SettleStep DEF ApplyFeeds
  <2> QED
    BY <1>4, <1>c, <2>1, <2>2, <2>3 DEF ApplyFeeds, history
<1>d. CASE ApplyRules
  <2>1. draft \in Policy /\ draft # NoPolicy
    BY <1>1, <1>d DEF ApplyRules, Started, At
  <2>2. draft'.exc = draft.exc
    <3>1. PICK r \in Rules : draft' = WithRules(draft, calls["rules"].pol, r)
      BY <1>d DEF ApplyRules, Amend
    <3> QED
      BY <1>1, <2>1, <3>1, RuleTypes
  <2>3. \A o \in Slots \ {"rules"} : calls'[o] = calls[o]
    BY <1>1, <1>d, SettleStep DEF ApplyRules
  <2> QED
    BY <1>4, <1>d, <2>1, <2>2, <2>3 DEF ApplyRules, history
<1>e. ASSUME NEW s \in Loads, SendLoad(s) PROVE GrantInv' /\ RevokeInv'
  <2>1. /\ \A o \in Slots \ {s} : calls'[o] = calls[o]
        /\ calls'[s] = [at |-> "sent", pol |-> Fresh, t |-> SampleTicket]
    BY <1>1, <1>e, SendStep, SampleTypes DEF SendLoad
  <2>2. calls'[s].at # "served"
    BY <2>1
  <2> QED
    BY <1>1, <1>4, <1>e, <2>1, <2>2 DEF SendLoad
<1>f. ASSUME NEW s \in Requests, Fail(s) PROVE GrantInv' /\ RevokeInv'
  <2>1. s \in Slots /\ [NoCall EXCEPT !.at = "failed"].at = "failed"
    BY <1>f DEF Requests, NoCall
  <2>2. \A o \in Slots \ {s} : calls'[o] = calls[o]
    BY <1>1, <1>f, <2>1 DEF Fail, Settled
  <2>3. s \in Loads => calls'[s].at = "failed"
    BY <1>1, <1>f, <2>1 DEF Fail
  <2>4. s \notin Loads => calls'[s].at = "idle"
    BY <1>1, <1>f, <2>1, SettleStep, SampleTypes DEF Fail
  <2> QED
    BY <1>4, <1>f, <2>1, <2>2, <2>3, <2>4 DEF Fail, history
<1>g. ASSUME NEW s \in Loads, LoadFailed(s) PROVE GrantInv' /\ RevokeInv'
  <2>1. (\A o \in Slots \ {s} : calls'[o] = calls[o]) /\ calls'[s].at = "idle"
    BY <1>1, <1>g, SettleStep, SampleTypes DEF LoadFailed
  <2> QED
    BY <1>4, <1>g, <2>1 DEF LoadFailed, history
<1>h. CASE Down \/ Recover \/ UNCHANGED vars
  BY <1>4, <1>h DEF Down, Recover, vars, history
<1>i. CASE Commit
  <2>1. draft \in Policy /\ draft # NoPolicy /\ SampleTicket \in Tickets
    BY <1>1, <1>i DEF Commit, Operates
  <2>2. /\ calls'["commit"] = [at |-> "sent", pol |-> draft, t |-> SampleTicket]
        /\ \A o \in Slots \ {"commit"} : calls'[o] = calls[o]
    BY <1>1, <1>i, <2>1, SendStep DEF Commit
  <2>3. calls'["commit"].pol = draft /\ (~astray' => ~astray /\ ~offline)
    BY <1>1, <1>i, <2>2 DEF Commit
  <2>4. ASSUME NEW t \in Tickets, Held(t), ~astray' PROVE Held(t)'
    BY <1>i, <2>1, <2>2, <2>3, <2>4 DEF Commit, Held, At
  <2>5. ASSUME NEW t \in Tickets, Clear(t), ~astray' PROVE Clear(t)'
    BY <1>i, <2>1, <2>2, <2>3, <2>5 DEF Commit, Clear, At
  <2>6. GrantInv'
    BY <1>1, <1>i, <2>2, <2>3, <2>4 DEF Commit, GrantInv, At
  <2>7. RevokeInv'
    BY <1>1, <1>i, <2>2, <2>3, <2>5 DEF Commit, RevokeInv, At
  <2> QED
    BY <2>6, <2>7
<1>j. ASSUME NEW t \in Tickets, Grant(t) PROVE GrantInv' /\ RevokeInv'
  <2>1. /\ calls'["grant"] = [at |-> "sent", pol |-> Fresh, t |-> t]
        /\ \A o \in Slots \ {"grant"} : calls'[o] = calls[o]
    BY <1>1, <1>j, SendStep, SampleTypes DEF Grant
  <2>2. calls'["grant"].at = "sent" /\ calls'["grant"].t = t
    BY <2>1
  <2>3. ~astray' => ~astray
    BY <1>1, <1>j DEF Grant
  <2>4. ASSUME NEW u \in Tickets, Held(u) PROVE Held(u)'
    BY <1>j, <2>1, <2>4 DEF Grant, Held, At
  <2>5. ASSUME NEW u \in Tickets, Clear(u) PROVE Clear(u)'
    BY <1>j, <2>1, <2>5 DEF Grant, Clear, At
  <2>6. GrantInv'
    BY <1>1, <1>j, <2>1, <2>2, <2>3, <2>4 DEF Grant, GrantInv, At
  <2>7. RevokeInv'
    BY <1>1, <1>j, <2>1, <2>2, <2>3, <2>5 DEF Grant, RevokeInv, At
  <2> QED
    BY <2>6, <2>7
<1>k. ASSUME NEW t \in Tickets, Revoke(t) PROVE GrantInv' /\ RevokeInv'
  <2>1. /\ draft \in Policy /\ draft # NoPolicy /\ draft.exc[t] \in Nat /\ draft.exc[t] > 0
        /\ draft.exc[t] - 1 \in Nat
    BY <1>1, <1>2, <1>k DEF Revoke, Operates
  <2>2. [Fresh EXCEPT !.exc = draft.exc] \in Policy /\ [Fresh EXCEPT !.exc = draft.exc].exc = draft.exc
    BY <2>1, SampleTypes DEF Policy
  <2>3. /\ calls'["revoke"] = [at |-> "sent", pol |-> [Fresh EXCEPT !.exc = draft.exc], t |-> t]
        /\ \A o \in Slots \ {"revoke"} : calls'[o] = calls[o]
    BY <1>1, <1>k, <2>2, SendStep DEF Revoke
  <2>4. calls'["revoke"].pol.exc = draft.exc /\ calls'["revoke"].t = t
    <3>1. /\ calls'["revoke"].pol = [Fresh EXCEPT !.exc = draft.exc]
          /\ calls'["revoke"].t = t
      BY <2>3, CallFields
    <3> QED
      BY <2>2, <3>1
  <2>5. draft'.exc[t] = draft.exc[t] - 1 /\ \A u \in Tickets \ {t} : draft'.exc[u] = draft.exc[u]
    BY <1>k, <2>1, RegisterTypes DEF Revoke, Amend
  <2>6. ~astray' => ~astray
    BY <1>1, <1>k DEF Revoke
  <2>7. ASSUME NEW u \in Tickets \ {t}, Held(u) PROVE Held(u)'
    BY <1>k, <2>1, <2>3, <2>5, <2>7 DEF Revoke, Held, At
  <2>8. ASSUME NEW u \in Tickets, Clear(u) PROVE Clear(u)'
    <3>1. CASE u = t
      BY <1>k, <2>1, <2>3, <2>8, <3>1 DEF Revoke, Clear, At
    <3>2. CASE u # t
      BY <1>k, <2>1, <2>3, <2>5, <2>8, <3>2 DEF Revoke, Clear, At
    <3> QED
      BY <3>1, <3>2
  <2>9. GrantInv'
    BY <1>1, <1>k, <2>3, <2>4, <2>6, <2>7 DEF Revoke, GrantInv, At
  <2>10. RevokeInv'
    BY <1>1, <1>k, <2>1, <2>3, <2>4, <2>5, <2>6, <2>8 DEF Revoke, RevokeInv, At
  <2> QED
    BY <2>9, <2>10
<1>l. ASSUME NEW s \in Loads \cup {"commit"}, Replace(calls[s].pol), At(s, "served"),
             calls' = Settled(s), UNCHANGED <<server, history>>,
             s \in Loads \/ offline' = offline
      PROVE  GrantInv' /\ RevokeInv'
  <2>1. (\A o \in Slots \ {s} : calls'[o] = calls[o]) /\ calls'[s].at = "idle"
    BY <1>1, <1>l, SettleStep, SampleTypes
  <2>2. draft' = calls[s].pol /\ due' = due /\ gone' = gone /\ astray' = astray
    BY <1>l DEF Replace, history
  <2>3. ~astray => At("grant", "idle") /\ At("revoke", "idle")
    BY <1>1, <1>l DEF Apart, At
  <2>4. ASSUME NEW t \in Tickets, Held(t) PROVE Held(t)'
    BY <1>1, <1>2, <1>l, <2>1, <2>2, <2>4 DEF Held, At
  <2>5. ASSUME NEW t \in Tickets, Clear(t) PROVE Clear(t)'
    BY <1>1, <1>2, <1>l, <2>1, <2>2, <2>5 DEF Clear, At
  <2>6. GrantInv'
    BY <1>1, <1>l, <2>1, <2>2, <2>3, <2>4 DEF GrantInv, At
  <2>7. RevokeInv'
    BY <1>1, <1>l, <2>1, <2>2, <2>3, <2>5 DEF RevokeInv, At
  <2> QED
    BY <2>6, <2>7
<1>m. ASSUME NEW s \in Loads, Loaded(s) PROVE GrantInv' /\ RevokeInv'
  BY <1>l, <1>m DEF Loaded
<1>n. CASE Committed
  BY <1>l, <1>n DEF Committed
<1>o. ASSUME NEW t \in Tickets, Granted(t) PROVE GrantInv' /\ RevokeInv'
  <2>1. draft \in Policy /\ draft # NoPolicy
    BY <1>1, <1>o DEF Granted, Started, At
  <2>2. (\A o \in Slots \ {"grant"} : calls'[o] = calls[o]) /\ calls'["grant"].at = "idle"
    BY <1>1, <1>o, SettleStep, SampleTypes DEF Granted
  <2>3. /\ draft'.exc[t] = draft.exc[t] + 1 /\ draft.exc[t] \in Nat
        /\ \A u \in Tickets \ {t} : draft'.exc[u] = draft.exc[u]
    BY <1>2, <1>o, <2>1, OneMore DEF Granted, Amend
  <2>4. ~astray => At("revoke", "idle") /\ At("commit", "idle") /\ \A s \in Loads : At(s, "idle")
    BY <1>1, <1>o DEF Apart, Granted, At
  <2>5. ~astray => Held(t)'
    BY <1>1, <1>o, <2>2, <2>3, <2>4 DEF GrantInv, Granted, Held, At
  <2>6. ASSUME NEW u \in Tickets \ {t}, Held(u) PROVE Held(u)'
    BY <1>o, <2>1, <2>2, <2>3, <2>6 DEF Granted, Held, At
  <2>7. ASSUME NEW u \in Tickets \ {t}, Clear(u) PROVE Clear(u)'
    BY <1>o, <2>1, <2>2, <2>3, <2>7 DEF Granted, Clear, At
  <2>8. GrantInv'
    BY <1>1, <1>o, <2>2, <2>4, <2>5, <2>6 DEF Granted, GrantInv, At
  <2>9. RevokeInv'
    BY <1>1, <1>o, <2>2, <2>4, <2>7 DEF Granted, RevokeInv, At
  <2> QED
    BY <2>8, <2>9
<1>p. ASSUME NEW s \in Requests, Serve(s) PROVE GrantInv' /\ RevokeInv'
  <2> USE <1>p
  <2>1. /\ s \in Slots /\ At(s, "sent") /\ s # "rules" /\ server' = After(s)
        /\ UNCHANGED <<draft, offline, due, astray>>
    BY DEF Requests, Serve
  <2>2. CASE s \in Loads
    <3>1. /\ calls' = [calls EXCEPT ![s].at = "served", ![s].pol = server]
          /\ server' = server /\ gone' = gone
      BY <2>1, <2>2 DEF Serve, After
    <3>2. (\A o \in Slots \ {s} : calls'[o] = calls[o]) /\ calls'[s].pol = server
      BY <1>1, <2>1, <3>1 DEF Call
    <3>3. ASSUME NEW t \in Tickets, Held(t) PROVE Held(t)'
      BY <2>1, <2>2, <3>1, <3>2, <3>3 DEF Held, At
    <3>4. ASSUME NEW t \in Tickets, Clear(t) PROVE Clear(t)'
      BY <2>1, <2>2, <3>1, <3>2, <3>4 DEF Clear, At
    <3>5. GrantInv'
      BY <1>1, <2>1, <2>2, <3>1, <3>2, <3>3 DEF GrantInv, At
    <3>6. RevokeInv'
      BY <1>1, <2>1, <2>2, <3>1, <3>2, <3>4 DEF RevokeInv, At
    <3> QED
      BY <3>5, <3>6
  <2>3. CASE s = "commit"
    <3>1. /\ calls' = [calls EXCEPT !["commit"].at = "served", !["commit"].pol = @]
          /\ server' = calls["commit"].pol /\ gone' = gone
      BY <2>1, <2>3 DEF Serve, After
    <3>2. /\ \A o \in Slots \ {"commit"} : calls'[o] = calls[o]
          /\ calls'["commit"].pol = calls["commit"].pol
      BY <1>1, <2>1, <3>1 DEF Call
    <3>3. ~astray => At("grant", "idle") /\ At("revoke", "idle")
      BY <1>1, <2>1, <2>3 DEF Apart, At
    <3>4. ASSUME NEW t \in Tickets, Held(t) PROVE Held(t)'
      BY <2>1, <2>3, <3>1, <3>2, <3>4 DEF Held, At
    <3>5. ASSUME NEW t \in Tickets, Clear(t) PROVE Clear(t)'
      BY ZenonT(60), <2>1, <2>3, <3>1, <3>2, <3>5 DEF Clear, At
    <3>6. GrantInv'
      BY <1>1, <2>1, <3>1, <3>2, <3>3, <3>4 DEF GrantInv, At
    <3>7. RevokeInv'
      BY <1>1, <2>1, <3>1, <3>2, <3>3, <3>5 DEF RevokeInv, At
    <3> QED
      BY <3>6, <3>7
  <2>4. CASE s = "grant"
    <3> DEFINE g == calls["grant"].t
    <3>1. /\ calls' = [calls EXCEPT !["grant"].at = "served", !["grant"].pol = @]
          /\ server' = [server EXCEPT !.exc[g] = @ + 1] /\ gone' = gone
      BY <2>1, <2>4 DEF Serve, After
    <3>2. /\ \A o \in Slots \ {"grant"} : calls'[o] = calls[o]
          /\ calls'["grant"].t = g
      BY <1>1, <2>1, <3>1 DEF Call
    <3>3. /\ server'.exc[g] = server.exc[g] + 1 /\ server.exc[g] \in Nat
          /\ \A t \in Tickets \ {g} : server'.exc[t] = server.exc[t]
      <4>1. g \in Tickets /\ server \in Policy
        BY <1>1
      <4> HIDE DEF g
      <4> QED
        BY <1>2, <3>1, <4>1, OneMore
    <3>4. ~astray => At("revoke", "idle") /\ g \notin gone
      BY <1>1, <2>1, <2>4 DEF Apart, RevokeInv, At
    <3>5. ASSUME NEW t \in Tickets, Held(t) PROVE Held(t)'
      <4>1. server'.exc[t] > 0
        BY <3>3, <3>5 DEF Held
      <4> QED
        BY <2>1, <3>2, <3>5, <4>1 DEF Held, At
    <3>6. ASSUME NEW t \in Tickets \ {g}, Clear(t) PROVE Clear(t)'
      BY <2>1, <3>2, <3>3, <3>6 DEF Clear, At
    <3>7. server'.exc[calls'["grant"].t] > 0
      BY <3>2, <3>3
    <3>8. GrantInv'
      BY <1>1, <2>1, <3>1, <3>2, <3>4, <3>5, <3>7 DEF GrantInv, At
    <3>9. RevokeInv'
      BY <1>1, <2>1, <3>1, <3>2, <3>4, <3>6 DEF RevokeInv, At
    <3> QED
      BY <3>8, <3>9
  <2>5. CASE s = "revoke"
    <3> DEFINE g == calls["revoke"].t
    <3>1. /\ calls' = Settled("revoke") /\ server' = [server EXCEPT !.exc[g] = 0]
          /\ gone' = IF calls["revoke"].pol.exc[g] = 1 THEN gone \cup {g} ELSE gone
      BY <2>1, <2>5 DEF Serve, After, Loads
    <3>2. /\ \A o \in Slots \ {"revoke"} : calls'[o] = calls[o]
          /\ calls'["revoke"].at = "idle"
      BY <1>1, <3>1, SettleStep, SampleTypes
    <3>3. server'.exc[g] = 0 /\ \A t \in Tickets \ {g} : server'.exc[t] = server.exc[t]
      <4>1. g \in Tickets /\ server \in Policy /\ 0 \in Nat
        BY <1>1
      <4> HIDE DEF g
      <4> QED
        BY <3>1, <4>1, RegisterTypes
    <3>4. ~astray => /\ At("grant", "idle") /\ At("commit", "idle") /\ g \notin due
                     /\ \A o \in Loads : At(o, "idle")
      BY <1>1, <2>1, <2>5 DEF Apart, GrantInv, At
    <3>5. ASSUME NEW t \in Tickets \ {g}, Held(t) PROVE Held(t)'
      BY <2>1, <3>2, <3>3, <3>5 DEF Held, At
    <3>6. ASSUME NEW t \in Tickets, Clear(t) PROVE Clear(t)'
      BY <1>1, <2>1, <3>2, <3>3, <3>6 DEF Clear, At
    <3>7. ASSUME NEW u \in Tickets, u = g, ~astray, calls["revoke"].pol.exc[u] = 1 PROVE Clear(u)'
      <4>1. ~offline => draft.exc[u] = 0
        BY <1>1, <2>1, <2>5, <3>7 DEF RevokeInv, At
      <4>2. At("commit", "idle")' /\ \A o \in Loads : At(o, "idle")'
        BY <3>2, <3>4, <3>7 DEF At
      <4>3. server'.exc[u] = 0 /\ (~offline' => draft'.exc[u] = 0)
        BY <2>1, <3>3, <3>7, <4>1
      <4> QED
        BY <4>2, <4>3 DEF Clear, At
    <3>8. GrantInv'
      BY <1>1, <2>1, <3>2, <3>4, <3>5 DEF GrantInv, At
    <3>9. RevokeInv'
      <4>1. ASSUME ~astray, NEW t \in gone' PROVE Clear(t)'
        <5>1. CASE t \in gone
          BY <1>1, <3>6, <4>1, <5>1 DEF RevokeInv
        <5>2. CASE t \notin gone
          BY <1>1, <3>1, <3>7, <4>1, <5>2
        <5> QED
          BY <5>1, <5>2
      <4>2. ~astray => At("grant", "idle")' /\ At("revoke", "idle")'
        BY <3>2, <3>4 DEF At
      <4> QED
        BY <2>1, <4>1, <4>2 DEF RevokeInv
    <3> QED
      BY <3>8, <3>9
  <2> QED
    BY <2>1, <2>2, <2>3, <2>4, <2>5 DEF Requests, Slots
<1>q. CASE Elsewhere
  <2>1. UNCHANGED <<draft, offline, calls, due, astray>>
    BY <1>q DEF Elsewhere
  <2>2. PICK q \in {[server EXCEPT !.exc[t] = @ + 1] : t \in Tickets}
                     \cup {[server EXCEPT !.ai = @ + 1]} :
          /\ server' = q
          /\ gone' = gone \ {t \in Tickets : q.exc[t] > server.exc[t]}
    BY <1>q DEF Elsewhere
  <2>3. \A t \in Tickets : server'.exc[t] >= server.exc[t] /\ server'.exc[t] \in Nat
    <3>1. CASE q = [server EXCEPT !.ai = @ + 1]
      <4>1. q.exc = server.exc
        BY <1>1, <3>1 DEF Policy
      <4> QED
        BY <1>1, <1>2, <2>2, <4>1
    <3>2. ASSUME NEW u \in Tickets, q = [server EXCEPT !.exc[u] = @ + 1]
          PROVE  \A t \in Tickets : server'.exc[t] >= server.exc[t] /\ server'.exc[t] \in Nat
      <4>1. q.exc[u] = server.exc[u] + 1 /\ \A t \in Tickets \ {u} : q.exc[t] = server.exc[t]
        BY <1>1, <3>2, OneMore
      <4>2. \A t \in Tickets : server.exc[t] \in Nat
        BY <1>1, <1>2
      <4> QED
        BY <2>2, <4>1, <4>2
    <3> QED
      BY <2>2, <3>1, <3>2
  <2>4. \A t \in Tickets : server.exc[t] \in Nat
    BY <1>1, <1>2
  <2>5. \A t \in gone' : t \in gone /\ server'.exc[t] = server.exc[t]
    BY <1>1, <2>2, <2>3, <2>4
  <2>6. ASSUME NEW t \in Tickets, Held(t) PROVE Held(t)'
    BY <2>1, <2>3, <2>4, <2>6 DEF Held, At
  <2>7. ASSUME NEW t \in gone', Clear(t) PROVE Clear(t)'
    BY <2>1, <2>5, <2>7 DEF Clear, At
  <2>8. GrantInv'
    <3>1. At("grant", "served")' /\ ~astray' => server'.exc[calls'["grant"].t] > 0
      BY <1>1, <2>1, <2>3, <2>4 DEF GrantInv, At
    <3> QED
      BY <1>1, <2>1, <2>6, <3>1 DEF GrantInv, At
  <2>9. RevokeInv'
    BY <1>1, <2>1, <2>5, <2>7 DEF RevokeInv, At
  <2> QED
    BY <2>8, <2>9
<1> QED
  BY <1>a, <1>b, <1>c, <1>d, <1>e, <1>f, <1>g, <1>h, <1>i, <1>j, <1>k, <1>m, <1>n, <1>o, <1>p, <1>q
  DEF Next, Operator, Transport, Receive, OpenLedger, Retry

------------------------------------------------------------------------------

\* IInv is inductive.
LEMMA InductiveStep == IInv /\ [Next]_vars => IInv'
  BY TypeStep, ApartStep, RegisterStep DEF IInv

LEMMA Invariance == Spec => []IInv
<1>1. Init => IInv
  BY InitIInv
<1> QED
  BY <1>1, InductiveStep, PTL DEF Spec

\* Type correctness, for any controls, tickets and overlap of requests.
THEOREM ConsoleTyped == Spec => []TypeOK
<1>1. IInv => TypeOK
  BY DEF IInv
<1> QED
  BY <1>1, Invariance, PTL

\* The draft that Commit signs differs from the last answer of the server only in what
\* the operator touched, however late assistants and grants answer.
THEOREM DraftIsHonest == Spec => []UntouchedAsLoaded
<1>1. Init => UntouchedAsLoaded
  BY InitIInv
<1> QED
  BY <1>1, Invariance, UntouchedStep, PTL DEF Spec

\* No commit takes back an answered grant, or brings back an exception revoked as the
\* only one of its ticket, unless requests crossed or a commit was made offline.
THEOREM AnswersAreKept == Spec => []AnswersStand
<1>1. IInv => GrantStands
  BY DEF IInv, GrantInv, GrantStands, Held
<1>2. IInv => RevocationStands
  BY DEF IInv, RevokeInv, RevocationStands, Clear
<1>3. IInv => AnswersStand
  BY <1>1, <1>2 DEF AnswersStand
<1> QED
  BY <1>3, Invariance, PTL
==============================================================================
