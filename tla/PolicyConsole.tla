---------------------------- MODULE PolicyConsole ----------------------------
(***************************************************************************)
(* One browser's copy of the policy (App.jsx) against the policy in force. *)
(*                                                                         *)
(* The console edits a draft of the whole policy, and Commit puts all of it*)
(* in the place of the server's.  Exceptions and AI settings go straight to*)
(* the server; the draft follows a grant when it is answered, a revocation *)
(* at once, the AI settings never.  Every reload replaces the draft.       *)
(***************************************************************************)
EXTENDS Naturals

CONSTANTS
    Licences, Feeds,    \* what list-valued controls range over
    Tickets,            \* tickets of exceptions
    SampleTicket,       \* SEC-1042, the exception of the DEMO policy
    Thresholds,         \* CVSS thresholds the operator types, in tenths
    Severities,         \* severities the assistant may answer with
    NoPolicy,           \* null: nothing is loaded yet
    MaxOps,             \* bound: edits, commits, grants, revocations, requests to the assistant
    MaxOutages          \* bound: times the API goes away

CVSS == [Critical |-> 90, High |-> 70, Medium |-> 40, Low |-> 1]

ASSUME ConsoleAssumption ==
    /\ SampleTicket \in Tickets
    /\ Thresholds \subseteq Nat /\ Severities \subseteq DOMAIN CVSS
    /\ MaxOps \in Nat /\ MaxOutages \in Nat

VARIABLES
    server,        \* the policy in force
    up,            \* whether the API answers
    draft,         \* policy: the console's copy
    offline,       \* the console works on the DEMO policy
    calls,         \* the requests and timers under way, one per slot
    base,          \* history: the policy that last replaced the draft
    touched,       \* history: the fields changed in the draft since then
    due,           \* history: tickets whose grant was answered, and not revoked since
    gone,          \* history: tickets whose last exception was revoked
    astray,        \* history: whether requests crossed, or a commit was made offline
    ops, outages

vars == <<server, up, draft, offline, calls, base, touched, due, gone, astray,
          ops, outages>>
history == <<due, gone, astray>>

\* exc counts the exceptions of each ticket: the register is a list.
Policy == [kev : BOOLEAN, cvss : Nat, lic : SUBSET Licences, feeds : SUBSET Feeds,
           exc : [Tickets -> Nat], ai : Nat]

ASSUME NoPolicyIsNone == NoPolicy \notin Policy

Fields == {"kev", "cvss", "lic", "feeds", "exc", "ai"}

\* Loads overlap (mount, tab, poll, retry); each of the others disables its button.
Loads == {"load", "reload"}
Slots == Loads \cup {"commit", "grant", "revoke", "rules", "feeds"}

Call == [at : {"idle", "sent", "served", "failed"}, pol : Policy, t : Tickets]

\* DEMO: what the console shows while the API is away
Demo == [kev |-> TRUE, cvss |-> 70, lic |-> Licences, feeds |-> Feeds,
         exc |-> [t \in Tickets |-> IF t = SampleTicket THEN 1 ELSE 0], ai |-> 0]

\* A server that was never configured
Fresh == [kev |-> TRUE, cvss |-> 70, lic |-> {}, feeds |-> Feeds,
          exc |-> [t \in Tickets |-> 0], ai |-> 0]

TypeOK ==
    /\ server \in Policy /\ up \in BOOLEAN
    /\ draft \in Policy \cup {NoPolicy} /\ offline \in BOOLEAN
    /\ calls \in [Slots -> Call]
    /\ base \in Policy \cup {NoPolicy} /\ touched \in SUBSET Fields
    /\ due \in SUBSET Tickets /\ gone \in SUBSET Tickets /\ astray \in BOOLEAN
    /\ ops \in Nat /\ outages \in Nat

At(s, step) == calls[s].at = step
Send(s, pol, t) == calls' = [calls EXCEPT ![s] = [at |-> "sent", pol |-> pol, t |-> t]]
NoCall == [at |-> "idle", pol |-> Fresh, t |-> SampleTicket]
Settled(s) == [calls EXCEPT ![s] = NoCall]

\* The first load starts when the page mounts.
Init ==
    /\ server = Fresh /\ up = TRUE
    /\ draft = NoPolicy /\ offline = FALSE
    /\ calls = [s \in Slots |-> [NoCall EXCEPT !.at = IF s = "load" THEN "sent" ELSE "idle"]]
    /\ base = NoPolicy /\ touched = {}
    /\ due = {} /\ gone = {} /\ astray = FALSE
    /\ ops = 0 /\ outages = 0

Operates == draft # NoPolicy /\ ops < MaxOps /\ ops' = ops + 1

Changed(p, q) == {f \in Fields : p[f] # q[f]}

\* setPolicy(p => q), meant for the fields fs
Amend(q, fs) == draft' = q /\ touched' = touched \cup fs

\* setPolicy(p), from an answer
Replace(p) == draft' = p /\ base' = p /\ touched' = {}

\* Requests whose effects on the register depend on their order
Crosses(s) ==
    \/ s \in Loads \cup {"commit"} /\ \E o \in {"grant", "revoke"} : ~At(o, "idle")
    \/ s \in {"grant", "revoke"} /\
         \E o \in Loads \cup {"commit", "grant", "revoke"} : ~At(o, "idle")

------------------------------------------------------------------------------
\* The policies one click away from p

\* Switch
Switched(p) == {[p EXCEPT !.kev = ~p.kev]}

\* Stepper
Stepped(p) == {[p EXCEPT !.cvss = v] : v \in Thresholds}

\* Chips
Chipped(p) == {[p EXCEPT !.lic = p.lic \cup {l}] : l \in Licences}
                 \cup {[p EXCEPT !.lic = p.lic \ {l}] : l \in Licences}

\* RecoBadge: a recommended list is added to, never taken from.
Recommended(p) ==
    {[p EXCEPT !.kev = TRUE], [p EXCEPT !.cvss = CVSS.High], [p EXCEPT !.lic = p.lic \cup Licences]}

PresetThreshold == [Strict |-> 70, Balanced |-> 80, Permissive |-> 90]

\* PolicyPresets: every profile blocks known-exploited flaws.
Preset(p) == {[p EXCEPT !.kev = TRUE, !.cvss = PresetThreshold[k]] : k \in DOMAIN PresetThreshold}

\* GuidedSetup: one control after the other, as recommended or as chosen.
Guided(p) == Recommended(p) \cup Switched(p) \cup Stepped(p)

\* Sources: the toggle of a feed, and the presets
Toggled(p) == {[p EXCEPT !.feeds = p.feeds \cup {f}] : f \in Feeds}
                 \cup {[p EXCEPT !.feeds = p.feeds \ {f}] : f \in Feeds}
FeedPreset(p) == {[p EXCEPT !.feeds = Feeds]}

Clicks(p) == UNION {Switched(p), Stepped(p), Chipped(p), Recommended(p), Preset(p), Guided(p),
                    Toggled(p), FeedPreset(p)} \ {p}

Edit ==
    /\ Operates
    /\ \E q \in Clicks(draft) : Amend(q, Changed(draft, q))
    /\ UNCHANGED <<server, up, offline, calls, base, history, outages>>

------------------------------------------------------------------------------
\* The assistant: what it applies was worked out from the draft of the time it was asked.

AskRules ==
    /\ Operates
    /\ At("rules", "idle") /\ Send("rules", draft, SampleTicket)
    /\ UNCHANGED <<server, up, draft, offline, base, touched, history, outages>>

\* Mutant: the draft of the time is put back with the changes in it.
WithRulesWhole(p, cap, r) ==
    [cap EXCEPT !.kev = cap.kev \/ r.kev,
                !.cvss = IF r.cvss < cap.cvss THEN r.cvss ELSE cap.cvss,
                !.lic = cap.lic \cup r.lic]

\* set(...) for each control whose value in cap the rules r tighten
WithRules(p, cap, r) ==
    [p EXCEPT !.kev  = IF r.kev /\ ~cap.kev THEN TRUE ELSE p.kev,
              !.cvss = IF r.cvss < cap.cvss THEN r.cvss ELSE p.cvss,
              !.lic  = IF r.lic \subseteq cap.lic THEN p.lic ELSE cap.lic \cup r.lic]

\* A severity missing from the answer counts as High; 100 stands for no CVE rule.
Rules == [kev : BOOLEAN, cvss : {CVSS[v] : v \in Severities} \cup {100}, lic : SUBSET Licences]

ApplyRules ==
    /\ up /\ At("rules", "sent")
    /\ \E r \in Rules : Amend(WithRules(draft, calls["rules"].pol, r), {"kev", "cvss", "lic"})
    /\ calls' = Settled("rules")
    /\ UNCHANGED <<server, up, offline, base, history, ops, outages>>

\* aiSetupSources: the feeds named in the text, after a pause of 250 ms
AskFeeds ==
    /\ Operates
    /\ At("feeds", "idle") /\ Send("feeds", [Fresh EXCEPT !.feeds = draft.feeds], SampleTicket)
    /\ UNCHANGED <<server, up, draft, offline, base, touched, history, outages>>

ApplyFeeds ==
    /\ At("feeds", "sent")
    /\ \E want \in SUBSET Feeds :
         Amend([draft EXCEPT !.feeds = calls["feeds"].pol.feeds \cup want], {"feeds"})
    /\ calls' = Settled("feeds")
    /\ UNCHANGED <<server, up, offline, base, history, ops, outages>>

------------------------------------------------------------------------------
\* Loading: mount, the ledger tabs and their poll, and the retry while offline

\* A second load takes the second slot.
SendLoad(s) ==
    /\ s = "reload" => ~At("load", "idle")
    /\ At(s, "idle") /\ Send(s, Fresh, SampleTicket)
    /\ astray' = (astray \/ Crosses(s))
    /\ UNCHANGED <<server, up, draft, offline, base, touched, due, gone, ops, outages>>

OpenLedger(s) == draft # NoPolicy /\ SendLoad(s)

\* Mutant: the retry belongs to the ledger tab's poll, which needs an answer first.
RetryNever(s) == offline /\ draft = NoPolicy /\ SendLoad(s)

Retry(s) == offline /\ SendLoad(s)

Loaded(s) ==
    /\ At(s, "served")
    /\ Replace(calls[s].pol) /\ offline' = FALSE
    /\ calls' = Settled(s)
    /\ UNCHANGED <<server, up, history, ops, outages>>

LoadFailed(s) ==
    /\ At(s, "failed")
    /\ Replace(Demo) /\ offline' = TRUE
    /\ calls' = Settled(s)
    /\ UNCHANGED <<server, up, history, ops, outages>>

------------------------------------------------------------------------------
\* Commit & sign: the draft of the moment the button is pressed, whatever it came from

Commit ==
    /\ Operates
    /\ At("commit", "idle") /\ Send("commit", draft, SampleTicket)
    /\ astray' = (astray \/ Crosses("commit") \/ offline)
    /\ UNCHANGED <<server, up, draft, offline, base, touched, due, gone, outages>>

\* The answer is the policy as committed: edits made meanwhile are lost.
Committed ==
    /\ At("commit", "served")
    /\ Replace(calls["commit"].pol)
    /\ calls' = Settled("commit")
    /\ UNCHANGED <<server, up, offline, history, ops, outages>>

------------------------------------------------------------------------------
\* Exceptions

Grant(t) ==
    /\ Operates
    /\ At("grant", "idle") /\ Send("grant", Fresh, t)
    /\ gone' = gone \ {t}
    /\ astray' = (astray \/ Crosses("grant"))
    /\ UNCHANGED <<server, up, draft, offline, base, touched, due, outages>>

Granted(t) ==
    /\ At("grant", "served") /\ calls["grant"].t = t
    /\ Amend([draft EXCEPT !.exc[t] = @ + 1], {"exc"})
    /\ due' = due \cup {t}
    /\ calls' = Settled("grant")
    /\ UNCHANGED <<server, up, offline, base, gone, astray, ops, outages>>

\* Mutant: the row stays until the next load.
RevokeUnseen(t) ==
    /\ Operates /\ draft.exc[t] > 0
    /\ At("revoke", "idle") /\ Send("revoke", [Fresh EXCEPT !.exc = draft.exc], t)
    /\ due' = due \ {t} /\ astray' = (astray \/ Crosses("revoke"))
    /\ UNCHANGED <<server, up, draft, offline, base, touched, gone, outages>>

\* One row goes; the request names the ticket, and nobody looks at its answer.
Revoke(t) ==
    /\ Operates /\ draft.exc[t] > 0
    /\ At("revoke", "idle") /\ Send("revoke", [Fresh EXCEPT !.exc = draft.exc], t)
    /\ Amend([draft EXCEPT !.exc[t] = @ - 1], {"exc"})
    /\ due' = due \ {t} /\ astray' = (astray \/ Crosses("revoke"))
    /\ UNCHANGED <<server, up, offline, base, gone, outages>>

------------------------------------------------------------------------------
\* The server

\* The policy in force after the request in slot s.  Revoking removes every
\* exception of the ticket.
After(s) ==
    CASE s = "commit" -> calls[s].pol
      [] s = "grant"  -> [server EXCEPT !.exc[calls[s].t] = @ + 1]
      [] s = "revoke" -> [server EXCEPT !.exc[calls[s].t] = 0]
      [] OTHER        -> server

Requests == Slots \ {"feeds"}

Serve(s) ==
    /\ up /\ At(s, "sent") /\ s # "rules"
    /\ server' = After(s)
    /\ calls' = IF s = "revoke" THEN Settled(s)
                ELSE [calls EXCEPT ![s].at = "served",
                                   ![s].pol = IF s \in Loads THEN server ELSE @]
    /\ gone' = IF s = "revoke" /\ calls[s].pol.exc[calls[s].t] = 1
               THEN gone \cup {calls[s].t} ELSE gone
    /\ UNCHANGED <<up, draft, offline, base, touched, due, astray, ops, outages>>

\* Another operator's grant, and the AI settings, which no console's draft follows
Elsewhere ==
    /\ up /\ Operates
    /\ \E q \in {[server EXCEPT !.exc[t] = @ + 1] : t \in Tickets}
                 \cup {[server EXCEPT !.ai = @ + 1]} :
         /\ server' = q
         /\ gone' = gone \ {t \in Tickets : q.exc[t] > server.exc[t]}
    /\ UNCHANGED <<up, draft, offline, calls, base, touched, due, astray, outages>>

\* The API is away: the request does not reach it, or its answer does not come back.
\* Only a load does anything about it.
Fail(s) ==
    /\ ~up /\ (At(s, "sent") \/ At(s, "served"))
    /\ calls' = IF s \in Loads THEN [calls EXCEPT ![s] = [NoCall EXCEPT !.at = "failed"]]
                ELSE Settled(s)
    /\ UNCHANGED <<server, up, draft, offline, base, touched, history, ops, outages>>

Down ==
    /\ up /\ outages < MaxOutages
    /\ up' = FALSE /\ outages' = outages + 1
    /\ UNCHANGED <<server, draft, offline, calls, base, touched, history, ops>>

Recover ==
    /\ ~up /\ up' = TRUE
    /\ UNCHANGED <<server, draft, offline, calls, base, touched, history, ops, outages>>

------------------------------------------------------------------------------

Receive(s) ==
    \/ s \in Loads /\ (Loaded(s) \/ LoadFailed(s))
    \/ s = "commit" /\ Committed
    \/ s = "grant" /\ \E t \in Tickets : Granted(t)
    \/ s = "rules" /\ ApplyRules

Transport(s) == Serve(s) \/ Fail(s)

Operator ==
    \/ Edit \/ AskRules \/ AskFeeds \/ Commit
    \/ \E t \in Tickets : Grant(t) \/ Revoke(t)
    \/ \E s \in Loads : OpenLedger(s)

Next ==
    \/ Operator
    \/ \E s \in Requests : Transport(s) \/ Receive(s)
    \/ \E s \in Loads : Retry(s)
    \/ ApplyFeeds
    \/ Elsewhere \/ Down \/ Recover

Spec == Init /\ [][Next]_vars

\* A fetch settles, its handler runs, and the retry interval comes round.
Fairness ==
    /\ \A s \in Requests : WF_vars(Transport(s)) /\ WF_vars(Receive(s))
    /\ WF_vars(\E s \in Loads : Retry(s))

FairSpec == Spec /\ Fairness

------------------------------------------------------------------------------
\* Correctness

\* What the operator did not touch is as the server last sent it: an answer of the
\* assistant, of a grant or of the feed parser, however late, brings no old value
\* of another control into the draft that Commit signs (set, ControlsAiBuilder,
\* aiSetupSources, Exceptions).
UntouchedAsLoaded == draft # NoPolicy => \A f \in Fields \ touched : draft[f] = base[f]

\* A grant that was answered outlives every later Commit of the whole policy by
\* this console, unless requests crossed or the commit was made offline (Exceptions.add).
GrantStands == ~astray => \A t \in due : server.exc[t] > 0

\* Under the same conditions an exception that was revoked as the only one of its
\* ticket is not brought back by a Commit (the Revoke button of Exceptions).
RevocationStands == ~astray => \A t \in gone : server.exc[t] = 0

\* What the console was told about an exception is not taken back by its own commits.
AnswersStand == GrantStands /\ RevocationStands

\* If the API stays up, the console does not stay on the sample policy (the self-heal
\* effect of App).
OfflineHeals == <>[]up => <>[]~offline
==============================================================================
