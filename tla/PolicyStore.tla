----------------------------- MODULE PolicyStore -----------------------------
(***************************************************************************)
(* The PolicyStore, cut down to the exceptions of the policy: the copy in  *)
(* memory, the file policy.json, the requests that read, clone and update  *)
(* the policy, and the hourly ExceptionSweepJob.                           *)
(*                                                                         *)
(* UpdateAsync swaps the policy in under a lock, but leaves the lock before*)
(* it writes the file, and its callers took their copy before they came.   *)
(***************************************************************************)
EXTENDS Naturals

CONSTANTS
    Tickets,       \* one exception per ticket
    Undated,       \* tickets granted without an expiry date
    Clients,       \* requests in flight at the same time
    Sweepers,      \* the ExceptionSweepJob of the host, if it runs
    Empty, Torn,   \* policy.json: truncated; not a JSON document
    MaxRequests,   \* bound: requests begun
    MaxFaults,     \* bound: file writes that fail or are cut short
    MaxRestarts    \* bound: times the host stops between two writes

ASSUME StoreAssumption ==
    /\ Tickets # {} /\ Undated \subseteq Tickets
    /\ Clients \cap Sweepers = {}
    /\ MaxRequests \in Nat /\ MaxFaults \in Nat /\ MaxRestarts \in Nat

VARIABLES
    current,       \* _current
    file,          \* policy.json
    past,          \* tickets whose Expires is in the past
    work,          \* what each client and the sweep is doing
    inForce,       \* history: the policies since the last start
    acked,         \* history: tickets granted, and due to be in force
    withdrawn,     \* history: tickets withdrawn and not granted again
    crowded,       \* history: whether two of them were ever under way at once
    begun, faults, restarts

history  == <<inForce, acked, withdrawn, crowded>>
counters == <<begun, faults, restarts>>
vars == <<current, file, past, work, inForce, acked, withdrawn, crowded, begun, faults, restarts>>

Actors == Clients \cup Sweepers
Policy == [ver : Nat, exc : SUBSET Tickets]

ASSUME FileStates == {Empty, Torn} \cap Policy = {}

\* new FirewallPolicy()
Default == [ver |-> 1, exc |-> {}]

Kinds == {"grant", "withdraw", "edit", "sweep"}
Steps == {"idle", "audit", "update", "open", "write"}

\* t is the request's ticket, copy the policy it read, text what it writes; alone
\* says that no request to the opposite effect on t has overlapped with it.
Work == [at : Steps, kind : Kinds, t : Tickets, alone : BOOLEAN,
         copy : Policy, text : Policy]

TypeOK ==
    /\ current \in Policy
    /\ file \in Policy \cup {Empty, Torn}
    /\ past \in SUBSET Tickets
    /\ work \in [Actors -> Work]
    /\ inForce \in SUBSET Policy
    /\ acked \in SUBSET Tickets /\ withdrawn \in SUBSET Tickets /\ crowded \in BOOLEAN
    /\ begun \in Nat /\ faults \in Nat /\ restarts \in Nat

Idle == [at |-> "idle", kind |-> "edit", t |-> CHOOSE t \in Tickets : TRUE,
         alone |-> TRUE, copy |-> Default, text |-> Default]

\* An unset Expires is the year 1: past from the start.
Init ==
    /\ current = Default /\ file = Default
    /\ past = Undated
    /\ work = [a \in Actors |-> Idle]
    /\ inForce = {Default}
    /\ acked = {} /\ withdrawn = {} /\ crowded = FALSE
    /\ begun = 0 /\ faults = 0 /\ restarts = 0

At(a, step) == work[a].at = step
Goto(a, step) == work' = [work EXCEPT ![a].at = step]

\* Nothing else is under way when a comes in.
Alone(a) == \A b \in Actors \ {a} : At(b, "idle")

------------------------------------------------------------------------------
\* The head of a request, and of a sweep: the copy is taken

Opposite == [grant |-> "withdraw", withdraw |-> "grant", edit |-> "none", sweep |-> "none"]

Contends(b, kind, t) == ~At(b, "idle") /\ work[b].kind = Opposite[kind] /\ work[b].t = t

Begin(c) ==
    /\ At(c, "idle") /\ begun < MaxRequests
    /\ begun' = begun + 1
    /\ \E kind \in Kinds \ {"sweep"}, t \in Tickets :
         /\ work' = [b \in Actors |->
               IF b = c THEN [Idle EXCEPT !.at = "update", !.kind = kind, !.t = t, !.copy = current,
                                          !.alone = ~\E d \in Actors : Contends(d, kind, t)]
               ELSE [work[b] EXCEPT !.alone = @ /\ ~Contends(b, kind, t)]]
         /\ acked' = IF kind = "withdraw" THEN acked \ {t} ELSE acked
         /\ withdrawn' = IF kind = "grant" THEN withdrawn \ {t} ELSE withdrawn
    /\ crowded' = (crowded \/ ~Alone(c))
    /\ UNCHANGED <<current, file, past, inForce, faults, restarts>>

\* Where(e => e.Expires < UtcNow)
Expired(pol) == pol.exc \cap past

Sweep(s) ==
    /\ At(s, "idle") /\ Expired(current) # {}
    /\ work' = [work EXCEPT ![s] = [Idle EXCEPT !.at = "audit", !.kind = "sweep", !.copy = current]]
    /\ crowded' = (crowded \/ ~Alone(s))
    /\ UNCHANGED <<current, file, past, inForce, acked, withdrawn, counters>>

\* Mutant: the expired exceptions are audited, and stay.
AuditExpiredOnly(s) ==
    /\ At(s, "audit")
    /\ work' = [work EXCEPT ![s] = Idle]
    /\ UNCHANGED <<current, file, past, history, counters>>

\* One SEC-EXC-EXPIRED entry for each of them: the sweep awaits the audit log.
AuditExpired(s) ==
    /\ At(s, "audit")
    /\ Goto(s, "update")
    /\ UNCHANGED <<current, file, past, history, counters>>

------------------------------------------------------------------------------
\* UpdateAsync

\* Mutant: a field-by-field copy that forgets the exceptions.
RevisedNoCopy(w) == IF w.kind = "grant" THEN {w.t} ELSE {}

\* Mutant: the copy is merged with what is in force, so that no grant is lost.
RevisedMerged(w) == w.copy.exc \cup current.exc \cup (IF w.kind = "grant" THEN {w.t} ELSE {})

\* The exceptions of the policy the caller hands in.  The sweep compares with
\* the clock a second time.
Revised(w) ==
    CASE w.kind = "grant"    -> w.copy.exc \cup {w.t}
      [] w.kind = "withdraw" -> w.copy.exc \ {w.t}
      [] w.kind = "sweep"    -> w.copy.exc \ past
      [] w.kind = "edit"     -> w.copy.exc

\* The policy that takes the place of current: the caller's, under the version
\* that follows the one in force.
Successor(w) == [ver |-> current.ver + 1, exc |-> Revised(w)]

Update(a) ==
    /\ At(a, "update")
    /\ current' = Successor(work[a])
    /\ inForce' = inForce \cup {Successor(work[a])}
    /\ Goto(a, "open")
    /\ UNCHANGED <<file, past, acked, withdrawn, crowded, counters>>

\* Mutant: what is written is the policy as the caller handed it in.
OpenCopy(a) ==
    /\ At(a, "open")
    /\ work' = [work EXCEPT ![a].at = "write",
                            ![a].text = [ver |-> work[a].copy.ver, exc |-> Revised(work[a])]]
    /\ file' = Empty
    /\ UNCHANGED <<current, past, history, counters>>

\* Outside the lock: whatever is current now is serialised, and WriteAllText
\* truncates the file.
Open(a) ==
    /\ At(a, "open")
    /\ work' = [work EXCEPT ![a].at = "write", ![a].text = current]
    /\ file' = Empty
    /\ UNCHANGED <<current, past, history, counters>>

\* The reply to request a.  From here on a grant with a date is due until it lapses
\* or a withdrawal begins, an uncontended withdrawal until a grant begins.
Reply(a) ==
    /\ acked' = IF work[a].kind = "grant" /\ work[a].t \notin past
                THEN acked \cup {work[a].t} ELSE acked
    /\ withdrawn' = IF work[a].kind = "withdraw" /\ work[a].alone
                    THEN withdrawn \cup {work[a].t} ELSE withdrawn
    /\ work' = [work EXCEPT ![a] = Idle]

\* The text goes in from offset 0.  Another writer's text may be there by now,
\* and stick out at the end.
Write(a) ==
    /\ At(a, "write")
    /\ file' \in {work[a].text} \cup (IF file \in {Empty, work[a].text} THEN {} ELSE {Torn})
    /\ Reply(a)
    /\ UNCHANGED <<current, past, inForce, crowded, counters>>

\* The file cannot be opened: the request fails, the policy in memory stays.
OpenFails(a) ==
    /\ At(a, "open") /\ faults < MaxFaults
    /\ faults' = faults + 1
    /\ work' = [work EXCEPT ![a] = Idle]
    /\ UNCHANGED <<current, file, past, history, begun, restarts>>

------------------------------------------------------------------------------
\* The clock and the host

Lapse(t) ==
    /\ t \notin past
    /\ past' = past \cup {t}
    /\ acked' = acked \ {t}
    /\ UNCHANGED <<current, file, work, inForce, withdrawn, crowded, counters>>

\* LoadOrDefault
Loaded(f) == IF f \in {Empty, Torn} THEN Default ELSE f

Start(f) ==
    /\ file' = f
    /\ current' = Loaded(f)
    /\ inForce' = {Loaded(f)}
    /\ work' = [a \in Actors |-> Idle]
    /\ UNCHANGED <<past, acked, withdrawn, crowded, begun>>

\* The host stops and starts, no file write being under way; requests in flight
\* die unanswered.
Restart ==
    /\ restarts < MaxRestarts /\ restarts' = restarts + 1
    /\ \A a \in Actors : ~At(a, "write")
    /\ Start(file)
    /\ UNCHANGED faults

\* The host stops in the middle of a write.
RestartTorn ==
    /\ faults < MaxFaults /\ faults' = faults + 1
    /\ \E a \in Actors : At(a, "write")
    /\ \E f \in {file, Torn} : Start(f)
    /\ UNCHANGED restarts

Step(a) == Update(a) \/ Open(a) \/ Write(a) \/ AuditExpired(a)

Next ==
    \/ \E c \in Clients : Begin(c)
    \/ \E s \in Sweepers : Sweep(s)
    \/ \E a \in Actors : Step(a) \/ OpenFails(a)
    \/ \E t \in Tickets : Lapse(t)
    \/ Restart \/ RestartTorn

Spec == Init /\ [][Next]_vars

\* Requests run to their end; the sweep comes round every hour.
Fairness ==
    /\ \A a \in Actors : WF_vars(Step(a))
    /\ \A s \in Sweepers : WF_vars(Sweep(s))

FairSpec == Spec /\ Fairness

------------------------------------------------------------------------------
\* Correctness

\* No two policies get the same version between two starts, however the callers'
\* copies overlap: an audit entry's version names one policy (UpdateAsync).
VersionsUnique == \A p, q \in inForce : p.ver = q.ver => p = q

\* The file never holds a policy that was not in force: what is written is what
\* the lock let in, not the caller's copy (UpdateAsync).
FileWasInForce == file \in Policy => file \in inForce

\* A grant that was answered is in force until it lapses or is withdrawn, through
\* edits, sweeps and restarts, as long as none of them overlapped and no file
\* operation failed.
GrantedIsKept == ~crowded /\ faults = 0 => acked \subseteq current.exc

\* Under the same conditions, whenever nothing is under way a restart would bring
\* back the policy in force.
PersistedWhenIdle ==
    ~crowded /\ faults = 0 /\ (\A a \in Actors : At(a, "idle")) => Loaded(file) = current

\* Every exception whose date has passed leaves the register, although requests
\* may put it back from an old copy (ExceptionSweepJob).
LapsedIsPurged == \A t \in Tickets \ Undated : t \in past \cap current.exc ~> t \notin current.exc

\* A ticket whose withdrawal was answered is not in force unless it is granted again:
\* "remove a matching exception so it can't bounce back" (Controllers), as long as requests
\* and the sweep come one after the other and writes succeed.  A copy taken before the
\* withdrawal brings the exception back.
WithdrawnStays == ~crowded /\ faults = 0 => withdrawn \cap current.exc = {}
==============================================================================
