-------------------------- MODULE PolicyStoreProofs --------------------------
(***************************************************************************)
(* What holds of the PolicyStore for any number of clients, sweeps,        *)
(* tickets, faults and restarts.                                           *)
(***************************************************************************)
EXTENDS PolicyStore, TLAPS

\* The policies in force since the last start: the current one is the newest of
\* them, and every text on its way to the file is one of them.
InForceInv ==
    /\ current \in inForce
    /\ \A p \in inForce : p.ver <= current.ver
    /\ VersionsUnique
    /\ FileWasInForce
    /\ \A a \in Actors : At(a, "write") => work[a].text \in inForce

IInv == TypeOK /\ InForceInv

USE StoreAssumption, FileStates

LEMMA IdleType == Idle \in Work
  BY DEF Idle, Work, Default, Policy, Steps, Kinds

LEMMA LoadedType == ASSUME NEW f \in Policy \cup {Empty, Torn} PROVE Loaded(f) \in Policy
  BY DEF Loaded, Default, Policy

\* A policy installed by an update is newer than all before it.
LEMMA UpdateStep ==
    ASSUME IInv, NEW a \in Actors, Update(a)
    PROVE  IInv'
<1>1. /\ work[a] \in Work /\ work \in [Actors -> Work] /\ current \in Policy
      /\ past \in SUBSET Tickets /\ inForce \in SUBSET Policy
  BY DEF IInv, TypeOK
<1>2. Revised(work[a]) \in SUBSET Tickets
  BY <1>1 DEF Work, Revised, Policy, Kinds
<1>3. /\ Successor(work[a]) \in Policy
      /\ Successor(work[a]).ver = current.ver + 1
      /\ current.ver \in Nat
  BY <1>1, <1>2 DEF Successor, Policy
<1>4. [work[a] EXCEPT !.at = "open"] \in Work
  BY <1>1 DEF Work, Steps
<1>5. work' = [work EXCEPT ![a] = [work[a] EXCEPT !.at = "open"]]
  BY <1>1 DEF Update, Goto
<1>6. work' \in [Actors -> Work]
  BY <1>1, <1>4, <1>5
<1>8. TypeOK'
  BY <1>1, <1>3, <1>6 DEF IInv, TypeOK, Update, counters
<1>9. \A p \in inForce : p.ver \in Nat /\ p.ver <= current.ver
  BY <1>1 DEF IInv, InForceInv, Policy
<1>10. /\ current' = Successor(work[a])
       /\ inForce' = inForce \cup {Successor(work[a])}
       /\ file' = file
  BY DEF Update
<1>11. \A p \in inForce' : p.ver <= current'.ver
  BY <1>3, <1>9, <1>10
<1>12. VersionsUnique'
  <2> SUFFICES ASSUME NEW p \in inForce', NEW q \in inForce', p.ver = q.ver PROVE p = q
    BY DEF VersionsUnique
  <2>1. \A r \in inForce : r.ver # Successor(work[a]).ver
    BY <1>3, <1>9
  <2> QED
    BY <1>10, <2>1 DEF IInv, InForceInv, VersionsUnique
<1>13. FileWasInForce'
  BY <1>10 DEF IInv, InForceInv, FileWasInForce
<1>14. \A b \in Actors : At(b, "write")' => work'[b].text \in inForce'
  <2> SUFFICES ASSUME NEW b \in Actors, work'[b].at = "write" PROVE work'[b].text \in inForce'
    BY DEF At
  <2>1. b # a
    BY <1>1, <1>5 DEF Work
  <2>2. work'[b] = work[b]
    BY <1>1, <1>5, <2>1
  <2> QED
    BY <1>10, <2>2 DEF IInv, InForceInv, At
<1> QED
  BY <1>8, <1>10, <1>11, <1>12, <1>13, <1>14 DEF IInv, InForceInv

\* A step that leaves the policies in force alone, and has nothing new to write.
LEMMA OtherStep ==
    ASSUME IInv, TypeOK', UNCHANGED <<current, inForce>>,
           file' \in Policy => file' \in inForce,
           \A a \in Actors : At(a, "write")' =>
               work'[a].text \in inForce
    PROVE  IInv'
  BY DEF IInv, InForceInv, VersionsUnique, FileWasInForce

\* A start forgets what was in force before.
LEMMA StartStep ==
    ASSUME IInv, TypeOK', NEW f \in Policy \cup {Empty, Torn}, Start(f)
    PROVE  InForceInv'
<1>1. Loaded(f) \in Policy /\ Loaded(f).ver \in Nat
  BY LoadedType DEF Policy
<1>2. /\ current' = Loaded(f) /\ inForce' = {Loaded(f)} /\ file' = f
      /\ work' = [a \in Actors |-> Idle]
  BY DEF Start
<1>3. f \in Policy => Loaded(f) = f
  BY DEF Loaded
<1>4. \A a \in Actors : ~At(a, "write")'
  BY <1>2 DEF At, Idle
<1> QED
  BY <1>1, <1>2, <1>3, <1>4 DEF InForceInv, VersionsUnique, FileWasInForce

\* One actor's record is replaced by one that has nothing new to write.
LEMMA WorkStep ==
    ASSUME IInv, NEW a \in Actors, NEW w \in Work, work' = [work EXCEPT ![a] = w],
           w.at = "write" => w.text \in inForce
    PROVE  /\ work' \in [Actors -> Work]
           /\ \A b \in Actors : At(b, "write")' => work'[b].text \in inForce
<1>1. work \in [Actors -> Work]
  BY DEF IInv, TypeOK
<1>2. \A b \in Actors : work'[b] = IF b = a THEN w ELSE work[b]
  BY <1>1
<1> QED
  BY <1>1, <1>2 DEF IInv, InForceInv, At

LEMMA InitIInv == Init => IInv
<1> SUFFICES ASSUME Init PROVE IInv
  OBVIOUS
<1>1. Default \in Policy
  BY DEF Default, Policy
<1>2. TypeOK
  BY <1>1, IdleType DEF Init, TypeOK
<1>3. \A a \in Actors : ~At(a, "write")
  BY DEF Init, At, Idle
<1> QED
  BY <1>1, <1>2, <1>3 DEF Init, IInv, InForceInv, VersionsUnique, FileWasInForce, Default

LEMMA NextIInv == IInv /\ [Next]_vars => IInv'
<1> SUFFICES ASSUME IInv, [Next]_vars PROVE IInv'
  OBVIOUS
<1>1. /\ work \in [Actors -> Work] /\ current \in Policy /\ file \in Policy \cup {Empty, Torn}
      /\ past \in SUBSET Tickets /\ acked \in SUBSET Tickets /\ withdrawn \in SUBSET Tickets
      /\ crowded \in BOOLEAN /\ begun \in Nat /\ faults \in Nat /\ restarts \in Nat
      /\ file \in Policy => file \in inForce
      /\ current \in inForce
  BY DEF IInv, TypeOK, InForceInv, FileWasInForce
<1>2. ASSUME NEW c \in Clients, Begin(c) PROVE IInv'
  <2>1. c \in Actors
    BY DEF Actors
  <2>2. PICK kind \in Kinds \ {"sweep"}, t \in Tickets :
           /\ work' = [b \in Actors |->
                 IF b = c THEN [Idle EXCEPT !.at = "update", !.kind = kind, !.t = t, !.copy = current,
                                            !.alone = ~\E d \in Actors : Contends(d, kind, t)]
                 ELSE [work[b] EXCEPT !.alone = @ /\ ~Contends(b, kind, t)]]
           /\ acked' = IF kind = "withdraw" THEN acked \ {t} ELSE acked
           /\ withdrawn' = IF kind = "grant" THEN withdrawn \ {t} ELSE withdrawn
    BY <1>2 DEF Begin
  <2> DEFINE own == [Idle EXCEPT !.at = "update", !.kind = kind, !.t = t, !.copy = current,
                                 !.alone = ~\E d \in Actors : Contends(d, kind, t)]
             other(b) == [work[b] EXCEPT !.alone = @ /\ ~Contends(b, kind, t)]
  <2>3. own \in Work /\ own.at = "update"
    BY <1>1, IdleType DEF Work, Steps, Kinds
  <2>4. ASSUME NEW b \in Actors
        PROVE  /\ other(b) \in Work
               /\ other(b).at = work[b].at /\ other(b).text = work[b].text
    <3>1. work[b] \in Work
      BY <1>1
    <3>2. (work[b].alone /\ ~Contends(b, kind, t)) \in BOOLEAN
      OBVIOUS
    <3> QED
      BY <3>1, <3>2 DEF Work
  <2>5. \A b \in Actors : work'[b] = IF b = c THEN own ELSE other(b)
    BY <2>2
  <2>6. work' \in [Actors -> Work]
    BY <2>2, <2>3, <2>4
  <2>7. \A b \in Actors : At(b, "write")' => work'[b].text \in inForce
    BY <2>3, <2>4, <2>5 DEF At, IInv, InForceInv
  <2>8. acked' \in SUBSET Tickets /\ withdrawn' \in SUBSET Tickets
    BY <1>1, <2>2
  <2>9. /\ begun' = begun + 1 /\ crowded' \in BOOLEAN
        /\ UNCHANGED <<current, file, past, inForce, faults, restarts>>
    BY <1>1, <1>2 DEF Begin
  <2>10. TypeOK'
    BY <2>6, <2>8, <2>9 DEF IInv, TypeOK
  <2> QED
    BY <1>1, <2>7, <2>9, <2>10, OtherStep
<1>3. ASSUME NEW s \in Sweepers, Sweep(s) PROVE IInv'
  <2> DEFINE w == [Idle EXCEPT !.at = "audit", !.kind = "sweep",
                               !.copy = current]
  <2>1. s \in Actors
    BY DEF Actors
  <2>3. w \in Work /\ w.at = "audit"
    BY <1>1, IdleType DEF Work, Steps, Kinds
  <2>4. work' = [work EXCEPT ![s] = w]
    BY <1>3 DEF Sweep
  <2>5. /\ crowded' \in BOOLEAN
        /\ UNCHANGED <<current, file, past, inForce, acked, withdrawn, counters>>
    BY <1>1, <1>3 DEF Sweep
  <2>6. /\ work' \in [Actors -> Work]
        /\ \A b \in Actors : At(b, "write")' => work'[b].text \in inForce
    BY <2>1, <2>3, <2>4, WorkStep
  <2>7. TypeOK'
    BY <2>5, <2>6 DEF IInv, TypeOK, counters
  <2> QED
    BY <1>1, <2>5, <2>6, <2>7, OtherStep
<1>4. ASSUME NEW a \in Actors, AuditExpired(a) PROVE IInv'
  <2>1. work[a] \in Work
    BY <1>1
  <2>2. [work[a] EXCEPT !.at = "update"] \in Work
    BY <2>1 DEF Work, Steps
  <2>3. work' = [work EXCEPT ![a] = [work[a] EXCEPT !.at = "update"]]
    BY <1>1, <1>4 DEF AuditExpired, Goto
  <2>4. [work[a] EXCEPT !.at = "update"].at # "write"
    BY <2>1 DEF Work
  <2>5. /\ work' \in [Actors -> Work]
        /\ \A b \in Actors : At(b, "write")' => work'[b].text \in inForce
    BY <2>2, <2>3, <2>4, WorkStep
  <2>7. TypeOK'
    BY <1>4, <2>5 DEF IInv, TypeOK, AuditExpired, history, counters
  <2> QED
    BY <1>1, <1>4, <2>5, <2>7, OtherStep DEF AuditExpired, history
<1>5. ASSUME NEW a \in Actors, Open(a) PROVE IInv'
  <2> DEFINE w == [work[a] EXCEPT !.at = "write", !.text = current]
  <2>1. work[a] \in Work
    BY <1>1
  <2>2. w \in Work /\ w.text = current
    BY <1>1, <2>1 DEF Work, Steps
  <2>3. work' = [work EXCEPT ![a] = w]
    BY <1>1, <1>5 DEF Open
  <2>4. /\ work' \in [Actors -> Work]
        /\ \A b \in Actors : At(b, "write")' => work'[b].text \in inForce
    BY <1>1, <2>2, <2>3, WorkStep
  <2>5. file' = Empty /\ UNCHANGED <<current, past, history, counters>>
    BY <1>5 DEF Open
  <2>6. TypeOK'
    BY <2>4, <2>5 DEF IInv, TypeOK, history, counters
  <2> QED
    BY <2>4, <2>5, <2>6, OtherStep DEF history
<1>6. ASSUME NEW a \in Actors, Write(a) PROVE IInv'
  <2>1. work[a] \in Work /\ work[a].text \in inForce
    BY <1>1, <1>6 DEF Write, IInv, InForceInv
  <2>2. file' \in {work[a].text, Torn}
    BY <1>6 DEF Write
  <2>3. work' = [work EXCEPT ![a] = Idle] /\ Idle.at # "write"
    BY <1>6 DEF Write, Reply, Idle
  <2>4. /\ work' \in [Actors -> Work]
        /\ \A b \in Actors : At(b, "write")' => work'[b].text \in inForce
    BY <2>3, IdleType, WorkStep
  <2>5. UNCHANGED <<current, past, inForce, crowded, counters>>
    BY <1>6 DEF Write
  <2>6. acked' \in SUBSET Tickets /\ withdrawn' \in SUBSET Tickets
    BY <1>1, <1>6, <2>1 DEF Write, Reply, Work
  <2>7. file' \in Policy \cup {Empty, Torn} /\ (file' \in Policy => file' \in inForce')
    BY <2>1, <2>2, <2>5 DEF Work
  <2>8. TypeOK'
    BY <2>4, <2>5, <2>6, <2>7 DEF IInv, TypeOK, counters
  <2> QED
    BY <2>4, <2>5, <2>7, <2>8, OtherStep
<1>7. ASSUME NEW a \in Actors, OpenFails(a) PROVE IInv'
  <2>1. work' = [work EXCEPT ![a] = Idle] /\ Idle.at # "write"
    BY <1>7 DEF OpenFails, Idle
  <2>2. /\ work' \in [Actors -> Work]
        /\ \A b \in Actors : At(b, "write")' => work'[b].text \in inForce
    BY <2>1, IdleType, WorkStep
  <2>3. faults' = faults + 1 /\ UNCHANGED <<current, file, past, history, begun, restarts>>
    BY <1>7 DEF OpenFails
  <2>4. TypeOK'
    BY <1>1, <2>2, <2>3 DEF IInv, TypeOK, history
  <2> QED
    BY <1>1, <2>2, <2>3, <2>4, OtherStep DEF history
<1>8. ASSUME NEW t \in Tickets, Lapse(t) PROVE IInv'
  <2>1. UNCHANGED <<current, file, work, inForce, withdrawn, crowded, counters>>
    BY <1>8 DEF Lapse
  <2>2. past' \in SUBSET Tickets /\ acked' \in SUBSET Tickets
    BY <1>1, <1>8 DEF Lapse
  <2>3. TypeOK'
    BY <2>1, <2>2 DEF IInv, TypeOK, counters
  <2> QED
    BY <1>1, <2>1, <2>3, OtherStep DEF IInv, InForceInv, At
<1>9. ASSUME NEW f \in Policy \cup {Empty, Torn}, Start(f), faults' \in Nat, restarts' \in Nat
      PROVE  IInv'
  <2>1. TypeOK'
    BY <1>9, LoadedType, IdleType DEF Start, IInv, TypeOK
  <2> QED
    BY <1>9, <2>1, StartStep DEF IInv
<1>10. CASE Restart
  BY <1>1, <1>9, <1>10 DEF Restart
<1>11. CASE RestartTorn
  BY <1>1, <1>9, <1>11 DEF RestartTorn
<1>12. CASE UNCHANGED vars
  <2>1. TypeOK'
    BY <1>12 DEF IInv, TypeOK, vars
  <2> QED
    BY <1>1, <1>12, <2>1, OtherStep DEF vars, IInv, InForceInv, At
<1> QED
  BY <1>2, <1>3, <1>4, <1>5, <1>6, <1>7, <1>8, <1>10, <1>11, <1>12, UpdateStep DEF Next, Step

LEMMA SpecIInv == Spec => []IInv
<1> QED
  BY InitIInv, NextIInv, PTL DEF Spec

------------------------------------------------------------------------------
\* Requests and sweeps that do not overlap

\* What one actor, alone under way, has in hand: until it updates, its copy is the
\* policy in force and in the file; after that, what it is about to write is.
WorkOK(a) ==
    /\ work[a].at \in {"audit", "update"} =>
         /\ work[a].copy = current /\ file = current
         /\ work[a].kind = "withdraw" => work[a].t \notin acked
    /\ work[a].at \in {"open", "write"} /\ work[a].kind = "grant" => work[a].t \in current.exc
    /\ work[a].at = "open" => file \in Policy /\ acked \subseteq file.exc
    /\ work[a].at = "write" => file = Empty /\ work[a].text = current

LoneInv ==
    /\ \A a, b \in Actors : ~At(a, "idle") /\ ~At(b, "idle") => a = b
    /\ acked \subseteq current.exc /\ acked \cap past = {}
    /\ \A a \in Actors : WorkOK(a)
    /\ (\A a \in Actors : At(a, "idle")) => file = current

SerialInv == IInv /\ (~crowded /\ faults = 0 => LoneInv)

\* After a step in which only a may be left under way, a's own record decides.
LEMMA OneActor ==
    ASSUME NEW a \in Actors, \A b \in Actors \ {a} : At(b, "idle")',
           acked' \subseteq current'.exc, acked' \cap past' = {},
           WorkOK(a)', At(a, "idle")' => file' = current'
    PROVE  LoneInv'
<1>1. \A b \in Actors \ {a} : WorkOK(b)'
  BY DEF WorkOK, At
<1> QED
  BY <1>1 DEF LoneInv

\* The others are idle while a is under way, and stay so.
LEMMA OthersIdle ==
    ASSUME IInv, LoneInv, NEW a \in Actors, ~At(a, "idle"), NEW w, work' = [work EXCEPT ![a] = w]
    PROVE  /\ \A b \in Actors \ {a} : At(b, "idle")'
           /\ work'[a] = w /\ work[a] \in Work /\ WorkOK(a)
           /\ current \in Policy /\ acked \in SUBSET Tickets
           /\ acked \subseteq current.exc /\ acked \cap past = {}
<1>1. work \in [Actors -> Work]
  BY DEF IInv, TypeOK
<1>2. \A b \in Actors \ {a} : At(b, "idle") /\ work'[b] = work[b]
  BY <1>1 DEF LoneInv
<1> QED
  BY <1>1, <1>2 DEF LoneInv, At, IInv, TypeOK

LEMMA BeginLone ==
    ASSUME IInv, LoneInv, NEW c \in Clients, Begin(c), ~crowded'
    PROVE  LoneInv'
<1>1. c \in Actors /\ work \in [Actors -> Work] /\ current \in Policy /\ current.exc \in SUBSET Tickets
  BY DEF Actors, IInv, TypeOK, Policy
<1>2. \A b \in Actors : At(b, "idle")
  BY DEF Begin, Alone
<1>3. file = current /\ acked \subseteq current.exc /\ acked \cap past = {}
  BY <1>2 DEF LoneInv
<1>4. PICK kind \in Kinds \ {"sweep"}, t \in Tickets :
         /\ work' = [b \in Actors |->
               IF b = c THEN [Idle EXCEPT !.at = "update", !.kind = kind, !.t = t, !.copy = current,
                                          !.alone = ~\E d \in Actors : Contends(d, kind, t)]
               ELSE [work[b] EXCEPT !.alone = @ /\ ~Contends(b, kind, t)]]
         /\ acked' = IF kind = "withdraw" THEN acked \ {t} ELSE acked
  BY DEF Begin
<1>5. /\ work'[c].at = "update" /\ work'[c].kind = kind /\ work'[c].t = t
      /\ work'[c].copy = current
  BY <1>1, <1>4 DEF Idle
<1>6. \A b \in Actors \ {c} : At(b, "idle")'
  <2> SUFFICES ASSUME NEW b \in Actors \ {c} PROVE work'[b].at = "idle"
    BY DEF At
  <2>1. work'[b] = [work[b] EXCEPT !.alone = @ /\ ~Contends(b, kind, t)]
    BY <1>4
  <2>2. work[b] \in Work /\ work[b].at = "idle"
    BY <1>1, <1>2 DEF At
  <2> QED
    BY <2>1, <2>2 DEF Work
<1>7. UNCHANGED <<current, file, past>>
  BY DEF Begin
<1>8. acked' \subseteq acked /\ (kind = "withdraw" => t \notin acked')
  BY <1>4
<1>9. WorkOK(c)' /\ ~At(c, "idle")'
  BY <1>3, <1>5, <1>7, <1>8 DEF WorkOK, At
<1> QED
  BY <1>1, <1>3, <1>6, <1>7, <1>8, <1>9, OneActor

LEMMA SweepLone ==
    ASSUME IInv, LoneInv, NEW s \in Sweepers, Sweep(s), ~crowded'
    PROVE  LoneInv'
<1> DEFINE w == [Idle EXCEPT !.at = "audit", !.kind = "sweep", !.copy = current]
<1>1. s \in Actors /\ work \in [Actors -> Work]
  BY DEF Actors, IInv, TypeOK
<1>2. \A b \in Actors : At(b, "idle")
  BY DEF Sweep, Alone
<1>3. file = current /\ acked \subseteq current.exc /\ acked \cap past = {}
  BY <1>2 DEF LoneInv
<1>4. work' = [work EXCEPT ![s] = w] /\ UNCHANGED <<current, file, past, acked>>
  BY DEF Sweep
<1>5. w.at = "audit" /\ w.kind = "sweep" /\ w.copy = current
  BY DEF Idle
<1>6. work'[s] = w /\ \A b \in Actors \ {s} : At(b, "idle")'
  BY <1>1, <1>2, <1>4 DEF At
<1>7. WorkOK(s)' /\ ~At(s, "idle")'
  BY <1>3, <1>4, <1>5, <1>6 DEF WorkOK, At
<1> QED
  BY <1>1, <1>3, <1>4, <1>6, <1>7, OneActor

LEMMA AuditLone ==
    ASSUME IInv, LoneInv, NEW a \in Actors, AuditExpired(a)
    PROVE  LoneInv'
<1>1. /\ work[a].at = "audit" /\ work' = [work EXCEPT ![a].at = "update"]
      /\ UNCHANGED <<current, file, past, acked>>
  BY DEF AuditExpired, Goto, At, history
<1>2. work' = [work EXCEPT ![a] = [work[a] EXCEPT !.at = "update"]] /\ ~At(a, "idle")
  BY <1>1 DEF IInv, TypeOK, At
<1>3. /\ work'[a] = [work[a] EXCEPT !.at = "update"] /\ work[a] \in Work /\ WorkOK(a)
      /\ \A b \in Actors \ {a} : At(b, "idle")'
      /\ acked \subseteq current.exc /\ acked \cap past = {}
  BY <1>2, OthersIdle
<1>4. /\ work'[a].at = "update" /\ work'[a].copy = work[a].copy
      /\ work'[a].kind = work[a].kind /\ work'[a].t = work[a].t
  BY <1>3 DEF Work
<1>5. WorkOK(a)' /\ ~At(a, "idle")'
  BY <1>1, <1>3, <1>4 DEF WorkOK, At
<1> QED
  BY <1>1, <1>3, <1>5, OneActor

\* The update of the only actor under way keeps every exception that is due.
LEMMA UpdateLone ==
    ASSUME IInv, LoneInv, NEW a \in Actors, Update(a)
    PROVE  LoneInv'
<1>1. /\ work[a].at = "update" /\ work' = [work EXCEPT ![a].at = "open"]
      /\ current' = Successor(work[a]) /\ UNCHANGED <<file, past, acked>>
  BY DEF Update, Goto, At
<1>2. work' = [work EXCEPT ![a] = [work[a] EXCEPT !.at = "open"]] /\ ~At(a, "idle")
  BY <1>1 DEF IInv, TypeOK, At
<1>3. /\ work'[a] = [work[a] EXCEPT !.at = "open"] /\ work[a] \in Work /\ WorkOK(a)
      /\ \A b \in Actors \ {a} : At(b, "idle")'
      /\ current \in Policy
      /\ acked \subseteq current.exc /\ acked \cap past = {}
  BY <1>2, OthersIdle
<1>4. /\ work'[a].at = "open" /\ work'[a].kind = work[a].kind /\ work'[a].t = work[a].t
  BY <1>3 DEF Work
<1>5. /\ work[a].copy = current /\ file = current
      /\ work[a].kind = "withdraw" => work[a].t \notin acked
  BY <1>1, <1>3 DEF WorkOK
<1>6. current'.exc = Revised(work[a])
  BY <1>1 DEF Successor
<1>7. work[a].kind \in Kinds
  BY <1>3 DEF Work
<1>8. acked' \subseteq current'.exc /\ (work[a].kind = "grant" => work[a].t \in current'.exc)
  BY <1>1, <1>3, <1>5, <1>6, <1>7 DEF Revised, Kinds
<1>9. WorkOK(a)' /\ ~At(a, "idle")'
  BY <1>1, <1>3, <1>4, <1>5, <1>8 DEF WorkOK, At
<1> QED
  BY <1>1, <1>3, <1>8, <1>9, OneActor

LEMMA OpenLone ==
    ASSUME IInv, LoneInv, NEW a \in Actors, Open(a)
    PROVE  LoneInv'
<1> DEFINE w == [work[a] EXCEPT !.at = "write", !.text = current]
<1>1. /\ work[a].at = "open" /\ work' = [work EXCEPT ![a] = w]
      /\ file' = Empty /\ UNCHANGED <<current, past, acked>>
  BY DEF Open, At, IInv, TypeOK, history
<1>2. /\ work'[a] = w /\ work[a] \in Work /\ WorkOK(a)
      /\ \A b \in Actors \ {a} : At(b, "idle")'
      /\ acked \subseteq current.exc /\ acked \cap past = {}
  BY <1>1, OthersIdle DEF At
<1>3. /\ w.at = "write" /\ w.text = current /\ w.kind = work[a].kind /\ w.t = work[a].t
  BY <1>2 DEF Work
<1>4. WorkOK(a)' /\ ~At(a, "idle")'
  BY <1>1, <1>2, <1>3 DEF WorkOK, At
<1> QED
  BY <1>1, <1>2, <1>4, OneActor

LEMMA WriteLone ==
    ASSUME IInv, LoneInv, NEW a \in Actors, Write(a)
    PROVE  LoneInv'
<1>1. /\ work[a].at = "write" /\ work' = [work EXCEPT ![a] = Idle]
      /\ file' \in {work[a].text} \cup (IF file \in {Empty, work[a].text} THEN {} ELSE {Torn})
      /\ acked' = IF work[a].kind = "grant" /\ work[a].t \notin past
                  THEN acked \cup {work[a].t} ELSE acked
      /\ UNCHANGED <<current, past>>
  BY DEF Write, Reply, At
<1>2. /\ work'[a] = Idle /\ WorkOK(a)
      /\ \A b \in Actors \ {a} : At(b, "idle")'
      /\ acked \subseteq current.exc /\ acked \cap past = {}
  BY <1>1, OthersIdle DEF At
<1>3. file' = current
  BY <1>1, <1>2 DEF WorkOK
<1>4. acked' \subseteq current.exc /\ acked' \cap past = {}
  BY <1>1, <1>2 DEF WorkOK
<1>5. WorkOK(a)'
  BY <1>2 DEF WorkOK, Idle
<1> QED
  BY <1>1, <1>2, <1>3, <1>4, <1>5, OneActor

\* A restart brings back a policy with every exception that is due.
LEMMA RestartLone ==
    ASSUME IInv, LoneInv, Restart
    PROVE  LoneInv'
<1>1. /\ \A a \in Actors : ~At(a, "write")
      /\ file' = file /\ current' = Loaded(file) /\ UNCHANGED <<past, acked>>
      /\ work' = [a \in Actors |-> Idle]
  BY DEF Restart, Start
<1>2. \A a \in Actors : work[a] \in Work
  BY DEF IInv, TypeOK
<1>3. file \in Policy /\ acked \subseteq file.exc
  <2>1. CASE \A a \in Actors : At(a, "idle")
    BY <2>1 DEF LoneInv, IInv, TypeOK
  <2>2. CASE \E a \in Actors : ~At(a, "idle")
    <3>1. PICK a \in Actors : ~At(a, "idle")
      BY <2>2
    <3>2. work[a].at \in {"audit", "update", "open"}
      BY <1>1, <1>2, <3>1 DEF Work, Steps, At
    <3> QED
      BY <3>2 DEF LoneInv, WorkOK, IInv, TypeOK
  <2> QED
    BY <2>1, <2>2
<1>4. current' = file
  BY <1>1, <1>3 DEF Loaded
<1>5. \A a \in Actors : At(a, "idle")' /\ WorkOK(a)'
  BY <1>1 DEF At, WorkOK, Idle
<1> QED
  BY <1>1, <1>3, <1>4, <1>5 DEF LoneInv

LEMMA LapseLone ==
    ASSUME IInv, LoneInv, NEW t \in Tickets, Lapse(t)
    PROVE  LoneInv'
<1>1. past' = past \cup {t} /\ acked' = acked \ {t} /\ UNCHANGED <<current, file, work>>
  BY DEF Lapse
<1>2. \A a \in Actors : WorkOK(a)'
  BY <1>1 DEF LoneInv, WorkOK
<1> QED
  BY <1>1, <1>2 DEF LoneInv, At

LEMMA NextSerial == SerialInv /\ [Next]_vars => SerialInv'
<1> SUFFICES ASSUME SerialInv, [Next]_vars, ~crowded', faults' = 0 PROVE LoneInv'
  BY NextIInv DEF SerialInv
<1>1. faults \in Nat /\ crowded \in BOOLEAN /\ IInv
  BY DEF SerialInv, IInv, TypeOK
<1>2. (crowded => crowded') /\ (faults' = faults \/ faults' = faults + 1)
  BY <1>1 DEF Next, Step, Begin, Sweep, AuditExpired, Update, Open, Write, OpenFails, Lapse,
              Restart, RestartTorn, Start, history, counters, vars
<1>3. faults = 0 /\ LoneInv
  BY <1>1, <1>2 DEF SerialInv
<1>4. ~RestartTorn /\ \A a \in Actors : ~OpenFails(a)
  BY <1>3 DEF RestartTorn, OpenFails
<1>5. CASE \E c \in Clients : Begin(c)
  BY <1>1, <1>3, <1>5, BeginLone
<1>6. CASE \E s \in Sweepers : Sweep(s)
  BY <1>1, <1>3, <1>6, SweepLone
<1>7. CASE \E a \in Actors : Step(a)
  BY <1>1, <1>3, <1>7, UpdateLone, OpenLone, WriteLone, AuditLone DEF Step
<1>8. CASE \E t \in Tickets : Lapse(t)
  BY <1>1, <1>3, <1>8, LapseLone
<1>9. CASE Restart
  BY <1>1, <1>3, <1>9, RestartLone
<1>10. CASE UNCHANGED vars
  BY <1>3, <1>10 DEF vars, LoneInv, WorkOK, At
<1> QED
  BY <1>4, <1>5, <1>6, <1>7, <1>8, <1>9, <1>10 DEF Next

LEMMA SpecSerial == Spec => []SerialInv
<1>1. Init => SerialInv
  <2> SUFFICES ASSUME Init PROVE LoneInv
    BY InitIInv DEF SerialInv
  <2>1. \A a \in Actors : work[a].at = "idle"
    BY DEF Init, Idle
  <2> QED
    BY <2>1 DEF Init, LoneInv, WorkOK, At
<1> QED
  BY <1>1, NextSerial, PTL DEF Spec

------------------------------------------------------------------------------
\* Withdrawals

\* What a, the only one under way, has in hand about tickets that were withdrawn.
GoneOK(a) ==
    /\ ~At(a, "idle") /\ work[a].kind = "grant" => work[a].t \notin withdrawn
    /\ work[a].at \in {"open", "write"} /\ work[a].kind = "withdraw" => work[a].t \notin current.exc
    /\ At(a, "open") => withdrawn \cap file.exc = {}

GoneInv ==
    /\ withdrawn \cap current.exc = {}
    /\ \A a \in Actors : GoneOK(a)

GoneSerial == SerialInv /\ (~crowded /\ faults = 0 => GoneInv)

LEMMA OneActorGone ==
    ASSUME NEW a \in Actors, \A b \in Actors \ {a} : At(b, "idle")',
           (withdrawn \cap current.exc = {})', GoneOK(a)'
    PROVE  GoneInv'
<1>1. \A b \in Actors \ {a} : GoneOK(b)'
  BY DEF GoneOK, At
<1> QED
  BY <1>1 DEF GoneInv

\* A request comes in while nothing is under way: a grant takes its ticket out of those withdrawn.
LEMMA BeginGone ==
    ASSUME IInv, LoneInv, GoneInv, NEW c \in Clients, Begin(c), ~crowded'
    PROVE  GoneInv'
<1>1. c \in Actors /\ work \in [Actors -> Work]
  BY DEF Actors, IInv, TypeOK
<1>2. \A b \in Actors : At(b, "idle")
  BY DEF Begin, Alone
<1>3. PICK kind \in Kinds \ {"sweep"}, t \in Tickets :
         /\ work' = [b \in Actors |->
               IF b = c THEN [Idle EXCEPT !.at = "update", !.kind = kind, !.t = t, !.copy = current,
                                          !.alone = ~\E d \in Actors : Contends(d, kind, t)]
               ELSE [work[b] EXCEPT !.alone = @ /\ ~Contends(b, kind, t)]]
         /\ withdrawn' = IF kind = "grant" THEN withdrawn \ {t} ELSE withdrawn
  BY DEF Begin
<1>4. work'[c].at = "update" /\ work'[c].kind = kind /\ work'[c].t = t
  BY <1>1, <1>3 DEF Idle
<1>5. \A b \in Actors \ {c} : At(b, "idle")'
  <2> SUFFICES ASSUME NEW b \in Actors \ {c} PROVE work'[b].at = "idle"
    BY DEF At
  <2>1. work'[b] = [work[b] EXCEPT !.alone = @ /\ ~Contends(b, kind, t)]
    BY <1>3
  <2>2. work[b] \in Work /\ work[b].at = "idle"
    BY <1>1, <1>2 DEF At
  <2> QED
    BY <2>1, <2>2 DEF Work
<1>6. current' = current /\ withdrawn' \subseteq withdrawn /\ (kind = "grant" => t \notin withdrawn')
  BY <1>3 DEF Begin
<1>7. (withdrawn \cap current.exc = {})'
  BY <1>6 DEF GoneInv
<1>8. GoneOK(c)'
  BY <1>4, <1>6 DEF GoneOK, At
<1> QED
  BY <1>1, <1>5, <1>7, <1>8, OneActorGone

LEMMA SweepGone ==
    ASSUME IInv, LoneInv, GoneInv, NEW s \in Sweepers, Sweep(s), ~crowded'
    PROVE  GoneInv'
<1> DEFINE w == [Idle EXCEPT !.at = "audit", !.kind = "sweep", !.copy = current]
<1>1. s \in Actors /\ work \in [Actors -> Work]
  BY DEF Actors, IInv, TypeOK
<1>2. \A b \in Actors : At(b, "idle")
  BY DEF Sweep, Alone
<1>3. work' = [work EXCEPT ![s] = w] /\ UNCHANGED <<current, file, withdrawn>>
  BY DEF Sweep
<1>4. w.at = "audit" /\ w.kind = "sweep"
  BY DEF Idle
<1>5. work'[s] = w /\ \A b \in Actors \ {s} : At(b, "idle")'
  BY <1>1, <1>2, <1>3 DEF At
<1>6. GoneOK(s)'
  BY <1>4, <1>5 DEF GoneOK, At
<1>7. (withdrawn \cap current.exc = {})'
  BY <1>3 DEF GoneInv
<1> QED
  BY <1>1, <1>5, <1>6, <1>7, OneActorGone

LEMMA AuditGone ==
    ASSUME IInv, LoneInv, GoneInv, NEW a \in Actors, AuditExpired(a)
    PROVE  GoneInv'
<1>1. /\ work[a].at = "audit" /\ work' = [work EXCEPT ![a].at = "update"]
      /\ UNCHANGED <<current, file, withdrawn>>
  BY DEF AuditExpired, Goto, At, history
<1>2. work' = [work EXCEPT ![a] = [work[a] EXCEPT !.at = "update"]] /\ ~At(a, "idle")
  BY <1>1 DEF IInv, TypeOK, At
<1>3. /\ work'[a] = [work[a] EXCEPT !.at = "update"] /\ work[a] \in Work
      /\ \A b \in Actors \ {a} : At(b, "idle")'
  BY <1>2, OthersIdle
<1>4. /\ work'[a].at = "update" /\ work'[a].kind = work[a].kind /\ work'[a].t = work[a].t
  BY <1>3 DEF Work
<1>5. (withdrawn \cap current.exc = {})' /\ GoneOK(a)'
  BY <1>1, <1>2, <1>4 DEF GoneInv, GoneOK, At
<1> QED
  BY <1>3, <1>5, OneActorGone

\* The copy is the policy in force: what is installed adds no ticket but the granted one, and
\* lacks the withdrawn one.
LEMMA UpdateGone ==
    ASSUME IInv, LoneInv, GoneInv, NEW a \in Actors, Update(a)
    PROVE  GoneInv'
<1>1. /\ work[a].at = "update" /\ work' = [work EXCEPT ![a].at = "open"]
      /\ current' = Successor(work[a]) /\ UNCHANGED <<file, withdrawn>>
  BY DEF Update, Goto, At
<1>2. work' = [work EXCEPT ![a] = [work[a] EXCEPT !.at = "open"]] /\ ~At(a, "idle")
  BY <1>1 DEF IInv, TypeOK, At
<1>3. /\ work'[a] = [work[a] EXCEPT !.at = "open"] /\ work[a] \in Work /\ WorkOK(a)
      /\ \A b \in Actors \ {a} : At(b, "idle")'
  BY <1>2, OthersIdle
<1>4. /\ work'[a].at = "open" /\ work'[a].kind = work[a].kind /\ work'[a].t = work[a].t
      /\ work[a].kind \in Kinds
  BY <1>3 DEF Work
<1>5. work[a].copy = current /\ file = current
  BY <1>1, <1>3 DEF WorkOK
<1>6. current'.exc = Revised(work[a])
  BY <1>1 DEF Successor
<1>7. /\ withdrawn \cap current.exc = {}
      /\ work[a].kind = "grant" => work[a].t \notin withdrawn
  BY <1>2 DEF GoneInv, GoneOK
<1>8. /\ (withdrawn \cap current.exc = {})'
      /\ work[a].kind = "withdraw" => work[a].t \notin current'.exc
  BY <1>1, <1>4, <1>5, <1>6, <1>7 DEF Revised, Kinds
<1>9. GoneOK(a)'
  BY <1>1, <1>4, <1>5, <1>7, <1>8 DEF GoneOK, At
<1> QED
  BY <1>3, <1>8, <1>9, OneActorGone

LEMMA OpenGone ==
    ASSUME IInv, LoneInv, GoneInv, NEW a \in Actors, Open(a)
    PROVE  GoneInv'
<1> DEFINE w == [work[a] EXCEPT !.at = "write", !.text = current]
<1>1. /\ work[a].at = "open" /\ work' = [work EXCEPT ![a] = w] /\ UNCHANGED <<current, withdrawn>>
  BY DEF Open, At, IInv, TypeOK, history
<1>2. /\ work'[a] = w /\ work[a] \in Work
      /\ \A b \in Actors \ {a} : At(b, "idle")'
  BY <1>1, OthersIdle DEF At
<1>3. w.at = "write" /\ w.kind = work[a].kind /\ w.t = work[a].t
  BY <1>2 DEF Work
<1>4. /\ work'[a].at = "write" /\ work'[a].kind = work[a].kind /\ work'[a].t = work[a].t
      /\ (withdrawn \cap current.exc = {})'
  BY <1>1, <1>2, <1>3 DEF GoneInv
<1>5. /\ work[a].kind = "grant" => work[a].t \notin withdrawn
      /\ work[a].kind = "withdraw" => work[a].t \notin current.exc
  BY <1>1 DEF GoneInv, GoneOK, At
<1>6. GoneOK(a)'
  BY <1>1, <1>4, <1>5 DEF GoneOK, At
<1> QED
  BY <1>2, <1>4, <1>6, OneActorGone

\* A withdrawal is answered: its ticket left the policy with the update.
LEMMA WriteGone ==
    ASSUME IInv, LoneInv, GoneInv, NEW a \in Actors, Write(a)
    PROVE  GoneInv'
<1>1. /\ work[a].at = "write" /\ work' = [work EXCEPT ![a] = Idle]
      /\ withdrawn' = IF work[a].kind = "withdraw" /\ work[a].alone
                      THEN withdrawn \cup {work[a].t} ELSE withdrawn
      /\ UNCHANGED current
  BY DEF Write, Reply, At
<1>2. /\ work'[a] = Idle
      /\ \A b \in Actors \ {a} : At(b, "idle")'
  BY <1>1, OthersIdle DEF At
<1>3. (withdrawn \cap current.exc = {})'
  BY <1>1 DEF GoneInv, GoneOK
<1>4. GoneOK(a)'
  BY <1>2 DEF GoneOK, At, Idle
<1> QED
  BY <1>2, <1>3, <1>4, OneActorGone

\* The file a restart reads lacks every withdrawn ticket: it is the policy in force, or the one
\* before a lone actor's update.
LEMMA RestartGone ==
    ASSUME IInv, LoneInv, GoneInv, Restart
    PROVE  GoneInv'
<1>1. /\ \A a \in Actors : ~At(a, "write")
      /\ current' = Loaded(file) /\ UNCHANGED withdrawn
      /\ work' = [a \in Actors |-> Idle]
  BY DEF Restart, Start
<1>2. \A a \in Actors : work[a] \in Work
  BY DEF IInv, TypeOK
<1>3. file \in Policy /\ withdrawn \cap file.exc = {}
  <2>1. CASE \A a \in Actors : At(a, "idle")
    BY <2>1 DEF LoneInv, GoneInv, IInv, TypeOK
  <2>2. CASE \E a \in Actors : ~At(a, "idle")
    <3>1. PICK a \in Actors : ~At(a, "idle")
      BY <2>2
    <3>2. work[a].at \in {"audit", "update", "open"}
      BY <1>1, <1>2, <3>1 DEF Work, Steps, At
    <3> QED
      BY <3>2 DEF LoneInv, WorkOK, GoneInv, GoneOK, At, IInv, TypeOK
  <2> QED
    BY <2>1, <2>2
<1>4. current' = file
  BY <1>1, <1>3 DEF Loaded
<1>5. \A a \in Actors : GoneOK(a)'
  BY <1>1 DEF At, GoneOK, Idle
<1> QED
  BY <1>1, <1>3, <1>4, <1>5 DEF GoneInv

LEMMA NextGone == GoneSerial /\ [Next]_vars => GoneSerial'
<1> SUFFICES ASSUME GoneSerial, [Next]_vars, ~crowded', faults' = 0 PROVE GoneInv'
  BY NextSerial DEF GoneSerial
<1>1. faults \in Nat /\ crowded \in BOOLEAN /\ IInv
  BY DEF GoneSerial, SerialInv, IInv, TypeOK
<1>2. (crowded => crowded') /\ (faults' = faults \/ faults' = faults + 1)
  BY <1>1 DEF Next, Step, Begin, Sweep, AuditExpired, Update, Open, Write, OpenFails, Lapse,
              Restart, RestartTorn, Start, history, counters, vars
<1>3. faults = 0 /\ LoneInv /\ GoneInv
  BY <1>1, <1>2 DEF GoneSerial, SerialInv
<1>4. ~RestartTorn /\ \A a \in Actors : ~OpenFails(a)
  BY <1>3 DEF RestartTorn, OpenFails
<1>5. CASE \E c \in Clients : Begin(c)
  BY <1>1, <1>3, <1>5, BeginGone
<1>6. CASE \E s \in Sweepers : Sweep(s)
  BY <1>1, <1>3, <1>6, SweepGone
<1>7. CASE \E a \in Actors : Step(a)
  BY <1>1, <1>3, <1>7, UpdateGone, OpenGone, WriteGone, AuditGone DEF Step
<1>8. CASE \E t \in Tickets : Lapse(t)
  BY <1>3, <1>8 DEF Lapse, GoneInv, GoneOK, At
<1>9. CASE Restart
  BY <1>1, <1>3, <1>9, RestartGone
<1>10. CASE UNCHANGED vars
  BY <1>3, <1>10 DEF vars, GoneInv, GoneOK, At
<1> QED
  BY <1>4, <1>5, <1>6, <1>7, <1>8, <1>9, <1>10 DEF Next

LEMMA SpecGone == Spec => []GoneSerial
<1>1. Init => SerialInv
  <2> SUFFICES ASSUME Init PROVE LoneInv
    BY InitIInv DEF SerialInv
  <2>1. \A a \in Actors : work[a].at = "idle"
    BY DEF Init, Idle
  <2> QED
    BY <2>1 DEF Init, LoneInv, WorkOK, At
<1>2. Init => GoneInv
  <2> SUFFICES ASSUME Init PROVE GoneInv
    OBVIOUS
  <2>1. \A a \in Actors : work[a].at = "idle"
    BY DEF Init, Idle
  <2> QED
    BY <2>1 DEF Init, GoneInv, GoneOK, At
<1>3. Init => GoneSerial
  BY <1>1, <1>2 DEF GoneSerial
<1> QED
  BY <1>3, NextGone, PTL DEF Spec

------------------------------------------------------------------------------

\* The policy, the file and every request keep their types, however requests,
\* sweeps, overlapping file writes and restarts interleave.
THEOREM StoreTyped == Spec => []TypeOK
<1>1. IInv => TypeOK
  BY DEF IInv
<1> QED
  BY <1>1, SpecIInv, PTL

\* UpdateAsync never gives two policies the same version between two starts.
THEOREM OnePolicyPerVersion == Spec => []VersionsUnique
<1>1. IInv => VersionsUnique
  BY DEF IInv, InForceInv
<1> QED
  BY <1>1, SpecIInv, PTL

\* A file that can be read holds a policy that was in force since the start.
THEOREM FileHoldsOneInForce == Spec => []FileWasInForce
<1>1. IInv => FileWasInForce
  BY DEF IInv, InForceInv
<1> QED
  BY <1>1, SpecIInv, PTL

\* A granted exception stays in force until it lapses or is withdrawn, through any
\* number of requests, sweeps and restarts that follow one another without overlap,
\* where every write succeeds.
THEOREM GrantsLast == Spec => []GrantedIsKept
<1>1. SerialInv => GrantedIsKept
  BY DEF SerialInv, LoneInv, GrantedIsKept
<1> QED
  BY <1>1, SpecSerial, PTL

\* Under the same conditions, the file holds the policy in force whenever nothing
\* is under way.
THEOREM FileKeepsUp == Spec => []PersistedWhenIdle
<1>1. SerialInv => PersistedWhenIdle
  BY DEF SerialInv, LoneInv, PersistedWhenIdle, Loaded, IInv, TypeOK
<1> QED
  BY <1>1, SpecSerial, PTL

\* Under the same conditions, a withdrawn exception stays out of force until it is granted again.
THEOREM WithdrawalsLast == Spec => []WithdrawnStays
<1>1. GoneSerial => WithdrawnStays
  BY DEF GoneSerial, GoneInv, WithdrawnStays
<1> QED
  BY <1>1, SpecGone, PTL
==============================================================================
