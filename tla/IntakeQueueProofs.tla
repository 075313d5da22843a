-------------------------- MODULE IntakeQueueProofs --------------------------
(***************************************************************************)
(* Proofs about IntakeQueue, for any number of messages and hosts.         *)
(***************************************************************************)
EXTENDS IntakeQueue, TLAPS

\* How a consumer's item relates to the table: its count is one the row has
\* been delivered with, and the branch it is in has its cause on record.
ItemOK(i) ==
    /\ i.count <= delivery[i.id]
    /\ i.at = "ack"  => i.id \in answered
    /\ i.at = "bury" => i.id \in refused \cup unreachable

HeldOK == \A w \in Workers : \A i \in held[w] : ItemOK(i)

IInv == TypeOK /\ HeldOK /\ ClaimsAreFenced /\ DoneWasServed /\ DeadHasCause

USE IntakeAssumption

\* What the two UPDATEs of a claim and of a settlement do to the columns.
LEMMA ClaimRowsType ==
    ASSUME TypeOK, NEW S \in SUBSET Messages, ClaimRows(S)
    PROVE  /\ status' \in [Messages -> RowStatus]
           /\ delivery' \in [Messages -> Nat]
           /\ stale' \in SUBSET Messages
           /\ \A m \in Messages : delivery'[m] >= delivery[m]
           /\ \A m \in S : delivery'[m] = delivery[m] + 1 /\ status'[m] = "processing"
           /\ \A m \in Messages \ S : status'[m] = status[m]
  BY DEF TypeOK, ClaimRows, RowStatus

LEMMA SetStatusType ==
    ASSUME TypeOK, NEW m \in Messages, NEW s \in RowStatus, SetStatus(m, s)
    PROVE  /\ status' \in [Messages -> RowStatus]
           /\ delivery' = delivery
           /\ stale' \in SUBSET Messages
           /\ \A n \in Messages : status'[n] = status[n] \/ (n = m /\ status'[n] = s)
  BY DEF TypeOK, SetStatus

\* The three updates of a worker's batch keep it a set of items.
LEMMA AdvanceType ==
    ASSUME TypeOK, NEW w \in Workers, NEW i \in held[w],
           NEW s \in {"waiting", "ack", "bury", "catch"}, Advance(w, i, s)
    PROVE  /\ i \in Item
           /\ held' \in [Workers -> SUBSET Item]
           /\ held'[w] = (held[w] \ {i}) \cup {[i EXCEPT !.at = s]}
           /\ \A v \in Workers \ {w} : held'[v] = held[v]
  BY DEF TypeOK, Advance, Item

LEMMA DropType ==
    ASSUME TypeOK, NEW w \in Workers, NEW i \in held[w], Drop(w, i)
    PROVE  /\ i \in Item
           /\ held' \in [Workers -> SUBSET Item]
           /\ \A v \in Workers : held'[v] \subseteq held[v]
  BY DEF TypeOK, Drop

LEMMA InitIInv == Init => IInv
  BY DEF Init, IInv, TypeOK, HeldOK, ClaimsAreFenced, DoneWasServed, DeadHasCause, RowStatus

\* A claim takes each row with a count nobody else holds.
LEMMA ClaimStep ==
    ASSUME IInv, NEW w \in Workers, Claim(w)
    PROVE  IInv'
<1> USE DEF IInv
<1>1. PICK S \in Batches :
         /\ ClaimRows(S)
         /\ held' = [held EXCEPT ![w] =
                       {[id |-> m, count |-> delivery[m] + 1, at |-> "waiting"] : m \in S}]
  BY DEF Claim
<1>2. S \in SUBSET Messages
  BY DEF Batches, Claimable
<1>3. UNCHANGED <<down, answered, refused, unreachable, faults, crashes>>
  BY DEF Claim, pulls
<1> DEFINE Taken == {[id |-> m, count |-> delivery[m] + 1, at |-> "waiting"] : m \in S}
<1>4. Taken \in SUBSET Item
  BY <1>2 DEF TypeOK, Item
<1>5. /\ held' \in [Workers -> SUBSET Item]
      /\ held'[w] = Taken
      /\ \A v \in Workers \ {w} : held'[v] = held[v]
  BY <1>1, <1>4 DEF TypeOK
<1>6. TypeOK'
  BY <1>1, <1>2, <1>3, <1>5, ClaimRowsType DEF TypeOK
<1>7. \A i \in Taken : i.id \in S /\ i.count = delivery[i.id] + 1 /\ i.at = "waiting"
  BY <1>2
<1>8. \A v \in Workers \ {w} : \A i \in held'[v] :
         i \in Item /\ i \in held[v] /\ i.count <= delivery[i.id]
  BY <1>5 DEF HeldOK, ItemOK, TypeOK
<1>9. HeldOK'
  <2> SUFFICES ASSUME NEW v \in Workers, NEW i \in held'[v] PROVE ItemOK(i)'
    BY DEF HeldOK
  <2>1. CASE v = w
    BY <2>1, <1>1, <1>2, <1>5, <1>7, ClaimRowsType DEF ItemOK, TypeOK
  <2>2. CASE v # w
    <3>1. i \in held[v] /\ i \in Item /\ ItemOK(i)
      BY <2>2, <1>5 DEF HeldOK, TypeOK
    <3>2. i.id \in Messages /\ i.count \in Nat
      BY <3>1 DEF Item
    <3>3. i.count <= delivery'[i.id]
      BY <3>1, <3>2, <1>1, <1>2, ClaimRowsType DEF ItemOK, TypeOK
    <3> QED
      BY <3>1, <3>3, <1>3 DEF ItemOK
  <2> QED
    BY <2>1, <2>2
<1>10. ClaimsAreFenced'
  <2> SUFFICES ASSUME NEW u \in Workers, NEW v \in Workers,
                      NEW i \in held'[u], NEW j \in held'[v],
                      i.id = j.id, i.count = j.count
               PROVE  u = v /\ i = j
    BY DEF ClaimsAreFenced
  <2>1. CASE u = w /\ v = w
    BY <2>1, <1>5, <1>7
  <2>2. CASE u # w /\ v # w
    BY <2>2, <1>5 DEF ClaimsAreFenced
  <2>3. CASE u = w /\ v # w
    <3>1. i.count = delivery[j.id] + 1 /\ j.count <= delivery[j.id] /\ j.id \in Messages
      BY <2>3, <1>5, <1>7, <1>8 DEF Item
    <3> QED
      BY <3>1, <1>8, <2>3 DEF TypeOK, Item
  <2>4. CASE u # w /\ v = w
    <3>1. j.count = delivery[i.id] + 1 /\ i.count <= delivery[i.id] /\ i.id \in Messages
      BY <2>4, <1>5, <1>7, <1>8 DEF Item
    <3> QED
      BY <3>1, <1>8, <2>4 DEF TypeOK, Item
  <2> QED
    BY <2>1, <2>2, <2>3, <2>4
<1>11. DoneWasServed'
  BY <1>1, <1>2, <1>3, ClaimRowsType DEF DoneWasServed
<1>12. DeadHasCause'
  <2> SUFFICES ASSUME NEW m \in Messages, status'[m] = "dead"
               PROVE  m \in refused \cup unreachable \/ delivery'[m] >= MaxRetries
    BY <1>3 DEF DeadHasCause
  <2>1. m \notin S /\ status[m] = "dead" /\ delivery'[m] >= delivery[m]
    BY <1>1, <1>2, ClaimRowsType
  <2>2. delivery[m] \in Nat /\ delivery'[m] \in Nat
    BY <1>1, <1>2, ClaimRowsType DEF TypeOK
  <2> QED
    BY <2>1, <2>2 DEF DeadHasCause
<1> QED
  BY <1>6, <1>9, <1>10, <1>11, <1>12

\* Moving one item through the loop body, with the outcome of its pull on
\* record, keeps the invariant: the claim it names stays the same.
LEMMA AdvanceStep ==
    ASSUME IInv, NEW w \in Workers, NEW i \in held[w],
           NEW s \in {"ack", "bury", "catch"}, Advance(w, i, s),
           UNCHANGED <<status, delivery, stale, down, crashes>>,
           answered' \in SUBSET Messages,
           refused' \in SUBSET Messages, unreachable' \in SUBSET Messages, faults' \in Nat,
           answered \subseteq answered', refused \subseteq refused', unreachable \subseteq unreachable',
           s = "ack" => i.id \in answered',
           s = "bury" => i.id \in refused' \cup unreachable'
    PROVE  IInv'
<1> USE DEF IInv
<1> DEFINE moved == [i EXCEPT !.at = s]
<1>1. /\ i \in Item
      /\ held' \in [Workers -> SUBSET Item]
      /\ held'[w] = (held[w] \ {i}) \cup {moved}
      /\ \A v \in Workers \ {w} : held'[v] = held[v]
  BY AdvanceType
<1>2. moved \in Item /\ moved.id = i.id /\ moved.count = i.count /\ moved.at = s
  BY <1>1 DEF Item
<1>3. TypeOK'
  BY <1>1 DEF TypeOK
<1>4. HeldOK'
  <2> SUFFICES ASSUME NEW v \in Workers, NEW j \in held'[v] PROVE ItemOK(j)'
    BY DEF HeldOK
  <2>1. CASE j \in held[v]
    BY <2>1 DEF HeldOK, ItemOK
  <2>2. CASE j \notin held[v]
    <3>1. v = w /\ j = moved
      BY <2>2, <1>1
    <3> QED
      BY <3>1, <1>2 DEF HeldOK, ItemOK
  <2> QED
    BY <2>1, <2>2
<1>5. ClaimsAreFenced'
  <2> SUFFICES ASSUME NEW u \in Workers, NEW v \in Workers,
                      NEW j \in held'[u], NEW k \in held'[v],
                      j.id = k.id, j.count = k.count
               PROVE  u = v /\ j = k
    BY DEF ClaimsAreFenced
  <2>1. PICK j0 \in held[u] : /\ j0.id = j.id /\ j0.count = j.count
                              /\ IF u = w /\ j0 = i THEN j = moved ELSE j = j0
    BY <1>1, <1>2
  <2>2. PICK k0 \in held[v] : /\ k0.id = k.id /\ k0.count = k.count
                              /\ IF v = w /\ k0 = i THEN k = moved ELSE k = k0
    BY <1>1, <1>2
  <2>3. u = v /\ j0 = k0
    BY <2>1, <2>2 DEF ClaimsAreFenced
  <2> QED
    BY <2>1, <2>2, <2>3
<1>6. DoneWasServed' /\ DeadHasCause'
  BY DEF DoneWasServed, DeadHasCause
<1> QED
  BY <1>3, <1>4, <1>5, <1>6

\* Settling one item keeps the invariant when the new status has its cause.
LEMMA SettleStep ==
    ASSUME IInv, NEW w \in Workers, NEW i \in held[w], NEW s \in RowStatus,
           SetStatus(i.id, s), Drop(w, i), UNCHANGED <<down, pulls, faults, crashes>>,
           s = "done" => i.id \in answered,
           s = "dead" => i.id \in refused \cup unreachable \/ delivery[i.id] >= MaxRetries
    PROVE  IInv'
<1> USE DEF IInv, pulls
<1>1. /\ i \in Item
      /\ held' \in [Workers -> SUBSET Item]
      /\ \A v \in Workers : held'[v] \subseteq held[v]
  BY DropType
<1>2. i.id \in Messages
  BY <1>1 DEF Item
<1>3. /\ status' \in [Messages -> RowStatus]
      /\ delivery' = delivery
      /\ stale' \in SUBSET Messages
      /\ \A n \in Messages : status'[n] = status[n] \/ (n = i.id /\ status'[n] = s)
  BY <1>2, SetStatusType
<1>4. TypeOK'
  BY <1>1, <1>3 DEF TypeOK
<1>5. HeldOK' /\ ClaimsAreFenced'
  BY <1>1, <1>3 DEF HeldOK, ItemOK, ClaimsAreFenced
<1>6. DoneWasServed' /\ DeadHasCause'
  BY <1>3 DEF DoneWasServed, DeadHasCause
<1> QED
  BY <1>4, <1>5, <1>6

LEMMA NextIInv == IInv /\ [Next]_vars => IInv'
<1> SUFFICES ASSUME IInv, [Next]_vars PROVE IInv'
  OBVIOUS
<1> USE DEF IInv
<1>1. ASSUME NEW m \in Messages, Enqueue(m) PROVE IInv'
  BY <1>1 DEF Enqueue, pulls, TypeOK, RowStatus, HeldOK, ItemOK, ClaimsAreFenced,
              DoneWasServed, DeadHasCause
<1>2. CASE Purge
  BY <1>2 DEF Purge, pulls, TypeOK, RowStatus, HeldOK, ItemOK, ClaimsAreFenced,
              DoneWasServed, DeadHasCause
<1>3. ASSUME NEW m \in Messages, ClaimAges(m) PROVE IInv'
  BY <1>3 DEF ClaimAges, pulls, TypeOK, HeldOK, ItemOK, ClaimsAreFenced,
              DoneWasServed, DeadHasCause
<1>4. ASSUME NEW w \in Workers, Claim(w) PROVE IInv'
  BY <1>4, ClaimStep
<1>5. ASSUME NEW w \in Workers, ClaimLost(w) PROVE IInv'
  <2>1. PICK S \in SUBSET Messages : ClaimRows(S)
    BY <1>5 DEF ClaimLost, Batches, Claimable
  <2>2. UNCHANGED <<held, down, answered, refused, unreachable, crashes>> /\ faults' = faults + 1
    BY <1>5 DEF ClaimLost, pulls
  <2>3. TypeOK'
    BY <2>1, <2>2, ClaimRowsType DEF TypeOK
  <2>4. HeldOK'
    <3> SUFFICES ASSUME NEW v \in Workers, NEW i \in held[v] PROVE ItemOK(i)'
      BY <2>2 DEF HeldOK
    <3>1. i \in Item /\ ItemOK(i)
      BY DEF HeldOK, TypeOK
    <3>2. i.id \in Messages /\ i.count \in Nat
      BY <3>1 DEF Item
    <3>3. i.count <= delivery'[i.id]
      BY <3>1, <3>2, <2>1, ClaimRowsType DEF ItemOK, TypeOK
    <3> QED
      BY <3>1, <3>3, <2>2 DEF ItemOK
  <2>5. ClaimsAreFenced'
    BY <2>2 DEF ClaimsAreFenced
  <2>6. DoneWasServed'
    BY <2>1, <2>2, ClaimRowsType DEF DoneWasServed
  <2>7. DeadHasCause'
    <3> SUFFICES ASSUME NEW m \in Messages, status'[m] = "dead"
                 PROVE  m \in refused \cup unreachable \/ delivery'[m] >= MaxRetries
      BY <2>2 DEF DeadHasCause
    <3>1. m \notin S /\ status[m] = "dead" /\ delivery'[m] >= delivery[m]
      BY <2>1, ClaimRowsType
    <3>2. delivery[m] \in Nat /\ delivery'[m] \in Nat
      BY <2>1, ClaimRowsType DEF TypeOK
    <3> QED
      BY <3>1, <3>2 DEF DeadHasCause
  <2> QED
    BY <2>3, <2>4, <2>5, <2>6, <2>7
<1>6. ASSUME NEW w \in Workers, Pull(w) PROVE IInv'
  <2>1. PICK i \in held[w] : PullServed(w, i) \/ PullRefused(w, i) \/ PullBreaks(w, i)
    BY <1>6 DEF Pull
  <2>2. i.id \in Messages
    BY DEF TypeOK, Item
  <2>3. UNCHANGED <<status, delivery, stale, down, crashes>> /\ faults' \in Nat
    BY <1>6 DEF Pull, table, TypeOK
  <2>4. CASE PullServed(w, i)
    BY <2>2, <2>3, <2>4, AdvanceStep DEF PullServed, TypeOK
  <2>5. CASE PullRefused(w, i)
    BY <2>2, <2>3, <2>5, AdvanceStep DEF PullRefused, TypeOK
  <2>6. CASE PullBreaks(w, i)
    BY <2>2, <2>3, <2>6, AdvanceStep DEF PullBreaks, TypeOK
  <2> QED
    BY <2>1, <2>4, <2>5, <2>6
<1>7. ASSUME NEW w \in Workers, Ack(w) PROVE IInv'
  <2>1. PICK i \in held[w] : i.at = "ack" /\ SetStatus(i.id, "done") /\ Drop(w, i)
    BY <1>7 DEF Ack
  <2>2. i.id \in answered
    BY <2>1 DEF HeldOK, ItemOK
  <2> QED
    BY <1>7, <2>1, <2>2, SettleStep DEF Ack, RowStatus
<1>8. ASSUME NEW w \in Workers, DeadLetter(w) PROVE IInv'
  <2>1. PICK i \in held[w] : i.at = "bury" /\ SetStatus(i.id, "dead") /\ Drop(w, i)
    BY <1>8 DEF DeadLetter
  <2>2. i.id \in refused \cup unreachable
    BY <2>1 DEF HeldOK, ItemOK
  <2> QED
    BY <1>8, <2>1, <2>2, SettleStep DEF DeadLetter, RowStatus
<1>9. ASSUME NEW w \in Workers, RetryOrDead(w) PROVE IInv'
  <2> DEFINE verdict(i) == IF i.count >= MaxRetries THEN "dead" ELSE "pending"
  <2>1. PICK i \in held[w] : SetStatus(i.id, verdict(i)) /\ Drop(w, i)
    BY <1>9 DEF RetryOrDead
  <2>2. i \in Item /\ i.count <= delivery[i.id]
    BY DEF HeldOK, ItemOK, TypeOK
  <2>3. verdict(i) = "dead" => delivery[i.id] >= MaxRetries
    BY <2>2, IntakeAssumption DEF TypeOK, Item
  <2>4. verdict(i) \in RowStatus /\ verdict(i) # "done"
    BY DEF RowStatus
  <2> QED
    BY <1>9, <2>1, <2>3, <2>4, SettleStep DEF RetryOrDead
<1>10. ASSUME NEW w \in Workers, StatementFails(w) PROVE IInv'
  <2>1. PICK i \in held[w] : Advance(w, i, "catch")
    BY <1>10 DEF StatementFails
  <2>2. UNCHANGED <<status, delivery, stale, down, answered, refused, unreachable, crashes>>
    BY <1>10 DEF StatementFails, table, pulls
  <2>3. faults' \in Nat
    BY <1>10 DEF StatementFails, TypeOK
  <2> QED
    BY <2>1, <2>2, <2>3, AdvanceStep DEF TypeOK
<1>11. ASSUME NEW w \in Workers, Crash(w) PROVE IInv'
  <2>1. \A v \in Workers : held'[v] \subseteq held[v]
    BY <1>11 DEF Crash, TypeOK
  <2>2. TypeOK'
    BY <1>11 DEF Crash, table, pulls, TypeOK
  <2> QED
    BY <1>11, <2>1, <2>2 DEF Crash, table, pulls, HeldOK, ItemOK, ClaimsAreFenced,
                             DoneWasServed, DeadHasCause
<1>12. ASSUME NEW w \in Workers, Restart(w) PROVE IInv'
  BY <1>12 DEF Restart, table, pulls, TypeOK, HeldOK, ItemOK, ClaimsAreFenced,
               DoneWasServed, DeadHasCause
<1>13. CASE UNCHANGED vars
  BY <1>13 DEF vars, TypeOK, HeldOK, ItemOK, ClaimsAreFenced, DoneWasServed, DeadHasCause
<1> QED
  BY <1>1, <1>2, <1>3, <1>4, <1>5, <1>6, <1>7, <1>8, <1>9, <1>10, <1>11, <1>12, <1>13
     DEF Next, Consumer, Failure

------------------------------------------------------------------------------
\* One host

\* The case of the theorems about a sole consumer.
Solo == \A v, w \in Workers : v = w

SoleInv == IInv /\ SoleHolder

\* A row is held in one item: two would name the same claim.
LEMMA OneItem ==
    ASSUME SoleInv, NEW v \in Workers, NEW w \in Workers, NEW i \in held[v], NEW j \in held[w],
           i.id = j.id
    PROVE  v = w /\ i = j
<1>1. i.count = j.count
  BY DEF SoleInv, SoleHolder
<1> QED
  BY <1>1 DEF SoleInv, IInv, ClaimsAreFenced

\* The host reads when it holds nothing: what it holds then is what it took.
LEMMA ClaimSole ==
    ASSUME Solo, SoleInv, NEW w \in Workers, Claim(w)
    PROVE  SoleHolder'
<1>1. PICK S \in Batches :
         /\ ClaimRows(S)
         /\ held' = [held EXCEPT ![w] =
                       {[id |-> m, count |-> delivery[m] + 1, at |-> "waiting"] : m \in S}]
  BY DEF Claim
<1>2. S \in SUBSET Messages /\ TypeOK
  BY DEF Batches, Claimable, SoleInv, IInv
<1>3. held'[w] = {[id |-> m, count |-> delivery[m] + 1, at |-> "waiting"] : m \in S}
  BY <1>1, <1>2 DEF TypeOK
<1>4. \A i \in held'[w] : i.id \in S /\ i.count = delivery[i.id] + 1
  BY <1>3
<1>5. \A i \in held'[w] : status'[i.id] = "processing" /\ i.count = delivery'[i.id]
  BY <1>1, <1>2, <1>4, ClaimRowsType
<1>6. \A v \in Workers : v = w
  BY DEF Solo
<1> QED
  BY <1>5, <1>6 DEF SoleHolder

LEMMA AdvanceSole ==
    ASSUME SoleInv, NEW w \in Workers, NEW i \in held[w], NEW s \in {"ack", "bury", "catch"},
           Advance(w, i, s), UNCHANGED <<status, delivery>>
    PROVE  SoleHolder'
<1> DEFINE moved == [i EXCEPT !.at = s]
<1>1. /\ i \in Item
      /\ held'[w] = (held[w] \ {i}) \cup {moved}
      /\ \A v \in Workers \ {w} : held'[v] = held[v]
  BY AdvanceType DEF SoleInv, IInv
<1>2. moved.id = i.id /\ moved.count = i.count
  BY <1>1 DEF Item
<1> QED
  BY ZenonT(60), <1>1, <1>2 DEF SoleInv, SoleHolder

\* A settlement leaves the rows of the other items alone.
LEMMA SettleSole ==
    ASSUME SoleInv, NEW w \in Workers, NEW i \in held[w], NEW s \in RowStatus,
           SetStatus(i.id, s), Drop(w, i)
    PROVE  SoleHolder'
<1>1. TypeOK /\ i \in Item /\ i.id \in Messages
  BY DropType DEF SoleInv, IInv, Item
<1>2. /\ delivery' = delivery
      /\ \A n \in Messages : status'[n] = status[n] \/ n = i.id
  BY <1>1, SetStatusType
<1>3. held'[w] = held[w] \ {i} /\ \A v \in Workers \ {w} : held'[v] = held[v]
  BY <1>1 DEF Drop, TypeOK
<1> SUFFICES ASSUME NEW v \in Workers, NEW j \in held'[v]
             PROVE  status'[j.id] \in {"processing", "purged"} /\ j.count = delivery'[j.id]
  BY DEF SoleHolder
<1>4. j \in held[v] /\ ~(v = w /\ j = i)
  BY <1>3
<1>5. j.id # i.id
  BY <1>4, OneItem
<1>6. j.id \in Messages
  BY <1>1, <1>4 DEF TypeOK, Item
<1> QED
  BY <1>2, <1>4, <1>5, <1>6 DEF SoleInv, SoleHolder

\* What a consumer's statement about an item writes.
LEMMA Settles ==
    ASSUME NEW w \in Workers, Ack(w) \/ DeadLetter(w) \/ RetryOrDead(w)
    PROVE  \E i \in held[w], s \in {"done", "dead", "pending"} : SetStatus(i.id, s) /\ Drop(w, i)
<1>1. CASE Ack(w)
  BY <1>1 DEF Ack
<1>2. CASE DeadLetter(w)
  BY <1>2 DEF DeadLetter
<1>3. CASE RetryOrDead(w)
  BY <1>3 DEF RetryOrDead
<1> QED
  BY <1>1, <1>2, <1>3

LEMMA NextSole == Solo /\ SoleInv /\ [Next]_vars => SoleInv'
<1> SUFFICES ASSUME Solo, SoleInv, [Next]_vars PROVE SoleHolder'
  BY NextIInv DEF SoleInv
<1>0. TypeOK
  BY DEF SoleInv, IInv
<1>1. ASSUME NEW m \in Messages, Enqueue(m) PROVE SoleHolder'
  BY <1>0, <1>1 DEF Enqueue, TypeOK, SoleInv, SoleHolder
<1>2. CASE Purge
  <2>1. \A w \in Workers : \A i \in held[w] : i.id \in Messages
    BY <1>0 DEF TypeOK, Item
  <2> QED
    BY <1>2, <2>1 DEF Purge, SoleInv, SoleHolder
<1>3. ASSUME NEW m \in Messages, ClaimAges(m) PROVE SoleHolder'
  BY <1>3 DEF ClaimAges, SoleInv, SoleHolder
<1>4. ASSUME NEW w \in Workers, ClaimLost(w) PROVE SoleHolder'
  <2>1. \A v \in Workers : held'[v] = {}
    BY <1>4 DEF ClaimLost, Solo
  <2> QED
    BY <2>1 DEF SoleHolder
<1>5. ASSUME NEW w \in Workers, Pull(w) PROVE SoleHolder'
  BY <1>5, AdvanceSole DEF Pull, PullServed, PullRefused, PullBreaks, table
<1>6. ASSUME NEW w \in Workers, Ack(w) \/ DeadLetter(w) \/ RetryOrDead(w) PROVE SoleHolder'
  BY <1>6, Settles, SettleSole DEF RowStatus
<1>7. ASSUME NEW w \in Workers, StatementFails(w) PROVE SoleHolder'
  BY <1>7, AdvanceSole DEF StatementFails, table
<1>8. ASSUME NEW w \in Workers, Crash(w) PROVE SoleHolder'
  <2>1. \A v \in Workers : held'[v] \subseteq held[v]
    BY <1>0, <1>8 DEF Crash, TypeOK
  <2> QED
    BY <1>8, <2>1 DEF Crash, table, SoleInv, SoleHolder
<1>9. ASSUME NEW w \in Workers, Restart(w) PROVE SoleHolder'
  BY <1>9 DEF Restart, table, SoleInv, SoleHolder
<1>10. CASE UNCHANGED vars
  BY <1>10 DEF vars, SoleInv, SoleHolder
<1> QED
  BY <1>1, <1>2, <1>3, <1>4, <1>5, <1>6, <1>7, <1>8, <1>9, <1>10, ClaimSole
     DEF Next, Consumer, Failure

LEMMA SpecSole == Solo => (Spec => []SoleInv)
<1> SUFFICES ASSUME Solo PROVE Spec => []SoleInv
  OBVIOUS
<1>1. Init => SoleInv
  BY InitIInv DEF Init, SoleInv, SoleHolder
<1>2. SoleInv /\ [Next]_vars => SoleInv'
  BY NextSole
<1> QED
  BY <1>1, <1>2, PTL DEF Spec

\* What a caller of the queue sees of it: the state of the contract.
Fate == [m \in Messages |->
           IF status[m] \in {"pending", "processing"} THEN "waiting" ELSE status[m]]

\* The fate of a held row is settled once.
LEMMA SettleFate ==
    ASSUME SoleInv, NEW w \in Workers, NEW i \in held[w], NEW s \in {"done", "dead", "pending"},
           SetStatus(i.id, s)
    PROVE  \/ Fate' = Fate
           \/ /\ i.id \in Messages /\ Fate[i.id] = "waiting" /\ s # "pending"
              /\ Fate' = [Fate EXCEPT ![i.id] = s]
<1>1. i.id \in Messages /\ status \in [Messages -> RowStatus]
  BY DEF SoleInv, IInv, TypeOK, Item
<1>2. status[i.id] \in {"processing", "purged"}
  BY DEF SoleInv, SoleHolder
<1>3. CASE status[i.id] = "purged"
  BY <1>3 DEF SetStatus, Fate
<1>4. CASE status[i.id] = "processing"
  <2>1. status' = [status EXCEPT ![i.id] = s]
    BY <1>4 DEF SetStatus
  <2>2. \A m \in Messages \ {i.id} : status'[m] = status[m]
    BY <1>1, <2>1
  <2>3. status'[i.id] = s
    BY <1>1, <2>1
  <2>4. CASE s = "pending"
    BY <1>4, <2>2, <2>3, <2>4 DEF Fate
  <2>5. CASE s # "pending"
    BY <1>1, <1>4, <2>2, <2>3, <2>5 DEF Fate
  <2> QED
    BY <2>4, <2>5
<1> QED
  BY <1>2, <1>3, <1>4

LEMMA ClaimFate ==
    ASSUME TypeOK, NEW S \in Batches, ClaimRows(S)
    PROVE  Fate' = Fate
<1>1. S \in SUBSET Messages /\ \A m \in S : status[m] \in {"pending", "processing"}
  BY DEF Batches, Claimable
<1> QED
  BY <1>1, ClaimRowsType DEF Fate

------------------------------------------------------------------------------

\* The columns and the consumers' memories keep their types.
THEOREM IntakeTyped == Spec => []TypeOK
<1>1. IInv => TypeOK
  BY DEF IInv
<1> QED
  BY <1>1, InitIInv, NextIInv, PTL DEF Spec

\* Every claim of a row is named by its DeliveryCount: no two consumers ever
\* hold the same row with the same count.
THEOREM IntakeFenced == Spec => []ClaimsAreFenced
<1>1. IInv => ClaimsAreFenced
  BY DEF IInv
<1> QED
  BY <1>1, InitIInv, NextIInv, PTL DEF Spec

\* A row ends 'done' only after the proxy served its index, and 'dead' only after a failed
\* pull or MaxRetries deliveries.
THEOREM IntakeSettledWithCause == Spec => []SettledWithCause
<1>1. IInv => SettledWithCause
  BY DEF IInv, SettledWithCause
<1> QED
  BY <1>1, InitIInv, NextIInv, PTL DEF Spec

\* One host's consumer is the only one that touches the row it works on: the row stays claimed,
\* under the count of its claim, until that consumer settles it or a purge removes it.
THEOREM SoleHolds == Solo => (Spec => []SoleHolder)
<1>1. SoleInv => SoleHolder
  BY DEF SoleInv
<1> QED
  BY <1>1, SpecSole, PTL

\* With one host, for any number of messages, failing statements and stops, the queue keeps the
\* contract of IIntakeQueue: what was accepted is finished, buried or purged once.
THEOREM ContractIsKept == Solo => (Spec => ImplementsContract)
<1> SUFFICES ASSUME Solo PROVE Spec => ImplementsContract
  OBVIOUS
<1>1. Init => Contract!Init
  BY DEF Init, Contract!Init
<1>2. SoleInv /\ [Next]_vars => [Contract!Next]_Fate
  <2> SUFFICES ASSUME SoleInv, [Next]_vars PROVE Contract!Next \/ Fate' = Fate
    OBVIOUS
  <2>0. TypeOK /\ status \in [Messages -> RowStatus]
    BY DEF SoleInv, IInv, TypeOK
  <2>1. ASSUME NEW m \in Messages, Enqueue(m) PROVE Contract!Accept(m)
    <3>1. status[m] = "absent" /\ status' = [status EXCEPT ![m] = "pending"]
      BY <2>1 DEF Enqueue
    <3>2. Fate[m] = "absent" /\ Fate' = [Fate EXCEPT ![m] = "waiting"]
      BY <2>0, <3>1 DEF Fate
    <3> QED
      BY <3>2 DEF Contract!Accept, Fate
  <2>2. CASE Purge
    <3>1. \A m \in Messages : Fate[m] = "absent" <=> status[m] = "absent"
      BY DEF Fate
    <3>2. Fate' = [m \in Messages |-> IF Fate[m] = "absent" THEN "absent" ELSE "purged"]
      BY <2>2, <3>1 DEF Purge, Fate
    <3> QED
      BY <3>2 DEF Contract!Next, Contract!Purge, Fate
  <2>3. ASSUME NEW w \in Workers, Ack(w) \/ DeadLetter(w) \/ RetryOrDead(w)
        PROVE  Fate' = Fate \/ Contract!Next
    <3>1. PICK i \in held[w], s \in {"done", "dead", "pending"} : SetStatus(i.id, s)
      BY <2>3, Settles
    <3>2. CASE Fate' = Fate
      BY <3>2
    <3>3. CASE /\ i.id \in Messages /\ Fate[i.id] = "waiting" /\ s # "pending"
               /\ Fate' = [Fate EXCEPT ![i.id] = s]
      BY <3>3 DEF Contract!Next, Contract!Finish, Contract!Bury, Fate
    <3> QED
      BY <3>1, <3>2, <3>3, SettleFate
  <2>4. ASSUME NEW w \in Workers, Claim(w) \/ ClaimLost(w) PROVE Fate' = Fate
    BY <2>0, <2>4, ClaimFate DEF Claim, ClaimLost
  <2>5. CASE status' = status
    BY <2>5 DEF Fate
  <2>6. \A m \in Messages : ClaimAges(m) => status' = status
    BY DEF ClaimAges
  <2>7. \A w \in Workers : Pull(w) \/ StatementFails(w) \/ Crash(w) \/ Restart(w) => status' = status
    BY DEF Pull, StatementFails, Crash, Restart, table
  <2>8. UNCHANGED vars => status' = status
    BY DEF vars
  <2>9. \A m \in Messages : Contract!Accept(m) => Contract!Next
    BY DEF Contract!Next
  <2> QED
    BY <2>1, <2>2, <2>3, <2>4, <2>5, <2>6, <2>7, <2>8, <2>9 DEF Next, Consumer, Failure
<1> QED
  BY <1>1, <1>2, SpecSole, PTL DEF Spec, ImplementsContract, Contract!Spec, Fate
==============================================================================
