----------------------------- MODULE IntakeQueue -----------------------------
(***************************************************************************)
(* The durable intake queue: the table dbo.IntakeQueue of SqlServerQueue   *)
(* and the IntakeConsumer loops (one per running host) that drain it.      *)
(*                                                                         *)
(* Every SQL statement of SqlServerQueue is one atomic step; everything a  *)
(* consumer does between two statements (the pull through the Nexus proxy) *)
(* interleaves with the other consumers, with a purge and with crashes.    *)
(* A row is identified by its MessageId; the IDENTITY column never hands   *)
(* an id out twice, not even after a purge.                                *)
(***************************************************************************)
EXTENDS Naturals, FiniteSets

CONSTANTS
    Messages,     \* the ids the IDENTITY column will hand out
    Workers,      \* the hosts that run an IntakeConsumer
    MaxRetries,   \* SqlServerQueue.MaxRetries (5 in the code)
    BatchSize,    \* INTAKE_BATCH
    MaxFaults,    \* bound: SQL statements that fail
    MaxCrashes    \* bound: hosts that stop

ASSUME IntakeAssumption ==
    /\ MaxRetries \in Nat \ {0}
    /\ BatchSize \in Nat \ {0}
    /\ MaxFaults \in Nat
    /\ MaxCrashes \in Nat

VARIABLES
    status,       \* the Status column; "absent" before the INSERT, "purged" after the DELETE
    delivery,     \* the DeliveryCount column
    stale,        \* rows whose ClaimedAt is more than 60 s in the past
    held,         \* per worker: the items of its batch it has not settled yet
    down,         \* the workers whose host has stopped
    answered,     \* history: messages whose index the quarantine proxy served
    refused,      \* history: messages whose index the proxy answered with an error status
    unreachable,  \* history: messages whose pull died with a transport error
    faults, crashes

table == <<status, delivery, stale>>
pulls == <<answered, refused, unreachable>>
vars  == <<status, delivery, stale, held, down, answered, refused, unreachable, faults, crashes>>

RowStatus == {"absent", "pending", "processing", "done", "dead", "purged"}
Settled   == {"done", "dead", "purged"}

\* A QueuedItem in a consumer's memory: the row's id, the DeliveryCount the
\* claim returned, and how far the body of the foreach has come with it.
Item == [id : Messages, count : Nat, at : {"waiting", "ack", "bury", "catch"}]

TypeOK ==
    /\ status \in [Messages -> RowStatus]
    /\ delivery \in [Messages -> Nat]
    /\ stale \in SUBSET Messages
    /\ held \in [Workers -> SUBSET Item]
    /\ down \in SUBSET Workers
    /\ answered \in SUBSET Messages
    /\ refused \in SUBSET Messages
    /\ unreachable \in SUBSET Messages
    /\ faults \in Nat
    /\ crashes \in Nat

Init ==
    /\ status = [m \in Messages |-> "absent"]
    /\ delivery = [m \in Messages |-> 0]
    /\ stale = {}
    /\ held = [w \in Workers |-> {}]
    /\ down = {}
    /\ answered = {} /\ refused = {} /\ unreachable = {}
    /\ faults = 0 /\ crashes = 0

------------------------------------------------------------------------------
\* The table

\* EnqueueAsync: INSERT with Status 'pending' and DeliveryCount 0.
Enqueue(m) ==
    /\ status[m] = "absent"
    /\ status' = [status EXCEPT ![m] = "pending"]
    /\ UNCHANGED <<delivery, stale, held, down, pulls, faults, crashes>>

\* PurgeAsync: DELETE every row, whatever its status.
Purge ==
    /\ status' = [m \in Messages |-> IF status[m] = "absent" THEN "absent" ELSE "purged"]
    /\ stale' = {}
    /\ UNCHANGED <<delivery, held, down, pulls, faults, crashes>>

\* The clock: a claim becomes more than 60 seconds old.
ClaimAges(m) ==
    /\ status[m] = "processing" /\ m \notin stale
    /\ stale' = stale \cup {m}
    /\ UNCHANGED <<status, delivery, held, down, pulls, faults, crashes>>

\* Mutants of the WHERE clause: no reclaim; any row that is not dead.
ClaimablePendingOnly == {m \in Messages : status[m] = "pending"}
ClaimableNotDead == {m \in Messages : status[m] \notin {"absent", "dead", "purged"}}

\* The WHERE clause of the claim: pending rows and rows whose claim is stale.
Claimable == {m \in Messages :
    \/ status[m] = "pending"
    \/ status[m] = "processing" /\ m \in stale}

\* What one claim may take: up to BatchSize rows. READPAST skips rows other
\* statements have locked and TOP has no ORDER BY, so any of them.
Batches == {S \in SUBSET Claimable : S # {} /\ Cardinality(S) <= BatchSize}

\* Mutant: the claim forgets to count the delivery.
ClaimRowsUncounted(S) ==
    /\ status' = [m \in Messages |-> IF m \in S THEN "processing" ELSE status[m]]
    /\ stale' = stale \ S
    /\ UNCHANGED delivery

\* UPDATE TOP(n) ... SET processing, ClaimedAt = now, DeliveryCount + 1.
ClaimRows(S) ==
    /\ status' = [m \in Messages |-> IF m \in S THEN "processing" ELSE status[m]]
    /\ delivery' = [m \in Messages |-> IF m \in S THEN delivery[m] + 1 ELSE delivery[m]]
    /\ stale' = stale \ S

\* UPDATE ... SET Status = s WHERE MessageId = m: no check of the status or of
\* who claimed the row; a purged row matches nothing.
SetStatus(m, s) ==
    /\ status' = IF status[m] = "purged" THEN status ELSE [status EXCEPT ![m] = s]
    /\ stale' = stale \ {m}
    /\ UNCHANGED delivery

------------------------------------------------------------------------------
\* The consumer

\* Mutant: OUTPUT DELETED.DeliveryCount, the count before the claim.
ClaimOldCount(w) ==
    /\ w \notin down /\ held[w] = {}
    /\ \E S \in Batches :
         /\ ClaimRows(S)
         /\ held' = [held EXCEPT ![w] =
                       {[id |-> m, count |-> delivery[m], at |-> "waiting"] : m \in S}]
    /\ UNCHANGED <<down, pulls, faults, crashes>>

\* A host reads only when the foreach over its previous batch is over.
Claim(w) ==
    /\ w \notin down /\ held[w] = {}
    /\ \E S \in Batches :
         /\ ClaimRows(S)
         /\ held' = [held EXCEPT ![w] =
                       {[id |-> m, count |-> delivery[m] + 1, at |-> "waiting"] : m \in S}]
    /\ UNCHANGED <<down, pulls, faults, crashes>>

\* ReadAsync throws after the server committed the claim: the rows stay
\* 'processing' and nobody holds them.
ClaimLost(w) ==
    /\ w \notin down /\ held[w] = {} /\ faults < MaxFaults
    /\ \E S \in Batches : ClaimRows(S)
    /\ faults' = faults + 1
    /\ UNCHANGED <<held, down, pulls, crashes>>

\* The foreach takes the next item only when it is done with the last one.
BetweenItems(w) == w \notin down /\ \A j \in held[w] : j.at = "waiting"

\* The item i of w moves on to step s of the loop body.
Advance(w, i, s) ==
    held' = [held EXCEPT ![w] = (held[w] \ {i}) \cup {[i EXCEPT !.at = s]}]

\* FetchIntoQuarantineAsync returns true when the index was served; the
\* status of the artifact's own download is only logged.
PullServed(w, i) ==
    /\ Advance(w, i, "ack")
    /\ answered' = answered \cup {i.id}
    /\ UNCHANGED <<refused, unreachable>>

\* ... false, because the index came back with an error status.
PullRefused(w, i) ==
    /\ Advance(w, i, "bury")
    /\ refused' = refused \cup {i.id}
    /\ UNCHANGED <<answered, unreachable>>

\* ... or false, because the request threw: the client catches every exception.
PullBreaks(w, i) ==
    /\ Advance(w, i, "bury")
    /\ unreachable' = unreachable \cup {i.id}
    /\ UNCHANGED <<answered, refused>>

Pull(w) ==
    /\ BetweenItems(w)
    /\ \E i \in held[w] : PullServed(w, i) \/ PullRefused(w, i) \/ PullBreaks(w, i)
    /\ UNCHANGED <<table, down, faults, crashes>>

Drop(w, i) == held' = [held EXCEPT ![w] = held[w] \ {i}]

\* AckAsync.
Ack(w) ==
    /\ w \notin down
    /\ \E i \in held[w] : i.at = "ack" /\ SetStatus(i.id, "done") /\ Drop(w, i)
    /\ UNCHANGED <<down, pulls, faults, crashes>>

\* DeadLetterAsync after a pull that returned false.
DeadLetter(w) ==
    /\ w \notin down
    /\ \E i \in held[w] : i.at = "bury" /\ SetStatus(i.id, "dead") /\ Drop(w, i)
    /\ UNCHANGED <<down, pulls, faults, crashes>>

\* The UPDATE of AckAsync or DeadLetterAsync throws: the catch block runs next.
StatementFails(w) ==
    /\ w \notin down /\ faults < MaxFaults
    /\ \E i \in held[w] : i.at \in {"ack", "bury"} /\ Advance(w, i, "catch")
    /\ faults' = faults + 1
    /\ UNCHANGED <<table, down, pulls, crashes>>

\* Mutant of the poison guard: off by one.
RetryOrDeadEarly(w) ==
    /\ w \notin down
    /\ \E i \in held[w] :
         /\ i.at = "catch"
         /\ SetStatus(i.id, IF i.count + 1 >= MaxRetries THEN "dead" ELSE "pending")
         /\ Drop(w, i)
    /\ UNCHANGED <<down, pulls, faults, crashes>>

\* The poison guard: back to 'pending', or 'dead' once the claim's own
\* DeliveryCount has reached MaxRetries.
RetryOrDead(w) ==
    /\ w \notin down
    /\ \E i \in held[w] :
         /\ i.at = "catch"
         /\ SetStatus(i.id, IF i.count >= MaxRetries THEN "dead" ELSE "pending")
         /\ Drop(w, i)
    /\ UNCHANGED <<down, pulls, faults, crashes>>

\* The host stops, and its batch with it: killed, or an exception out of the
\* catch block ended ExecuteAsync, which stops the host.
Crash(w) ==
    /\ w \notin down /\ crashes < MaxCrashes
    /\ crashes' = crashes + 1
    /\ down' = down \cup {w}
    /\ held' = [held EXCEPT ![w] = {}]
    /\ UNCHANGED <<table, pulls, faults>>

Restart(w) ==
    /\ w \in down
    /\ down' = down \ {w}
    /\ UNCHANGED <<table, held, pulls, faults, crashes>>

Consumer(w) == Claim(w) \/ Pull(w) \/ Ack(w) \/ DeadLetter(w) \/ RetryOrDead(w) \/ Restart(w)
Failure(w)  == ClaimLost(w) \/ StatementFails(w) \/ Crash(w)

Next ==
    \/ \E m \in Messages : Enqueue(m) \/ ClaimAges(m)
    \/ Purge
    \/ \E w \in Workers : Consumer(w) \/ Failure(w)

Spec == Init /\ [][Next]_vars

\* Every await of the loop returns (HTTP and SQL calls time out), a stopped
\* host is restarted by the container runtime, and time passes.
Fairness ==
    /\ \A w \in Workers : WF_vars(Consumer(w))
    /\ \A m \in Messages : WF_vars(ClaimAges(m))

FairSpec == Spec /\ Fairness

------------------------------------------------------------------------------
\* Correctness

\* Two hosts that hold the same row hold different DeliveryCounts of it: the
\* claim increments the counter in the statement that takes the row, so the
\* count in a QueuedItem names one claim (ReadAsync).
ClaimsAreFenced ==
    \A v, w \in Workers : \A i \in held[v], j \in held[w] :
        i.id = j.id /\ i.count = j.count => v = w /\ i = j

\* No row is 'done' unless the proxy served its index to some consumer, however
\* the acks of two hosts holding it interleave (the consumer's fetched branch).
DoneWasServed == \A m \in Messages : status[m] = "done" => m \in answered

\* No row is dead-lettered without a cause: its pull failed, or it was
\* delivered at least MaxRetries times (the false branch and the catch block).
DeadHasCause ==
    \A m \in Messages : status[m] = "dead" =>
        m \in refused \cup unreachable \/ delivery[m] >= MaxRetries

\* How a row ends is what happened to its package.
SettledWithCause == DoneWasServed /\ DeadHasCause

\* With one host, a row a consumer is working on stays claimed: nothing but a
\* purge takes it away before the consumer settles it.
SoleHolder ==
    \A w \in Workers : \A i \in held[w] :
        status[i.id] \in {"processing", "purged"} /\ i.count = delivery[i.id]

\* With one host, the queue as its callers see it: a message is accepted, then
\* finished, buried or purged once, and that verdict never changes.
Contract == INSTANCE IntakeContract WITH
    fate <- [m \in Messages |->
               IF status[m] \in {"pending", "processing"} THEN "waiting" ELSE status[m]]

ImplementsContract == Contract!Spec

\* Every message is settled in the end, whatever fails (the reclaim of stale
\* rows in ReadAsync and the poison guard).
EventuallySettled ==
    \A m \in Messages : status[m] = "pending" ~> status[m] \in Settled
==============================================================================
