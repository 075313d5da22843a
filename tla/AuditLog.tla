------------------------------- MODULE AuditLog -------------------------------
(***************************************************************************)
(* The hash-chained AuditLog, its file and its WORM mirror.                *)
(*                                                                         *)
(* Callers append from many threads: the gate for every decision, the      *)
(* exception endpoints, the sweep.  AppendAsync seals an entry and appends *)
(* it to the file under one lock, and mirrors the sealed line when it has  *)
(* left the lock.  An entry has its own Guid and is sealed once, so the    *)
(* hash of its line is written as the entry itself.                        *)
(***************************************************************************)
EXTENDS Naturals, Sequences

CONSTANTS
    Entries,      \* the entries that will be appended, one call each
    Hosts,        \* the processes that share the two files
    Genesis,      \* the hash before the first line
    Torn,         \* a line cut short: no JSON, no end of line
    Garbage,      \* a line that ended, but is no JSON
    MaxFaults,    \* bound: file operations that fail, writes cut short
    MaxRestarts,  \* bound: times a host stops
    MaxWipes      \* bound: maintenance resets

ASSUME LogAssumption ==
    /\ Genesis \notin Entries /\ Hosts # {}
    /\ MaxFaults \in Nat /\ MaxRestarts \in Nat /\ MaxWipes \in Nat

VARIABLES
    file,        \* audit.log
    worm,        \* the WORM sink
    entries,     \* per host: _entries
    prevHash,    \* per host: _prevHash
    call,        \* per entry: how far its AppendAsync is
    kept,        \* history: entries whose line reached the file since the last wipe
    faults, restarts, wipes

vars == <<file, worm, entries, prevHash, call, kept, faults, restarts, wipes>>

Line == [prev : Entries \cup {Genesis}, entry : Entries]

ASSUME BadLines == {Torn, Garbage} \cap Line = {}

Bad == {Torn, Garbage}

\* host is the process the call runs in, pos where the file ended when it opened
\* it.  The call holds its host's _lock while at "write".
Call == [at : {"none", "write", "mirror", "done", "failed"}, host : Hosts, line : Line, pos : Nat]

TypeOK ==
    /\ file \in Seq(Line \cup Bad)
    /\ worm \in Seq(Line)
    /\ entries \in [Hosts -> Seq(Entries)]
    /\ prevHash \in [Hosts -> Entries \cup {Genesis}]
    /\ call \in [Entries -> Call]
    /\ kept \in SUBSET Entries
    /\ faults \in Nat /\ restarts \in Nat /\ wipes \in Nat

NotCalled(e) == [at |-> "none", host |-> CHOOSE h \in Hosts : TRUE,
                 line |-> [prev |-> Genesis, entry |-> e], pos |-> 0]

Init ==
    /\ file = <<>> /\ worm = <<>>
    /\ entries = [h \in Hosts |-> <<>>]
    /\ prevHash = [h \in Hosts |-> Genesis]
    /\ call = [e \in Entries |-> NotCalled(e)]
    /\ kept = {}
    /\ faults = 0 /\ restarts = 0 /\ wipes = 0

Unlocked(h) == \A e \in Entries : ~(call[e].at = "write" /\ call[e].host = h)

CallAt(e, step) == call[e].at = step

------------------------------------------------------------------------------
\* AppendAsync

\* Mutant: the lock is forgotten.
SealUnlocked(h, e) ==
    /\ CallAt(e, "none")
    /\ call' = [call EXCEPT ![e] = [at |-> "write", host |-> h, pos |-> Len(file),
                                    line |-> [prev |-> prevHash[h], entry |-> e]]]
    /\ prevHash' = [prevHash EXCEPT ![h] = e]
    /\ entries' = [entries EXCEPT ![h] = Append(@, e)]
    /\ UNCHANGED <<file, worm, kept, faults, restarts, wipes>>

\* Under the lock: seal, advance the chain, list the entry, open the file.
Seal(h, e) ==
    /\ CallAt(e, "none") /\ Unlocked(h)
    /\ call' = [call EXCEPT ![e] = [at |-> "write", host |-> h, pos |-> Len(file),
                                    line |-> [prev |-> prevHash[h], entry |-> e]]]
    /\ prevHash' = [prevHash EXCEPT ![h] = e]
    /\ entries' = [entries EXCEPT ![h] = Append(@, e)]
    /\ UNCHANGED <<file, worm, kept, faults, restarts, wipes>>

\* What the file may hold once `line` is written at the position where it ended
\* when it was opened.  A torn last line swallows it; a file another host has
\* wiped since leaves a hole before it; what another host has written there
\* since is overwritten, and may stick out at the end.
Written(line, pos) ==
    IF Len(file) < pos THEN {Append(file, Garbage)}
    ELSE IF pos > 0 /\ file[pos] = Torn THEN {Append(SubSeq(file, 1, pos - 1), Garbage)}
    ELSE LET upToIt == Append(SubSeq(file, 1, pos), line) IN
         IF Len(file) = pos THEN {upToIt} ELSE {upToIt, Append(upToIt, Garbage)}

\* Mutant: AppendShared mirrors the line too.
WriteMirrors(e) ==
    /\ CallAt(e, "write")
    /\ file' \in Written(call[e].line, call[e].pos)
    /\ kept' = kept \cup {e}
    /\ worm' = Append(worm, call[e].line)
    /\ call' = [call EXCEPT ![e].at = "mirror"]
    /\ UNCHANGED <<entries, prevHash, faults, restarts, wipes>>

\* The line is in the file, and the lock released.
Write(e) ==
    /\ CallAt(e, "write")
    /\ file' \in Written(call[e].line, call[e].pos)
    /\ kept' = kept \cup {e}
    /\ call' = [call EXCEPT ![e].at = "mirror"]
    /\ UNCHANGED <<worm, entries, prevHash, faults, restarts, wipes>>

\* The last line of f is cut short; a line that already was stays so.
CutShort(f) == IF f # <<>> /\ f[Len(f)] = Torn THEN f ELSE Append(f, Torn)

\* AppendShared throws, with or without part of the line in the file: the entry
\* stays listed, and the chain has moved on.
WriteFails(e) ==
    /\ CallAt(e, "write") /\ faults < MaxFaults
    /\ faults' = faults + 1
    /\ file' \in {file, CutShort(file)}
    /\ call' = [call EXCEPT ![e].at = "failed"]
    /\ UNCHANGED <<worm, entries, prevHash, kept, restarts, wipes>>

\* FileWormSink.WriteAsync, outside the lock: sealed lines may overtake one
\* another on the way.
Mirror(e) ==
    /\ CallAt(e, "mirror")
    /\ worm' = Append(worm, call[e].line)
    /\ call' = [call EXCEPT ![e].at = "done"]
    /\ UNCHANGED <<file, entries, prevHash, kept, faults, restarts, wipes>>

MirrorFails(e) ==
    /\ CallAt(e, "mirror") /\ faults < MaxFaults
    /\ faults' = faults + 1
    /\ call' = [call EXCEPT ![e].at = "failed"]
    /\ UNCHANGED <<file, worm, entries, prevHash, kept, restarts, wipes>>

------------------------------------------------------------------------------
\* ClearAll and a restart

\* Mutant: the chain goes on from the last sealed line.
ClearAllKeepsHash(h) ==
    /\ Unlocked(h) /\ wipes < MaxWipes
    /\ wipes' = wipes + 1
    /\ entries' = [entries EXCEPT ![h] = <<>>]
    /\ file' = <<>> /\ kept' = {}
    /\ UNCHANGED <<worm, call, prevHash, faults, restarts>>

\* Under the lock.  When the file cannot be truncated nobody is told.
ClearAll(h) ==
    /\ Unlocked(h) /\ wipes < MaxWipes
    /\ wipes' = wipes + 1
    /\ entries' = [entries EXCEPT ![h] = <<>>]
    /\ prevHash' = [prevHash EXCEPT ![h] = Genesis]
    /\ \/ file' = <<>> /\ kept' = {} /\ UNCHANGED faults
       \/ faults < MaxFaults /\ faults' = faults + 1 /\ UNCHANGED <<file, kept>>
    /\ UNCHANGED <<worm, call, restarts>>

\* The lines Reload gets to read: it stops at the first that is no JSON.
Readable(f) == LET n == CHOOSE n \in 0..Len(f) :
                          /\ \A i \in 1..n : f[i] \notin Bad
                          /\ n < Len(f) => f[n + 1] \in Bad
               IN SubSeq(f, 1, n)

EntriesOf(f) == [i \in DOMAIN f |-> f[i].entry]

\* Mutant: the constructor reads the entries, but the chain starts afresh.
ReloadedFresh(f) == [entries |-> EntriesOf(Readable(f)), prev |-> Genesis]

Reloaded(f) ==
    LET good == Readable(f) IN
    [entries |-> EntriesOf(good),
     prev    |-> IF good = <<>> THEN Genesis ELSE good[Len(good)].entry]

\* A host stops and starts again: the calls of its threads are cut off where
\* they are, and the file is read back.
Restart(h) ==
    /\ restarts < MaxRestarts /\ restarts' = restarts + 1
    /\ \/ UNCHANGED <<file, faults>>
       \/ /\ ~Unlocked(h) /\ faults < MaxFaults /\ faults' = faults + 1
          /\ file' = CutShort(file)
    /\ entries' = [entries EXCEPT ![h] = Reloaded(file').entries]
    /\ prevHash' = [prevHash EXCEPT ![h] = Reloaded(file').prev]
    /\ call' = [e \in Entries |->
                  IF call[e].host = h /\ call[e].at \in {"write", "mirror"}
                  THEN [call[e] EXCEPT !.at = "failed"] ELSE call[e]]
    /\ UNCHANGED <<worm, kept, wipes>>

Next ==
    \/ \E h \in Hosts : ClearAll(h) \/ Restart(h) \/ \E e \in Entries : Seal(h, e)
    \/ \E e \in Entries : Write(e) \/ WriteFails(e) \/ Mirror(e) \/ MirrorFails(e)

Spec == Init /\ [][Next]_vars

------------------------------------------------------------------------------
\* Correctness

\* With one host, every line of the file carries the hash of the line before it,
\* across wipes and restarts, until a file operation fails (Seal, Reload, ClearAll).
ChainVerifies ==
    faults = 0 => \A i \in DOMAIN file :
        /\ file[i] \in Line
        /\ file[i].prev = IF i = 1 THEN Genesis ELSE file[i - 1].entry

\* With one host, whatever fails, what can be read of the file is the promised
\* ledger: entries come one at a time, each once, and only a wipe takes them away.
Ledger == INSTANCE AuditLedger WITH ledger <- EntriesOf(Readable(file))

ImplementsLedger == Ledger!Spec

\* With one host, the ledger that is shown whenever nobody is inside the lock is
\* the ledger a restart would read back, until a file operation fails.
ViewIsTheFile ==
    faults = 0 => \A h \in Hosts : Unlocked(h) =>
        entries[h] = Reloaded(file).entries /\ prevHash[h] = Reloaded(file).prev

\* The mirror never holds a line twice, nor one that was not sealed by a call
\* that got it into the file first.
MirrorFollowsLedger ==
    /\ \A i, j \in DOMAIN worm : worm[i] = worm[j] => i = j
    /\ \A i \in DOMAIN worm : call[worm[i].entry].at = "done"

------------------------------------------------------------------------------
\* What a comment says, and the code does not do

\* "interleaved appends stay well-formed" (AppendShared): no line that was
\* written whole is lost or spoilt.
AppendsStayWellFormed == \A e \in kept : \E i \in DOMAIN file : file[i] \notin Bad /\ file[i].entry = e
==============================================================================
