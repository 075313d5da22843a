---------------------------- MODULE AuditLogProofs ----------------------------
(***************************************************************************)
(* What holds of the AuditLog of a single host: for any number of callers, *)
(* restarts and wipes, and as long as no file operation has failed, the    *)
(* chain verifies, the view is the file, and the file is the ledger.       *)
(***************************************************************************)
EXTENDS AuditLog, SequenceTheorems, WellFoundedInduction, TLAPS

\* The case the theorems are about.
Solo == \A g, h \in Hosts : g = h

\* The hash the next line of file f has to carry.
LastOf(f) == IF Len(f) = 0 THEN Genesis ELSE f[Len(f)].entry

Typed ==
    /\ file \in Seq(Line)
    /\ entries \in [Hosts -> Seq(Entries)]
    /\ prevHash \in [Hosts -> Entries \cup {Genesis}]
    /\ call \in [Entries -> Call]
    /\ faults \in Nat

Chained == \A i \in 1..Len(file) : file[i].prev = IF i = 1 THEN Genesis ELSE file[i - 1].entry

\* The one call that may be inside the lock is about to write the successor of
\* the last line where the file ends.
Writing ==
    \A e \in Entries : CallAt(e, "write") =>
        /\ call[e].pos = Len(file)
        /\ call[e].line = [prev |-> LastOf(file), entry |-> e]
        /\ \A d \in Entries : CallAt(d, "write") => d = e

\* Nothing in the file is about to be written.
Fresh == \A i \in 1..Len(file) : call[file[i].entry].at \notin {"none", "write"}

InStep ==
    \A h \in Hosts : Unlocked(h) => entries[h] = EntriesOf(file) /\ prevHash[h] = LastOf(file)

IInv == Typed /\ Chained /\ Writing /\ Fresh /\ InStep

\* While a call writes, memory is one entry ahead of the file.
Ahead ==
    \A e \in Entries : CallAt(e, "write") =>
        /\ entries[call[e].host] = Append(EntriesOf(file), e)
        /\ prevHash[call[e].host] = e

Inv == IInv /\ Ahead

\* A failed operation ends what is claimed of the file.
SoundInv == faults \in 0..MaxFaults /\ (faults = 0 => Inv)

USE LogAssumption, BadLines

LEMMA FileFacts ==
    ASSUME NEW f \in Seq(Line)
    PROVE  /\ Len(f) \in Nat /\ DOMAIN f = 1..Len(f)
           /\ \A i \in 1..Len(f) : f[i] \in Line /\ f[i] \notin Bad /\ f[i].entry \in Entries
           /\ EntriesOf(f) \in Seq(Entries) /\ Len(EntriesOf(f)) = Len(f)
           /\ LastOf(f) \in Entries \cup {Genesis}
<1>1. Len(f) \in Nat /\ DOMAIN f = 1..Len(f) /\ \A i \in 1..Len(f) : f[i] \in Line
  OBVIOUS
<1>2. \A i \in 1..Len(f) : f[i].entry \in Entries
  BY <1>1 DEF Line
<1>3. \A i \in 1..Len(f) : f[i] \notin Bad
  BY <1>1 DEF Bad
<1>4. EntriesOf(f) = [i \in 1..Len(f) |-> f[i].entry]
  BY <1>1 DEF EntriesOf
<1>5. EntriesOf(f) \in Seq(Entries) /\ Len(EntriesOf(f)) = Len(f)
  <2>1. EntriesOf(f) \in [1..Len(f) -> Entries]
    BY <1>2, <1>4
  <2> QED
    BY <1>1, <2>1, IsASeq, LenProperties
<1>6. LastOf(f) \in Entries \cup {Genesis}
  BY <1>1, <1>2 DEF LastOf
<1> QED
  BY <1>1, <1>2, <1>3, <1>5, <1>6

\* A file without bad lines is read to its end.
LEMMA ReadableIsWhole == ASSUME NEW f \in Seq(Line) PROVE Readable(f) = f
<1> DEFINE P(n) == /\ \A i \in 1..n : f[i] \notin Bad
                   /\ n < Len(f) => f[n + 1] \in Bad
<1>1. Len(f) \in Nat /\ \A i \in 1..Len(f) : f[i] \notin Bad
  BY FileFacts
<1>2. P(Len(f)) /\ Len(f) \in 0..Len(f)
  BY <1>1
<1>3. ASSUME NEW n \in 0..Len(f), P(n) PROVE n = Len(f)
  <2> SUFFICES ASSUME n < Len(f) PROVE FALSE
    BY <1>1
  <2>1. n + 1 \in 1..Len(f)
    BY <1>1
  <2> QED
    BY <1>1, <1>3, <2>1
<1>4. (CHOOSE n \in 0..Len(f) : P(n)) = Len(f)
  BY <1>2, <1>3
<1>5. Readable(f) = SubSeq(f, 1, Len(f))
  BY <1>4 DEF Readable
<1> QED
  BY <1>5, SubSeqFull

LEMMA ReloadIsWhole ==
    ASSUME NEW f \in Seq(Line)
    PROVE  Reloaded(f) = [entries |-> EntriesOf(f), prev |-> LastOf(f)]
<1>1. f = <<>> <=> Len(f) = 0
  OBVIOUS
<1> QED
  BY <1>1, ReadableIsWhole DEF Reloaded, LastOf

LEMMA AppendFacts ==
    ASSUME NEW f \in Seq(Line), NEW l \in Line
    PROVE  /\ Append(f, l) \in Seq(Line) /\ Len(Append(f, l)) = Len(f) + 1
           /\ \A i \in 1..Len(f) : Append(f, l)[i] = f[i]
           /\ Append(f, l)[Len(f) + 1] = l
           /\ EntriesOf(Append(f, l)) = Append(EntriesOf(f), l.entry)
           /\ LastOf(Append(f, l)) = l.entry
<1> DEFINE g == Append(f, l)
<1>1. /\ g \in Seq(Line) /\ Len(g) = Len(f) + 1 /\ DOMAIN g = 1..Len(g)
      /\ \A i \in 1..Len(f) : g[i] = f[i]
      /\ g[Len(f) + 1] = l
  BY AppendProperties
<1>2. l.entry \in Entries
  BY DEF Line
<1>3. EntriesOf(g) = Append(EntriesOf(f), l.entry)
  <2>1. /\ EntriesOf(f) \in Seq(Entries) /\ Len(EntriesOf(f)) = Len(f)
        /\ EntriesOf(g) \in Seq(Entries) /\ Len(EntriesOf(g)) = Len(f) + 1
    BY <1>1, FileFacts
  <2> DEFINE r == Append(EntriesOf(f), l.entry)
  <2>2. /\ r \in Seq(Entries) /\ Len(r) = Len(f) + 1
        /\ \A i \in 1..Len(f) : r[i] = EntriesOf(f)[i]
        /\ r[Len(f) + 1] = l.entry
    BY <1>2, <2>1, AppendProperties
  <2>3. \A i \in 1..Len(f) : EntriesOf(f)[i] = f[i].entry
    BY FileFacts DEF EntriesOf
  <2>4. \A i \in 1..Len(g) : EntriesOf(g)[i] = g[i].entry
    BY <1>1 DEF EntriesOf
  <2>5. \A i \in 1..(Len(f) + 1) : EntriesOf(g)[i] = r[i]
    BY <1>1, <2>2, <2>3, <2>4, FileFacts
  <2> QED
    BY <2>1, <2>2, <2>5, SeqEqual
<1>4. Len(f) \in Nat
  BY FileFacts
<1> QED
  BY <1>1, <1>3, <1>4 DEF LastOf

\* The line of the call inside the lock is well formed.
LEMMA LineIsTyped ==
    ASSUME Typed, Writing, NEW e \in Entries, CallAt(e, "write")
    PROVE  /\ call[e] \in Call /\ call[e].line \in Line
           /\ call[e].line = [prev |-> LastOf(file), entry |-> e]
           /\ call[e].line.entry = e /\ call[e].line.prev = LastOf(file)
           /\ call[e].pos = Len(file)
<1>1. call[e] \in Call
  BY DEF Typed
<1>2. call[e].line = [prev |-> LastOf(file), entry |-> e] /\ call[e].pos = Len(file)
  BY DEF Writing
<1> QED
  BY <1>1, <1>2 DEF Call

\* Where one host writes, the line simply goes to the end.
LEMMA WriteAppends ==
    ASSUME Typed, Writing, NEW e \in Entries, CallAt(e, "write")
    PROVE  Written(call[e].line, call[e].pos) = {Append(file, call[e].line)}
<1>1. file \in Seq(Line) /\ call[e].pos = Len(file)
  BY LineIsTyped DEF Typed
<1>2. Len(file) \in Nat /\ \A i \in 1..Len(file) : file[i] \notin Bad
  BY <1>1, FileFacts
<1>3. ~(Len(file) < call[e].pos)
  BY <1>1, <1>2
<1>4. ~(call[e].pos > 0 /\ file[call[e].pos] = Torn)
  BY <1>1, <1>2 DEF Bad
<1>5. SubSeq(file, 1, call[e].pos) = file
  BY <1>1, SubSeqFull
<1> QED
  BY <1>1, <1>3, <1>4, <1>5 DEF Written

LEMMA EmptyFile == <<>> \in Seq(Line) /\ EntriesOf(<<>>) = <<>> /\ LastOf(<<>>) = Genesis
<1>1. <<>> \in Seq(Line) /\ Len(<<>>) = 0
  BY EmptySeq
<1>2. EntriesOf(<<>>) \in Seq(Entries) /\ Len(EntriesOf(<<>>)) = 0
  BY <1>1, FileFacts
<1> QED
  BY <1>1, <1>2, EmptySeq DEF LastOf

LEMMA InitInv == Init => Inv
<1> SUFFICES ASSUME Init PROVE Inv
  OBVIOUS
<1>1. \A e \in Entries : call[e] = NotCalled(e) /\ call[e].at = "none"
  BY DEF Init, NotCalled
<1>2. Typed
  <2>1. \A e \in Entries : NotCalled(e) \in Call
    BY DEF NotCalled, Call, Line
  <2> QED
    BY <2>1, EmptyFile, EmptySeq DEF Init, Typed
<1>3. Chained /\ Fresh
  BY EmptySeq DEF Init, Chained, Fresh
<1>4. Writing /\ Ahead
  BY <1>1 DEF Writing, Ahead, CallAt
<1>5. InStep
  BY EmptyFile DEF Init, InStep
<1> QED
  BY <1>2, <1>3, <1>4, <1>5 DEF Inv, IInv

LEMMA SealInv ==
    ASSUME Solo, Inv, NEW h \in Hosts, NEW e \in Entries, Seal(h, e)
    PROVE  Inv'
<1> USE DEF Inv, IInv
<1> DEFINE new == [at |-> "write", host |-> h, pos |-> Len(file),
                   line |-> [prev |-> prevHash[h], entry |-> e]]
<1>1. /\ call' = [call EXCEPT ![e] = new]
      /\ prevHash' = [prevHash EXCEPT ![h] = e]
      /\ entries' = [entries EXCEPT ![h] = Append(@, e)]
      /\ file' = file /\ faults' = faults
      /\ call[e].at = "none" /\ Unlocked(h)
  BY DEF Seal, CallAt
<1>2. entries[h] = EntriesOf(file) /\ prevHash[h] = LastOf(file)
  BY <1>1 DEF InStep
<1>3. \A d \in Entries : call[d].at # "write"
  <2>1. \A d \in Entries : call[d].host \in Hosts
    BY DEF Typed, Call
  <2> QED
    BY <1>1, <2>1 DEF Unlocked, Solo
<1>4. /\ call'[e] = new /\ \A d \in Entries : d # e => call'[d] = call[d]
      /\ prevHash'[h] = e /\ entries'[h] = Append(EntriesOf(file), e)
  BY <1>1, <1>2 DEF Typed
<1>5. Typed'
  <2>1. new \in Call
    BY FileFacts DEF Typed, Call, Line
  <2>2. Append(entries[h], e) \in Seq(Entries)
    BY AppendProperties DEF Typed
  <2> QED
    BY <1>1, <2>1, <2>2 DEF Typed
<1>6. Chained'
  BY <1>1 DEF Chained
<1>7. Writing'
  <2>1. new.line = [prev |-> LastOf(file), entry |-> e]
    BY <1>2
  <2>2. LastOf(file') = LastOf(file)
    BY <1>1
  <2> QED
    BY <1>1, <1>3, <1>4, <2>1, <2>2 DEF Writing, CallAt
<1>8. Fresh'
  <2>1. \A i \in 1..Len(file) : file[i].entry \in Entries /\ file[i].entry # e
    BY <1>1, FileFacts DEF Fresh, Typed
  <2> QED
    BY <1>1, <1>4, <2>1 DEF Fresh
<1>9. InStep'
  <2>1. ~Unlocked(h)'
    BY <1>4 DEF Unlocked
  <2>2. \A g \in Hosts : g = h
    BY DEF Solo
  <2> QED
    BY <2>1, <2>2 DEF InStep
<1>10. Ahead'
  BY <1>1, <1>3, <1>4 DEF Ahead, CallAt
<1> QED
  BY <1>5, <1>6, <1>7, <1>8, <1>9, <1>10

LEMMA WriteInv ==
    ASSUME Solo, Inv, NEW e \in Entries, Write(e)
    PROVE  /\ Inv' /\ file' = Append(file, call[e].line)
           /\ EntriesOf(file') = Append(EntriesOf(file), e)
<1> USE DEF Inv, IInv
<1>1. /\ CallAt(e, "write") /\ call[e].at = "write"
      /\ call' = [call EXCEPT ![e].at = "mirror"]
      /\ prevHash' = prevHash /\ entries' = entries /\ faults' = faults
  BY DEF Write, CallAt
<1>2. file' = Append(file, call[e].line)
  BY <1>1, WriteAppends DEF Write
<1>3. /\ call[e] \in Call /\ call[e].line \in Line /\ file \in Seq(Line)
      /\ call[e].line.entry = e /\ call[e].line.prev = LastOf(file)
      /\ call[e].host \in Hosts
  BY <1>1, LineIsTyped DEF Typed, Call
<1>4. /\ file' \in Seq(Line) /\ Len(file') = Len(file) + 1
      /\ \A i \in 1..Len(file) : file'[i] = file[i]
      /\ file'[Len(file) + 1] = call[e].line
      /\ EntriesOf(file') = Append(EntriesOf(file), e)
      /\ LastOf(file') = e
  BY <1>2, <1>3, AppendFacts
<1>5. Len(file) \in Nat /\ \A i \in 1..Len(file) : file[i].entry \in Entries
  BY <1>3, FileFacts
<1>6. \A d \in Entries : d # e => call[d].at # "write" /\ call'[d] = call[d]
  BY <1>1 DEF Writing, CallAt, Typed
<1>7. call'[e] \in Call /\ call'[e].at = "mirror"
  <2>1. call'[e] = [call[e] EXCEPT !.at = "mirror"]
    BY <1>1 DEF Typed
  <2> QED
    BY <1>3, <2>1 DEF Call
<1>8. Typed'
  <2>1. call' \in [Entries -> Call]
    BY <1>1, <1>6, <1>7 DEF Typed
  <2> QED
    BY <1>1, <1>4, <2>1 DEF Typed
<1>9. Chained'
  <2> SUFFICES ASSUME NEW i \in 1..Len(file')
               PROVE  file'[i].prev = IF i = 1 THEN Genesis ELSE file'[i - 1].entry
    BY DEF Chained
  <2>1. CASE i \in 1..Len(file)
    <3>1. file'[i] = file[i] /\ (i # 1 => i - 1 \in 1..Len(file) /\ file'[i - 1] = file[i - 1])
      BY <1>4, <1>5, <2>1
    <3> QED
      BY <2>1, <3>1 DEF Chained
  <2>2. CASE i = Len(file) + 1
    <3>1. file'[i].prev = LastOf(file)
      BY <1>3, <1>4, <2>2
    <3>2. CASE Len(file) = 0
      BY <2>2, <3>1, <3>2 DEF LastOf
    <3>3. CASE Len(file) # 0
      <4>1. i # 1 /\ i - 1 = Len(file) /\ Len(file) \in 1..Len(file)
        BY <1>5, <2>2, <3>3
      <4>2. file'[i - 1] = file[Len(file)]
        BY <1>4, <4>1
      <4> QED
        BY <3>1, <3>3, <4>1, <4>2 DEF LastOf
    <3> QED
      BY <3>2, <3>3
  <2> QED
    BY <1>4, <1>5, <2>1, <2>2
<1>10. Writing' /\ Ahead'
  <2>1. \A d \in Entries : call'[d].at # "write"
    BY <1>6, <1>7
  <2> QED
    BY <2>1 DEF Writing, Ahead, CallAt
<1>11. Fresh'
  <2> SUFFICES ASSUME NEW i \in 1..Len(file')
               PROVE  call'[file'[i].entry].at \notin {"none", "write"}
    BY DEF Fresh
  <2>1. CASE i \in 1..Len(file)
    <3>1. file'[i].entry = file[i].entry /\ file[i].entry \in Entries
      BY <1>4, <1>5, <2>1
    <3>2. call[file[i].entry].at \notin {"none", "write"}
      BY <2>1 DEF Fresh
    <3> QED
      BY <1>1, <1>6, <3>1, <3>2
  <2>2. CASE i = Len(file) + 1
    BY <1>3, <1>4, <1>7, <2>2
  <2> QED
    BY <1>4, <1>5, <2>1, <2>2
<1>12. InStep'
  <2>1. \A g \in Hosts : g = call[e].host
    BY <1>3 DEF Solo
  <2>2. entries[call[e].host] = Append(EntriesOf(file), e) /\ prevHash[call[e].host] = e
    BY <1>1 DEF Ahead
  <2> QED
    BY <1>1, <1>4, <2>1, <2>2 DEF InStep
<1> QED
  BY <1>2, <1>4, <1>8, <1>9, <1>10, <1>11, <1>12

\* Mirror moves a call on outside the lock.
LEMMA MirrorInv ==
    ASSUME Inv, NEW e \in Entries, Mirror(e)
    PROVE  Inv'
<1> USE DEF Inv, IInv
<1>1. /\ call[e].at = "mirror" /\ call' = [call EXCEPT ![e].at = "done"]
      /\ file' = file /\ entries' = entries /\ prevHash' = prevHash /\ faults' = faults
  BY DEF Mirror, CallAt
<1>2. \A d \in Entries : d # e => call'[d] = call[d]
  BY <1>1 DEF Typed
<1>3. call'[e] = [call[e] EXCEPT !.at = "done"] /\ call[e] \in Call
  BY <1>1 DEF Typed
<1>4. call'[e] \in Call /\ call'[e].at = "done"
  BY <1>3 DEF Call
<1>5. Typed'
  <2>1. call' \in [Entries -> Call]
    BY <1>1, <1>2, <1>4 DEF Typed
  <2> QED
    BY <1>1, <2>1 DEF Typed
<1>6. Chained'
  BY <1>1 DEF Chained
<1>7. \A d \in Entries : call'[d].at = "write" => d # e /\ call'[d] = call[d]
  BY <1>2, <1>4
<1>8. \A d \in Entries : call[d].at = "write" => call'[d] = call[d]
  BY <1>1, <1>2
<1>9. Writing' /\ Ahead'
  <2>1. LastOf(file') = LastOf(file) /\ EntriesOf(file') = EntriesOf(file)
    BY <1>1
  <2>2. Writing'
    BY <1>1, <1>7, <2>1 DEF Writing, CallAt
  <2>3. Ahead'
    BY <1>1, <1>7, <2>1 DEF Ahead, CallAt
  <2> QED
    BY <2>2, <2>3
<1>10. Fresh'
  <2>1. \A i \in 1..Len(file) : file[i].entry \in Entries
    BY FileFacts DEF Typed
  <2> QED
    BY <1>1, <1>2, <1>4, <2>1 DEF Fresh
<1>11. InStep'
  <2>1. \A g \in Hosts : Unlocked(g)' => Unlocked(g)
    BY <1>8 DEF Unlocked
  <2> QED
    BY <1>1, <2>1 DEF InStep
<1> QED
  BY <1>5, <1>6, <1>9, <1>10, <1>11

LEMMA ClearAllInv ==
    ASSUME Solo, Inv, NEW h \in Hosts, ClearAll(h), faults = 0, faults' = 0
    PROVE  Inv' /\ file' = <<>>
<1> USE DEF Inv, IInv
<1>1. /\ Unlocked(h) /\ call' = call
      /\ entries' = [entries EXCEPT ![h] = <<>>]
      /\ prevHash' = [prevHash EXCEPT ![h] = Genesis]
  BY DEF ClearAll
<1>2. file' = <<>> /\ faults' = faults
  BY DEF ClearAll
<1>3. \A d \in Entries : call[d].at # "write"
  <2>1. \A d \in Entries : call[d].host \in Hosts
    BY DEF Typed, Call
  <2> QED
    BY <1>1, <2>1 DEF Unlocked, Solo
<1>4. Typed'
  BY <1>1, <1>2, EmptySeq DEF Typed
<1>5. Chained' /\ Fresh'
  BY <1>2, EmptySeq DEF Chained, Fresh
<1>6. Writing' /\ Ahead'
  BY <1>1, <1>3 DEF Writing, Ahead, CallAt
<1>7. InStep'
  <2>1. entries'[h] = <<>> /\ prevHash'[h] = Genesis
    BY <1>1 DEF Typed
  <2> QED
    BY <1>2, <2>1, EmptyFile DEF InStep, Solo
<1> QED
  BY <1>2, <1>4, <1>5, <1>6, <1>7

\* A start reads back the file it finds, whole.
LEMMA RestartInv ==
    ASSUME Solo, Inv, NEW h \in Hosts, Restart(h), faults = 0, faults' = 0
    PROVE  Inv' /\ file' = file
<1> USE DEF Inv, IInv
<1>1. file' = file /\ faults' = faults
  BY DEF Restart
<1>2. file \in Seq(Line) /\ Reloaded(file) = [entries |-> EntriesOf(file), prev |-> LastOf(file)]
  BY ReloadIsWhole DEF Typed
<1>3. /\ entries' = [entries EXCEPT ![h] = EntriesOf(file)]
      /\ prevHash' = [prevHash EXCEPT ![h] = LastOf(file)]
      /\ call' = [e \in Entries |->
                    IF call[e].host = h /\ call[e].at \in {"write", "mirror"}
                    THEN [call[e] EXCEPT !.at = "failed"] ELSE call[e]]
  BY <1>1, <1>2 DEF Restart
<1>4. \A d \in Entries : call[d] \in Call /\ call[d].host = h
  <2>1. \A d \in Entries : call[d] \in Call /\ call[d].host \in Hosts
    BY DEF Typed, Call
  <2> QED
    BY <2>1 DEF Solo
<1>5. \A d \in Entries : /\ call'[d] \in Call
                         /\ call'[d].at # "write"
                         /\ call'[d].at = "none" => call[d].at = "none"
  <2> SUFFICES ASSUME NEW d \in Entries
               PROVE  call'[d] \in Call /\ call'[d].at # "write"
                      /\ (call'[d].at = "none" => call[d].at = "none")
    OBVIOUS
  <2>1. CASE call[d].at \in {"write", "mirror"}
    <3>1. call'[d] = [call[d] EXCEPT !.at = "failed"]
      BY <1>3, <1>4, <2>1
    <3> QED
      BY <1>4, <3>1 DEF Call
  <2>2. CASE call[d].at \notin {"write", "mirror"}
    <3>1. call'[d] = call[d]
      BY <1>3, <2>2
    <3> QED
      BY <1>4, <2>2, <3>1
  <2> QED
    BY <2>1, <2>2
<1>6. Typed'
  <2>1. call' \in [Entries -> Call]
    BY <1>3, <1>5
  <2>2. EntriesOf(file) \in Seq(Entries) /\ LastOf(file) \in Entries \cup {Genesis}
    BY <1>2, FileFacts
  <2> QED
    BY <1>1, <1>3, <2>1, <2>2 DEF Typed
<1>7. Chained'
  BY <1>1 DEF Chained
<1>8. Writing' /\ Ahead'
  BY <1>5 DEF Writing, Ahead, CallAt
<1>9. Fresh'
  <2>1. \A i \in 1..Len(file) : file[i].entry \in Entries
    BY <1>2, FileFacts
  <2> QED
    BY <1>1, <1>5, <2>1 DEF Fresh
<1>10. InStep'
  <2>1. entries'[h] = EntriesOf(file) /\ prevHash'[h] = LastOf(file)
    BY <1>3 DEF Typed
  <2> QED
    BY <1>1, <2>1 DEF InStep, Solo
<1> QED
  BY <1>1, <1>6, <1>7, <1>8, <1>9, <1>10

\* No step takes a failure back, and the failing steps count theirs.
LEMMA FaultsCount ==
    ASSUME faults \in 0..MaxFaults, [Next]_vars
    PROVE  /\ faults' \in 0..MaxFaults
           /\ faults' = 0 => /\ faults = 0
                            /\ \A e \in Entries : ~WriteFails(e) /\ ~MirrorFails(e)
<1>1. faults' = faults \/ (faults < MaxFaults /\ faults' = faults + 1)
  BY DEF Next, Seal, Write, WriteFails, Mirror, MirrorFails, ClearAll, Restart, vars
<1>2. \A e \in Entries : WriteFails(e) \/ MirrorFails(e) => faults' = faults + 1
  BY DEF WriteFails, MirrorFails
<1> QED
  BY <1>1, <1>2

LEMMA NextInv == ASSUME Solo, SoundInv, [Next]_vars, faults' = 0 PROVE Inv'
<1>1. /\ Inv /\ faults = 0
      /\ \A e \in Entries : ~WriteFails(e) /\ ~MirrorFails(e)
  BY FaultsCount DEF SoundInv
<1>2. CASE \E h \in Hosts, e \in Entries : Seal(h, e)
  BY <1>1, <1>2, SealInv
<1>3. CASE \E e \in Entries : Write(e)
  BY <1>1, <1>3, WriteInv
<1>4. CASE \E e \in Entries : Mirror(e)
  BY <1>1, <1>4, MirrorInv
<1>5. CASE \E h \in Hosts : ClearAll(h)
  BY <1>1, <1>5, ClearAllInv
<1>6. CASE \E h \in Hosts : Restart(h)
  BY <1>1, <1>6, RestartInv
<1>7. CASE UNCHANGED vars
  BY <1>1, <1>7 DEF vars, Inv, IInv, Typed, Chained, Writing, CallAt, LastOf, Fresh, InStep,
                    Unlocked, EntriesOf, Ahead
<1> QED
  BY <1>1, <1>2, <1>3, <1>4, <1>5, <1>6, <1>7 DEF Next

LEMMA SoloInv == Solo => (Spec => []SoundInv)
<1> SUFFICES ASSUME Solo PROVE Spec => []SoundInv
  OBVIOUS
<1>1. Init => SoundInv
  BY InitInv DEF Init, SoundInv
<1>2. SoundInv /\ [Next]_vars => SoundInv'
  BY NextInv, FaultsCount DEF SoundInv
<1> QED
  BY <1>1, <1>2, PTL DEF Spec

------------------------------------------------------------------------------
\* Any number of hosts, and whatever fails: types, and the mirror

TextLine == Line \cup Bad
States == {"none", "write", "mirror", "done", "failed"}

\* A call carries the line of its own entry.
OwnLine == \A e \in Entries : call[e].line.entry = e

\* What is mirrored was mirrored once, by a call that is over.
Mirrored ==
    /\ \A i \in 1..Len(worm) : call[worm[i].entry].at = "done"
    /\ \A i, j \in 1..Len(worm) : worm[i].entry = worm[j].entry => i = j

AnyInv == TypeOK /\ OwnLine /\ Mirrored

\* A set of numbers has a least one.
LEMMA Least ==
    ASSUME NEW T \in SUBSET Nat, T # {}
    PROVE  \E n \in T : \A m \in T : n <= m
<1> DEFINE R == OpToRel(<, Nat)
<1>1. PICK n \in T : \A m \in T : ~(<<m, n>> \in R)
  <2>1. IsWellFoundedOn(R, Nat)
    BY NatLessThanWellFounded
  <2> HIDE DEF R
  <2> QED
    BY <2>1, WFMin
<1>2. \A m \in T : ~(m < n)
  BY <1>1, Zenon DEF OpToRel
<1> HIDE DEF R
<1>3. \A m \in T : n \in Nat /\ m \in Nat
  OBVIOUS
<1> QED
  BY <1>2, <1>3

\* The first n lines of f can be read, and no more.
GoodTo(f, n) ==
    /\ n \in 0..Len(f)
    /\ \A i \in 1..n : f[i] \notin Bad
    /\ n < Len(f) => f[n + 1] \in Bad

LEMMA GoodExists == ASSUME NEW f \in Seq(TextLine) PROVE \E n \in Nat : GoodTo(f, n)
<1> DEFINE T == {m \in 1..Len(f) : f[m] \in Bad}
<1>1. Len(f) \in Nat
  OBVIOUS
<1>2. CASE T = {}
  BY <1>1, <1>2 DEF GoodTo
<1>3. CASE T # {}
  <2>1. T \in SUBSET Nat
    BY <1>1
  <2>2. PICK b \in T : \A m \in T : b <= m
    <3> HIDE DEF T
    <3> QED
      BY <1>3, <2>1, Least
  <2>3. b \in 1..Len(f) /\ f[b] \in Bad /\ b - 1 \in Nat /\ (b - 1) + 1 = b
    BY <1>1
  <2>4. \A i \in 1..(b - 1) : f[i] \notin Bad
    <3> SUFFICES ASSUME NEW i \in 1..(b - 1), f[i] \in Bad PROVE FALSE
      OBVIOUS
    <3>1. i \in T /\ ~(b <= i)
      BY <1>1, <2>3
    <3> QED
      BY <2>2, <3>1
  <2>5. GoodTo(f, b - 1)
    BY <1>1, <2>3, <2>4 DEF GoodTo
  <2> QED
    BY <2>3, <2>5
<1> QED
  BY <1>2, <1>3

LEMMA ReadableIs ==
    ASSUME NEW f \in Seq(TextLine), NEW n \in Nat, GoodTo(f, n)
    PROVE  Readable(f) = SubSeq(f, 1, n) /\ Readable(f) \in Seq(Line) /\ Len(Readable(f)) = n
<1> DEFINE P(m) == /\ \A i \in 1..m : f[i] \notin Bad
                   /\ m < Len(f) => f[m + 1] \in Bad
<1>1. Len(f) \in Nat /\ \A i \in 1..Len(f) : f[i] \in TextLine
  OBVIOUS
<1>2. n \in 0..Len(f) /\ P(n)
  BY DEF GoodTo
<1>3. ASSUME NEW m \in 0..Len(f), P(m) PROVE m = n
  <2>1. CASE m < n
    <3>1. m + 1 \in 1..n /\ m < Len(f)
      BY <1>1, <1>2, <2>1
    <3> QED
      BY <1>2, <1>3, <3>1
  <2>2. CASE n < m
    <3>1. n + 1 \in 1..m /\ n < Len(f)
      BY <1>1, <1>2, <2>2
    <3> QED
      BY <1>2, <1>3, <3>1
  <2> QED
    BY <1>1, <2>1, <2>2
<1>4. (CHOOSE m \in 0..Len(f) : P(m)) = n
  BY <1>2, <1>3
<1>5. Readable(f) = SubSeq(f, 1, n)
  BY <1>4 DEF Readable
<1>6. \A i \in 1..n : f[i] \in Line
  BY <1>1, <1>2 DEF TextLine
<1>7. SubSeq(f, 1, n) \in Seq(Line) /\ Len(SubSeq(f, 1, n)) = n
  BY <1>6, SubSeqProperties
<1> QED
  BY <1>5, <1>7

\* Two files that agree up to the first line that cannot be read are read alike.
LEMMA ReadAlike ==
    ASSUME NEW f \in Seq(TextLine), NEW g \in Seq(TextLine), NEW n \in Nat,
           GoodTo(f, n), GoodTo(g, n), \A i \in 1..n : g[i] = f[i]
    PROVE  Readable(g) = Readable(f)
<1>1. \A i \in 1..n : f[i] \in Line /\ g[i] \in Line
  <2>1. Len(f) \in Nat /\ \A i \in 1..Len(f) : f[i] \in TextLine
    OBVIOUS
  <2> QED
    BY <2>1 DEF GoodTo, TextLine
<1>2. /\ SubSeq(f, 1, n) \in Seq(Line) /\ Len(SubSeq(f, 1, n)) = n
      /\ \A i \in 1..n : SubSeq(f, 1, n)[i] = f[i]
  BY <1>1, SubSeqProperties
<1>3. /\ SubSeq(g, 1, n) \in Seq(Line) /\ Len(SubSeq(g, 1, n)) = n
      /\ \A i \in 1..n : SubSeq(g, 1, n)[i] = g[i]
  BY <1>1, SubSeqProperties
<1>4. SubSeq(g, 1, n) = SubSeq(f, 1, n)
  BY <1>2, <1>3, SeqEqual
<1> QED
  BY <1>4, ReadableIs

LEMMA ReloadedType ==
    ASSUME NEW f \in Seq(TextLine)
    PROVE  Reloaded(f).entries \in Seq(Entries) /\ Reloaded(f).prev \in Entries \cup {Genesis}
<1>1. Readable(f) \in Seq(Line)
  BY GoodExists, ReadableIs
<1>2. Readable(f) # <<>> => Len(Readable(f)) \in 1..Len(Readable(f))
  BY <1>1
<1> QED
  BY <1>1, <1>2, FileFacts DEF Reloaded

\* An appended line, good or bad.
LEMMA TextAppend ==
    ASSUME NEW f \in Seq(TextLine), NEW l \in TextLine
    PROVE  /\ Append(f, l) \in Seq(TextLine) /\ Len(Append(f, l)) = Len(f) + 1 /\ Len(f) \in Nat
           /\ \A i \in 1..Len(f) : Append(f, l)[i] = f[i]
           /\ Append(f, l)[Len(f) + 1] = l
  BY AppendProperties, LenProperties

LEMMA TextPrefix ==
    ASSUME NEW f \in Seq(TextLine), NEW n \in 0..Len(f)
    PROVE  /\ SubSeq(f, 1, n) \in Seq(TextLine) /\ Len(SubSeq(f, 1, n)) = n
           /\ \A i \in 1..n : SubSeq(f, 1, n)[i] = f[i]
<1>1. \A i \in 1..n : f[i] \in TextLine
  OBVIOUS
<1> QED
  BY <1>1, SubSeqProperties

LEMMA WrittenType ==
    ASSUME file \in Seq(TextLine), NEW l \in Line, NEW p \in Nat, NEW g \in Written(l, p)
    PROVE  g \in Seq(TextLine)
<1>1. Garbage \in TextLine /\ l \in TextLine /\ Len(file) \in Nat
  BY DEF TextLine, Bad
<1>2. CASE Len(file) < p
  BY <1>1, <1>2, TextAppend DEF Written
<1>3. CASE ~(Len(file) < p) /\ p > 0 /\ file[p] = Torn
  <2>1. p - 1 \in 0..Len(file)
    BY <1>1, <1>3
  <2>2. g = Append(SubSeq(file, 1, p - 1), Garbage)
    BY <1>3 DEF Written
  <2> QED
    BY <1>1, <2>1, <2>2, TextPrefix, TextAppend
<1>4. CASE ~(Len(file) < p) /\ ~(p > 0 /\ file[p] = Torn)
  <2> DEFINE upToIt == Append(SubSeq(file, 1, p), l)
  <2>1. upToIt \in Seq(TextLine)
    BY <1>1, <1>4, TextPrefix, TextAppend
  <2>2. g \in {upToIt, Append(upToIt, Garbage)}
    BY <1>4 DEF Written
  <2> HIDE DEF upToIt
  <2> QED
    BY <1>1, <2>1, <2>2, TextAppend
<1> QED
  BY <1>2, <1>3, <1>4

\* A torn file is one bad line longer, or the same.
LEMMA CutShortFacts ==
    ASSUME NEW f \in Seq(TextLine)
    PROVE  CutShort(f) \in Seq(TextLine) /\ (CutShort(f) = f \/ CutShort(f) = Append(f, Torn))
<1>1. Torn \in TextLine
  BY DEF TextLine, Bad
<1> QED
  BY <1>1, TextAppend DEF CutShort

\* A call moves on: nothing else about the calls changes.
LEMMA Moves ==
    ASSUME call \in [Entries -> Call], NEW e \in Entries, NEW s \in States,
           call' = [call EXCEPT ![e].at = s]
    PROVE  /\ call' \in [Entries -> Call] /\ call'[e].at = s
           /\ \A d \in Entries : call'[d].line = call[d].line
           /\ \A d \in Entries : d # e => call'[d] = call[d]
<1>1. call'[e] = [call[e] EXCEPT !.at = s] /\ call[e] \in Call
  OBVIOUS
<1>2. call'[e] \in Call /\ call'[e].at = s /\ call'[e].line = call[e].line
  BY <1>1 DEF Call, States
<1>3. \A d \in Entries : d # e => call'[d] = call[d]
  OBVIOUS
<1> QED
  BY <1>2, <1>3

LEMMA InitAny == Init => AnyInv
<1> SUFFICES ASSUME Init PROVE AnyInv
  OBVIOUS
<1>1. \A e \in Entries : NotCalled(e) \in Call /\ NotCalled(e).line.entry = e
  BY DEF NotCalled, Call, Line
<1>2. TypeOK
  BY <1>1, EmptySeq DEF Init, TypeOK
<1>3. OwnLine
  BY <1>1 DEF Init, OwnLine
<1>4. Mirrored
  BY EmptySeq DEF Init, Mirrored
<1> QED
  BY <1>2, <1>3, <1>4 DEF AnyInv

LEMMA AnyFacts ==
    ASSUME AnyInv
    PROVE  /\ file \in Seq(TextLine) /\ worm \in Seq(Line) /\ call \in [Entries -> Call]
           /\ \A e \in Entries : call[e].line \in Line /\ call[e].pos \in Nat
           /\ \A i \in 1..Len(worm) : worm[i] \in Line /\ worm[i].entry \in Entries
  BY FileFacts DEF AnyInv, TypeOK, TextLine, Call

\* While the mirror stays as it is, the calls that are over must too.
LEMMA MirroredKept ==
    ASSUME AnyInv, worm' = worm,
           \A d \in Entries : call[d].at = "done" => call'[d].at = "done"
    PROVE  Mirrored'
  BY AnyFacts DEF AnyInv, Mirrored

\* Append a line to the mirror: none before it is of the same call.
LEMMA MirrorAny ==
    ASSUME AnyInv, NEW e \in Entries, Mirror(e)
    PROVE  worm' \in Seq(Line) /\ Mirrored'
<1>1. /\ call[e].at = "mirror" /\ call' = [call EXCEPT ![e].at = "done"]
      /\ worm' = Append(worm, call[e].line)
  BY DEF Mirror, CallAt
<1>2. /\ call'[e].at = "done" /\ \A d \in Entries : d # e => call'[d] = call[d]
  BY <1>1, AnyFacts, Moves DEF States
<1>3. call[e].line.entry = e
  BY DEF AnyInv, OwnLine
<1>4. /\ worm' \in Seq(Line) /\ Len(worm') = Len(worm) + 1 /\ Len(worm) \in Nat
      /\ \A i \in 1..Len(worm) : worm'[i] = worm[i]
      /\ worm'[Len(worm) + 1] = call[e].line
  BY <1>1, AnyFacts, AppendProperties
<1>5. \A i \in 1..Len(worm) : worm[i].entry \in Entries /\ worm[i].entry # e
                               /\ call'[worm[i].entry].at = "done"
  BY <1>1, <1>2, AnyFacts DEF AnyInv, Mirrored
<1>6. \A i \in 1..Len(worm') : i \in 1..Len(worm) \/ i = Len(worm) + 1
  BY <1>4
<1>7. \A i \in 1..Len(worm') : call'[worm'[i].entry].at = "done"
  BY <1>2, <1>3, <1>4, <1>5, <1>6
<1>8. ASSUME NEW i \in 1..Len(worm'), NEW j \in 1..Len(worm'), worm'[i].entry = worm'[j].entry
      PROVE  i = j
  BY <1>3, <1>4, <1>5, <1>6, <1>8 DEF AnyInv, Mirrored
<1> QED
  BY <1>4, <1>7, <1>8 DEF Mirrored

LEMMA NextAny == AnyInv /\ [Next]_vars => AnyInv'
<1> SUFFICES ASSUME AnyInv, [Next]_vars PROVE AnyInv'
  OBVIOUS
<1> USE DEF AnyInv
<1>0. TypeOK /\ OwnLine
  OBVIOUS
<1>1. ASSUME NEW h \in Hosts, NEW e \in Entries, Seal(h, e) PROVE AnyInv'
  <2> DEFINE new == [at |-> "write", host |-> h, pos |-> Len(file),
                     line |-> [prev |-> prevHash[h], entry |-> e]]
  <2>1. /\ call[e].at = "none" /\ call' = [call EXCEPT ![e] = new]
        /\ UNCHANGED <<file, worm, kept, faults, restarts, wipes>>
    BY <1>1 DEF Seal, CallAt
  <2>2. prevHash[h] \in Entries \cup {Genesis} /\ Len(file) \in Nat
    BY AnyFacts DEF TypeOK
  <2>3. new \in Call /\ new.line.entry = e
    BY <2>2 DEF Call, Line
  <2>4. Append(entries[h], e) \in Seq(Entries)
    BY AppendProperties DEF TypeOK
  <2>5. call' \in [Entries -> Call] /\ call'[e] = new /\ \A d \in Entries : d # e => call'[d] = call[d]
    BY <2>1, <2>3, AnyFacts
  <2>6. TypeOK'
    BY <1>1, <2>1, <2>4, <2>5 DEF Seal, TypeOK
  <2>7. OwnLine'
    BY <2>3, <2>5 DEF OwnLine
  <2>8. Mirrored'
    BY <2>1, <2>5, MirroredKept
  <2> QED
    BY <2>6, <2>7, <2>8
<1>2. ASSUME NEW e \in Entries, Write(e) PROVE AnyInv'
  <2>1. /\ call[e].at = "write" /\ call' = [call EXCEPT ![e].at = "mirror"] /\ worm' = worm
        /\ file' \in Written(call[e].line, call[e].pos)
    BY <1>2 DEF Write, CallAt
  <2>2. /\ call' \in [Entries -> Call] /\ \A d \in Entries : call'[d].line = call[d].line
        /\ \A d \in Entries : d # e => call'[d] = call[d]
    BY <2>1, AnyFacts, Moves DEF States
  <2>3. file' \in Seq(TextLine)
    BY <2>1, AnyFacts, WrittenType
  <2>4. TypeOK'
    BY <1>2, <2>2, <2>3 DEF Write, TypeOK, TextLine
  <2>5. Mirrored'
    BY <2>1, <2>2, MirroredKept
  <2> QED
    BY <2>2, <2>4, <2>5 DEF OwnLine
<1>3. ASSUME NEW e \in Entries, WriteFails(e) PROVE AnyInv'
  <2>1. /\ call[e].at = "write" /\ call' = [call EXCEPT ![e].at = "failed"] /\ worm' = worm
        /\ file' \in {file, CutShort(file)}
    BY <1>3 DEF WriteFails, CallAt
  <2>2. /\ call' \in [Entries -> Call] /\ \A d \in Entries : call'[d].line = call[d].line
        /\ \A d \in Entries : d # e => call'[d] = call[d]
    BY <2>1, AnyFacts, Moves DEF States
  <2>3. file' \in Seq(TextLine)
    BY <2>1, AnyFacts, CutShortFacts
  <2>4. TypeOK'
    BY <1>3, <2>2, <2>3 DEF WriteFails, TypeOK, TextLine
  <2>5. Mirrored'
    BY <2>1, <2>2, MirroredKept
  <2> QED
    BY <2>2, <2>4, <2>5 DEF OwnLine
<1>4. ASSUME NEW e \in Entries, Mirror(e) PROVE AnyInv'
  <2>1. call' = [call EXCEPT ![e].at = "done"]
    BY <1>4 DEF Mirror
  <2>2. call' \in [Entries -> Call] /\ \A d \in Entries : call'[d].line = call[d].line
    BY <2>1, AnyFacts, Moves DEF States
  <2>3. worm' \in Seq(Line) /\ Mirrored'
    BY <1>4, MirrorAny
  <2>4. TypeOK'
    BY <1>4, <2>2, <2>3 DEF Mirror, TypeOK
  <2> QED
    BY <2>2, <2>3, <2>4 DEF OwnLine
<1>5. ASSUME NEW e \in Entries, MirrorFails(e) PROVE AnyInv'
  <2>1. call[e].at = "mirror" /\ call' = [call EXCEPT ![e].at = "failed"] /\ worm' = worm
    BY <1>5 DEF MirrorFails, CallAt
  <2>2. /\ call' \in [Entries -> Call] /\ \A d \in Entries : call'[d].line = call[d].line
        /\ \A d \in Entries : d # e => call'[d] = call[d]
    BY <2>1, AnyFacts, Moves DEF States
  <2>3. TypeOK'
    BY <1>5, <2>2 DEF MirrorFails, TypeOK
  <2>4. Mirrored'
    BY <2>1, <2>2, MirroredKept
  <2> QED
    BY <2>2, <2>3, <2>4 DEF OwnLine
<1>6. ASSUME NEW h \in Hosts, ClearAll(h) PROVE AnyInv'
  <2>2. call' = call /\ worm' = worm /\ restarts' = restarts
    BY <1>6 DEF ClearAll
  <2>3. file' \in Seq(Line \cup Bad) /\ kept' \in SUBSET Entries
    BY <1>6, EmptySeq DEF ClearAll, TypeOK
  <2>4. entries' \in [Hosts -> Seq(Entries)]
    <3>1. <<>> \in Seq(Entries) /\ entries' = [entries EXCEPT ![h] = <<>>]
      BY <1>6, EmptySeq DEF ClearAll
    <3> QED
      BY <3>1 DEF TypeOK
  <2>5. prevHash' \in [Hosts -> Entries \cup {Genesis}]
    BY <1>6 DEF ClearAll, TypeOK
  <2>6. faults' \in Nat /\ wipes' \in Nat
    BY <1>6 DEF ClearAll, TypeOK
  <2>1. TypeOK'
    BY <2>2, <2>3, <2>4, <2>5, <2>6 DEF TypeOK
  <2> QED
    BY <2>1, <2>2, MirroredKept DEF OwnLine
<1>7. ASSUME NEW h \in Hosts, Restart(h) PROVE AnyInv'
  <2>1. /\ file' \in {file, CutShort(file)} /\ worm' = worm /\ faults' \in Nat
        /\ entries' = [entries EXCEPT ![h] = Reloaded(file').entries]
        /\ prevHash' = [prevHash EXCEPT ![h] = Reloaded(file').prev]
    BY <1>7 DEF Restart, TypeOK
  <2>2. call' = [e \in Entries |->
                   IF call[e].host = h /\ call[e].at \in {"write", "mirror"}
                   THEN [call[e] EXCEPT !.at = "failed"] ELSE call[e]]
    BY <1>7 DEF Restart
  <2>3. file' \in Seq(TextLine)
    BY <2>1, AnyFacts, CutShortFacts
  <2>4. /\ Reloaded(file').entries \in Seq(Entries)
        /\ Reloaded(file').prev \in Entries \cup {Genesis}
    BY <2>3, ReloadedType
  <2>5. \A d \in Entries : /\ call'[d] \in Call /\ call'[d].line = call[d].line
                           /\ call[d].at = "done" => call'[d].at = "done"
    <3> SUFFICES ASSUME NEW d \in Entries
                 PROVE  /\ call'[d] \in Call /\ call'[d].line = call[d].line
                        /\ call[d].at = "done" => call'[d].at = "done"
      OBVIOUS
    <3>1. call[d] \in Call
      BY AnyFacts
    <3>2. /\ [call[d] EXCEPT !.at = "failed"] \in Call
          /\ [call[d] EXCEPT !.at = "failed"].line = call[d].line
      BY <3>1 DEF Call
    <3>3. \/ call'[d] = call[d]
          \/ call[d].at # "done" /\ call'[d] = [call[d] EXCEPT !.at = "failed"]
      BY <2>2
    <3> QED
      BY <3>1, <3>2, <3>3
  <2>6. call' \in [Entries -> Call]
    BY <2>2, <2>5
  <2>7. TypeOK'
    BY <1>7, <2>1, <2>3, <2>4, <2>6 DEF Restart, TypeOK, TextLine
  <2> QED
    BY <2>1, <2>5, <2>7, MirroredKept DEF OwnLine
<1>8. CASE UNCHANGED vars
  BY <1>8 DEF vars, TypeOK, OwnLine, Mirrored
<1> QED
  BY <1>1, <1>2, <1>3, <1>4, <1>5, <1>6, <1>7, <1>8 DEF Next

LEMMA SpecAny == Spec => []AnyInv
  BY InitAny, NextAny, PTL DEF Spec

------------------------------------------------------------------------------
\* One host, whatever fails: the ledger

\* The one call inside the lock opened the file where it still ends.
AtEnd ==
    \A e \in Entries : CallAt(e, "write") =>
        /\ call[e].pos = Len(file)
        /\ \A d \in Entries : CallAt(d, "write") => d = e

\* No line that is whole is of a call that has yet to write.
WrittenOnce ==
    \A i \in 1..Len(file) : file[i] \in Line => call[file[i].entry].at \notin {"none", "write"}

LedgerInv == AnyInv /\ AtEnd /\ WrittenOnce

\* Lines stay, spoil or go, and calls never come back before their write.
LEMMA WrittenOnceKept ==
    ASSUME AnyInv, WrittenOnce, file' \in Seq(TextLine),
           \A i \in 1..Len(file') : file'[i] \in Line =>
               \/ i \in 1..Len(file) /\ file'[i] = file[i]
               \/ call'[file'[i].entry].at \notin {"none", "write"},
           \A d \in Entries : call[d].at \notin {"none", "write"} => call'[d].at \notin {"none", "write"}
    PROVE  WrittenOnce'
<1> SUFFICES ASSUME NEW i \in 1..Len(file'), file'[i] \in Line
             PROVE  call'[file'[i].entry].at \notin {"none", "write"}
  BY DEF WrittenOnce
<1>1. CASE i \in 1..Len(file) /\ file'[i] = file[i]
  <2>1. file[i].entry \in Entries
    BY <1>1 DEF Line
  <2> QED
    BY <1>1, <2>1 DEF WrittenOnce
<1> QED
  BY <1>1

\* With one host, a free lock is free for everybody.
LEMMA NobodyWrites ==
    ASSUME Solo, AnyInv, NEW h \in Hosts, Unlocked(h)
    PROVE  \A d \in Entries : call[d].at # "write"
<1>1. \A d \in Entries : call[d].host \in Hosts
  BY AnyFacts DEF Call
<1> QED
  BY <1>1 DEF Unlocked, Solo

\* What a write makes of the file, where one host writes.
LEMMA WriteOutcome ==
    ASSUME LedgerInv, NEW e \in Entries, Write(e)
    PROVE  \/ /\ Len(file) > 0 /\ file[Len(file)] = Torn
              /\ file' = Append(SubSeq(file, 1, Len(file) - 1), Garbage)
           \/ file' = Append(file, call[e].line)
<1>1. /\ file' \in Written(call[e].line, call[e].pos) /\ call[e].pos = Len(file)
      /\ file \in Seq(TextLine)
  BY AnyFacts DEF LedgerInv, AtEnd, Write
<1>2. Len(file) \in Nat /\ ~(Len(file) < Len(file)) /\ SubSeq(file, 1, Len(file)) = file
  BY <1>1, SubSeqFull
<1>3. CASE Len(file) > 0 /\ file[Len(file)] = Torn
  BY <1>1, <1>2, <1>3 DEF Written
<1>4. CASE ~(Len(file) > 0 /\ file[Len(file)] = Torn)
  BY <1>1, <1>2, <1>4 DEF Written
<1> QED
  BY <1>3, <1>4

\* A bad line at the end is not read.
LEMMA BadEnd ==
    ASSUME NEW f \in Seq(TextLine), NEW b \in Bad
    PROVE  Readable(Append(f, b)) = Readable(f)
<1>1. b \in TextLine
  BY DEF TextLine
<1>2. /\ Append(f, b) \in Seq(TextLine) /\ Len(Append(f, b)) = Len(f) + 1 /\ Len(f) \in Nat
      /\ \A i \in 1..Len(f) : Append(f, b)[i] = f[i]
      /\ Append(f, b)[Len(f) + 1] = b
  BY <1>1, TextAppend
<1>3. PICK n \in Nat : GoodTo(f, n)
  BY GoodExists
<1>4. n \in 0..Len(f) /\ \A i \in 1..n : Append(f, b)[i] = f[i]
  BY <1>2, <1>3 DEF GoodTo
<1>5. Append(f, b)[n + 1] \in Bad
  <2>1. CASE n = Len(f)
    BY <1>2, <2>1
  <2>2. CASE n # Len(f)
    <3>1. n < Len(f) /\ n + 1 \in 1..Len(f)
      BY <1>2, <1>4, <2>2
    <3> QED
      BY <1>2, <1>3, <3>1 DEF GoodTo
  <2> QED
    BY <2>1, <2>2
<1>6. GoodTo(Append(f, b), n)
  <2>1. n \in 0..Len(Append(f, b))
    BY <1>2, <1>4
  <2>2. \A i \in 1..n : Append(f, b)[i] \notin Bad
    BY <1>3, <1>4 DEF GoodTo
  <2> QED
    BY <1>5, <2>1, <2>2 DEF GoodTo
<1> QED
  BY <1>2, <1>3, <1>4, <1>6, ReadAlike

LEMMA CutShortReads ==
    ASSUME NEW f \in Seq(TextLine)
    PROVE  Readable(CutShort(f)) = Readable(f)
  BY CutShortFacts, BadEnd DEF Bad

\* A line that swallows the torn one before it is not read either.
LEMMA Swallowed ==
    ASSUME NEW f \in Seq(TextLine), Len(f) > 0, f[Len(f)] = Torn
    PROVE  LET g == Append(SubSeq(f, 1, Len(f) - 1), Garbage)
           IN  /\ g \in Seq(TextLine) /\ Len(g) = Len(f)
               /\ \A i \in 1..(Len(f) - 1) : g[i] = f[i]
               /\ g[Len(f)] = Garbage
               /\ Readable(g) = Readable(f)
<1> DEFINE head == SubSeq(f, 1, Len(f) - 1)
           g == Append(head, Garbage)
<1>1. Len(f) \in Nat /\ Len(f) - 1 \in 0..Len(f) /\ Garbage \in TextLine /\ Garbage \in Bad /\ Torn \in Bad
  BY DEF TextLine, Bad
<1>2. /\ head \in Seq(TextLine) /\ Len(head) = Len(f) - 1
      /\ \A i \in 1..(Len(f) - 1) : head[i] = f[i]
  BY <1>1, TextPrefix
<1> HIDE DEF head
<1>3. /\ g \in Seq(TextLine) /\ Len(g) = Len(f)
      /\ \A i \in 1..(Len(f) - 1) : g[i] = f[i]
      /\ g[Len(f)] = Garbage
  <2>1. /\ g \in Seq(TextLine) /\ Len(g) = Len(head) + 1
        /\ \A i \in 1..Len(head) : g[i] = head[i]
        /\ g[Len(head) + 1] = Garbage
    BY <1>1, <1>2, TextAppend
  <2>2. Len(head) + 1 = Len(f)
    BY <1>1, <1>2
  <2> QED
    BY <1>2, <2>1, <2>2
<1> HIDE DEF g
<1>4. PICK n \in Nat : GoodTo(f, n)
  BY GoodExists
<1>5. n \in 0..(Len(f) - 1)
  <2>1. n # Len(f)
    <3> SUFFICES ASSUME n = Len(f) PROVE FALSE
      OBVIOUS
    <3>1. Len(f) \in 1..n
      BY <1>1
    <3> QED
      BY <1>1, <1>4, <3>1 DEF GoodTo
  <2> QED
    BY <1>1, <1>4, <2>1 DEF GoodTo
<1>6. \A i \in 1..n : g[i] = f[i]
  BY <1>1, <1>3, <1>5
<1>7. g[n + 1] \in Bad
  <2>1. CASE n = Len(f) - 1
    BY <1>1, <1>3, <2>1
  <2>2. CASE n # Len(f) - 1
    <3>1. n + 1 \in 1..(Len(f) - 1) /\ n < Len(f)
      BY <1>1, <1>5, <2>2
    <3> QED
      BY <1>3, <1>4, <3>1 DEF GoodTo
  <2> QED
    BY <2>1, <2>2
<1>8. GoodTo(g, n)
  <2>1. n \in 0..Len(g)
    BY <1>1, <1>3, <1>5
  <2>2. \A i \in 1..n : g[i] \notin Bad
    BY <1>4, <1>6 DEF GoodTo
  <2> QED
    BY <1>7, <2>1, <2>2 DEF GoodTo
<1>9. Readable(g) = Readable(f)
  BY <1>3, <1>4, <1>6, <1>8, ReadAlike
<1> QED
  BY <1>3, <1>9 DEF g, head

\* A whole line at the end is read if all before it is, and otherwise is not.
LEMMA GoodEnd ==
    ASSUME NEW f \in Seq(TextLine), NEW l \in Line
    PROVE  \/ f \in Seq(Line)
           \/ Readable(Append(f, l)) = Readable(f)
<1>1. l \in TextLine
  BY DEF TextLine
<1>2. /\ Append(f, l) \in Seq(TextLine) /\ Len(Append(f, l)) = Len(f) + 1 /\ Len(f) \in Nat
      /\ \A i \in 1..Len(f) : Append(f, l)[i] = f[i]
  BY <1>1, TextAppend
<1>3. PICK n \in Nat : GoodTo(f, n)
  BY GoodExists
<1>4. CASE n = Len(f)
  <2>1. Readable(f) = SubSeq(f, 1, n) /\ Readable(f) \in Seq(Line)
    BY <1>3, ReadableIs
  <2>2. SubSeq(f, 1, n) = f
    BY <1>4, SubSeqFull
  <2> QED
    BY <2>1, <2>2
<1>5. CASE n # Len(f)
  <2>1. n < Len(f) /\ n + 1 \in 1..Len(f) /\ n \in 0..Len(Append(f, l))
    BY <1>2, <1>3, <1>5 DEF GoodTo
  <2>2. \A i \in 1..n : i \in 1..Len(f)
    BY <1>2, <2>1
  <2>3. GoodTo(Append(f, l), n)
    BY <1>2, <1>3, <2>1, <2>2 DEF GoodTo
  <2> QED
    BY <1>2, <1>3, <2>2, <2>3, ReadAlike
<1> QED
  BY <1>4, <1>5

LEMMA NextLedger == Solo /\ LedgerInv /\ [Next]_vars => LedgerInv'
<1> SUFFICES ASSUME Solo, LedgerInv, [Next]_vars PROVE AtEnd' /\ WrittenOnce'
  BY NextAny DEF LedgerInv
<1>0. AnyInv /\ AnyInv' /\ AtEnd /\ WrittenOnce
  BY NextAny DEF LedgerInv
<1>a. file \in Seq(TextLine) /\ file' \in Seq(TextLine) /\ Len(file) \in Nat
  BY <1>0 DEF AnyInv, TypeOK, TextLine
<1>b. call \in [Entries -> Call] /\ \A e \in Entries : call[e].line \in Line /\ call[e].line.entry = e
  BY <1>0, AnyFacts DEF AnyInv, OwnLine
<1>1. ASSUME NEW h \in Hosts, NEW e \in Entries, Seal(h, e) PROVE AtEnd' /\ WrittenOnce'
  <2> DEFINE new == [at |-> "write", host |-> h, pos |-> Len(file),
                     line |-> [prev |-> prevHash[h], entry |-> e]]
  <2>1. /\ call[e].at = "none" /\ Unlocked(h) /\ call' = [call EXCEPT ![e] = new] /\ file' = file
    BY <1>1 DEF Seal, CallAt
  <2>2. call'[e] = new /\ \A d \in Entries : d # e => call'[d] = call[d]
    BY <1>b, <2>1
  <2>3. \A d \in Entries : call[d].at # "write"
    BY <1>0, <2>1, NobodyWrites
  <2>4. AtEnd'
    BY <2>1, <2>2, <2>3 DEF AtEnd, CallAt
  <2>5. \A d \in Entries : call[d].at \notin {"none", "write"} => call'[d].at \notin {"none", "write"}
    BY <2>1, <2>2
  <2>6. WrittenOnce'
    BY <1>0, <1>a, <2>1, <2>5, WrittenOnceKept
  <2> QED
    BY <2>4, <2>6
<1>2. ASSUME NEW e \in Entries, Write(e) PROVE AtEnd' /\ WrittenOnce'
  <2>1. call[e].at = "write" /\ call' = [call EXCEPT ![e].at = "mirror"]
    BY <1>2 DEF Write, CallAt
  <2>2. call'[e].at = "mirror" /\ \A d \in Entries : d # e => call'[d] = call[d]
    BY <1>b, <2>1, Moves DEF States
  <2>3. \A d \in Entries : call'[d].at # "write"
    BY <1>0, <2>1, <2>2 DEF AtEnd, CallAt
  <2>4. AtEnd'
    BY <2>3 DEF AtEnd, CallAt
  <2>5. \A d \in Entries : call[d].at \notin {"none", "write"} => call'[d].at \notin {"none", "write"}
    BY <2>2
  <2>6. \A i \in 1..Len(file') : file'[i] \in Line =>
               \/ i \in 1..Len(file) /\ file'[i] = file[i]
               \/ call'[file'[i].entry].at \notin {"none", "write"}
    <3>1. CASE /\ Len(file) > 0 /\ file[Len(file)] = Torn
               /\ file' = Append(SubSeq(file, 1, Len(file) - 1), Garbage)
      <4>1. /\ Len(file') = Len(file) /\ \A i \in 1..(Len(file) - 1) : file'[i] = file[i]
            /\ file'[Len(file)] = Garbage
        BY <1>a, <3>1, Swallowed
      <4>2. Garbage \notin Line
        OBVIOUS
      <4>3. \A i \in 1..Len(file') : i \in 1..(Len(file) - 1) \/ i = Len(file)
        BY <1>a, <4>1
      <4> QED
        BY <1>a, <4>1, <4>2, <4>3
    <3>2. CASE file' = Append(file, call[e].line)
      <4>1. /\ Len(file') = Len(file) + 1 /\ \A i \in 1..Len(file) : file'[i] = file[i]
            /\ file'[Len(file) + 1] = call[e].line
        BY <1>a, <1>b, <3>2, TextAppend DEF TextLine
      <4>2. \A i \in 1..Len(file') : i \in 1..Len(file) \/ i = Len(file) + 1
        BY <1>a, <4>1
      <4> QED
        BY <1>b, <2>2, <4>1, <4>2
    <3> QED
      BY <1>2, <3>1, <3>2, WriteOutcome
  <2>7. WrittenOnce'
    BY <1>0, <1>a, <2>5, <2>6, WrittenOnceKept
  <2> QED
    BY <2>4, <2>7
<1>3. ASSUME file' = file \/ file' = Append(file, Torn) \/ file' = <<>>,
             \A d \in Entries : call'[d].at # "write",
             \A d \in Entries : call[d].at \notin {"none", "write"} => call'[d].at \notin {"none", "write"}
      PROVE  AtEnd' /\ WrittenOnce'
  <2>1. AtEnd'
    BY <1>3 DEF AtEnd, CallAt
  <2>2. \A i \in 1..Len(file') : file'[i] \in Line => i \in 1..Len(file) /\ file'[i] = file[i]
    <3>1. CASE file' = Append(file, Torn)
      <4>1. Torn \in TextLine /\ Torn \notin Line
        BY DEF TextLine, Bad
      <4>2. /\ Len(file') = Len(file) + 1 /\ \A i \in 1..Len(file) : file'[i] = file[i]
            /\ file'[Len(file) + 1] = Torn
        BY <1>a, <3>1, <4>1, TextAppend
      <4>3. \A i \in 1..Len(file') : i \in 1..Len(file) \/ i = Len(file) + 1
        BY <1>a, <4>2
      <4> QED
        BY <4>1, <4>2, <4>3
    <3>2. CASE file' = <<>>
      BY <3>2, EmptySeq
    <3> QED
      BY <1>3, <3>1, <3>2
  <2> QED
    BY <1>0, <1>3, <1>a, <2>1, <2>2, WrittenOnceKept
<1>4. ASSUME NEW e \in Entries, WriteFails(e) PROVE AtEnd' /\ WrittenOnce'
  <2>1. /\ call[e].at = "write" /\ call' = [call EXCEPT ![e].at = "failed"]
        /\ file' \in {file, CutShort(file)}
    BY <1>4 DEF WriteFails, CallAt
  <2>2. call'[e].at = "failed" /\ \A d \in Entries : d # e => call'[d] = call[d]
    BY <1>b, <2>1, Moves DEF States
  <2>3. \A d \in Entries : call'[d].at # "write"
    BY <1>0, <2>1, <2>2 DEF AtEnd, CallAt
  <2> QED
    BY <1>3, <1>a, <2>1, <2>2, <2>3, CutShortFacts
<1>5. ASSUME NEW e \in Entries, NEW s \in {"done", "failed"}, call[e].at = "mirror",
             call' = [call EXCEPT ![e].at = s], file' = file
      PROVE  AtEnd' /\ WrittenOnce'
  <2>1. /\ call'[e].at = s /\ \A d \in Entries : d # e => call'[d] = call[d]
    BY <1>5, <1>b, Moves DEF States
  <2>2. AtEnd'
    <3> SUFFICES ASSUME NEW d \in Entries, call'[d].at = "write"
                 PROVE  /\ call'[d].pos = Len(file)
                        /\ \A c \in Entries : call'[c].at = "write" => c = d
      BY <1>5 DEF AtEnd, CallAt
    <3>1. call'[d] = call[d] /\ \A c \in Entries : call'[c].at = "write" => call[c].at = "write"
      BY <2>1
    <3> QED
      BY <1>0, <3>1 DEF AtEnd, CallAt
  <2>3. WrittenOnce'
    BY <1>0, <1>5, <1>a, <2>1, WrittenOnceKept
  <2> QED
    BY <2>2, <2>3
<1>6. ASSUME NEW e \in Entries, Mirror(e) \/ MirrorFails(e) PROVE AtEnd' /\ WrittenOnce'
  BY <1>5, <1>6 DEF Mirror, MirrorFails, CallAt
<1>7. ASSUME NEW h \in Hosts, ClearAll(h) PROVE AtEnd' /\ WrittenOnce'
  <2>1. Unlocked(h) /\ call' = call /\ (file' = file \/ file' = <<>>)
    BY <1>7 DEF ClearAll
  <2>2. \A d \in Entries : call[d].at # "write"
    BY <1>0, <2>1, NobodyWrites
  <2> QED
    BY <1>3, <2>1, <2>2
<1>8. ASSUME NEW h \in Hosts, Restart(h) PROVE AtEnd' /\ WrittenOnce'
  <2>1. file' \in {file, CutShort(file)}
    BY <1>8 DEF Restart
  <2>2. call' = [e \in Entries |->
                   IF call[e].host = h /\ call[e].at \in {"write", "mirror"}
                   THEN [call[e] EXCEPT !.at = "failed"] ELSE call[e]]
    BY <1>8 DEF Restart
  <2>3. \A d \in Entries : call[d].host = h
    <3>1. \A d \in Entries : call[d].host \in Hosts
      BY <1>b DEF Call
    <3> QED
      BY <3>1 DEF Solo
  <2>4. \A d \in Entries : /\ call'[d].at # "write"
                           /\ call[d].at \notin {"none", "write"} => call'[d].at \notin {"none", "write"}
    <3> SUFFICES ASSUME NEW d \in Entries
                 PROVE  /\ call'[d].at # "write"
                        /\ call[d].at \notin {"none", "write"} => call'[d].at \notin {"none", "write"}
      OBVIOUS
    <3>1. [call[d] EXCEPT !.at = "failed"].at = "failed"
      BY <1>b DEF Call
    <3>2. \/ call'[d] = [call[d] EXCEPT !.at = "failed"]
          \/ call'[d] = call[d] /\ call[d].at \notin {"write", "mirror"}
      BY <2>2, <2>3
    <3> QED
      BY <3>1, <3>2
  <2> QED
    BY <1>3, <1>a, <2>1, <2>4, CutShortFacts
<1>9. CASE UNCHANGED vars
  BY <1>0, <1>9 DEF vars, AtEnd, WrittenOnce, CallAt
<1> QED
  BY <1>1, <1>2, <1>4, <1>6, <1>7, <1>8, <1>9 DEF Next

LEMMA SpecLedger == Solo => (Spec => []LedgerInv)
<1> SUFFICES ASSUME Solo PROVE Spec => []LedgerInv
  OBVIOUS
<1>1. Init => LedgerInv
  <2> SUFFICES ASSUME Init PROVE AtEnd /\ WrittenOnce
    BY InitAny DEF LedgerInv
  <2>1. \A e \in Entries : call[e].at = "none"
    BY DEF Init, NotCalled
  <2> QED
    BY <2>1, EmptySeq DEF Init, AtEnd, WrittenOnce, CallAt
<1>2. LedgerInv /\ [Next]_vars => LedgerInv'
  BY NextLedger
<1> QED
  BY <1>1, <1>2, PTL DEF Spec

\* A write records its entry, or is lost behind a line that cannot be read.
LEMMA WriteRecords ==
    ASSUME LedgerInv, NEW e \in Entries, Write(e)
    PROVE  \/ Readable(file') = Readable(file)
           \/ Ledger!Record(e)
<1>1. /\ file \in Seq(TextLine) /\ Len(file) \in Nat /\ AnyInv
      /\ call[e].line \in Line /\ call[e].line.entry = e /\ call[e].at = "write"
  BY AnyFacts DEF LedgerInv, AnyInv, OwnLine, Write, CallAt
<1>2. CASE /\ Len(file) > 0 /\ file[Len(file)] = Torn
           /\ file' = Append(SubSeq(file, 1, Len(file) - 1), Garbage)
  BY <1>1, <1>2, Swallowed
<1>3. CASE file' = Append(file, call[e].line) /\ file \in Seq(Line)
  <2>1. /\ file' \in Seq(Line)
        /\ EntriesOf(file') = Append(EntriesOf(file), e)
    BY <1>1, <1>3, AppendFacts
  <2>2. Readable(file) = file /\ Readable(file') = file'
    BY <1>3, <2>1, ReadableIsWhole
  <2>3. \A i \in 1..Len(file) : file[i] \in Line /\ file[i].entry # e
    BY <1>1, <1>3, FileFacts DEF LedgerInv, WrittenOnce
  <2>4. DOMAIN EntriesOf(file) = 1..Len(file) /\ \A i \in 1..Len(file) : EntriesOf(file)[i] = file[i].entry
    BY <1>3, FileFacts DEF EntriesOf
  <2>5. \A i \in DOMAIN EntriesOf(Readable(file)) : EntriesOf(Readable(file))[i] # e
    BY <2>2, <2>3, <2>4
  <2>6. EntriesOf(Readable(file')) = Append(EntriesOf(Readable(file)), e)
    BY <2>1, <2>2
  <2> QED
    BY <2>5, <2>6 DEF Ledger!Record
<1>4. CASE file' = Append(file, call[e].line) /\ file \notin Seq(Line)
  BY <1>1, <1>4, GoodEnd
<1> QED
  BY <1>2, <1>3, <1>4, WriteOutcome

------------------------------------------------------------------------------

\* In one host, as long as no file operation has failed, every line of the file
\* carries the hash of the line before it, however many threads append while the
\* log is wiped and the host restarted (Seal, ClearAll, Reload).
THEOREM ChainHolds == Solo => (Spec => []ChainVerifies)
<1> SUFFICES ASSUME Solo PROVE Spec => []ChainVerifies
  OBVIOUS
<1>1. SoundInv => ChainVerifies
  BY FileFacts DEF SoundInv, Inv, IInv, Typed, Chained, ChainVerifies
<1> QED
  BY <1>1, SoloInv, PTL

\* In one host, as long as no file operation has failed, the ledger that Query
\* shows whenever the lock is free is the ledger a restart would read back.
THEOREM ViewMatchesFile == Solo => (Spec => []ViewIsTheFile)
<1> SUFFICES ASSUME Solo PROVE Spec => []ViewIsTheFile
  OBVIOUS
<1>1. SoundInv => ViewIsTheFile
  BY ReloadIsWhole DEF SoundInv, Inv, IInv, Typed, InStep, ViewIsTheFile
<1> QED
  BY <1>1, SoloInv, PTL

\* In one host, whatever file operation fails or is cut short, what can be read of the file is the
\* ledger IAuditLog promises: each entry is recorded once, at the end, and nothing
\* but a wipe takes it away.
THEOREM LedgerIsKept == Solo => (Spec => ImplementsLedger)
<1> SUFFICES ASSUME Solo PROVE Spec => ImplementsLedger
  OBVIOUS
<1> DEFINE View == EntriesOf(Readable(file))
<1>1. Init => Ledger!Init
  BY EmptyFile, ReadableIsWhole DEF Init, Ledger!Init
<1>2. LedgerInv /\ [Next]_vars => [Ledger!Next]_View
  <2> SUFFICES ASSUME LedgerInv, [Next]_vars PROVE Ledger!Next \/ View' = View
    OBVIOUS
  <2>1. file \in Seq(TextLine)
    BY AnyFacts DEF LedgerInv
  <2>2. Readable(file') = Readable(file) => View' = View
    OBVIOUS
  <2>3. ASSUME NEW e \in Entries, Write(e) PROVE Ledger!Next \/ View' = View
    BY <2>2, <2>3, WriteRecords DEF Ledger!Next
  <2>4. ASSUME file' \in {file, CutShort(file)} PROVE View' = View
    BY <2>1, <2>2, <2>4, CutShortReads
  <2>5. ASSUME NEW h \in Hosts, ClearAll(h) PROVE Ledger!Next \/ View' = View
    <3>1. CASE file' = <<>>
      <4>1. EntriesOf(Readable(file')) = <<>>
        BY <3>1, EmptyFile, ReadableIsWhole
      <4> QED
        BY <4>1 DEF Ledger!Next, Ledger!Wipe
    <3>2. CASE file' = file
      BY <2>4, <3>2
    <3> QED
      BY <2>5, <3>1, <3>2 DEF ClearAll
  <2>6. \A e \in Entries : WriteFails(e) => file' \in {file, CutShort(file)}
    BY DEF WriteFails
  <2>7. \A h \in Hosts : Restart(h) => file' \in {file, CutShort(file)}
    BY DEF Restart
  <2>8. \A e \in Entries : Mirror(e) \/ MirrorFails(e) => file' = file
    BY DEF Mirror, MirrorFails
  <2>9. \A h \in Hosts, e \in Entries : Seal(h, e) => file' = file
    BY DEF Seal
  <2>10. UNCHANGED vars => file' = file
    BY DEF vars
  <2> QED
    BY <2>3, <2>4, <2>5, <2>6, <2>7, <2>8, <2>9, <2>10 DEF Next
<1> QED
  BY <1>1, <1>2, SpecLedger, PTL DEF Spec, ImplementsLedger, Ledger!Spec

\* The file, the mirror, memory and the calls keep their types for any number of hosts on one
\* file, whatever is torn, overwritten or wiped in between (AppendShared, Reload).
THEOREM LogTyped == Spec => []TypeOK
<1>1. AnyInv => TypeOK
  BY DEF AnyInv
<1> QED
  BY <1>1, SpecAny, PTL

\* The mirror never holds a line twice, nor one whose call did not get it into the file first, for
\* any number of hosts and failures (AppendAsync, FileWormSink).
THEOREM MirrorFollows == Spec => []MirrorFollowsLedger
<1>1. AnyInv => MirrorFollowsLedger
  <2> SUFFICES ASSUME AnyInv PROVE MirrorFollowsLedger
    OBVIOUS
  <2>1. DOMAIN worm = 1..Len(worm)
    BY AnyFacts
  <2> QED
    BY <2>1 DEF AnyInv, Mirrored, MirrorFollowsLedger
<1> QED
  BY <1>1, SpecAny, PTL
==============================================================================
