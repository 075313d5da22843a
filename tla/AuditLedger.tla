----------------------------- MODULE AuditLedger -----------------------------
(***************************************************************************)
(* What IAuditLog promises: a ledger that only grows, entry by entry, until*)
(* an operator wipes it.                                                   *)
(***************************************************************************)
EXTENDS Sequences

CONSTANT Entries

VARIABLE ledger

Init == ledger = <<>>

Record(e) ==
    /\ \A i \in DOMAIN ledger : ledger[i] # e
    /\ ledger' = Append(ledger, e)

Wipe == ledger' = <<>>

Next == Wipe \/ \E e \in Entries : Record(e)

Spec == Init /\ [][Next]_ledger
==============================================================================
