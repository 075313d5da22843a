SPECIFICATION Spec
CONSTANTS
    Genesis = Genesis
    Torn = Torn
    Garbage = Garbage
    Entries = {e1, e2, e3, e4}
    Hosts = {h1}
    MaxFaults = 1
    MaxRestarts = 2
    MaxWipes = 1
INVARIANTS ChainVerifies ViewIsTheFile MirrorFollowsLedger
 
CHECK_DEADLOCK FALSE
