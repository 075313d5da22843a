SPECIFICATION FairSpec
CONSTANTS
    Empty = Empty
    Torn = Torn
    Tickets = {t1, t2}
    Undated = {t2}
    Clients = {k1}
    Sweepers = {sweep}
    MaxRequests = 3
    MaxFaults = 1
    MaxRestarts = 1
INVARIANTS FileWasInForce GrantedIsKept PersistedWhenIdle WithdrawnStays
PROPERTY LapsedIsPurged
CHECK_DEADLOCK FALSE
