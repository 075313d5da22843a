SPECIFICATION Spec
CONSTANTS
    Genesis = Genesis
    Torn = Torn
    Garbage = Garbage
    Entries = {e1, e2}
    Hosts = {h1, h2}
    MaxFaults = 0
    MaxRestarts = 0
    MaxWipes = 0
INVARIANT AppendsStayWellFormed
CHECK_DEADLOCK FALSE
