SPECIFICATION FairSpec
CONSTANTS
    Workers = {w1}
    Messages = {m1, m2}
    MaxRetries = 2
    BatchSize = 2
    MaxFaults = 2
    MaxCrashes = 1
 
PROPERTIES  EventuallySettled
