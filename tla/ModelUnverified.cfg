SPECIFICATION Spec
CONSTANTS
    Consoles = {c1}
    Files = {f1}
    Workers = 1
    MaxJobs = 1
    MaxFailures = 1
    MaxRestarts = 0
INVARIANT NoExtensionGuess
CHECK_DEADLOCK FALSE
