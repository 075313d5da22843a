SPECIFICATION Spec
CONSTANTS
    Workers = {w1, w2}
    Messages = {m1, m2}
    MaxRetries = 2
    BatchSize = 2
    MaxFaults = 1
    MaxCrashes = 1
SYMMETRY Symmetry
INVARIANTS ClaimsAreFenced SettledWithCause
