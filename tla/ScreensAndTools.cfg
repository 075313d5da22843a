SPECIFICATION FairSpec
CONSTANTS
    Off = Off
    Slots = {1, 2}
    MaxClicks = 3
    MaxFailures = 1
    MaxRestarts = 1
    Ecos = {e1, e2}
    Names = {a, b}
    None = None
    Keys = {k1, k2}
    MaxVersion = 2
    MaxSelections = 2
    Consoles = {c1, c2}
    Files = {f1}
    Workers = 1
    MaxJobs = 2
    MaxRuns = 2
    MaxPolls = 2
    MaxRequests = 5
    Merges = {m1, m2}
    Types = {t1, t2}
    Chunks = 1
    Clip = 3
    SourceFiles = {s1, s2}
    MaxStatements = 3
    Scans = {x1, x2}
INVARIANTS TypeOK PipelineGetsWhatIsShown  OwnOperationShown 
INVARIANTS ConsoleSurvives PRsAreDecided RunsOffline   HonestAnswer
PROPERTIES  WaitsEnd 
CHECK_DEADLOCK FALSE
