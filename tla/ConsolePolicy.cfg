SPECIFICATION FairSpec
CONSTANTS
    NoPolicy = NoPolicy
    Licences = {gpl}
    Feeds = {kev}
    Tickets = {sample}
    SampleTicket = sample
    Thresholds = {90}
    Severities = {"High"}
    MaxOps = 3
    MaxOutages = 1
INVARIANTS UntouchedAsLoaded AnswersStand
PROPERTY OfflineHeals
CHECK_DEADLOCK FALSE
