CONSTANTS
    None = None
    MinVer = 1
    MaxVer = 2
    InCap = 1
    Threads = {t1, t2}
    Kind = "recover"
    Ids = {s1, s2}
    Inputs = 1
    FinalAnswer = TRUE
    Payload = {0, 1}
    MaxRuns = 2
    MaxCalls = 3
    OneCallPerId = TRUE
SPECIFICATION Spec
CHECK_DEADLOCK FALSE
INVARIANTS
    VersionFollowsRun
    ResultNotLost
    CompletedIsCleanedUp
PROPERTIES
    NoOrphanTask
    ReturnsUnlessStarved
