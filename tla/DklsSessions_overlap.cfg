CONSTANTS
    None = None
    MinVer = 1
    MaxVer = 2
    InCap = 1
    Threads = {t1, t2}
    Kind = "sign"
    Ids = {s1}
    Inputs = 2
    FinalAnswer = FALSE
    Payload = {0, 1}
    MaxRuns = 2
    MaxCalls = 5
    OneCallPerId = FALSE
SPECIFICATION Spec
CHECK_DEADLOCK FALSE
SYMMETRY Symmetry
INVARIANTS
    TypeOK
    CompletesOnce
    ConsumedNeverSticks
