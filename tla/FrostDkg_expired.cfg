CONSTANTS
    Threads = {t1, t2}
    Ids = {s1}
    MinVer = 1
    MaxVer = 2
    MaxRuns = 1
    None = None
SPECIFICATION Spec
CHECK_DEADLOCK FALSE
SYMMETRY Symmetry
INVARIANT ExpiredRunNeverCompletes
