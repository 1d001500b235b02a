CONSTANTS
    Threads = {t1, t2}
    Ids = {s1}
    MinVer = 1
    MaxVer = 2
    MaxRuns = 2
    None = None
SPECIFICATION Spec
CHECK_DEADLOCK FALSE
SYMMETRY Symmetry
INVARIANTS TypeOK SecretsHaveOneOwner ResultIsOfItsRun
PROPERTIES StaleRefreshNotAdvanced NewestRunCompletes
