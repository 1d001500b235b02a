CONSTANTS
    None = None
    Calls = {c1, c2, c3}
SPECIFICATION FairSpec
CHECK_DEADLOCK FALSE
INVARIANTS
    TypeOK
    HealthyRequestSurvives
PROPERTIES
    ImplementsRpc
    SendEnds
