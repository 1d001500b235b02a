CONSTANTS
    InCap = 2
    OutCap = 4
    Script <- LongScript
    Payloads <- ExpectedPayloads
SPECIFICATION FairSpec
INVARIANT SendNeverFails
PROPERTY EveryCallReturns
CHECK_DEADLOCK FALSE
