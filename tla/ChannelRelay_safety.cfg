CONSTANTS
    InCap = 2
    OutCap = 2
    Script <- ShortScript
    Payloads <- AnyPayloads
SPECIFICATION FairSpec
INVARIANTS TypeOK FifoToCaller FifoToTask CompletedMeansDelivered NoLostWakeup
PROPERTIES ReturnsOrStarves ImplementsPipe
CHECK_DEADLOCK FALSE
