CONSTANTS
    None = None
    P = 5
    Ops = {1, 2}
    Shifts = {2, 3}
    Secrets = {"pin", "new"}
SPECIFICATION FairSpec
CHECK_DEADLOCK FALSE
INVARIANTS
    TypeOK
    WalletStaysUsable
    VersionCountsRefreshes
    FreshBackupRecovers
    ResultNamesTheKey
    ExportIsTheKey
    ExportedKeySignsNoMore
    ReachesItsEngine
    OnlySignLeavesSession
PROPERTY EveryOperationEnds
