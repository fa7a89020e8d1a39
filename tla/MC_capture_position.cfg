SPECIFICATION FairSpec
CONSTANTS
    Log <- PositionLog
    Mode = "position"
    StartCoords = {1}
    OldRows <- OldHistory
    BatchSize = 2
    MaxTxnRows = 4
    MaxRuns = 3
INVARIANTS
    TypeOK
    ClaimedIsIndexed
    NoDuplicate
    FloorBelowUnclaimed
    OldHistoryKept
    OnlyOpenTxnUncommitted
    WholeTransactions
    CaughtUpIsIndexed
PROPERTIES
    ImplementsDelivery
    LostLockStopsWrites
    EventuallyIndexed
