SPECIFICATION FairSpec
CONSTANTS
    Log <- GTIDLog
    Mode = "gtid"
    StartCoords = {1}
    OldRows <- OldHistory
    BatchSize = 2
    MaxTxnRows = 5
    MaxRuns = 3
INVARIANTS
    NoDuplicateUnlessSpared
    WholeTransactionsWhileRunning
PROPERTIES
    ImplementsDelivery
    EventuallyIndexed
