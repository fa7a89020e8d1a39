SPECIFICATION FairSpec
CONSTANTS
    Log <- CreateSelectLog
    Mode = "gtid"
    StartCoords = {1}
    OldRows = {}
    BatchSize = 2
    MaxTxnRows = 5
    MaxRuns = 3
INVARIANTS
    ClaimedIsIndexed
