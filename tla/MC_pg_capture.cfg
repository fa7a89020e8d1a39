SPECIFICATION FairSpec
CONSTANTS
    Wals <- MCWals
    MaxRuns <- MCRuns
    MayBlind = {2}
    MayLose = {1, 3}
    MayRecreate = FALSE
    Scope = {"a", "b"}
    Gone = "gone"
    ChanCap = 1
    BatchSize = 2
    MaxTxnRows = 3
CHECK_DEADLOCK FALSE
INVARIANTS
    TypeOK
    RowsHaveTheirShape
    RecordedOnce
    ChangesBracketed
    TruncatesRecorded
PROPERTIES
    ImplementsDelivery
    LossStays
    EventuallyCheckpointed
