SPECIFICATION Spec
CONSTANTS
    Wals <- OneLog
    MaxRuns <- TwoRuns
    MayBlind = {}
    MayLose = {1}
    MayRecreate = TRUE
    Scope = {"a", "b"}
    Gone = "gone"
    ChanCap = 1
    BatchSize = 2
    MaxTxnRows = 3
CHECK_DEADLOCK FALSE
INVARIANT CheckpointComplete
