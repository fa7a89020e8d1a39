SPECIFICATION Spec
CONSTANTS
    Expired = 1
    HourOf <- OneHour
    OptionSets <- LoopOnly
    Attempts = 1
    MaxCrashes = 1
    MaxCleanups = 0
    StagingLost = TRUE
CHECK_DEADLOCK FALSE
INVARIANTS
    NoRowLostUnlessLate
