SPECIFICATION FairSpec
CONSTANTS
    Expired = 2
    HourOf <- TwoHours
    OptionSets <- LoopOnly
    Attempts = 2
    MaxCrashes = 1
    MaxCleanups = 0
    StagingLost = FALSE
CHECK_DEADLOCK FALSE
INVARIANTS
    TypeOK
    NoRowLostUnlessLate
    HealthyMeansDropped
PROPERTIES
    EventuallyDropped
