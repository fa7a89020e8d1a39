SPECIFICATION Spec
CONSTANTS
    Expired = 2
    HourOf <- TwoHours
    OptionSets <- Mixed
    Attempts = 2
    MaxCrashes = 0
    MaxCleanups = 1
    StagingLost = FALSE
CHECK_DEADLOCK FALSE
INVARIANTS
    DropsAreRecorded
PROPERTIES
    PendingUploadHolds
