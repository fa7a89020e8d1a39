SPECIFICATION Spec
CONSTANTS
    GtidModes = {TRUE, FALSE}
    FirstNum = 3
    FirstChanges = {1}
    Radix = 2
    Width = 1
    MaxChanges = 3
    MaxFiles = 4
    MaxBreaks = 1
    MaxCrashes = 2
    MaxDiscards = 0
INVARIANTS
    LossOnRecord
    OrphanSparesResumed
PROPERTIES
    CleanupReturns
