SPECIFICATION FairSpec
CONSTANTS
    GtidModes = {TRUE, FALSE}
    FirstNum = 3
    FirstChanges = {1}
    Radix = 2
    Width = 1
    MaxChanges = 3
    MaxFiles = 3
    MaxBreaks = 1
    MaxCrashes = 1
    MaxDiscards = 1
PROPERTIES
    EventuallySettled
