SPECIFICATION FairSpec
CONSTANTS
    Sources <- MCSources
    Width = 32
CHECK_DEADLOCK FALSE
INVARIANTS
    RowsOnceInOrder
    CommitClosesTransaction
    SchemaIsCurrent
    ResumePointIsBoundary
    EveryEndAnnounced
    TruePositions
PROPERTIES
    EverythingSent
