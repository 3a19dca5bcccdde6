SPECIFICATION FairSpec
CONSTANTS
    Size = 12
    Newlines <- MCNewlines
    SegmentLimits = {0, 3}
    CharLimit <- MCCharLimit
    MinLines = 3
    MinChars = 1
    Outputs = 2
    MaxRuns = 2
INVARIANTS
    TypeOK
    NothingLost
    InOrder
    OutlineIsWhole
    ChunksFit
    RequestsBounded
    ArtifactKeepsItsFiles
    SucceededIsWhole
PROPERTIES
    EveryRunEnds
CHECK_DEADLOCK FALSE
