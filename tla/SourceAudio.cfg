SPECIFICATION FairSpec
CONSTANTS
    j1 = j1
    j2 = j2
    Jobs = {j1, j2}
    Rows = {r1, r2, r3}
    Versions = {1, 2, 3, 4, 5}
    Cases <- MCCases
    RetryMax = 2
    None = None
INVARIANTS
    TypeOK
    InputIsWhole
    KeptIsWhole
    FilesAreDistinct
    OrphansWereInterrupted
    SubmittedOnce

    
CHECK_DEADLOCK FALSE
