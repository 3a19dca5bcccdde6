SPECIFICATION FairSpec
CONSTANTS
    Lanes = {"client", "lawyer"}
    Both = Both
    Absent = Absent
    Keep = Keep
    MaxAttempts = 2
    QALimit = 3
    RecursionLimit = 20
    Modes <- MCModes
    Refusing = {"compliance"}
    MaxCrashes = 1
INVARIANTS
    TypeOK
    ReleasedIsGuarded
    ReleasedIsLastDraft
    VerdictIsCurrent
    BudgetHolds
    EnforcedFitsLimit
PROPERTIES
    Terminates
CHECK_DEADLOCK FALSE
