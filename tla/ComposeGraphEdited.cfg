SPECIFICATION Spec
CONSTANTS
    Lanes = {"client", "lawyer"}
    Both = Both
    Absent = Absent
    Keep = Keep
    MaxAttempts = 2
    QALimit = 3
    RecursionLimit = 25
    Modes <- MCSync
    Refusing = {"compliance"}
    MaxCrashes = 0
INVARIANTS
    ReleasedIsReviewed
CHECK_DEADLOCK FALSE
