SPECIFICATION FairSpec
CONSTANTS
    t1 = t1
    t2 = t2
    t3 = t3
    NoTask = NoTask
    Tasks = {t1, t2, t3}
    Sendable <- MCSendable
    Kinds = {"batch", "ondemand", "analyze"}
    Chunks = 1
    SavesFail = FALSE
    InspectReplies = TRUE
INVARIANTS
    SingleExecution
    SucceededHasFiles
PROPERTIES
    LeaseHeld
    AbandonedIsRecovered
CHECK_DEADLOCK FALSE
