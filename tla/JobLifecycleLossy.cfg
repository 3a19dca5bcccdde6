SPECIFICATION Spec
CONSTANTS
    t1 = t1
    t2 = t2
    t3 = t3
    NoTask = NoTask
    Tasks = {t1, t2}
    Sendable <- MCSendable
    Kinds = {"ondemand", "analyze", "compose"}
    Chunks = 1
    SavesFail = TRUE
    InspectReplies = FALSE
INVARIANTS
    TypeOK
    DatedExactly
CHECK_DEADLOCK FALSE
