SPECIFICATION Spec
CONSTANTS
    t1 = t1
    t2 = t2
    t3 = t3
    NoTask = NoTask
    Tasks = {t1, t2}
    Sendable <- MCSendable
    Kinds = {"compose"}
    Chunks = 1
    SavesFail = FALSE
    InspectReplies = TRUE
PROPERTIES
    ResumesIdleJobs
CHECK_DEADLOCK FALSE
