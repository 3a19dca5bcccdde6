SPECIFICATION Spec
CONSTANTS
    w1 = w1
    w2 = w2
    Writers = {w1, w2}
    Keys = {"job_kind", "celery_task_id"}
    RowKeys = {"job_kind"}
    Values = {"a", "b"}
    Null = "null"
    Missing = "missing"
    Faults = TRUE
SYMMETRY MCSymmetry
INVARIANTS
    TypeOK
    NothingLost
PROPERTIES
    RowNeverForgets
CHECK_DEADLOCK FALSE
