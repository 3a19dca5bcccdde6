SPECIFICATION Spec
CONSTANTS
    u1 = u1
    u2 = u2
    u3 = u3
    a1 = a1
    c1 = c1
    c2 = c2
    UiJobs = {u1, u2, u3}
    ApiJobs = {a1}
    ComposeJobs = {c1, c2}
    Hints = {"Client deliverable", "Client deliverable (DOCX)"}
    Extensions <- MCExtensions
    Cases <- MCCases
    MaxRuns = 2
INVARIANTS
    TypeOK
    ReservedTitleIsKept
    SucceededComposeIsComplete
    ComposesCollideOnlyByOverlap
CHECK_DEADLOCK FALSE
