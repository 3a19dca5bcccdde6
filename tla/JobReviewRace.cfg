SPECIFICATION Spec
CONSTANTS
    u1 = u1
    u2 = u2
    Users = {u1, u2}
    Nobody = Nobody
    NoVerdict = NoVerdict
    Verdicts = {"approved", "rejected"}
    MaxArtifacts = 2
    Faults = FALSE
INVARIANTS
    RejectedHasNoArtifact
CHECK_DEADLOCK FALSE
