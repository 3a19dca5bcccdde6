SPECIFICATION Spec
CONSTANTS
    u1 = u1
    u2 = u2
    Users = {u1, u2}
    Nobody = Nobody
    NoVerdict = NoVerdict
    Verdicts = {"approved", "rejected"}
    MaxArtifacts = 3
    Faults = TRUE
SYMMETRY MCSymmetry
INVARIANTS
    TypeOK
    DecisionInStep
    VerdictIsOwn
CHECK_DEADLOCK FALSE
