SPECIFICATION Spec
CONSTANTS
    Behaviour = {b1, b2}
    Noise = {n1, n2}
    Status = {"ok", "timeout", "infra_error", "unsupported"}
    RerunCount = 2
    None = None
SYMMETRY TraceSymmetry
INVARIANTS
    TypeOK
    JudgedOnStableBaseline
    VerdictMatchesEvidence
    BugIsRetested
    BucketRestsOnEvidence
CHECK_DEADLOCK FALSE
