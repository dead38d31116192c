SPECIFICATION Spec
CONSTANTS
    None = None
INVARIANTS
    TypeOK
    ArtifactsFreshAndComplete
    EvidenceIsSound
    OkIsEarned
PROPERTIES
    RunEnds
CHECK_DEADLOCK FALSE
