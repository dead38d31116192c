SPECIFICATION Spec
CONSTANTS
    N = 4
    Modes = {"single", "packaged"}
    JobCounts = {1, 3}
    BatchSize = 2
    MaxVms = 2
    MaxRuns = 1
INVARIANTS
    TypeOK
    FailureIsContained
PROPERTIES
    CampaignEnds
    Refines
CHECK_DEADLOCK FALSE
