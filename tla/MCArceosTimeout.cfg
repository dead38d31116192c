SPECIFICATION Spec
CONSTANTS
    Runners = {r1}
    MaxKills = 0
INVARIANTS
    TimeoutIsReported
CHECK_DEADLOCK FALSE
