SPECIFICATION Spec
CONSTANTS
    Runners = {r1, r2}
    MaxPieces = 3
    MaxKills = 1
INVARIANTS
    TypeOK
    OkIsOwnRun
    CopiesAreWhole
PROPERTY RunnersEnd
CHECK_DEADLOCK FALSE
