SPECIFICATION SlotsSpec
CONSTANTS
    Threads = {t1, t2, t3}
    Settings = {0, 2}
    MaxRuns = 2
INVARIANTS
    SlotsTypeOK
    RunnersBounded
PROPERTIES
    AllRunsEnd
CHECK_DEADLOCK FALSE
