SPECIFICATION RunSpec
CONSTANTS
    Runners = {r1, r2}
    Scheduler = sched
    MaxKills = 1
    MaxMoves = 1
INVARIANTS
    RunTypeOK
    PackedOnceBootsOwnPackage
    LabelNamesTheKernel
    HomeIsWhole
    VerdictIsOfTheConsole
PROPERTY RunsEnd
CHECK_DEADLOCK FALSE
