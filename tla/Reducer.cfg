SPECIFICATION ReduceSpec
CONSTANTS
    Source <- MCSource
    RerunCount = 3
INVARIANTS
    OverlayReportIsSound
    ReducedProgramDiverges
PROPERTIES
    Terminates
CHECK_DEADLOCK FALSE
