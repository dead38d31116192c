SPECIFICATION GateSpec
CONSTANTS
    Programs = {p1, p2}
    Jobs = 2
    Targets <- MCTargets
    Outputs <- MCOutputs
    Manifest <- MCManifest
    Profile <- MCProfile
    MaxSweeps = 2
    MaxKills = 1
INVARIANTS
    GateTypeOK
    PublishedIsWhole
    ListsAreBacked
CHECK_DEADLOCK FALSE
