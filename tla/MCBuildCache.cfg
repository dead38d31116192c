SPECIFICATION BuildSpec
CONSTANTS
    Texts = {A, B}
    MaxEdits = 2
    MaxBuilds = 3
    None = None
INVARIANTS
    KernelsGetTheSameProgram
PROPERTIES
    HitIsFresh
SYMMETRY Symmetry
CHECK_DEADLOCK FALSE
