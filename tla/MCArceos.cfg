SPECIFICATION Spec
CONSTANTS
    Runners = {r1, r2}
    MaxKills = 1
INVARIANTS
    CheckoutKept
    OkIsEarned
CHECK_DEADLOCK FALSE
