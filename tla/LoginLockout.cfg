CONSTANTS
    Logins = {l1, l2, l3}
    MaxAttempts = 3
    MaxTries = 8
    MaxCrashes = 2
SPECIFICATION Spec
SYMMETRY LoginSymmetry
INVARIANTS
    TypeOK
    LockoutBound
CHECK_DEADLOCK FALSE
