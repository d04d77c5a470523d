CONSTANTS
    Requests = {r1, r2}
    MaxTokens = 3
SPECIFICATION Spec
SYMMETRY RequestSymmetry
INVARIANTS
    TypeOK
    PasswordFence
    SignOutHolds
    SiblingsOverlap
CHECK_DEADLOCK FALSE
