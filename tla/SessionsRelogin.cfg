CONSTANTS
    Requests = {r1, r2}
    MaxTokens = 3
SPECIFICATION Spec
SYMMETRY RequestSymmetry
INVARIANT
    MustLogInAgain
CHECK_DEADLOCK FALSE
