CONSTANTS
    Calls = {c1, c2, c3}
    MaxOtpAttempts = 2
    MaxCodes = 1
    CacheTtl = 2
    TombTtl = 3
    MaxFill = 1
SPECIFICATION Spec
INVARIANTS
    TypeOK
    EndedIsRejected
PROPERTIES
    StaleBounded
CHECK_DEADLOCK FALSE
