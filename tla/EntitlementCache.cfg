CONSTANTS
    Readers = {r1, r2}
    MaxVersion = 3
    CacheTtl = 2
    MaxFill = 1
SPECIFICATION Spec
INVARIANTS
    TypeOK
PROPERTIES
    StaleBounded
