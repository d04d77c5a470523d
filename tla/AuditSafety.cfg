SPECIFICATION Spec
CONSTANTS
    Events = {good, bad}
    Malformed = {}
    Invalid = {bad}
    Timers = {t1, t2}
    Loop = Loop
    BatchSize = 2
    MaxRetries = 2
    MaxStops = 1
    MaxDbFailures = 1
    MaxDlqFailures = 1
SYMMETRY TimerSymmetry
CHECK_DEADLOCK FALSE
INVARIANTS
    TypeOK
    HeldOnce
    SettledIsKept
    LossTakesTwoDrops
