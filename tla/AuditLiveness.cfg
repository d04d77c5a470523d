SPECIFICATION FairSpec
CONSTANTS
    Events = {good, garbled}
    Malformed = {garbled}
    Invalid = {}
    Timers = {t1}
    Loop = Loop
    BatchSize = 2
    MaxRetries = 2
    MaxStops = 1
    MaxDbFailures = 2
    MaxDlqFailures = 0
CHECK_DEADLOCK FALSE
PROPERTIES
    EventuallyKept
