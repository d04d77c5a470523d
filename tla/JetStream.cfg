CONSTANTS
    Msgs = {m1, m2}
    Malformed = {m2}
    Servers = {s1, s2}
    NoServer = NoServer
    MaxDeliver = 2
    Concurrency = 1
    BatchSize = 2
    MaxStops = 1
    DlqMayFail = TRUE
SPECIFICATION FairSpec
CHECK_DEADLOCK FALSE
INVARIANTS
    TypeOK
    SlotAccounting
    SettledHasOutcome
    StrandedOnlyByFault
    SingleDeadLetter
PROPERTIES
    PromiseKept
    EventuallyResolved
