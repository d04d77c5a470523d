SPECIFICATION FairSpec
CONSTANTS
    Records = {r1, r2}
    FromAudit = {r2}
    NoTenant = {r1, r2}
    Gateways = {g1}
    Requests = {q1, q2}
    MaxDeliver = 2
    MaxReplays = 2
    MaxStops = 1
    MaxDbFailures = 1
CHECK_DEADLOCK FALSE
INVARIANTS
    TypeOK
    SettledHasRow
    ReplaysHappened
PROPERTIES
    DecisionSurvives
    DiscardHolds
    EventuallyPersisted
