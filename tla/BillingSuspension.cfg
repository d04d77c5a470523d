SPECIFICATION FairSpec
CONSTANTS
    Requests = {r1, r2}
    Payments = {p1}
    NoPayment = NoPayment
    MaxSubs = 1
    MaxInvoices = 1
    Utrs = {u1}
    NoUtr = NoUtr
    Total = 2
    Amounts = {1, 2}
    Ops <- CancelOps
    SystemActorAccepted = TRUE
    ActiveIndex = TRUE
    MaxInFlight = 1
    MaxCrashes = 0
CHECK_DEADLOCK FALSE
PROPERTY
    CancellationSuspends
