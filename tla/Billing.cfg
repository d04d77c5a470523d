SPECIFICATION Spec
CONSTANTS
    Requests = {r1, r2, r3}
    Payments = {p1, p2, p3}
    NoPayment = NoPayment
    MaxSubs = 2
    MaxInvoices = 3
    Utrs = {u1, u2}
    NoUtr = NoUtr
    Total = 2
    Amounts = {1, 2, 3}
    Ops <- AllOps
    SystemActorAccepted = TRUE
    ActiveIndex = FALSE
    MaxInFlight = 3
    MaxCrashes = 1
SYMMETRY Symmetry
CHECK_DEADLOCK FALSE
INVARIANTS
    TypeOK
    StatusMatchesAmount
    RefundRecordBounded
    LedgerBalanced
    RefundWithinPayment
    UtrOnce
    RenewedOnce

    
