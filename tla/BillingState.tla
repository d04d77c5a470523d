---------------------------- MODULE BillingState ----------------------------
(***************************************************************************)
(* The rows the billing services of ee/apps/api-gateway/src/billing share: *)
(* the subscriptions of one institute, their invoices, the payments made   *)
(* on those invoices, and the requests in flight.                          *)
(*                                                                         *)
(* Every repository call is a transaction of its own, so a service method  *)
(* is a sequence of steps; req[r] holds the position of request r and what *)
(* it has read.  A request that fails a check returns an error and changes *)
(* nothing: it is not started.                                             *)
(***************************************************************************)
EXTENDS Integers, FiniteSets

CONSTANTS
    Requests,     \* requests and activity executions; each runs once (bound)
    Payments,     \* identities of payment rows (bound)
    NoPayment,
    MaxSubs,      \* bound: subscriptions the institute ever gets
    MaxInvoices,  \* bound: invoices the institute ever gets
    Utrs,         \* UTR numbers an institute can submit
    NoUtr,
    Total,        \* totalAmount of an invoice
    Amounts,      \* amounts of manual payments and refunds
    Ops,          \* operations the run offers
    SystemActorAccepted, \* TRUE: created_by and updated_by accept the actor 'SYSTEM'
    ActiveIndex,  \* TRUE: the database has the partial index uq_sub_active_tenant
    MaxInFlight,  \* bound: requests that overlap (1: one at a time)
    MaxCrashes    \* bound: process crashes

Subs == 1..MaxSubs  \* in the order of createdAt
Invoices == 1..MaxInvoices

ASSUME BillingAssumption ==
    /\ MaxSubs \in Nat \ {0}
    /\ MaxInvoices \in Nat \ {0}
    /\ Total \in Nat \ {0}
    /\ Amounts \subseteq Nat \ {0}
    /\ NoPayment \notin Payments
    /\ NoUtr \notin Utrs
    /\ SystemActorAccepted \in BOOLEAN
    /\ ActiveIndex \in BOOLEAN
    /\ MaxInFlight \in Nat
    /\ MaxCrashes \in Nat

\* A table has finitely many rows.
ASSUME PaymentsFinite == IsFiniteSet(Payments)

VARIABLES
    invoice,      \* invoice rows
    payment,      \* payment rows
    sub,          \* subscription statuses
    institute,    \* institutes.status
    refundedOut,  \* what has been handed back to the payer, per payment
    req,          \* requests, in flight and done
    met,          \* history: the requests each request has been in flight with
    dead,         \* requests whose process died before they were done
    crashes       \* crashes so far

tables == <<invoice, payment, sub, institute, refundedOut>>
vars == <<tables, req, met, dead, crashes>>

\* No operation writes DRAFT or CANCELLED.
InvoiceStatus == {"ABSENT", "SENT", "PARTIALLY_PAID", "OVERDUE", "PAID", "REFUNDED"}
PaymentStatus == {"ABSENT", "PENDING", "SUCCEEDED", "FAILED", "PARTIALLY_REFUNDED", "REFUNDED"}
Verification  == {"NONE", "PENDING_VERIFICATION", "VERIFIED", "REJECTED", "EXPIRED"}
SubStatus     == {"TRIALING", "ACTIVE", "PAUSED", "PAST_DUE", "CANCELLED", "EXPIRED"}

(* An invoice row: of is its subscription, period the one it bills.  The   *)
(* code never advances currentPeriodEnd, so there are two: the current one *)
(* and the next.                                                           *)
InvoiceRow == [st : InvoiceStatus, paid : Int, of : Subs, period : {"current", "next"}]

NoInvoice == [st |-> "ABSENT", paid |-> 0, of |-> 1, period |-> "current"]

(* A payment row.  gid is the gateway payment it records, named after the  *)
(* order (the PENDING row) the customer paid; order tells whether the row  *)
(* was created for a gateway order and whether the gateway has the money.  *)
PaymentRow == [st : PaymentStatus, inv : Invoices, amt : Int, refunded : Int,
               ver : Verification, gid : Payments \cup {NoPayment},
               utr : Utrs \cup {NoUtr}, order : {"NONE", "OPEN", "CAPTURED"}]

NoRow == [st |-> "ABSENT", inv |-> 1, amt |-> 0, refunded |-> 0,
          ver |-> "NONE", gid |-> NoPayment, utr |-> NoUtr, order |-> "NONE"]

Steps == {"idle", "done", "manualCreate", "orderCreate", "verifyUpdate", "webhookLookup",
          "refundPayer", "refundUpdate", "utrCheck", "upiCreate", "upiVerify",
          "markPaidRead", "markPaidWrite", "markRefundedRead", "markRefundedWrite",
          "reactivateRead", "reactivateWrite", "revertInvoiceRead", "revertSubRead",
          "revertWrite", "rejectUpdate", "expireRead", "expireCommit", "subWrite",
          "assignCreate", "invoiceCreate", "renewInsert"}

(* A request: i is its invoice, p its payment, amt the amount it carries,   *)
(* paid the invoice's paidAmount as read, to the subscription it is about,  *)
(* the status it has read and the one it will write.                        *)
RequestRow == [op : Ops \cup {"none"}, pc : Steps, i : Invoices, p : Payments \cup {NoPayment},
               amt : Int, paid : Int, utr : Utrs \cup {NoUtr},
               to : [s : Subs, was : SubStatus \cup {"ABSENT"}, st : SubStatus]]

Idle == [op |-> "none", pc |-> "idle", i |-> 1, p |-> NoPayment,
         amt |-> 0, paid |-> 0, utr |-> NoUtr, to |-> [s |-> 1, was |-> "ABSENT", st |-> "ACTIVE"]]

(* SUBSCRIPTION_STATE_MACHINE *)
SubTransitions ==
    [TRIALING  |-> {"ACTIVE", "CANCELLED", "EXPIRED"},
     ACTIVE    |-> {"PAUSED", "PAST_DUE", "CANCELLED"},
     PAUSED    |-> {"ACTIVE", "CANCELLED"},
     PAST_DUE  |-> {"ACTIVE", "CANCELLED"},
     CANCELLED |-> {},
     EXPIRED   |-> {}]

Terminal == {"CANCELLED", "EXPIRED"}

\* Subscriptions of the institute that exist, and those that are not over.
Existing == {s \in Subs : sub[s] # "ABSENT"}
Current  == {s \in Existing : sub[s] \notin Terminal}

(* uq_sub_active_tenant: the database refuses a write after which two of    *)
(* the institute's subscriptions are not over.  Databases built by db:reset *)
(* have the index; in the order of db:migrate its guard looks for a table   *)
(* that a later migration creates, so it is skipped.                        *)
IndexAllows(after) ==
    ActiveIndex => \A s, t \in Subs :
        {after[s], after[t]} \cap ({"ABSENT"} \cup Terminal) = {} => s = t

(* findActiveByTenant: the newest subscription that is not over. *)
IsNewestCurrent(s) == s \in Current /\ \A t \in Current : t <= s

InFlight == {r \in Requests \ dead : req[r].pc \notin {"idle", "done"}}

TypeOK ==
    /\ invoice \in [Invoices -> InvoiceRow]
    /\ payment \in [Payments -> PaymentRow]
    /\ sub \in [Subs -> SubStatus \cup {"ABSENT"}]
    /\ institute \in {"ACTIVE", "SUSPENDED"}
    /\ refundedOut \in [Payments -> Nat]
    /\ req \in [Requests -> RequestRow]
    /\ met \in [Requests -> SUBSET Requests]
    /\ dead \in SUBSET Requests
    /\ crashes \in 0..MaxCrashes

(* An active institute whose plan without a trial was just assigned: one   *)
(* ACTIVE subscription and its SENT invoice.                               *)
Init ==
    /\ invoice = [i \in Invoices |-> [NoInvoice EXCEPT !.st = IF i = 1 THEN "SENT" ELSE "ABSENT"]]
    /\ payment = [p \in Payments |-> NoRow]
    /\ sub = [s \in Subs |-> IF s = 1 THEN "ACTIVE" ELSE "ABSENT"]
    /\ institute = "ACTIVE"
    /\ refundedOut = [p \in Payments |-> 0]
    /\ req = [r \in Requests |-> Idle]
    /\ met = [r \in Requests |-> {}]
    /\ dead = {}
    /\ crashes = 0

-----------------------------------------------------------------------------
\* The run offers op, and it may overlap with what is in flight.
Offered(op) == op \in Ops /\ Cardinality(InFlight) < MaxInFlight

\* Request r starts op at step pc, having read what row says; from now on it
\* overlaps with the requests in flight.
Start(r, op, pc, row) ==
    /\ Offered(op)
    /\ req[r].pc = "idle"
    /\ req' = [req EXCEPT ![r] = [row EXCEPT !.op = op, !.pc = pc]]
    /\ met' = [t \in Requests |-> IF t = r THEN InFlight
                                  ELSE IF t \in InFlight THEN met[t] \cup {r} ELSE met[t]]
    /\ UNCHANGED <<tables, dead, crashes>>

\* What a step of a request in flight leaves alone.
SameRun == UNCHANGED <<met, dead, crashes>>

At(r, pc) == r \notin dead /\ req[r].pc = pc

Goto(r, pc) == req' = [req EXCEPT ![r].pc = pc]

\* A step that only moves its request.
Untouched == UNCHANGED tables /\ SameRun

\* A row identity not used so far.
Free(p) == payment[p].st = "ABSENT"
=============================================================================
