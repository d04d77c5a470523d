------------------------------- MODULE Billing -------------------------------
(***************************************************************************)
(* The billing subsystem of one institute: API requests, gateway webhooks, *)
(* scheduled activities and event subscribers over one database.           *)
(***************************************************************************)
EXTENDS BillingActivities, FiniteSetsExt

\* The process dies: its requests end between two transactions.
Crash ==
    /\ crashes < MaxCrashes
    /\ crashes' = crashes + 1
    /\ dead' = dead \cup InFlight
    /\ UNCHANGED <<tables, req, met>>

Begin(r) == InvoiceStart(r) \/ PaymentStart(r) \/ SubscriptionStart(r) \/ ActivityStart(r)

Continue(r) == InvoiceStep(r) \/ PaymentStep(r) \/ SubscriptionStep(r) \/ ActivityStep(r)

Next ==
    \/ \E r \in Requests : Begin(r) \/ Continue(r)
    \/ \E p \in Payments : CustomerPays(p)
    \/ Cron
    \/ Crash

Spec == Init /\ [][Next]_vars

(* A request that has started goes on; the schedule runs the expiry every  *)
(* day, Temporal tries a failed activity again, and an attempt that can    *)
(* commit is not refused for ever.                                         *)
Fairness ==
    /\ \A r \in Requests : /\ WF_vars(Continue(r))
                          /\ SF_vars(\E p \in Payments : ExpireStart(r, p))
                          /\ SF_vars(ExpireRead(r))
                          /\ SF_vars(ExpireCommit(r))

FairSpec == Spec /\ Fairness

-----------------------------------------------------------------------------
(* An invoice's status and its paid amount agree whatever requests overlap *)
(* and wherever a crash cuts one short: PAID is never said of an amount    *)
(* below the total, and SENT, OVERDUE and REFUNDED say that nothing is     *)
(* held.  markPaid, markRefunded, markOverdueInvoices and                  *)
(* expireUpiVerifications all write these columns from stale reads.        *)
StatusMatchesAmount == \A i \in Invoices :
    /\ invoice[i].st = "PAID" => invoice[i].paid >= Total
    /\ invoice[i].st \in {"ABSENT", "SENT", "OVERDUE", "REFUNDED"} => invoice[i].paid = 0

(* No payment row ever records a refund above its amount, even when two    *)
(* refunds of it overlap: issueRefund writes the total it checked.         *)
RefundRecordBounded == \A p \in Payments :
    payment[p].amt >= 0 => payment[p].refunded \in 0..payment[p].amt

-----------------------------------------------------------------------------
\* Operations that move money of an invoice, and the requests that do for i.
MoneyOps == {"manual", "verify", "refund", "submitUpi", "rejectUpi", "expireUpi"}

Moves(r, i) == req[r].op \in MoneyOps /\ req[r].i = i

\* Every request that moved money of i has finished before the next began.
Sequential(i) == \A r \in Requests :
    Moves(r, i) => req[r].pc = "done" /\ \A t \in met[r] : ~Moves(t, i)

\* What payment p adds to its invoice.
Contribution(p) ==
    CASE payment[p].st = "SUCCEEDED" -> payment[p].amt
      [] payment[p].st \in {"PARTIALLY_REFUNDED", "REFUNDED"} -> payment[p].amt - payment[p].refunded
      [] OTHER -> 0

\* A UPI transfer refunded before it was verified and then rejected or expired
\* is taken off the invoice twice; an overpaid invoice yields a negative rest.
Irregular(i) == \E p \in Payments :
    payment[p].inv = i /\ (payment[p].amt < 0 \/ (payment[p].st = "FAILED" /\ payment[p].refunded > 0))

(* Only an overlap or a crash of two requests on one invoice can make its  *)
(* paidAmount differ from what its payments add up to, whatever happens on *)
(* other invoices and to its subscription: the amount is kept by           *)
(* increments in markPaid, markRefunded, rejectUpiPayment and              *)
(* expireUpiVerifications, never recomputed from the payments.             *)
LedgerBalanced == \A i \in Invoices :
    Sequential(i) /\ ~Irregular(i) =>
        invoice[i].paid = SumFunction([p \in {q \in Payments : payment[q].inv = i} |-> Contribution(p)])

-----------------------------------------------------------------------------
\* Requests that refund payment p; one has died once the money was out.
Refunds(r, p) == req[r].op = "refund" /\ req[r].p = p

RefundCut(p) == \E r \in dead : Refunds(r, p) /\ req[r].pc = "refundUpdate"

RefundsOverlapped(p) == \E r \in Requests : \E t \in met[r] : Refunds(r, p) /\ Refunds(t, p)

(* The payer is handed back more than was paid only when two refunds of    *)
(* the payment overlapped, or one died between the gateway's refund and    *)
(* the payment row (issueRefund), whatever else overlaps and dies.         *)
RefundWithinPayment == \A p \in Payments :
    payment[p].amt >= 0 /\ refundedOut[p] > payment[p].amt => RefundCut(p) \/ RefundsOverlapped(p)

\* Request r made payment p for its UTR number, invoice i for the next period.
Submitted(r, p) == req[r].op = "submitUpi" /\ req[r].p = p

Billed(r, i) == req[r].op = "renew" /\ req[r].pc = "done" /\ req[r].i = i

(* A UTR number is credited twice only by submissions that overlapped      *)
(* (UTR_ALREADY_SUBMITTED), whatever else overlaps and dies.               *)
UtrOnce == \A p, q \in Payments :
    p # q /\ payment[p].utr = payment[q].utr /\ payment[p].utr # NoUtr =>
        \E r \in Requests : \E t \in met[r] : Submitted(r, p) /\ Submitted(t, q)

(* The next period of a subscription is billed twice only by attempts of   *)
(* processRenewals that overlapped, however often it is aborted, dies or   *)
(* is tried again after it has committed, and whatever the reseller        *)
(* invoices by hand in between (billing.activities.ts:62 "Idempotent").    *)
RenewedOnce == \A i, j \in Invoices :
    (/\ i # j
     /\ "ABSENT" \notin {invoice[i].st, invoice[j].st}
     /\ invoice[i].of = invoice[j].of
     /\ invoice[i].period = "next" /\ invoice[j].period = "next") =>
        \E r \in Requests : \E t \in met[r] : Billed(r, i) /\ Billed(t, j)

(* A status change of a subscription that SUBSCRIPTION_STATE_MACHINE does  *)
(* not allow is a lost update: the request that makes it has read another  *)
(* status than the one it overwrites.  No activity, UPI submission or      *)
(* rejection, and no request alone, makes one.                             *)
LegalTransitions == [][\A s \in Subs :
    sub[s] \in SubStatus /\ sub'[s] # sub[s] =>
        \/ sub'[s] \in SubTransitions[sub[s]]
        \/ \E r \in InFlight : req[r].to.s = s /\ req[r].to.st = sub'[s] /\ req[r].to.was # sub[s]]_vars

-----------------------------------------------------------------------------
(* billing-event.consumer.ts:25: "subscription.cancelled/expired ->        *)
(* suspend institute".                                                     *)
CancellationSuspends == \A r \in Requests :
    req[r].op \in {"cancel", "expire"} /\ req[r].pc = "done" ~> institute = "SUSPENDED"

-----------------------------------------------------------------------------
(* upi-verification-expiry.workflow.ts: "Expires PENDING_VERIFICATION UPI  *)
(* P2P payments past 24h deadline."  A transfer nobody verified does not   *)
(* stay pending for ever.                                                  *)
UnverifiedExpires == \A p \in Payments :
    payment[p].ver = "PENDING_VERIFICATION" ~> payment[p].ver # "PENDING_VERIFICATION"
=============================================================================
