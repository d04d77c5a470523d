--------------------------- MODULE InvoiceService ---------------------------
(***************************************************************************)
(* reseller/invoice.service.ts: generateInvoice, markPaid, markRefunded.   *)
(* The last two read the invoice in one transaction and write paidAmount   *)
(* and status in another; requests of other callers can come in between.   *)
(***************************************************************************)
EXTENDS BillingEvents

PaidStatus(paid) == IF paid >= Total THEN "PAID" ELSE "PARTIALLY_PAID"

\* Mutant of RefundStatus: a full refund cancels the invoice.
RefundStatusCancels(paid) == IF paid = 0 THEN "CANCELLED" ELSE "PARTIALLY_PAID"

RefundStatus(paid) == IF paid = 0 THEN "REFUNDED" ELSE "PARTIALLY_PAID"

AtLeastZero(n) == IF n < 0 THEN 0 ELSE n

\* A new row i for a period of subscription s.
InsertInvoice(i, s, period) ==
    /\ invoice[i].st = "ABSENT" /\ \A j \in Invoices : j < i => invoice[j].st # "ABSENT"
    /\ invoice' = [invoice EXCEPT ![i] = [st |-> "SENT", paid |-> 0, of |-> s, period |-> period]]

(* resellerGenerateInvoice: for any subscription, billed before or not.    *)
GenerateStart(r, s) ==
    /\ s \in Existing
    /\ Start(r, "generate", "invoiceCreate", [Idle EXCEPT !.to.s = s])

(* generateInvoice *)
GenerateInvoice(r) ==
    /\ At(r, "invoiceCreate")
    /\ \E i \in Invoices : InsertInvoice(i, req[r].to.s, "current")
    /\ Goto(r, "done")
    /\ UNCHANGED <<payment, sub, institute, refundedOut>>
    /\ SameRun

-----------------------------------------------------------------------------
\* First transaction of markPaid and markRefunded: remember paidAmount.
ReadInvoice(r, from, to) ==
    /\ At(r, from)
    /\ req' = [req EXCEPT ![r].pc = to, ![r].paid = invoice[req[r].i].paid]
    /\ Untouched

MarkPaidRead(r) == ReadInvoice(r, "markPaidRead", "markPaidWrite")

MarkRefundedRead(r) == ReadInvoice(r, "markRefundedRead", "markRefundedWrite")

\* Mutant of MarkPaidWrite: sets the paid amount instead of adding to it.
MarkPaidWriteSets(r) ==
    LET q == req[r]
    IN  /\ At(r, "markPaidWrite")
        /\ invoice' = [invoice EXCEPT ![q.i].st = PaidStatus(q.amt), ![q.i].paid = q.amt]
        /\ IF q.amt >= Total THEN Announce("billingInvoicePaid") ELSE UNCHANGED institute
        /\ Goto(r, IF q.op = "submitUpi" THEN "reactivateRead" ELSE "done")
        /\ UNCHANGED <<payment, sub, refundedOut>>
        /\ SameRun

(* markPaid, second transaction; emits invoice.paid when fully paid.       *)
MarkPaidWrite(r) ==
    LET q == req[r]
        paid == q.paid + q.amt
    IN  /\ At(r, "markPaidWrite")
        /\ invoice' = [invoice EXCEPT ![q.i].st = PaidStatus(paid), ![q.i].paid = paid]
        /\ IF paid >= Total THEN Announce("billingInvoicePaid") ELSE UNCHANGED institute
        /\ Goto(r, IF q.op = "submitUpi" THEN "reactivateRead" ELSE "done")
        /\ UNCHANGED <<payment, sub, refundedOut>>
        /\ SameRun

(* markRefunded, second transaction.                                       *)
MarkRefundedWrite(r) ==
    LET q == req[r]
        paid == AtLeastZero(q.paid - q.amt)
    IN  /\ At(r, "markRefundedWrite")
        /\ invoice' = [invoice EXCEPT ![q.i].st = RefundStatus(paid), ![q.i].paid = paid]
        /\ Goto(r, IF q.op = "rejectUpi" THEN "revertInvoiceRead" ELSE "done")
        /\ UNCHANGED <<payment, sub, institute, refundedOut>>
        /\ SameRun

InvoiceStart(r) == \E s \in Subs : GenerateStart(r, s)

InvoiceStep(r) ==
    \/ GenerateInvoice(r)
    \/ MarkPaidRead(r)
    \/ MarkPaidWrite(r)
    \/ MarkRefundedRead(r)
    \/ MarkRefundedWrite(r)
=============================================================================
