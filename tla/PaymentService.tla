--------------------------- MODULE PaymentService ---------------------------
(***************************************************************************)
(* reseller/payment.service.ts with repositories/payment.repository.ts.    *)
(* Each method is a first step, which makes the checks, and the writes     *)
(* that follow; markPaid and markRefunded are steps of InvoiceService.     *)
(***************************************************************************)
EXTENDS InvoiceService

Payable(i) == invoice[i].st \notin {"ABSENT", "PAID", "REFUNDED"}

Remaining(i) == Total - invoice[i].paid

\* The request's payment row is written and the request goes on at pc.
WritePayment(r, p, row, pc) ==
    /\ payment' = [payment EXCEPT ![p] = row]
    /\ req' = [req EXCEPT ![r].p = p, ![r].pc = pc]
    /\ UNCHANGED <<invoice, sub, institute, refundedOut>>
    /\ SameRun

NewRow(r, st) == [NoRow EXCEPT !.st = st, !.inv = req[r].i, !.amt = req[r].amt]

-----------------------------------------------------------------------------
(* recordManualPayment *)
ManualStart(r, i, amt) ==
    /\ Payable(i)
    /\ Start(r, "manual", "manualCreate", [Idle EXCEPT !.i = i, !.amt = amt])

ManualCreate(r) == \E p \in Payments :
    /\ At(r, "manualCreate")
    /\ Free(p)
    /\ WritePayment(r, p, NewRow(r, "SUCCEEDED"), "markPaidRead")

(* initiatePayment: the gateway order is for what remained when read; a    *)
(* gateway takes no order of nothing.                                      *)
InitiateStart(r, i) ==
    /\ Payable(i)
    /\ Remaining(i) > 0
    /\ Start(r, "initiate", "orderCreate", [Idle EXCEPT !.i = i, !.amt = Remaining(i)])

OrderCreate(r) == \E p \in Payments :
    /\ At(r, "orderCreate")
    /\ Free(p)
    /\ WritePayment(r, p, [NewRow(r, "PENDING") EXCEPT !.order = "OPEN"], "done")

\* The customer pays order p at the gateway; the browser may never return.
CustomerPays(p) ==
    /\ "initiate" \in Ops
    /\ payment[p].order = "OPEN"
    /\ payment' = [payment EXCEPT ![p].order = "CAPTURED"]
    /\ UNCHANGED <<invoice, sub, institute, refundedOut, req>>
    /\ SameRun

(* verifyPayment: the browser returns from the gateway with the order paid. *)
VerifyStart(r, p) ==
    /\ payment[p].order = "CAPTURED"
    /\ payment[p].st = "PENDING"
    /\ Start(r, "verify", "verifyUpdate",
             [Idle EXCEPT !.i = payment[p].inv, !.p = p, !.amt = payment[p].amt])

VerifyUpdate(r) ==
    LET p == req[r].p
    IN  /\ At(r, "verifyUpdate")
        /\ WritePayment(r, p, [payment[p] EXCEPT !.st = "SUCCEEDED", !.gid = p], "markPaidRead")

(* The gateway's webhook: order g is paid.  It may come before or after    *)
(* the browser returns, and more than once.                                *)
WebhookStart(r, g) ==
    /\ payment[g].order = "CAPTURED"
    /\ Start(r, "webhook", "webhookLookup", [Idle EXCEPT !.p = g])

\* The gateway's body has no key of ours (initiatePayment sends no notes):
\* payload.invoiceId ?? '' and payload.tenantId ?? '' are empty.
WebhookBody == [event |-> "payment.captured"]

\* The columns invoice_id and tenant_id are NOT NULL uuids.
InsertAllowed(body) == {"invoiceId", "tenantId"} \subseteq DOMAIN body

(* handleWebhookPayment: findOrCreateByGatewayId returns the row that      *)
(* records the gateway payment, and otherwise inserts one; the insert is   *)
(* refused and the controller answers 400.  Neither changes a row.         *)
WebhookEnd(r) ==
    /\ At(r, "webhookLookup")
    /\ (\E p \in Payments : payment[p].gid = req[r].p) \/ ~InsertAllowed(WebhookBody)
    /\ Goto(r, "done")
    /\ Untouched

-----------------------------------------------------------------------------
\* Mutant of Refundable: what was already refunded is not looked at.
RefundableAgain(p, amt) ==
    payment[p].st \in {"SUCCEEDED", "PARTIALLY_REFUNDED"} /\ amt <= payment[p].amt

Refundable(p, amt) ==
    /\ payment[p].st = "SUCCEEDED"
    /\ payment[p].refunded + amt <= payment[p].amt

(* issueRefund.  For a gateway payment the gateway pays out first, for the *)
(* others the reseller does; a gateway error ends the request.             *)
RefundStart(r, p, amt) ==
    /\ Refundable(p, amt)
    /\ Start(r, "refund", "refundPayer",
             [Idle EXCEPT !.i = payment[p].inv, !.p = p, !.amt = amt, !.paid = payment[p].refunded])

RefundPayer(r) ==
    /\ At(r, "refundPayer")
    /\ \/ /\ refundedOut' = [refundedOut EXCEPT ![req[r].p] = @ + req[r].amt]
          /\ Goto(r, "refundUpdate")
       \/ /\ payment[req[r].p].gid # NoPayment
          /\ Goto(r, "done")
          /\ UNCHANGED refundedOut
    /\ UNCHANGED <<invoice, payment, sub, institute>>
    /\ SameRun

\* Here req[r].paid is refundedAmountPaise as it was read.
RefundUpdate(r) ==
    LET q == req[r]
        total == q.paid + q.amt
        st == IF total >= payment[q.p].amt THEN "REFUNDED" ELSE "PARTIALLY_REFUNDED"
    IN  /\ At(r, "refundUpdate")
        /\ WritePayment(r, q.p, [payment[q.p] EXCEPT !.st = st, !.refunded = total],
                        "markRefundedRead")

-----------------------------------------------------------------------------
(* submitUpiProof: a UPI transfer is trusted before it is verified.        *)
SubmitUpiStart(r, i, u) ==
    /\ invoice[i].st \in {"SENT", "PARTIALLY_PAID", "OVERDUE"}
    /\ Start(r, "submitUpi", "utrCheck", [Idle EXCEPT !.i = i, !.amt = Remaining(i), !.utr = u])

\* Mutant of UtrSubmitted: the duplicate check finds nothing.
UtrSubmittedNever(u) == FALSE

UtrSubmitted(u) == \E p \in Payments : payment[p].utr = u

UtrCheck(r) ==
    /\ At(r, "utrCheck")
    /\ Goto(r, IF UtrSubmitted(req[r].utr) THEN "done" ELSE "upiCreate")
    /\ Untouched

UpiCreate(r) == \E p \in Payments :
    /\ At(r, "upiCreate")
    /\ Free(p)
    /\ WritePayment(r, p, [NewRow(r, "SUCCEEDED") EXCEPT !.ver = "PENDING_VERIFICATION",
                                                        !.utr = req[r].utr], "markPaidRead")

\* A request reads the newest current subscription: if it has status from
\* the request will write status to, and otherwise it goes on at pc.
ReadSub(r, from, to, write, pc) ==
    /\ \/ \E s \in Subs : /\ IsNewestCurrent(s)
                          /\ sub[s] = from
                          /\ req' = [req EXCEPT ![r].pc = write, ![r].to = [s |-> s, was |-> from, st |-> to]]
       \/ /\ \A s \in Subs : IsNewestCurrent(s) => sub[s] # from
          /\ Goto(r, pc)
    /\ Untouched

\* subscriptionRepo.update; a refused write ends the request with an error.
WriteSub(r, pc) ==
    LET after == [sub EXCEPT ![req[r].to.s] = req[r].to.st]
    IN  /\ IF IndexAllows(after) THEN sub' = after /\ Goto(r, pc)
                                 ELSE UNCHANGED sub /\ Goto(r, "done")
        /\ UNCHANGED <<invoice, payment, institute, refundedOut>>
        /\ SameRun

(* reactivateIfPastDue *)
ReactivateRead(r) ==
    /\ At(r, "reactivateRead")
    /\ ReadSub(r, "PAST_DUE", "ACTIVE", "reactivateWrite", "done")

ReactivateWrite(r) ==
    /\ At(r, "reactivateWrite")
    /\ WriteSub(r, "done")

-----------------------------------------------------------------------------
(* verifyUpiPayment *)
VerifyUpiStart(r, p) ==
    /\ payment[p].ver = "PENDING_VERIFICATION"
    /\ Start(r, "verifyUpi", "upiVerify", [Idle EXCEPT !.i = payment[p].inv, !.p = p])

UpiVerify(r) ==
    LET p == req[r].p
    IN  /\ At(r, "upiVerify")
        /\ WritePayment(r, p, [payment[p] EXCEPT !.ver = "VERIFIED"], "done")

(* rejectUpiPayment: markRefunded, revertToPastDueIfNeeded, then the row.  *)
RejectUpiStart(r, p) ==
    /\ payment[p].ver = "PENDING_VERIFICATION"
    /\ Start(r, "rejectUpi", "markRefundedRead",
             [Idle EXCEPT !.i = payment[p].inv, !.p = p, !.amt = payment[p].amt])

RevertInvoiceRead(r) ==
    /\ At(r, "revertInvoiceRead")
    /\ Goto(r, IF invoice[req[r].i].st # "PAID" THEN "revertSubRead" ELSE "rejectUpdate")
    /\ Untouched

RevertSubRead(r) ==
    /\ At(r, "revertSubRead")
    /\ ReadSub(r, "ACTIVE", "PAST_DUE", "revertWrite", "rejectUpdate")

RevertWrite(r) ==
    /\ At(r, "revertWrite")
    /\ WriteSub(r, "rejectUpdate")

RejectUpdate(r) ==
    LET p == req[r].p
    IN  /\ At(r, "rejectUpdate")
        /\ WritePayment(r, p, [payment[p] EXCEPT !.st = "FAILED", !.ver = "REJECTED"], "done")

-----------------------------------------------------------------------------
PaymentStart(r) ==
    \/ \E i \in Invoices, amt \in Amounts : ManualStart(r, i, amt)
    \/ \E i \in Invoices : InitiateStart(r, i)
    \/ \E p \in Payments : VerifyStart(r, p)
    \/ \E p \in Payments : WebhookStart(r, p)
    \/ \E p \in Payments, amt \in Amounts : RefundStart(r, p, amt)
    \/ \E i \in Invoices, u \in Utrs : SubmitUpiStart(r, i, u)
    \/ \E p \in Payments : VerifyUpiStart(r, p)
    \/ \E p \in Payments : RejectUpiStart(r, p)

PaymentStep(r) ==
    \/ ManualCreate(r)
    \/ OrderCreate(r)
    \/ VerifyUpdate(r)
    \/ WebhookEnd(r)
    \/ RefundPayer(r)
    \/ RefundUpdate(r)
    \/ UtrCheck(r)
    \/ UpiCreate(r)
    \/ ReactivateRead(r)
    \/ ReactivateWrite(r)
    \/ UpiVerify(r)
    \/ RevertInvoiceRead(r)
    \/ RevertSubRead(r)
    \/ RevertWrite(r)
    \/ RejectUpdate(r)
=============================================================================
