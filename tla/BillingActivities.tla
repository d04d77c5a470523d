-------------------------- MODULE BillingActivities --------------------------
(***************************************************************************)
(* workflows/billing.activities.ts: the scheduled activities.  Each is one *)
(* admin transaction.  The clock is left out: a deadline may have passed   *)
(* for any row the activity's condition allows.  The clean-up after a      *)
(* reseller's deletion is not modelled: nothing starts its workflow.       *)
(*                                                                         *)
(* Every write sets updatedBy to 'SYSTEM'.  The column's type is uuid, and *)
(* a database that enforces it aborts the transaction (SystemActorAccepted *)
(* = FALSE); Temporal tries the activity again.                            *)
(***************************************************************************)
EXTENDS SubscriptionService

\* Sets the status of the subscriptions in S; no event is emitted.
SetSubs(S, st) ==
    /\ SystemActorAccepted
    /\ S # {}
    /\ sub' = [s \in Subs |-> IF s \in S THEN st ELSE sub[s]]
    /\ UNCHANGED <<invoice, payment, institute, refundedOut, req>>
    /\ SameRun

GraceOver == {s \in Subs : sub[s] = "PAST_DUE"}

CancelGracePeriodExpired ==
    /\ Offered("cancelGrace")
    /\ \E S \in SUBSET GraceOver : SetSubs(S, "CANCELLED")

ProcessTrialExpiry ==
    /\ Offered("trialExpiry")
    /\ \E S \in SUBSET {s \in Subs : sub[s] = "TRIALING"} : SetSubs(S, "EXPIRED")

\* Mutant of Overdue: a partly paid invoice becomes overdue too.
OverduePartlyPaid == {i \in Invoices : invoice[i].st \in {"SENT", "PARTIALLY_PAID"}}

Overdue == {i \in Invoices : invoice[i].st = "SENT"}

MarkOverdueInvoices ==
    /\ Offered("markOverdue")
    /\ SystemActorAccepted
    /\ \E I \in (SUBSET Overdue) \ {{}} :
          invoice' = [i \in Invoices |-> IF i \in I THEN [invoice[i] EXCEPT !.st = "OVERDUE"]
                                                    ELSE invoice[i]]
    /\ UNCHANGED <<payment, sub, institute, refundedOut, req>>
    /\ SameRun

-----------------------------------------------------------------------------
(* expireUpiVerifications for one payment past its deadline: an execution  *)
(* that finds several repeats this for each.  The transaction reads the    *)
(* payment, then the invoice, and makes its writes visible when it commits.*)
ExpireStart(r, p) ==
    /\ payment[p].ver = "PENDING_VERIFICATION"
    /\ Start(r, "expireUpi", "expireRead",
             [Idle EXCEPT !.i = payment[p].inv, !.p = p, !.amt = payment[p].amt])

\* The payment's update comes before the read of its invoice.
ExpireRead(r) == SystemActorAccepted /\ ReadInvoice(r, "expireRead", "expireCommit")

ExpiredStatus(paid) == IF paid <= 0 THEN "SENT" ELSE "PARTIALLY_PAID"

\* Some ACTIVE subscription of the institute becomes PAST_DUE, if there is one.
DemoteSome ==
    \/ \E s \in Subs : sub[s] = "ACTIVE" /\ sub' = [sub EXCEPT ![s] = "PAST_DUE"]
    \/ (\A s \in Subs : sub[s] # "ACTIVE") /\ UNCHANGED sub

ExpireCommit(r) ==
    LET q == req[r]
        paid == AtLeastZero(q.paid - q.amt)
    IN  /\ At(r, "expireCommit")
        /\ payment' = [payment EXCEPT ![q.p].st = "FAILED", ![q.p].ver = "EXPIRED"]
        /\ invoice' = [invoice EXCEPT ![q.i].st = ExpiredStatus(paid), ![q.i].paid = paid]
        /\ DemoteSome
        /\ Goto(r, "done")
        /\ UNCHANGED <<institute, refundedOut>>
        /\ SameRun

-----------------------------------------------------------------------------
\* Mutant of Renewed: the next period has never been billed.
RenewedNever(s) == FALSE

\* The next period of subscription s has its invoice.
Renewed(s) == \E i \in Invoices :
    invoice[i].st # "ABSENT" /\ invoice[i].of = s /\ invoice[i].period = "next"

(* processRenewals for one subscription that nears the end of its period:  *)
(* the transaction looks for the next invoice and, finding none, inserts   *)
(* it.  No lock or constraint keeps another attempt from doing the same.   *)
RenewStart(r, s) ==
    /\ sub[s] = "ACTIVE"
    /\ ~Renewed(s)
    /\ Start(r, "renew", "renewInsert", [Idle EXCEPT !.to.s = s])

RenewInsert(r) ==
    /\ At(r, "renewInsert")
    /\ SystemActorAccepted
    /\ \E i \in Invoices :
          /\ InsertInvoice(i, req[r].to.s, "next")
          /\ req' = [req EXCEPT ![r].pc = "done", ![r].i = i]
    /\ UNCHANGED <<payment, sub, institute, refundedOut>>
    /\ SameRun

-----------------------------------------------------------------------------
\* The transaction fails and leaves nothing; the activity is tried again.
ActivityAbort(r) ==
    /\ \E pc \in {"expireRead", "expireCommit", "renewInsert"} : At(r, pc)
    /\ req' = [req EXCEPT ![r] = Idle]
    /\ met' = [t \in Requests |-> IF t = r THEN {} ELSE met[t] \ {r}]
    /\ UNCHANGED <<tables, dead, crashes>>

ActivityStart(r) ==
    \/ \E p \in Payments : ExpireStart(r, p)
    \/ \E s \in Subs : RenewStart(r, s)

ActivityStep(r) ==
    \/ ExpireRead(r)
    \/ ExpireCommit(r)
    \/ RenewInsert(r)
    \/ ActivityAbort(r)

Cron ==
    \/ CancelGracePeriodExpired
    \/ ProcessTrialExpiry
    \/ MarkOverdueInvoices
=============================================================================
