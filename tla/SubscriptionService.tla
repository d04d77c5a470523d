------------------------- MODULE SubscriptionService -------------------------
(***************************************************************************)
(* reseller/subscription.service.ts: a reseller assigns, pauses, resumes,  *)
(* cancels and expires subscriptions.  Each method reads the subscription  *)
(* and asserts the transition in one transaction and writes in another.    *)
(* changePlan keeps the status: it is a change in EntitlementCache.        *)
(***************************************************************************)
EXTENDS PaymentService

Target == [pause |-> "PAUSED", resume |-> "ACTIVE", cancel |-> "CANCELLED", expire |-> "EXPIRED"]

\* Mutant of MayBecome: the transition is not asserted.
MayBecomeAnything(s, st) == sub[s] # st

\* SUBSCRIPTION_STATE_MACHINE.assertTransition
MayBecome(s, st) == st \in SubTransitions[sub[s]]

(* pauseSubscription, resumeSubscription, cancelSubscription and           *)
(* expireSubscription up to the update.                                    *)
ChangeStart(r, op, s) ==
    /\ s \in Existing
    /\ MayBecome(s, Target[op])
    /\ Start(r, op, "subWrite", [Idle EXCEPT !.to = [s |-> s, was |-> sub[s], st |-> Target[op]]])

(* Their update, which names the row and not the status it was read with,  *)
(* and the event.                                                          *)
SubWrite(r) ==
    /\ At(r, "subWrite")
    /\ WriteSub(r, "done")
    /\ req[r].op = "cancel" => Announce("billingSubscriptionCancelled")
    /\ req[r].op = "expire" => Announce("billingSubscriptionExpired")

-----------------------------------------------------------------------------
(* assignPlan: refused while a subscription is not over.  Plans with and   *)
(* without a trial exist; only the latter get a first invoice.             *)
AssignStart(r) ==
    /\ Current = {}
    /\ \E st \in {"TRIALING", "ACTIVE"} :
          Start(r, "assign", "assignCreate", [Idle EXCEPT !.to = [s |-> 1, was |-> "ABSENT", st |-> st]])

\* The next row in the order of createdAt.
NextSub(s) == s \notin Existing /\ \A t \in Subs : t < s => t \in Existing

AssignCreate(r) == \E s \in Subs :
    LET st == req[r].to.st
        after == [sub EXCEPT ![s] = st]
    IN  /\ At(r, "assignCreate")
        /\ NextSub(s)
        /\ IF IndexAllows(after)
           THEN /\ sub' = after
                /\ req' = [req EXCEPT ![r].to.s = s,
                                      ![r].pc = IF st = "ACTIVE" THEN "invoiceCreate" ELSE "done"]
           ELSE /\ Goto(r, "done")
                /\ UNCHANGED sub
        /\ UNCHANGED <<invoice, payment, institute, refundedOut>>
        /\ SameRun

-----------------------------------------------------------------------------
SubscriptionStart(r) ==
    \/ \E op \in DOMAIN Target, s \in Subs : ChangeStart(r, op, s)
    \/ AssignStart(r)

SubscriptionStep(r) ==
    \/ SubWrite(r)
    \/ AssignCreate(r)
=============================================================================
