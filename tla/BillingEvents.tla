---------------------------- MODULE BillingEvents ----------------------------
(***************************************************************************)
(* The in-process subscribers of billing events.  EventBusService.emit     *)
(* publishes an event's data wrapped under the key of its GraphQL field,   *)
(* and pubSub (in memory) calls the subscribers inside that publish: what  *)
(* they do before their first await is part of the step that emits.        *)
(***************************************************************************)
EXTENDS BillingState

\* EventBusService.emit; the data always names the tenant.
Published(key) == [k \in {key} |-> [tenantId |-> "institute"]]

\* Each subscriber of billing-event.consumer.ts begins: no tenantId, return.
Returns(data) == "tenantId" \notin DOMAIN data

(* BillingEventConsumer on subscription.cancelled and subscription.expired *)
(* and on invoice.paid.  What lies behind the guard - suspending the       *)
(* institute, making its PAST_DUE subscription ACTIVE again - is never     *)
(* reached and has no step here.                                           *)
Announce(key) == Returns(Published(key)) /\ UNCHANGED institute
=============================================================================
