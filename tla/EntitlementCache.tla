--------------------------- MODULE EntitlementCache ---------------------------
(***************************************************************************)
(* The entitlements of one tenant, cached in Redis: entitlement.service.ts *)
(* reads them through SubscriptionReaderImpl, and                          *)
(* entitlement-cache.consumer.ts subscribes to the billing events of the   *)
(* gateway's own process in order to delete the key.                       *)
(*                                                                         *)
(* The plan in force is a version number that grows with every change.     *)
(* Time is counted in ticks.                                               *)
(***************************************************************************)
EXTENDS Integers

CONSTANTS
    Readers,      \* calls of getEntitlements under way
    MaxVersion,   \* bound: changes of the plan in force
    CacheTtl,     \* CACHE_TTL_SECONDS
    MaxFill       \* bound: ticks between a reader's SELECT and its SETEX

ASSUME EntitlementAssumption ==
    /\ MaxVersion \in Nat
    /\ CacheTtl \in Nat \ {0}
    /\ MaxFill \in Nat

Versions == 0..MaxVersion
Window == MaxFill + CacheTtl

VARIABLES
    current,      \* the plan that findActiveByTenant returns
    cache,        \* the key: version and ticks left
    pending,      \* versions whose end is committed and whose event is to come
    call,         \* getEntitlements calls: step, version read, ticks since
    \* History, read by no guard:
    age           \* ticks since each version was superseded, up to Window + 1

vars == <<current, cache, pending, call, age>>

Empty == [v |-> 0, ttl |-> 0]
Idle == [at |-> "idle", v |-> 0, since |-> 0]

TypeOK ==
    /\ current \in Versions
    /\ cache \in [v : Versions, ttl : 0..CacheTtl]
    /\ pending \subseteq Versions
    /\ call \in [Readers -> [at : {"idle", "select", "store", "answer"},
                             v : Versions, since : 0..MaxFill]]
    /\ age \in [Versions -> 0..(Window + 1)]

Init ==
    /\ current = 0
    /\ cache = Empty
    /\ pending = {}
    /\ call = [r \in Readers |-> Idle]
    /\ age = [v \in Versions |-> 0]

Goto(r, step, v) == call' = [call EXCEPT ![r] = [at |-> step, v |-> v, since |-> 0]]
-----------------------------------------------------------------------------
\* Mutant of GetHit: a read renews the entry's lifetime.
GetHitRenews(r) ==
    /\ call[r].at = "idle"
    /\ cache.ttl > 0
    /\ cache' = [cache EXCEPT !.ttl = CacheTtl]
    /\ Goto(r, "answer", cache.v)
    /\ UNCHANGED <<current, pending, age>>

(* getEntitlements: GET, then on a miss SELECT and SETEX.                  *)
GetHit(r) ==
    /\ call[r].at = "idle"
    /\ cache.ttl > 0
    /\ Goto(r, "answer", cache.v)
    /\ UNCHANGED <<current, cache, pending, age>>

GetMiss(r) ==
    /\ call[r].at = "idle"
    /\ cache.ttl = 0
    /\ Goto(r, "select", 0)
    /\ UNCHANGED <<current, cache, pending, age>>

FindActiveByTenant(r) ==
    /\ call[r].at = "select"
    /\ Goto(r, "store", current)
    /\ UNCHANGED <<current, cache, pending, age>>

\* Mutant of Store: the lifetime is one tick too long.
StoreLonger(r) ==
    /\ call[r].at = "store"
    /\ cache' = [v |-> call[r].v, ttl |-> CacheTtl + 1]
    /\ Goto(r, "answer", call[r].v)
    /\ UNCHANGED <<current, pending, age>>

Store(r) ==
    /\ call[r].at = "store"
    /\ cache' = [v |-> call[r].v, ttl |-> CacheTtl]
    /\ Goto(r, "answer", call[r].v)
    /\ UNCHANGED <<current, pending, age>>

Done(r) ==
    /\ call[r].at = "answer"
    /\ Goto(r, "idle", 0)
    /\ UNCHANGED <<current, cache, pending, age>>
-----------------------------------------------------------------------------
(* changePlan, cancelSubscription and expireSubscription commit; the event *)
(* follows in a later step.                                                *)
ChangeAnnounced ==
    /\ current < MaxVersion
    /\ current' = current + 1
    /\ pending' = pending \cup {current}
    /\ UNCHANGED <<cache, call, age>>

(* assignPlan emits subscription.created, updatePlan edits the plan's      *)
(* entitlements in place and emits plan.updated: the consumer listens to   *)
(* neither.  cancelGracePeriodExpired and processTrialExpiry emit nothing. *)
ChangeUnannounced ==
    /\ current < MaxVersion
    /\ current' = current + 1
    /\ UNCHANGED <<cache, pending, call, age>>

(* EventBusService.emit publishes an event's data under the key of its     *)
(* GraphQL field.  (Only the data of cancelled and expired names the       *)
(* tenant; that of plan_changed does not.)                                 *)
Published == [billingSubscriptionExpired |-> [tenantId |-> "institute"]]

(* The event, and inside its publish EntitlementCacheConsumer, which       *)
(* deletes the key of data.tenantId: there is none, and it deletes nothing *)
(* ("invalidates entitlement cache on subscription changes", its comment   *)
(* says, entitlement-cache.consumer.ts:14).                                *)
Announce(v) ==
    /\ v \in pending
    /\ pending' = pending \ {v}
    /\ cache' = IF "tenantId" \in DOMAIN Published THEN Empty ELSE cache
    /\ UNCHANGED <<current, call, age>>

\* The process ends between the commit and the event.
AnnounceLost(v) ==
    /\ v \in pending
    /\ pending' = pending \ {v}
    /\ UNCHANGED <<current, cache, call, age>>

Older(v) == IF v < current /\ age[v] <= Window THEN age[v] + 1 ELSE age[v]
Storing(c) == c.at = "store"

Tick ==
    /\ \A r \in Readers : Storing(call[r]) => call[r].since < MaxFill
    /\ cache' = IF cache.ttl > 1 THEN [cache EXCEPT !.ttl = @ - 1] ELSE Empty
    /\ call' = [r \in Readers |-> IF Storing(call[r])
                                  THEN [call[r] EXCEPT !.since = @ + 1] ELSE call[r]]
    /\ age' = [v \in Versions |-> Older(v)]
    /\ UNCHANGED <<current, pending>>

Next ==
    \/ \E r \in Readers : \/ GetHit(r) \/ GetMiss(r) \/ FindActiveByTenant(r)
                          \/ Store(r) \/ Done(r)
    \/ ChangeAnnounced \/ ChangeUnannounced
    \/ \E v \in Versions : Announce(v) \/ AnnounceLost(v)
    \/ Tick

Spec == Init /\ [][Next]_vars
-----------------------------------------------------------------------------
(* Although no invalidation ever takes effect, getEntitlements answers     *)
(* with the plan in force or with one superseded at most CACHE_TTL_SECONDS *)
(* and one fill ago.                                                       *)
Answer == [r \in Readers |-> IF call[r].at = "answer" THEN call[r].v ELSE -1]
Abstract == INSTANCE BoundedStaleness WITH answer <- Answer
StaleBounded == Abstract!Spec
=============================================================================
