# Roviq: a TLA+ model of the event, billing and sign-in code

Roviq is a multi-tenant school management platform: an API gateway (NestJS,
GraphQL), a notification service, a web frontend, PostgreSQL with row-level
security, NATS JetStream for events and Temporal for long-running work.  This
directory models the parts of the back end in which several actors change shared
state: the event transport, the consumers behind it, the billing services, and the
sessions, lockout, impersonation and entitlement cache that guard a request.

## 1. Inventory

| Part | State | Operations | What is hard |
|---|---|---|---|
| JetStream transport server (`libs/backend/nats-jetstream`) | per replica: semaphore, running handlers; in NATS: delivery counts | consume loop, `processMessage`, retry, dead-letter, close, listen | redelivery while a handler runs, handler timeouts that do not stop the handler, stops between two steps, lost DLQ acknowledgements |
| Stream and consumer bootstrap | streams and durable consumers in NATS | create, drift repair at boot | idempotence; not concurrent with the rest |
| JetStream client and event bus | none | publish with headers, request/reply; `EventBusService.emit` also publishes to in-process subscribers | publish acknowledgements; the in-process payload is wrapped under another key |
| Audit consumer (`apps/api-gateway/src/audit`) | messages fetched ahead, buffer, running flushes, `audit_logs` | fetch, take, size flush, timer flush, batch insert, nak / dead-letter, destroy | flushes overlap, `ack_wait` runs while fetched messages wait for a flush, one bad row fails a batch, an error ends the loop |
| Dead-letter desk (`apps/api-gateway/src/dlq`) | `dlq_messages` | persist, replay, discard | redelivery after a decision, replay overlapping discard, publish inside a transaction |
| Payments (`ee/.../billing/reseller/payment.service.ts`) | payment rows | gateway order, verify, webhook, manual payment, refund, UPI proof / verify / reject | every repository call is its own transaction; two refunds or two submissions race; crash between two transactions; the webhook's row is refused |
| Invoices | status, `paidAmount`, period | generate (plan assignment, reseller, renewal), markPaid, markRefunded | read-modify-write over two transactions |
| Subscriptions | status per row, partial unique index | assign, pause, resume, cancel, expire, change plan | assert in one transaction, write in another |
| Billing activities | (same rows) | renewal, grace cancellation, trial expiry, overdue, UPI expiry | run by a scheduler next to requests, tried again, emit no events |
| Billing event consumer | institute status | meant to suspend and reactivate | its handlers look for a `tenantId` that the wrapped payload does not have, and return |
| Sessions and refresh tokens (`auth.service.ts`) | `refresh_tokens`, `passwordChangedAt` | login, refresh, switch, logout, revoke one / others, password change, reseller suspension | two refreshes of one token, refresh during a password change, reuse cascade on a stale read, a switch with an access token of a revoked session |
| Login lockout (`login-lockout.service.ts`) | failure counter and lock in Redis | check, count, lock, clear | overlapping logins jump over the limit; a crash between count and lock |
| Impersonation sessions | session row, OTP, one-time code, guard's cache, tombstone | start, verify OTP, exchange code, end, guard a request, reseller suspension | a guard fills the cache after the session has ended |
| Entitlement cache | one Redis key per tenant | read-through; a consumer meant to invalidate | changes that announce nothing, a consumer that deletes nothing, late fills |
| Institute setup, bulk import | Temporal workflow state | phases, batches | activities retried after they have committed |
| Admissions, certificates, leave, attendance, groups, timetable, examinations | rows of one tenant | status machines, CRUD | mostly sequential |
| Authorization (CASL), circuit breaker, notification service, audit partitions, web frontend, schema and migrations | | | libraries, I/O, or no state of their own |

How the parts interact.  A service emits an event through the JetStream client;
the transport server of each consumer pulls it, runs the handler and answers NATS
(ack, nak, term).  A message that does not parse or has failed `maxDeliver` times
is published on the DLQ stream.  The audit consumer pulls `AUDIT.log` by itself,
without the transport server, and dead-letters by itself.  The DLQ consumer copies
the DLQ stream into `dlq_messages`, where an admin replays (publishes on the
original subject again) or discards.  Billing requests, gateway webhooks and Temporal
activities write the same invoices, payments and subscriptions; what they emit also
reaches in-process subscribers, which as the code stands do nothing with it.  A request that reaches any of them has passed the sign-in code:
a refresh token rotated by `refreshToken`, or an impersonation token checked by a
guard that reads through Redis.

What makes each part correct:

- transport: no message is forgotten without a completed handler run or a dead
  letter; slots are never lost; a published message does not stay in limbo;
- audit: no event is acked without its row or dead letter; overlapping flushes do
  not share a message; every event is eventually kept;
- dead-letter desk: an acked record has its row; the admin's decision survives
  redelivery; the replay count is never above the copies published;
- billing: status and amount of an invoice agree; no row records too large a refund;
  `paidAmount` is what the payments add up to, the payer is not handed back more than
  was paid, a UTR is credited once, a period is billed once and statuses follow the
  state machine, except through requests that overlapped or died on that very row;
- sessions: no refresh begun after a password change prolongs an older session; after
  a sign-out of all sessions, what is live comes from a later login, a request that
  was under way, or a switch with an access token; a token has two successors only
  when two refreshes overlap;
- lockout: overlap and crashes let through a bounded number of wrong passwords;
- caches: what has ended is not let through, or not for longer than the cache's
  lifetime and one fill.

The hazards that these properties are aimed at are listed, line by line, in
`PROJECT.json`.

## 2. Modules

| Module | Models |
|---|---|
| `AtLeastOnce` | the abstract promise of the transport: accept, execute, record, finish |
| `JetStreamServer` | `jetstream.server.ts`, `semaphore.ts`, `dlq.handler.ts`, `resolve-consumer-config.ts` |
| `JetStreamServerProofs` | theorems about `JetStreamServer`, refinement included |
| `AuditConsumer`, `AuditConsumerProofs` | `audit.consumer.ts`, fetching ahead included |
| `Dlq`, `DlqProofs` | `dlq.consumer.ts`, `dlq.service.ts` |
| `BillingState` | tables, state machine, partial index, requests in flight |
| `InvoiceService`, `PaymentService`, `SubscriptionService` | the three reseller services, one action per transaction |
| `BillingActivities` | scheduled activities |
| `BillingEvents` | what the in-process subscribers do with `EventBusService`'s payload: return |
| `Billing` | their composition: the next-state relation, crashes, the properties |
| `BillingProofs` | theorems about `Billing` |
| `Sessions`, `SessionsProofs` | `auth.service.ts` over `refresh_tokens` |
| `LoginLockout`, `LoginLockoutProofs` | `login-lockout.service.ts` as `verifyCredentials` uses it |
| `BoundedStaleness` | the abstract promise of a read-through cache with a lifetime |
| `Impersonation`, `ImpersonationProofs` | `impersonation.service.ts`, the request guard, `suspendReseller` |
| `EntitlementCache`, `EntitlementCacheProofs` | `entitlement.service.ts`, its consumer, the changes of plans |
| `MC...` | symmetry sets and operation sets for TLC |

### Transport (`JetStreamServer`)

A delivery `<<m, n>>` is one call of `processMessage`; `call[d]` is where it
stands, `at[d]` the replica that pulled it.  `current` and `waiter` are the
semaphore.  `Deliver`, `AckWaitExpires`, `Settle` and `Nak` are NATS, modelled
from how the code uses it: an ack or term of any delivery settles the message;
nak and an expired `ack_wait` make it deliverable again below `max_deliver` and
never afterwards.  `ConsumeNext`, `BeginProcess`, `HandlerSucceeds`,
`HandlerFails`, `HandlerTimesOut`, `LateHandlerEnds`, `DlqStores`, `DlqConfirms`
and `DlqFails` are the segments between two awaits.  `Stop` covers both `close()`
and a crash: neither answers NATS for what is buffered or running.  Handlers are
left abstract (they succeed, fail, or hang); subjects, headers and payloads are
left out.

### Audit consumer (`AuditConsumer`)

A delivery `<<e, n>>` is event `e` handed out for the n-th time.  `Deliver` is the
server answering a pull of `consumer.consume()`: it counts the delivery and starts
its `ack_wait`, and the message waits in `inbox` until the loop comes to it
(`Take`), however long the loop awaits a flush.  `TimerFlush` is the timer (not
awaited, so any number may overlap; `Timers` bounds it), `InsertOk` / `InsertFails`
the statement with its outcome, and `AnswerNak`, `AnswerDlq`, `AnswerFails` the
per-message loop after a failed batch.  A rejection in the loop's flush ends the
loop (`loop = "dead"`; what was fetched is dropped) and the process lives on; a
rejection in the timer's flush is unhandled and ends the process.  `CloseMessages`,
`FinalFlush` and `Stop` are the steps of `onModuleDestroy`; `Stop` is also a crash
at any other moment.  The table refuses the events in `Invalid`.  `dropped` is
history: the deliveries that were handed out and never answered.

### Dead-letter desk (`Dlq`)

`Persist`, `Ack` and `PersistFails` are the consumer's steps (an insert may have
committed although its answer was lost).  `ReplayRead`, `ReplayPublish`,
`ReplayUpdate` and `DiscardRead`, `DiscardUpdate` are the statements of the two
calls; their transactions are READ COMMITTED and take no lock on the read.
`TenantId`, `RowTenant` and `Refused` carry the conversion of the tenant header:
`|| undefined` in the transport, `|| ''` in the audit consumer, `?? null` in
`toDlqRow`, and a uuid column.

### Billing

One institute, its successive subscriptions, their invoices, payments on them.
`req[r]` is a request between two transactions with what it has read.  A request
that fails its check changes nothing and is not started.  `Crash` ends every
request in flight.  Amounts are small integers; `Total` is the invoice amount.  An
invoice bills the current or the next period: the code never advances
`currentPeriodEnd`, so there are no others.  `Ops` says which operations a run
offers, `MaxInFlight` how many requests may overlap.  `ActiveIndex` says whether the
database has `uq_sub_active_tenant`.

Two variables are history that no action reads: `met[r]`, the requests that were
under way at some moment while `r` was, and `dead`, the requests a crash cut short.
The properties that overlap or a crash can spoil are stated with them: they say which
two requests must have overlapped, or which one must have died and where.  So they
hold for every `MaxInFlight` and `MaxCrashes`, and the runs and the theorems assume
nothing that serialises requests.

`EventBusService.emit` hands a subscriber the data wrapped under the key of the
event's GraphQL field (`event-bus.service.ts:62-63`), and the handlers of
`billing-event.consumer.ts` return when the payload itself has no `tenantId`.
`BillingEvents` has exactly that guard; what lies behind it is never reached and has
no step.  Both webhook controllers hand `handleWebhookPayment` an invoice and a
tenant of the raw gateway body, which has neither, so the `NOT NULL` uuid
columns refuse the insert and `WebhookEnd` adds no row.

`SystemActorAccepted` says whether `created_by` and `updated_by` take the string
`'SYSTEM'` that every scheduled activity writes.  The schema declares them `uuid`,
so they do not; the safety runs still set it to `TRUE`.  With `FALSE` the
activities can only start and abort, which leaves the tables alone, so every
state with `FALSE` is also one with `TRUE` and the safety runs cover both, today's
code and the code once the actor is repaired.

### Sessions (`Sessions`)

One user.  Tokens are numbered in the order of their insertion, so that "created
before the password change" is a comparison of numbers: `createdAt` and
`passwordChangedAt` both come from the database's clock.  A step is one repository
call.  `LoadStored` is the whole of `loadAndValidateStoredRefreshToken` up to its
decision: go on, start the reuse cascade, or revoke because of the fence.  Access
tokens are signed and stored nowhere, and `jwt.strategy.ts` looks at no row, so
`SwitchInstitute` may be called with the access token of any session there was,
revoked or not.  `line[t]` records what a token descends from, for the properties: a
refresh or a switch continues the chain of the session it was called from, only a
login starts one.  No action reads it.  `Crash` ends one request half-way, as often
as it likes.

### Lockout (`LoginLockout`)

One username, one step per Redis command: `isLocked`, the comparison of the
password, the counting script, `SET` of the lock, `DEL` of the counter,
`clearOnSuccess`, and the two expiries.

### Impersonation and entitlements (`Impersonation`, `EntitlementCache`)

Both are read-through caches in front of a row, and both are shown to implement
`BoundedStaleness`.  Nothing invalidates an entitlement: `changePlan` announces
`{ subscriptionId, previousPlanId, newPlanId, resellerId }` without a `tenantId`
(`subscription.service.ts:149-154`), and even where the data has one, the consumer
looks for it in the wrapped payload, so `Announce` has the guard and no `DEL`.
Time is counted in ticks, since the lifetimes are what the properties are about.  `MaxFill` bounds the time between a reader's `SELECT` and
its `SET`.  For the tombstone of an ended impersonation the code's margin is
"strictly > SESSION_CACHE_TTL"; `ImpersonationAssumption` says how much more is
needed: `CacheTtl + MaxFill <= TombTtl`, that is, a guard may take as long to
store what it read as the tombstone outlives a cache entry: 10 s, with the 60 s
and 70 s of the code.  A one-time code, an OTP and the session
itself may expire at any moment.

## 3. Runs

| Run | Instance | Shows |
|---|---|---|
| `jetstream` | 2 replicas, a good and a malformed message, 2 deliveries, 1 slot, one stop, failing DLQ, fair | `TypeOK`, `SlotAccounting`, `SettledHasOutcome`, `StrandedOnlyByFault`, `SingleDeadLetter`, refinement of `AtLeastOnce` (`PromiseKept`), `EventuallyResolved` |
| `audit_safety` | a good and a refused event, the loop's and two timers' flushes, one fault of each kind | `TypeOK`, `HeldOnce`, `SettledIsKept`, `LossTakesTwoDrops` |
| `audit_liveness` | a good and a malformed event, two database failures, one stop, a DLQ that can be reached, fair | `EventuallyKept` |
| `dlq` | 2 records, 2 overlapping admin calls, redelivery, one database failure, one stop, fair | `TypeOK`, `SettledHasRow`, `ReplaysHappened`, `DecisionSurvives`, `DiscardHolds`, `EventuallyPersisted` |
| `billing` | any 3 of all operations, overlapping or not, 2 subscriptions, 3 invoices, 3 payments, no unique index, a crash anywhere | `TypeOK`, `StatusMatchesAmount`, `RefundRecordBounded`, `LedgerBalanced`, `RefundWithinPayment`, `UtrOnce`, `RenewedOnce`, `LegalTransitions` |
| `billing_suspension` | cancellation and expiry, fair | violates `CancellationSuspends` |
| `billing_upi_expiry` | UPI proof and its expiry with the actor refused, fair | violates `UnverifiedExpires` |
| `sessions` | 2 overlapping requests (any number in sequence), 3 tokens, requests that end half-way | `TypeOK`, `PasswordFence`, `SignOutHolds`, `SiblingsOverlap` |
| `sessions_relogin` | as `sessions` | violates `MustLogInAgain` |
| `lockout` | 3 overlapping logins, a limit of 3, two that end half-way | `TypeOK`, `LockoutBound` |
| `impersonation` | 3 overlapping calls, lifetimes of 2 and 3 ticks | `TypeOK`, `EndedIsRejected`, refinement of `BoundedStaleness` (`StaleBounded`) |
| `entitlements` | 2 readers, 3 versions of the plan, a lifetime of 2 ticks | `TypeOK`, refinement of `BoundedStaleness` (`StaleBounded`) |

Why the bounds are enough. Two deliveries are a first and a last one, the only two
cases `handleFailure` tells apart; one slot makes the loop wait with the second
message; `MaxRetries = 2` gives the audit consumer a retry, the dead-lettering
delivery and the spare one; two timers with the loop are three flushes at once, and an
event may wait in the inbox while they run. Two calls of the desk are the pairs that
can overlap. In billing an invoice of 2 units with amounts 1, 2 and 3 reaches unpaid,
partly paid, paid and overpaid; three overlapping requests are a pair that races and a
third that sees the result, and three in sequence are a transfer that is submitted,
refunded and rejected. The index only refuses writes, after which the request ends; it
is left out so that the overlaps it would stop occur too. The same instance with the
index passes as well. Two successive subscriptions are needed for the queries that
pick "a" subscription of the institute, three invoices for a second renewal of the
first. Three tokens are a session, its successor and a sibling of it; requests are not
used up, so the two that overlap may be followed by any others. Three logins are one
more than is needed to jump over a limit. Three impersonation calls are a guard that
is late, the call that ends the session and the guard that must refuse. The runs whose
systems come to rest (everything published is settled, every request has run, no token
is left) switch the deadlock check off for that reason.

### What the three violated properties say

Each states what a comment of the repository says; the code does something else, and
TLC's trace shows it.

- `billing_suspension`: the comment at `billing-event.consumer.ts:25` says that a
  cancelled or expired subscription suspends its institute.  The handler returns at
  its first guard, since the payload is wrapped.
- `billing_upi_expiry`: with `updated_by` of type `uuid`, the first `UPDATE` of
  `expireUpiVerifications` is refused on every attempt, so a UPI transfer that
  nobody verifies stays credited.  The same holds of every activity.
- `sessions_relogin`: the comment at `auth.service.ts:671` says the caller of
  `changePassword` must log in again.  `switchInstitute` needs an access token only,
  and issues a live refresh token after all tokens were revoked.

### Behaviour met while modelling that no run claims

Transport and consumers:

- A stop during the last permitted delivery of a message strands it: NATS will not
  redeliver and nobody dead-letters.  `docs/nats-jetstream.md:263` ("never lost
  unless both handler AND DLQ are broken") does not count this case;
  `StrandedOnlyByFault` does.
- One rejected `publishToDlq` in the audit consume loop ends the loop for the life
  of the process (`audit.consumer.ts:171`); `EventuallyKept` is checked for a DLQ
  that can be reached (`MaxDlqFailures = 0`).
- One stop can drop both of the last two deliveries of an event: the first has
  outlived its `ack_wait` in the inbox or in a batch when NATS hands out the second.
  `LossTakesTwoDrops` counts deliveries, not faults.
- Dead letters of the audit consumer without a tenant carry `""`
  (`audit.consumer.ts:161`), which the uuid column of `dlq_messages` refuses on
  each of the five deliveries (`dlq.consumer.ts:128`).
- A good audit event that shares its batches with a refused one is dead-lettered
  with it.
- A replay that read its row before a discard still publishes and writes
  `replayed` over `discarded`; `DiscardHolds` is about discards that no replay
  overlaps.

Billing:

- What overlap and crashes do break: `markPaid` loses an update, two refunds both pass
  the check, a refund that dies after the gateway has paid out is refunded again, two
  submissions of one UTR both pass, an attempt of `processRenewals` that outlives its
  timeout and its retry both insert, and a pause that read before a cancellation writes
  PAUSED over CANCELLED.  `Sequential`, `RefundCut`, `RefundsOverlapped` and the
  witnesses in `UtrOnce`, `RenewedOnce` and `LegalTransitions` name these cases and no
  others.
- `LedgerBalanced` leaves out a UPI transfer that is refunded before it is verified
  and then rejected or expired (taken off twice), and negative UPI amounts on an
  overpaid invoice.
- Rejecting a UPI proof leaves the invoice REFUNDED, which no payment operation
  accepts (`payment.service.ts:437-448`); expiry of the same proof leaves it SENT.
- `cancelGracePeriodExpired` and `processTrialExpiry` emit no event at all, so the
  institutes they end would not be suspended even if the subscriber acted.
- The other in-process subscribers are stopped by the same wrapping: a paid invoice does
  not reactivate a past-due subscription, although the comment at
  `billing-event.consumer.ts:43` says so, and no entitlement is dropped from the cache
  (`entitlement-cache.consumer.ts:14`).
- No webhook ever records a payment.  The test at `payment.service.spec.ts:400` passes
  an invoice and a tenant; the controllers have neither to pass.  So a captured payment
  whose payer never returns to the browser has no row.
- Nothing advances `currentPeriodEnd`: a subscription is renewed once and then
  looked at every day without effect.

Sign-in:

- `rotateOld` writes `rotation` over a `user_initiated` that another request has
  written since the token was read, so a later use of the token starts the cascade
  that the comment at `auth.service.ts:761-766` keeps away from such tokens.
- `suspendReseller` leaves `revokedReason` null, with the same effect, although
  `refresh-tokens.ts:40` names a reason `admin_revoked`; the siblings that a
  cascade revokes are tagged `rotation` too.
- The OTP's attempt counter is read, increased and written back, so overlapping
  wrong guesses count once; a write that comes late brings back a consumed OTP.
- `exchangeCode` does not look at `endedAt`; the guard does.
- `getEntitlements` and `checkLimit` have no callers yet.

## 4. Fairness

Nothing is assumed of handlers, admins, producers or faults.

- Weak fairness of a step that runs by itself once it is possible: continuations
  on the event loop, the handler's timer, publishes that resolve or reject because
  the client has a request timeout, the `ack_wait` clock of NATS.
- Strong fairness of the delivery of one message where a loop that is repeatedly
  busy or restarted serves several (NATS delivers in order, so a ready message is
  not passed over for ever), and of the timer flush, which is disabled whenever
  the buffer is empty.
- In `AuditConsumer`, strong fairness of `Take` per event: the loop takes fetched
  messages in order, and each wait for a flush ends, so it comes to every message it
  has fetched unless the process ends first.  A shutdown that has begun goes on
  (`FinalFlush`, then `Stop`); nothing says that one must begin (`CloseMessages`).
- Weak fairness of the restart of a stopped process: the orchestrator does it.
- `Billing!FairSpec`: weak fairness of the next step of a request that has started,
  and strong fairness of the start and of each statement of `expireUpiVerifications`.
  The schedule starts it every day and Temporal tries a failed attempt again, so an
  attempt that the database would accept is not refused for ever.  The violations of
  `UnverifiedExpires` and `CancellationSuspends` are found under it: no further request has to arrive for the subscriber to have done its work.

The models of the sign-in code have no liveness property: nothing in that code
waits for anything.

## 5. Proofs

The eight proof modules hold for every number of messages, replicas, slots, retries,
gateways, calls, tokens, logins, subscriptions, invoices, payments, amounts, lifetimes
and faults that the named assumptions (`ServerAssumption`, `AuditAssumption`,
`DlqAssumption`, `SessionsAssumption`, `LockoutAssumption`, `EntitlementAssumption`,
`ImpersonationAssumption`, `BillingAssumption`, `PaymentsFinite`) allow.  None has a
further hypothesis.

- `JetStreamServerProofs`: `TypeCorrect`, `SlotsAccounted`, `SettledWithOutcome`,
  `StrandedByFault`, `DeadLetteredOnce` and `Refinement`.  `SlotAccounting` is not
  inductive: releasing a slot must know where the waiting delivery is and that the
  delivery that ends holds a slot of the same replica.  `IInv` adds `Placement`
  (exactly the delivery numbers up to NATS's count are in use, and a live call sits
  on a running replica), `Answers` (what each answer given to NATS and the delivery
  count say about the consumer's state) and `DeadLetters` (on the dead-letter path
  a message that parses is on its last delivery).  Counting
  rests on the cardinality theorems of the library.  For `Refinement`, every
  action is shown to be a step of `AtLeastOnce` or a stutter under the mapping.
- `AuditConsumerProofs`: `TypeCorrect`, `FlushesDisjoint`, `AckedIsKept`,
  `LossNeedsTwoDrops`.  `IInv` adds `Owned` (what is held was handed out, and the
  loop's flush is free while the loop runs) and `Traced` (a delivery from
  `MAX_RETRIES` on is followed from the moment NATS hands it out, taken by the loop or
  not: it is still held or was dropped, unless its event is kept).
- `DlqProofs`: `TypeCorrect`, `AckedIsPersisted`, `ReplaysCovered`,
  `DecisionKept`, `DiscardFinal`.  `IInv` adds `StoredHasRow` (an insert that is
  not acked yet left a row), `CallsCovered` (what a replay is about to write is
  covered by published copies) and `DeliveriesLeft`.
- `SessionsProofs`: `TypeCorrect`, `Fenced`, `SignedOut`, `Overlapping`.  The three
  properties speak of tokens only, but are kept up by what requests have read.
  `IInv` adds `RefreshKnows` (a refresh on its way to insert read a token that was
  live, and records whether a change or a sign-out has passed since), `SwitchKnows` (a
  switch continues a session that exists) and `ParentsRevoked` (a token with a
  successor is revoked).
- `LoginLockoutProofs`: `TypeCorrect`, `Bounded`.  `LockoutBound` is about a total
  and not inductive: `IInv` splits it by whether the lock is set (`OpenBound`,
  `LockedBound`), counts the logins that have passed the check, and adds
  `DropUnderLock` (the counter is dropped only by a login that has set the lock).
- `EntitlementCacheProofs`: `TypeCorrect`, `Refinement`.
  `IInv` adds `Fresh`: the age of what a reader or the cache holds, plus the
  lifetime it has left, stays within the window.
- `ImpersonationProofs`: `TypeCorrect`, `EndedRejected`, `Refinement`.  What a
  request holds does not tell why it is refused, so `IInv` adds `Fresh` (an open row
  that is cached or about to be stored is no older than the time since it was read),
  `Outlived` (from the moment `endImpersonation` returns, the tombstone outlives every
  open row that can still reach the cache) and `Settled` (a guard that then finds no
  tombstone finds no open row either, and none comes back).  `Outlived` is where
  `CacheTtl + MaxFill <= TombTtl` is used.
- `BillingProofs`, however requests overlap and wherever they are cut short.
  1. `TypeCorrect`, `StatusAgrees`, `RefundsBounded`.  `IInv` adds `PaymentRows` (a row
     that was not inserted is blank; a recorded refund fits in its payment) and `Sound`
     (a request names a row that exists, and a refund under way fits, given what had
     been refunded when it was read).
  2. `ChangesLegal`, `UtrCreditedOnce`, `PeriodBilledOnce`, `RefundsWithinPayment`.
     Each needs a request that read before another wrote.  `Meetings` says what `met`
     is worth: requests that are under way at the same time have met, in both
     directions.  With `Placed` (what a request carries at each of its steps) it gives
     `Base`.  Lemma `Kinds` reduces every action to what it can do to
     what these properties speak of (enter, go on, create a UPI row, insert a renewal,
     pay back, record a refund, die), so each property is carried over these cases
     instead of the actions.  Then a read that has gone stale names the request that wrote in
     between, and that request has met the reader.

TLC has checked the inductive invariants as invariants of the runs' instances before
they were proved.

Every safety property of the passing runs is a theorem, except `LedgerBalanced`, which
is only model-checked (run `billing`).  Also only model-checked: all liveness (`EventuallyResolved`,
`EventuallyKept`, `EventuallyPersisted`), which needs reasoning about fairness and
`ENABLED` that the prover does not do.

## 6. Not modelled

- Boot-time creation and repair of streams and consumers; request/reply of the
  client; back-off delays (only that a redelivery comes later).
- Tax, proration, invoice numbers, PDF output; the clean-up after a reseller's
  deletion (nothing starts its workflow); `BillingService`, which no resolver calls
  any more.
- Row-level security and tenancy: each model is of one tenant or of rows whose
  tenant plays no part, except for the tenant header in `Dlq`.
- CASL abilities, the circuit breaker (the library's), notification handlers,
  partitions, frontend, CRUD services of the institute module: data, I/O or
  third-party state.
- Code that cannot take effect as it stands.  The transfer-certificate and
  institute-setup workflows have no worker, and most activities of the latter only
  log.  The admission workflow stamps rows with an actor that is not a uuid
  (`student-admission.workflow.ts:23`).  `GroupInvalidationHandler` and
  `StudentEventHandler` are microservice controllers, but the gateway listens to no
  microservice transport, and the latter reads `previousAcademicYearId` where the
  event carries `previousYearId`.
- Bulk student import: what matters there is per row of a sheet.
- Groups.  What reading `group.service.ts` shows, and a model should state: a
  hybrid resolution deletes all rows whose source is `RULE`, the excluded ones
  included (`:329`), so an exclusion that `group-members.ts:45-47` calls an
  override by the admin is gone after the next-but-one resolution; `memberCount`
  counts a student twice who matches in two academic years, and goes stale when a
  resolution and `setMemberExcluded` overlap; `setMemberExcluded` marks a group
  resolved whose rule has changed since; `update` emits `rules_updated` before its
  transaction commits.

## 7. Plan

1. Done: transport with its abstract promise, audit consumer, dead-letter desk,
   billing with renewal, sessions, lockout, impersonation and entitlement cache with
   their abstract promise; each with its runs and its proofs.
2. Next proof: `LedgerBalanced` for every amount and any overlap.  It needs what a
   request still owes its invoice at every step, for the invoices on which requests
   came one after the other, and facts about sums over the payments of an invoice,
   which the fold of the library gives only through an argument by a smallest
   counterexample.
3. Then: groups (resolution against exclusion, composition with its depth limit and
   cycle check) and bulk import as a workflow whose activities may be retried after
   their commit.
