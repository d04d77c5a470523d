--------------------------------- MODULE Dlq ---------------------------------
(***************************************************************************)
(* The dead-letter desk of the api-gateway: dlq.consumer.ts copies the     *)
(* records of the DLQ stream into dlq_messages, and dlq.service.ts lets a  *)
(* platform admin replay or discard a row.                                 *)
(*                                                                         *)
(* A delivery is a pair <<r, n>>: record r handed out for the n-th time.   *)
(* The durable consumer dlq-reader is shared by all gateways.              *)
(* External: the NATS consumer (variable record) and PostgreSQL, whose     *)
(* transactions are READ COMMITTED.                                        *)
(***************************************************************************)
EXTENDS Integers

CONSTANTS
    Records,          \* dead-lettered messages, by sequence in the DLQ stream
    FromAudit,        \* those published by the audit consumer, not by JetStreamServer
    NoTenant,         \* those whose message has an empty tenant-id header
    Gateways,         \* api-gateway processes
    Requests,         \* bound: replay and discard calls under way
    MaxDeliver,       \* max_deliver of dlq-reader
    MaxReplays,       \* bound: copies of a message published by replay
    MaxStops,         \* bound: how often a gateway ends
    MaxDbFailures     \* bound: inserts that fail for no fault of the row

ASSUME DlqAssumption ==
    /\ FromAudit \subseteq Records
    /\ NoTenant \subseteq Records
    /\ MaxDeliver \in Nat \ {0}
    /\ MaxReplays \in Nat
    /\ MaxStops \in Nat
    /\ MaxDbFailures \in Nat

Delivery == Records \X (1..MaxDeliver)

VARIABLES
    record,   \* the NATS consumer: state and delivery count of each record
    up,       \* gateways whose consume loop runs
    held,     \* deliveries a gateway has been handed and not answered
    stored,   \* of these, the ones whose insert has committed
    rows,     \* dlq_messages: status and replay_count
    copies,   \* how often the message was put back on its original subject
    req,      \* replay and discard calls
    faults    \* stops and failed inserts so far

vars == <<record, up, held, stored, rows, copies, req, faults>>

RecordState == {"absent", "ready", "pending", "settled", "exhausted"}
DlqStatus == {"pending", "replayed", "discarded"}
RowState == DlqStatus \cup {"none"}

(* A call knows the row as it was when its transaction read it.            *)
Idle == [at |-> "idle"]
Call == [at : {"publish", "replay", "discard"}, r : Records, count : Nat]

TypeOK ==
    /\ record \in [Records -> [st : RecordState, n : 0..MaxDeliver]]
    /\ up \subseteq Gateways
    /\ held \in [Gateways -> SUBSET Delivery]
    /\ stored \in [Gateways -> SUBSET Delivery]
    /\ rows \in [Records -> [st : RowState, count : Nat]]
    /\ copies \in [Records -> 0..MaxReplays]
    /\ req \in [Requests -> {Idle} \cup Call]
    /\ faults \in [stop : 0..MaxStops, db : 0..MaxDbFailures]

Init ==
    /\ record = [r \in Records |-> [st |-> "absent", n |-> 0]]
    /\ up = Gateways
    /\ held = [g \in Gateways |-> {}]
    /\ stored = [g \in Gateways |-> {}]
    /\ rows = [r \in Records |-> [st |-> "none", count |-> 0]]
    /\ copies = [r \in Records |-> 0]
    /\ req = [q \in Requests |-> Idle]
    /\ faults = [stop |-> 0, db |-> 0]

-----------------------------------------------------------------------------
\* External: the NATS consumer dlq-reader.

Redeliverable(s) == [s EXCEPT !.st = IF s.n < MaxDeliver THEN "ready" ELSE "exhausted"]

(* publishToDlq, by JetStreamServer or by the audit consumer.              *)
DeadLetter(r) ==
    /\ record[r].st = "absent"
    /\ record' = [record EXCEPT ![r].st = "ready"]
    /\ UNCHANGED <<up, held, stored, faults, rows, copies, req>>

Deliver(g, r) ==
    /\ g \in up
    /\ record[r].st = "ready"
    /\ record' = [record EXCEPT ![r] = [st |-> "pending", n |-> @.n + 1]]
    /\ held' = [held EXCEPT ![g] = @ \cup {<<r, record[r].n + 1>>}]
    /\ UNCHANGED <<up, stored, faults, rows, copies, req>>

AckWaitExpires(r) ==
    /\ record[r].st = "pending"
    /\ record' = [record EXCEPT ![r] = Redeliverable(@)]
    /\ UNCHANGED <<up, held, stored, faults, rows, copies, req>>

\* A nak of a settled or already released record changes nothing.
Nak(d) ==
    record' = [record EXCEPT ![d[1]] = IF @.st = "pending" THEN Redeliverable(@) ELSE @]

-----------------------------------------------------------------------------
(* The tenantId of the record: JetStreamServer leaves an empty header out, *)
(* the audit consumer passes '' on.                                        *)
TenantId(r) ==
    IF r \notin NoTenant THEN "institute" ELSE IF r \in FromAudit THEN "" ELSE "undefined"

(* toDlqRow: tenantId ?? null.                                             *)
RowTenant(r) == IF TenantId(r) = "undefined" THEN "null" ELSE TenantId(r)

(* dlq_messages.tenant_id is a nullable uuid: '' does not convert.         *)
Refused(r) == RowTenant(r) = ""

\* Mutant of Inserted: the conflict clause overwrites the row.
InsertedAnyway(r) == [rows EXCEPT ![r].st = "pending"]

\* Mutant of Inserted: the status column has no default.
InsertedWithoutStatus(r) ==
    [rows EXCEPT ![r] = IF @.st = "none" THEN [st |-> "null", count |-> 0] ELSE @]

\* ON CONFLICT (dlq_stream_seq) DO NOTHING
Inserted(r) == [rows EXCEPT ![r] = IF @.st = "none" THEN [st |-> "pending", count |-> 0] ELSE @]

(* startConsuming: messages are taken one by one, so at most one of them   *)
(* is inserted and not yet acked.                                          *)
Persist(g, d) ==
    /\ d \in held[g]
    /\ stored[g] = {}
    /\ ~Refused(d[1])
    /\ rows' = Inserted(d[1])
    /\ stored' = [stored EXCEPT ![g] = {d}]
    /\ UNCHANGED <<record, up, held, faults, copies, req>>

Ack(g, d) ==
    /\ d \in stored[g]
    /\ record' = [record EXCEPT ![d[1]].st = "settled"]
    /\ held' = [held EXCEPT ![g] = @ \ {d}]
    /\ stored' = [stored EXCEPT ![g] = {}]
    /\ UNCHANGED <<up, faults, rows, copies, req>>

\* Mutant of PersistFails: the message is acked in spite of the error.
PersistFailsAcks(g, d) ==
    /\ d \in held[g]
    /\ stored[g] = {}
    /\ faults.db < MaxDbFailures \/ Refused(d[1])
    /\ record' = [record EXCEPT ![d[1]].st = "settled"]
    /\ held' = [held EXCEPT ![g] = @ \ {d}]
    /\ faults' = [faults EXCEPT !.db = IF Refused(d[1]) THEN @ ELSE @ + 1]
    /\ UNCHANGED <<up, stored, rows, copies, req>>

(* persist throws: the row is refused, or the database cannot be reached,  *)
(* before or after the insert has committed.  nak(NAK_DELAY_MS)            *)
PersistFails(g, d) ==
    /\ d \in held[g]
    /\ stored[g] = {}
    /\ \/ /\ Refused(d[1])
          /\ UNCHANGED <<rows, faults>>
       \/ /\ ~Refused(d[1])
          /\ faults.db < MaxDbFailures
          /\ faults' = [faults EXCEPT !.db = @ + 1]
          /\ rows' \in {rows, Inserted(d[1])}
    /\ Nak(d)
    /\ held' = [held EXCEPT ![g] = @ \ {d}]
    /\ UNCHANGED <<up, stored, copies, req>>

(* onModuleDestroy, or the end of the process: nothing held is answered.   *)
Stop(g) ==
    /\ g \in up
    /\ faults.stop < MaxStops
    /\ faults' = [faults EXCEPT !.stop = @ + 1]
    /\ up' = up \ {g}
    /\ held' = [held EXCEPT ![g] = {}]
    /\ stored' = [stored EXCEPT ![g] = {}]
    /\ UNCHANGED <<record, rows, copies, req>>

(* onModuleInit; the durable consumer exists.                              *)
Start(g) ==
    /\ g \in Gateways \ up
    /\ up' = up \cup {g}
    /\ UNCHANGED <<record, held, stored, faults, rows, copies, req>>

-----------------------------------------------------------------------------
(* DLQ_STATE_MACHINE *)
Transitions ==
    [pending   |-> {"replayed", "discarded"},
     replayed  |-> {"replayed", "discarded"},
     discarded |-> {}]

\* Mutant of MayBecome: the state machine is not consulted.
MayBecomeAnything(r, to) == rows[r].st \in DlqStatus

(* The row exists (NotFoundException) and assertTransition passes.         *)
MayBecome(r, to) == rows[r].st \in DlqStatus /\ to \in Transitions[rows[r].st]

(* replay: select and assertTransition.  The publish follows.              *)
ReplayRead(q, r) ==
    /\ req[q] = Idle
    /\ MayBecome(r, "replayed")
    /\ req' = [req EXCEPT ![q] = [at |-> "publish", r |-> r, count |-> rows[r].count]]
    /\ UNCHANGED <<record, up, held, stored, faults, rows, copies>>

\* Mutant of ReplayPublish: the publish is not awaited and may never happen.
ReplayPublishNotAwaited(q) ==
    /\ req[q].at = "publish"
    /\ copies[req[q].r] < MaxReplays
    /\ \E n \in {0, 1} : copies' = [copies EXCEPT ![req[q].r] = @ + n]
    /\ req' = [req EXCEPT ![q].at = "replay"]
    /\ UNCHANGED <<record, up, held, stored, faults, rows>>

(* replay: the message is on its original subject.  Either the answer      *)
(* arrives and the update follows, or it is lost and the transaction is    *)
(* rolled back.                                                            *)
ReplayPublish(q) ==
    /\ req[q].at = "publish"
    /\ copies[req[q].r] < MaxReplays
    /\ copies' = [copies EXCEPT ![req[q].r] = @ + 1]
    /\ req' \in {[req EXCEPT ![q] = Idle], [req EXCEPT ![q].at = "replay"]}
    /\ UNCHANGED <<record, up, held, stored, faults, rows>>

(* replay: update with the count read before, and commit.                  *)
ReplayUpdate(q) ==
    /\ req[q].at = "replay"
    /\ rows' = [rows EXCEPT ![req[q].r] = [st |-> "replayed", count |-> req[q].count + 1]]
    /\ req' = [req EXCEPT ![q] = Idle]
    /\ UNCHANGED <<record, up, held, stored, faults, copies>>

(* replay or discard: the publish is refused, the update fails or the      *)
(* process ends; the transaction is rolled back.                           *)
CallFails(q) ==
    /\ req[q] # Idle
    /\ req' = [req EXCEPT ![q] = Idle]
    /\ UNCHANGED <<record, up, held, stored, faults, rows, copies>>

(* discard: select and assertTransition.                                   *)
DiscardRead(q, r) ==
    /\ req[q] = Idle
    /\ MayBecome(r, "discarded")
    /\ req' = [req EXCEPT ![q] = [at |-> "discard", r |-> r, count |-> rows[r].count]]
    /\ UNCHANGED <<record, up, held, stored, faults, rows, copies>>

(* discard: update and commit.                                             *)
DiscardUpdate(q) ==
    /\ req[q].at = "discard"
    /\ rows' = [rows EXCEPT ![req[q].r].st = "discarded"]
    /\ req' = [req EXCEPT ![q] = Idle]
    /\ UNCHANGED <<record, up, held, stored, faults, copies>>

-----------------------------------------------------------------------------
ConsumerStep(g, d) == Persist(g, d) \/ Ack(g, d) \/ PersistFails(g, d)

Next ==
    \/ \E r \in Records : DeadLetter(r) \/ AckWaitExpires(r)
    \/ \E g \in Gateways, r \in Records : Deliver(g, r)
    \/ \E g \in Gateways : \E d \in held[g] : ConsumerStep(g, d)
    \/ \E g \in Gateways : Stop(g) \/ Start(g)
    \/ \E q \in Requests, r \in Records : ReplayRead(q, r) \/ DiscardRead(q, r)
    \/ \E q \in Requests :
        ReplayPublish(q) \/ ReplayUpdate(q) \/ DiscardUpdate(q) \/ CallFails(q)

Spec == Init /\ [][Next]_vars

(* The consume loops run, NATS delivers what is ready and its ack timers   *)
(* fire, and the orchestrator restarts a gateway.                          *)
FairSpec ==
    /\ Spec
    /\ \A r \in Records :
        SF_vars(\E g \in Gateways : Deliver(g, r)) /\ WF_vars(AckWaitExpires(r))
    /\ \A g \in Gateways :
        WF_vars(\E d \in held[g] : ConsumerStep(g, d)) /\ WF_vars(Start(g))

-----------------------------------------------------------------------------
(* A record the consumer has acked has its row, however its deliveries     *)
(* overlap and wherever a gateway ends ("Persists each dead-lettered       *)
(* envelope to dlq_messages ... then acks").                               *)
SettledHasRow == \A r \in Records : record[r].st = "settled" => rows[r].st # "none"

(* The desk never claims a replay that did not happen: a row counts at     *)
(* most as many replays as copies were published, and a replayed row at    *)
(* least one, with calls overlapping and failing at any step.              *)
ReplaysHappened ==
    \A r \in Records :
        /\ rows[r].count <= copies[r]
        /\ rows[r].st = "replayed" => rows[r].count >= 1

(* A row that has been created is never reset to pending by a redelivery   *)
(* of its record: the admin's decision survives it (ON CONFLICT DO         *)
(* NOTHING).                                                               *)
DecisionSurvives ==
    [][\A r \in Records : rows[r].st \in DlqStatus => rows'[r].st \in {rows[r].st, "replayed", "discarded"}]_vars

(* Every record the table can hold gets its row: max_deliver outlasts a    *)
(* database that fails fewer times than that, unless a gateway stops with  *)
(* deliveries in hand.                                                     *)
EventuallyPersisted ==
    \A r \in Records :
        record[r].st = "ready" /\ ~Refused(r) ~>
            rows[r].st # "none" \/ faults.stop > 0 \/ faults.db >= MaxDeliver

(* A discard is final once the replays it overlapped have ended: a row     *)
(* that is discarded with no replay call under way stays so, and its       *)
(* message is never published again, whatever is redelivered or called.    *)
Closed(r) ==
    /\ rows[r].st = "discarded"
    /\ \A q \in Requests : req[q].at \in {"publish", "replay"} => req[q].r # r

DiscardHolds ==
    [][\A r \in Records : Closed(r) => Closed(r)' /\ copies'[r] = copies[r]]_vars
=============================================================================
