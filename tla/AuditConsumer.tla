---------------------------- MODULE AuditConsumer ----------------------------
(***************************************************************************)
(* apps/api-gateway/src/audit/audit.consumer.ts: the batched writer of     *)
(* audit_logs.  consumer.consume() fetches messages ahead of the consume   *)
(* loop, which pushes one after the other into a buffer; a flush takes the *)
(* whole buffer and inserts it with one statement.  The loop flushes when  *)
(* the buffer is full, and waits for it; the timer flushes every 500ms,    *)
(* and nobody waits for it, so flushes can overlap.                        *)
(*                                                                         *)
(* A delivery is a pair <<e, n>>: event e handed out for the n-th time.    *)
(* NATS counts it and starts its ack_wait when it hands it out, whether or *)
(* not the loop has come to it.                                            *)
(* External: the NATS consumer (variable stream) and its client (variables *)
(* inbox and open), from the calls made on them, and the database, which   *)
(* refuses a batch with an invalid event.                                  *)
(***************************************************************************)
EXTENDS Integers, FiniteSets

CONSTANTS
    Events,          \* messages on AUDIT.log
    Malformed,       \* those whose bytes msg.json() rejects
    Invalid,         \* those whose row audit_logs refuses
    Timers,          \* flushes of the timer that may be under way (bound)
    Loop,            \* the flush of the consume loop
    BatchSize,       \* BATCH_SIZE
    MaxRetries,      \* MAX_RETRIES
    MaxStops,        \* bound: how often the process ends
    MaxDbFailures,   \* bound: inserts that fail for no fault of the batch
    MaxDlqFailures   \* bound: publishes to the DLQ stream that fail

MaxDeliver == MaxRetries + 1

ASSUME AuditAssumption ==
    /\ IsFiniteSet(Events)
    /\ Malformed \subseteq Events
    /\ Invalid \subseteq Events \ Malformed
    /\ Loop \notin Timers
    /\ BatchSize \in Nat \ {0}
    /\ MaxRetries \in Nat \ {0}
    /\ MaxStops \in Nat
    /\ MaxDbFailures \in Nat
    /\ MaxDlqFailures \in Nat

Delivery == Events \X (1..MaxDeliver)
Flushes == Timers \cup {Loop}

VARIABLES
    stream,   \* the NATS consumer: state and delivery count of each event
    inbox,    \* deliveries fetched and not yet taken by the loop
    open,     \* the ConsumerMessages still fetches
    loop,     \* the consume loop
    buffer,   \* AuditConsumer.buffer
    batch,    \* deliveries a flush has taken and not answered yet
    phase,    \* where a flush stands
    logs,     \* events with a row in audit_logs
    dlq,      \* events with a record on the DLQ stream
    dropped,  \* deliveries that were handed out and never answered
    faults    \* stops and failures so far

vars == <<stream, inbox, open, loop, buffer, batch, phase, logs, dlq, dropped, faults>>

StreamState == {"absent", "ready", "pending", "settled", "exhausted"}

\* "dead": startConsuming has caught an error and returned; the process runs on.
LoopState == {"running", "busy", "dead", "closed", "down"}

TypeOK ==
    /\ stream \in [Events -> [st : StreamState, n : 0..MaxDeliver]]
    /\ inbox \subseteq Delivery
    /\ open \in BOOLEAN
    /\ loop \in LoopState
    /\ buffer \subseteq Delivery
    /\ batch \in [Flushes -> SUBSET Delivery]
    /\ phase \in [Flushes -> {"idle", "insert", "answer"}]
    /\ logs \subseteq Events
    /\ dlq \subseteq Events
    /\ dropped \subseteq Delivery
    /\ faults \in [stop : 0..MaxStops, db : 0..MaxDbFailures, dlq : 0..MaxDlqFailures]

Init ==
    /\ stream = [e \in Events |-> [st |-> "absent", n |-> 0]]
    /\ inbox = {}
    /\ open = TRUE
    /\ loop = "running"
    /\ buffer = {}
    /\ batch = [f \in Flushes |-> {}]
    /\ phase = [f \in Flushes |-> "idle"]
    /\ logs = {}
    /\ dlq = {}
    /\ dropped = {}
    /\ faults = [stop |-> 0, db |-> 0, dlq |-> 0]

EventsOf(D) == {d[1] : d \in D}

\* Deliveries the process still holds.
Held == inbox \cup buffer \cup UNION {batch[f] : f \in Flushes}

-----------------------------------------------------------------------------
\* External: the NATS consumer and its client.

Redeliverable(q) == [q EXCEPT !.st = IF q.n < MaxDeliver THEN "ready" ELSE "exhausted"]

\* ack() or term() of the deliveries in D.
Settle(D) ==
    stream' = [e \in Events |-> IF e \in EventsOf(D) THEN [stream[e] EXCEPT !.st = "settled"]
                                                     ELSE stream[e]]

Nak(d) ==
    stream' = [stream EXCEPT ![d[1]] = IF @.st = "pending" THEN Redeliverable(@) ELSE @]

Publish(e) ==
    /\ stream[e].st = "absent"
    /\ stream' = [stream EXCEPT ![e].st = "ready"]
    /\ UNCHANGED <<inbox, open, loop, buffer, batch, phase, logs, dlq, dropped, faults>>

AckWaitExpires(e) ==
    /\ stream[e].st = "pending"
    /\ stream' = [stream EXCEPT ![e] = Redeliverable(@)]
    /\ UNCHANGED <<inbox, open, loop, buffer, batch, phase, logs, dlq, dropped, faults>>

\* Mutant of DeliveryOf: counts redeliveries instead of deliveries.
DeliveryOfRetries(e) == <<e, stream[e].n>>

\* msg.info.deliveryCount
DeliveryOf(e) == <<e, stream[e].n + 1>>

(* The server answers a pull of consumer.consume(): the message waits for  *)
(* the loop, however long that awaits a flush.                             *)
Deliver(e) ==
    /\ open
    /\ stream[e].st = "ready"
    /\ stream' = [stream EXCEPT ![e] = [st |-> "pending", n |-> @.n + 1]]
    /\ inbox' = inbox \cup {DeliveryOf(e)}
    /\ UNCHANGED <<open, loop, buffer, batch, phase, logs, dlq, dropped, faults>>

-----------------------------------------------------------------------------
\* Flush f takes the deliveries D; with an empty D there is nothing to do.
BeginFlush(f, D, at) ==
    /\ batch' = [batch EXCEPT ![f] = D]
    /\ phase' = [phase EXCEPT ![f] = at]

\* Flush f has answered everything; the loop goes on if it was waiting.
EndFlush(f) ==
    /\ batch' = [batch EXCEPT ![f] = {}]
    /\ phase' = [phase EXCEPT ![f] = "idle"]
    /\ loop' = IF f = Loop /\ loop = "busy" THEN "running" ELSE loop

(* startConsuming: the next message.  One that does not parse goes to the  *)
(* DLQ at once; any other one is pushed, and a full buffer is flushed.     *)
Take(d) ==
    LET full == Cardinality(buffer \cup {d}) >= BatchSize
    IN  /\ d \in inbox
        /\ loop = "running"
        /\ inbox' = inbox \ {d}
        /\ \/ /\ d[1] \in Malformed
              /\ BeginFlush(Loop, {d}, "answer")
              /\ loop' = "busy"
              /\ UNCHANGED buffer
           \/ /\ d[1] \notin Malformed /\ full
              /\ BeginFlush(Loop, buffer \cup {d}, "insert")
              /\ loop' = "busy"
              /\ buffer' = {}
           \/ /\ d[1] \notin Malformed /\ ~full
              /\ buffer' = buffer \cup {d}
              /\ UNCHANGED <<loop, batch, phase>>
        /\ UNCHANGED <<stream, open, logs, dlq, dropped, faults>>

\* Mutant of TimerFlush: the buffer is copied and not emptied.
TimerFlushCopies(f) ==
    /\ f \in Timers
    /\ phase[f] = "idle"
    /\ loop \notin {"down", "closed"}
    /\ buffer # {}
    /\ BeginFlush(f, buffer, "insert")
    /\ UNCHANGED <<stream, inbox, open, loop, buffer, logs, dlq, dropped, faults>>

(* startFlushTimer: flush takes the whole buffer (splice).                 *)
TimerFlush(f) ==
    /\ f \in Timers
    /\ phase[f] = "idle"
    /\ loop \notin {"down", "closed"}
    /\ buffer # {}
    /\ BeginFlush(f, buffer, "insert")
    /\ buffer' = {}
    /\ UNCHANGED <<stream, inbox, open, loop, logs, dlq, dropped, faults>>

\* Mutant of InsertOk: the messages are acked before the statement has run.
InsertOkAcksFirst(f) ==
    /\ phase[f] = "insert"
    /\ Settle(batch[f])
    /\ EndFlush(f)
    /\ logs' = IF EventsOf(batch[f]) \cap Invalid = {} THEN logs \cup EventsOf(batch[f]) ELSE logs
    /\ UNCHANGED <<inbox, open, buffer, dlq, dropped, faults>>

(* flush: batchInsert succeeds and every message is acked.                 *)
InsertOk(f) ==
    /\ phase[f] = "insert"
    /\ EventsOf(batch[f]) \cap Invalid = {}
    /\ logs' = logs \cup EventsOf(batch[f])
    /\ Settle(batch[f])
    /\ EndFlush(f)
    /\ UNCHANGED <<inbox, open, buffer, dlq, dropped, faults>>

(* flush: batchInsert throws, because of an event of the batch or because  *)
(* the database cannot be reached or its answer is lost.                   *)
InsertFails(f) ==
    /\ phase[f] = "insert"
    /\ phase' = [phase EXCEPT ![f] = "answer"]
    /\ \/ /\ EventsOf(batch[f]) \cap Invalid # {}
          /\ UNCHANGED <<logs, faults>>
       \/ /\ EventsOf(batch[f]) \cap Invalid = {}
          /\ faults.db < MaxDbFailures
          /\ faults' = [faults EXCEPT !.db = @ + 1]
          /\ logs' \in {logs, logs \cup EventsOf(batch[f])}
    /\ UNCHANGED <<stream, inbox, open, loop, buffer, batch, dlq, dropped>>

-----------------------------------------------------------------------------
\* Mutant of GoesToDlq: dead-letters on the delivery after the last retry.
GoesToDlqLate(d) == d[1] \in Malformed \/ d[2] > MaxDeliver

GoesToDlq(d) == d[1] \in Malformed \/ d[2] >= MaxRetries

\* d has been answered; the flush ends with its last delivery.
Answered(f, d) ==
    IF batch[f] = {d}
    THEN EndFlush(f)
    ELSE batch' = [batch EXCEPT ![f] = @ \ {d}] /\ UNCHANGED <<loop, phase>>

(* flush, batch failed: nak() *)
AnswerNak(f, d) ==
    /\ phase[f] = "answer"
    /\ d \in batch[f]
    /\ ~GoesToDlq(d)
    /\ Nak(d)
    /\ Answered(f, d)
    /\ UNCHANGED <<inbox, open, buffer, logs, dlq, dropped, faults>>

(* flush, batch failed, or a malformed message: publishToDlq and term().   *)
AnswerDlq(f, d) ==
    /\ phase[f] = "answer"
    /\ d \in batch[f]
    /\ GoesToDlq(d)
    /\ dlq' = dlq \cup {d[1]}
    /\ Settle({d})
    /\ Answered(f, d)
    /\ UNCHANGED <<inbox, open, buffer, logs, dropped, faults>>

\* The process ends: whatever it holds is dropped without an answer.
Die ==
    /\ loop' = "down"
    /\ open' = FALSE
    /\ inbox' = {}
    /\ buffer' = {}
    /\ batch' = [f \in Flushes |-> {}]
    /\ phase' = [f \in Flushes |-> "idle"]
    /\ dropped' = dropped \cup Held

(* publishToDlq rejects, the record stored or not, and so does flush: the  *)
(* rest of the batch is not answered.  The loop's await passes the error   *)
(* to startConsuming, which leaves its for await (that stops the messages, *)
(* and what was fetched is lost), logs it and returns; the timer's flush   *)
(* is not awaited, and the unhandled rejection ends the process.           *)
AnswerFails(f, d) ==
    /\ phase[f] = "answer"
    /\ d \in batch[f]
    /\ GoesToDlq(d)
    /\ faults.dlq < MaxDlqFailures
    /\ faults' = [faults EXCEPT !.dlq = @ + 1]
    /\ dlq' \in {dlq, dlq \cup {d[1]}}
    /\ \/ /\ f = Loop /\ loop = "busy"
          /\ loop' = "dead"
          /\ open' = FALSE
          /\ inbox' = {}
          /\ batch' = [batch EXCEPT ![f] = {}]
          /\ phase' = [phase EXCEPT ![f] = "idle"]
          /\ dropped' = dropped \cup batch[f] \cup inbox
          /\ UNCHANGED buffer
       \/ /\ ~(f = Loop /\ loop = "busy")
          /\ Die
    /\ UNCHANGED <<stream, logs>>

-----------------------------------------------------------------------------
(* onModuleDestroy: consumerMessages.close(), then the timer stops and the *)
(* buffer is flushed; the process ends (Stop) when that is done or when it *)
(* is killed.  After close() nothing is fetched any more; how much of what *)
(* was fetched the loop still takes is the client's matter.                *)
CloseMessages ==
    /\ open
    /\ faults.stop < MaxStops
    /\ open' = FALSE
    /\ UNCHANGED <<stream, inbox, loop, buffer, batch, phase, logs, dlq, dropped, faults>>

FinalFlush ==
    /\ loop \in {"running", "dead"}
    /\ ~open
    /\ faults.stop < MaxStops
    /\ loop' = "closed"
    /\ IF buffer = {} THEN UNCHANGED <<batch, phase>> ELSE BeginFlush(Loop, buffer, "insert")
    /\ buffer' = {}
    /\ UNCHANGED <<stream, inbox, open, logs, dlq, dropped, faults>>

Stop ==
    /\ loop # "down"
    /\ faults.stop < MaxStops
    /\ faults' = [faults EXCEPT !.stop = @ + 1]
    /\ Die
    /\ UNCHANGED <<stream, logs, dlq>>

(* onModuleInit of the next process; the durable consumer exists.          *)
Start ==
    /\ loop = "down"
    /\ loop' = "running"
    /\ open' = TRUE
    /\ UNCHANGED <<stream, inbox, buffer, batch, phase, logs, dlq, dropped, faults>>

-----------------------------------------------------------------------------
FlushStep(f) ==
    \/ InsertOk(f)
    \/ InsertFails(f)
    \/ \E d \in batch[f] : AnswerNak(f, d) \/ AnswerDlq(f, d) \/ AnswerFails(f, d)

Next ==
    \/ \E e \in Events : Publish(e) \/ AckWaitExpires(e) \/ Deliver(e)
    \/ \E d \in inbox : Take(d)
    \/ \E f \in Flushes : TimerFlush(f) \/ FlushStep(f)
    \/ CloseMessages \/ FinalFlush \/ Stop \/ Start

Spec == Init /\ [][Next]_vars

(* NATS delivers and its timers run, the loop comes to every message it    *)
(* has fetched, the timer and the database driver run; a shutdown that has *)
(* begun goes on, and the orchestrator starts the next process.            *)
FairSpec ==
    /\ Spec
    /\ \A e \in Events : /\ SF_vars(Deliver(e)) /\ WF_vars(AckWaitExpires(e))
                        /\ SF_vars(\E d \in inbox : d[1] = e /\ Take(d))
    /\ \A f \in Flushes : SF_vars(TimerFlush(f)) /\ WF_vars(FlushStep(f))
    /\ WF_vars(FinalFlush)
    /\ WF_vars(loop = "closed" /\ Stop)
    /\ WF_vars(Start)

-----------------------------------------------------------------------------
(* Flushes that overlap never share a message: a delivery is in the inbox, *)
(* in the buffer or in the batch of one flush, so it is answered by one    *)
(* flush only.                                                             *)
HeldOnce ==
    /\ inbox \cap buffer = {}
    /\ \A f \in Flushes : /\ batch[f] \cap (inbox \cup buffer) = {}
                          /\ phase[f] = "idle" => batch[f] = {}
    /\ \A f, g \in Flushes : f # g => batch[f] \cap batch[g] = {}

(* NATS is told to forget an event only when it has its row in audit_logs  *)
(* or its record in the DLQ ("acked only after successful batch write"),   *)
(* whichever flushes overlap and wherever the process dies.                *)
SettledIsKept ==
    \A e \in Events : stream[e].st = "settled" => e \in logs \cup dlq

(* An event is lost only with its last two deliveries: when NATS has given *)
(* up on it and the process holds no delivery of it, both the delivery     *)
(* that should have dead-lettered it and the spare one of max_deliver =    *)
(* MAX_RETRIES + 1 were dropped, fetched ahead, buffered or in a batch, by *)
(* a process that ended or a publish that failed.  One such fault may drop *)
(* both, when ack_wait has run out while the loop awaited a flush.         *)
LossTakesTwoDrops ==
    \A e \in Events :
        stream[e].st = "exhausted" /\ e \notin EventsOf(Held) /\ e \notin logs \cup dlq
            => {<<e, MaxRetries>>, <<e, MaxDeliver>>} \subseteq dropped

(* Every event ends up in audit_logs or in the DLQ, however often the      *)
(* database fails and the process stops and however late the loop comes to *)
(* it, unless the last two deliveries of the event were dropped.  This is  *)
(* for a DLQ that can be reached (MaxDlqFailures = 0): after a failed      *)
(* publish the loop is dead until the next start, which nothing causes.    *)
EventuallyKept ==
    \A e \in Events : stream[e].st = "ready" ~>
        e \in logs \cup dlq \/ {<<e, MaxRetries>>, <<e, MaxDeliver>>} \subseteq dropped
=============================================================================
