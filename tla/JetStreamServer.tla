-------------------------- MODULE JetStreamServer --------------------------
(***************************************************************************)
(* The JetStream transport of libs/backend/nats-jetstream: one durable     *)
(* pull consumer (one @EventPattern) shared by the replicas in Servers.    *)
(*                                                                         *)
(* A delivery is a pair <<m, n>>: message m handed out for the n-th time   *)
(* (msg.info.deliveryCount = n).  NATS gives every delivery of a message   *)
(* its own number, so <<m, n>> identifies one call of processMessage.      *)
(*                                                                         *)
(* External: the NATS consumer (variable stream), from the calls the code  *)
(* makes on it: ack and term settle a message whatever delivery they come  *)
(* from; nak and an expired ack_wait make it deliverable again while its   *)
(* delivery count is below max_deliver, and never again after that.        *)
(***************************************************************************)
EXTENDS Integers, FiniteSets

CONSTANTS
    Msgs,         \* messages on the consumer's filter subject
    Malformed,    \* those whose bytes msg.json() rejects
    Servers,      \* replicas pulling from the durable consumer
    NoServer,
    MaxDeliver,   \* config.maxDeliver, also the consumer's max_deliver
    Concurrency,  \* config.concurrency, the semaphore's max
    BatchSize,    \* config.pull.batchSize, messages pulled ahead
    MaxStops,     \* bound: how often processes stop (close or crash)
    DlqMayFail    \* whether a publish to the DLQ stream may fail

ASSUME ServerAssumption ==
    /\ IsFiniteSet(Msgs)
    /\ Malformed \subseteq Msgs
    /\ NoServer \notin Servers
    /\ MaxDeliver \in Nat \ {0}
    /\ Concurrency \in Nat \ {0}
    /\ BatchSize \in Nat \ {0}
    /\ MaxStops \in Nat
    /\ DlqMayFail \in BOOLEAN

Delivery == Msgs \X (1..MaxDeliver)

\* No delivery has number 0, so no pair of this form is in Delivery.
NoDelivery == <<NoServer, 0>>

VARIABLES
    stream,    \* the NATS consumer: state and delivery count of each message
    call,      \* processMessage of each delivery
    at,        \* the replica each delivery was pulled by
    current,   \* Semaphore.current of each replica's consume loop
    waiter,    \* the delivery the loop is blocked on in semaphore.acquire()
    late,      \* deliveries whose handler is still running after its timeout
    executed,  \* deliveries whose handler has completed without an error
    dlq,       \* deliveries recorded on the DLQ stream
    up,        \* replicas that are running
    stops      \* stops so far

vars == <<stream, call, at, current, waiter, late, executed, dlq, up, stops>>

-----------------------------------------------------------------------------
\* External: NATS consumer states.
StreamState == {"absent", "ready", "pending", "settled", "exhausted"}

\* Where processMessage stands.  "granted" .. "dlqStored" hold a slot.
Holding  == {"granted", "running", "dlq", "dlqStored"}
Live     == Holding \cup {"buffered", "queued"}
Finished == {"acked", "retried", "dead", "dlqFailed", "lost"}

TypeOK ==
    /\ stream \in [Msgs -> [st : StreamState, n : 0..MaxDeliver]]
    /\ call \in [Delivery -> {"none"} \cup Live \cup Finished]
    /\ at \in [Delivery -> Servers \cup {NoServer}]
    /\ current \in [Servers -> 0..Concurrency]
    /\ waiter \in [Servers -> Delivery \cup {NoDelivery}]
    /\ late \subseteq Delivery
    /\ executed \subseteq Delivery
    /\ dlq \subseteq Delivery
    /\ up \subseteq Servers
    /\ stops \in 0..MaxStops

Init ==
    /\ stream = [m \in Msgs |-> [st |-> "absent", n |-> 0]]
    /\ call = [d \in Delivery |-> "none"]
    /\ at = [d \in Delivery |-> NoServer]
    /\ current = [s \in Servers |-> 0]
    /\ waiter = [s \in Servers |-> NoDelivery]
    /\ late = {}
    /\ executed = {}
    /\ dlq = {}
    /\ up = Servers
    /\ stops = 0

-----------------------------------------------------------------------------
\* External: what the consumer does with the three answers and a timeout.

\* Redelivery is only offered below max_deliver.
Redeliverable(q) ==
    [q EXCEPT !.st = IF q.n < MaxDeliver THEN "ready" ELSE "exhausted"]

\* msg.ack() and msg.term(): the consumer never hands m out again.
Settle(m) == stream' = [stream EXCEPT ![m].st = "settled"]

\* msg.nak(delay): the delay only postpones the redelivery.
Nak(m) ==
    stream' = [stream EXCEPT ![m] =
                  IF @.st = "pending" THEN Redeliverable(@) ELSE @]

-----------------------------------------------------------------------------
\* The semaphore of a consume loop.  The loop awaits acquire() before it
\* takes another message, so its queue holds at most one waiter.

\* Mutant of Acquire: the free-slot test is off by one.
AcquireOffByOne(s, d) ==
    \/ /\ current[s] <= Concurrency
       /\ current' = [current EXCEPT ![s] = @ + 1]
       /\ call' = [call EXCEPT ![d] = "granted"]
       /\ UNCHANGED waiter
    \/ /\ current[s] > Concurrency
       /\ waiter' = [waiter EXCEPT ![s] = d]
       /\ call' = [call EXCEPT ![d] = "queued"]
       /\ UNCHANGED current

\* acquire(): take a free slot, or wait in the queue.
Acquire(s, d) ==
    \/ /\ current[s] < Concurrency
       /\ current' = [current EXCEPT ![s] = @ + 1]
       /\ call' = [call EXCEPT ![d] = "granted"]
       /\ UNCHANGED waiter
    \/ /\ current[s] >= Concurrency
       /\ waiter' = [waiter EXCEPT ![s] = d]
       /\ call' = [call EXCEPT ![d] = "queued"]
       /\ UNCHANGED current

\* Mutant of ReleaseTo: the waiter is woken without taking the slot over.
ReleaseToUncounted(s, d, result) ==
    /\ current' = [current EXCEPT ![s] = @ - 1]
    /\ waiter' = [waiter EXCEPT ![s] = NoDelivery]
    /\ call' = [e \in Delivery |->
                  IF e = d THEN result ELSE IF e = waiter[s] THEN "granted" ELSE call[e]]

\* release(), run by finally() when processMessage of d ends as result: the
\* slot goes back, and straight on to the waiter if there is one.
ReleaseTo(s, d, result) ==
    \/ /\ waiter[s] = NoDelivery
       /\ current' = [current EXCEPT ![s] = @ - 1]
       /\ call' = [call EXCEPT ![d] = result]
       /\ UNCHANGED waiter
    \/ /\ waiter[s] # NoDelivery
       /\ call' = [call EXCEPT ![d] = result, ![waiter[s]] = "granted"]
       /\ waiter' = [waiter EXCEPT ![s] = NoDelivery]
       /\ UNCHANGED current

\* Mutant of Release: processMessage(...) without its finally().
ReleaseForgotten(d, result) ==
    /\ call' = [call EXCEPT ![d] = result]
    /\ UNCHANGED <<current, waiter>>

Release(d, result) == ReleaseTo(at[d], d, result)

-----------------------------------------------------------------------------
(* A producer's emit reaches the stream.                                   *)
Publish(m) ==
    /\ stream[m].st = "absent"
    /\ stream' = [stream EXCEPT ![m].st = "ready"]
    /\ UNCHANGED <<call, at, current, waiter, late, executed, dlq, up, stops>>

Buffered(s) == {d \in Delivery : at[d] = s /\ call[d] = "buffered"}

(* External: NATS hands the message out to a replica with an open pull.    *)
(* The ack_wait clock starts here, while the message is still waiting in   *)
(* the replica's buffer.                                                   *)
Deliver(m, s) ==
    LET d == <<m, stream[m].n + 1>> IN
    /\ stream[m].st = "ready"
    /\ s \in up
    /\ Cardinality(Buffered(s)) < BatchSize
    /\ stream' = [stream EXCEPT ![m] = [st |-> "pending", n |-> @.n + 1]]
    /\ call' = [call EXCEPT ![d] = "buffered"]
    /\ at' = [at EXCEPT ![d] = s]
    /\ UNCHANGED <<current, waiter, late, executed, dlq, up, stops>>

(* External: ack_wait expires.  The clock includes the time in the buffer  *)
(* and in the semaphore's queue, so it can expire in any state of the call.*)
AckWaitExpires(m) ==
    /\ stream[m].st = "pending"
    /\ stream' = [stream EXCEPT ![m] = Redeliverable(@)]
    /\ UNCHANGED <<call, at, current, waiter, late, executed, dlq, up, stops>>

(* consumeLoop: the loop is not blocked, takes a buffered message and asks *)
(* for a slot.                                                             *)
ConsumeNext(d) ==
    /\ call[d] = "buffered"
    /\ waiter[at[d]] = NoDelivery
    /\ Acquire(at[d], d)
    /\ UNCHANGED <<stream, at, late, executed, dlq, up, stops>>

(* processMessage up to its first await: a message that does not parse     *)
(* goes to the dead-letter path, any other one to its handler.             *)
BeginProcess(d) ==
    /\ call[d] = "granted"
    /\ call' = [call EXCEPT ![d] = IF d[1] \in Malformed THEN "dlq" ELSE "running"]
    /\ UNCHANGED <<stream, at, current, waiter, late, executed, dlq, up, stops>>

(* The handler completes in time: msg.ack() and the slot is released.      *)
HandlerSucceeds(d) ==
    /\ call[d] = "running"
    /\ executed' = executed \cup {d}
    /\ Settle(d[1])
    /\ Release(d, "acked")
    /\ UNCHANGED <<at, late, dlq, up, stops>>

\* Mutant of HandleFailure: ">" for ">=" in deliveryCount >= maxDeliver.
HandleFailureTooLate(d) ==
    /\ d[2] <= MaxDeliver
    /\ Nak(d[1])
    /\ Release(d, "retried")

\* Mutant of HandleFailure: dead-letters one delivery too early.
HandleFailureTooEarly(d) ==
    \/ /\ d[2] >= MaxDeliver - 1
       /\ call' = [call EXCEPT ![d] = "dlq"]
       /\ UNCHANGED <<stream, current, waiter>>
    \/ /\ d[2] < MaxDeliver - 1
       /\ Nak(d[1])
       /\ Release(d, "retried")

(* handleFailure: on the last delivery start the dead-letter publish, on   *)
(* an earlier one nak with a back-off.                                     *)
HandleFailure(d) ==
    \/ /\ d[2] >= MaxDeliver
       /\ call' = [call EXCEPT ![d] = "dlq"]
       /\ UNCHANGED <<stream, current, waiter>>
    \/ /\ d[2] < MaxDeliver
       /\ Nak(d[1])
       /\ Release(d, "retried")

HandlerFails(d) ==
    /\ call[d] = "running"
    /\ HandleFailure(d)
    /\ UNCHANGED <<at, late, executed, dlq, up, stops>>

(* The timer wins Promise.race: the failure path is taken while the        *)
(* handler goes on running.                                                *)
HandlerTimesOut(d) ==
    /\ call[d] = "running"
    /\ late' = late \cup {d}
    /\ HandleFailure(d)
    /\ UNCHANGED <<at, executed, dlq, up, stops>>

(* A handler that lost the race ends; its result is dropped, its effects   *)
(* are not.                                                                *)
LateHandlerEnds(d, ok) ==
    /\ d \in late
    /\ late' = late \ {d}
    /\ executed' = IF ok THEN executed \cup {d} ELSE executed
    /\ UNCHANGED <<stream, call, at, current, waiter, dlq, up, stops>>

(* publishToDlq, first half: the DLQ stream stores the record.             *)
DlqStores(d) ==
    /\ call[d] = "dlq"
    /\ dlq' = dlq \cup {d}
    /\ call' = [call EXCEPT ![d] = "dlqStored"]
    /\ UNCHANGED <<stream, at, current, waiter, late, executed, up, stops>>

\* Mutant of DlqConfirms: the publish is not awaited before msg.term().
DlqNotAwaited(d) ==
    /\ call[d] \in {"dlq", "dlqStored"}
    /\ Settle(d[1])
    /\ Release(d, "dead")
    /\ UNCHANGED <<at, late, executed, dlq, up, stops>>

(* publishToDlq resolves: msg.term().                                      *)
DlqConfirms(d) ==
    /\ call[d] = "dlqStored"
    /\ Settle(d[1])
    /\ Release(d, "dead")
    /\ UNCHANGED <<at, late, executed, dlq, up, stops>>

\* Mutant of DlqFails: the message is terminated although the publish failed.
DlqFailsTerminates(d) ==
    /\ DlqMayFail
    /\ call[d] \in {"dlq", "dlqStored"}
    /\ Settle(d[1])
    /\ Release(d, "dlqFailed")
    /\ UNCHANGED <<at, late, executed, dlq, up, stops>>

(* publishToDlq rejects, before or after the record was stored (a lost     *)
(* publish acknowledgement): msg.nak(60_000).                              *)
DlqFails(d) ==
    /\ DlqMayFail
    /\ call[d] \in {"dlq", "dlqStored"}
    /\ Nak(d[1])
    /\ Release(d, "dlqFailed")
    /\ UNCHANGED <<at, late, executed, dlq, up, stops>>

(* close() or a crash: buffered and running deliveries of the replica are  *)
(* dropped without an answer to NATS.                                      *)
Stop(s) ==
    /\ s \in up
    /\ stops < MaxStops
    /\ stops' = stops + 1
    /\ up' = up \ {s}
    /\ call' = [d \in Delivery |->
                  IF at[d] = s /\ call[d] \in Live THEN "lost" ELSE call[d]]
    /\ late' = {d \in late : at[d] # s}
    /\ current' = [current EXCEPT ![s] = 0]
    /\ waiter' = [waiter EXCEPT ![s] = NoDelivery]
    /\ UNCHANGED <<stream, at, executed, dlq>>

(* listen(): the durable consumer exists, so the replica pulls from it     *)
(* again with an empty buffer and a new semaphore.                         *)
Listen(s) ==
    /\ s \notin up
    /\ up' = up \cup {s}
    /\ UNCHANGED <<stream, call, at, current, waiter, late, executed, dlq, stops>>

Step(d) ==
    \/ ConsumeNext(d)
    \/ BeginProcess(d)
    \/ HandlerSucceeds(d)
    \/ HandlerFails(d)
    \/ HandlerTimesOut(d)
    \/ \E ok \in BOOLEAN : LateHandlerEnds(d, ok)
    \/ DlqStores(d)
    \/ DlqConfirms(d)
    \/ DlqFails(d)

Next ==
    \/ \E m \in Msgs : Publish(m) \/ AckWaitExpires(m)
    \/ \E m \in Msgs, s \in Servers : Deliver(m, s)
    \/ \E d \in Delivery : Step(d)
    \/ \E s \in Servers : Stop(s) \/ Listen(s)

Spec == Init /\ [][Next]_vars

(***************************************************************************)
(* Fairness.  NATS keeps delivering and its ack_wait clock runs; the event *)
(* loop keeps running the loop's and processMessage's continuations; the   *)
(* timer of executeHandler fires whatever the handler does; the publish to *)
(* the DLQ stream resolves or rejects (the client has a request timeout);  *)
(* a stopped replica is restarted by its supervisor.  A handler need not   *)
(* end: nothing is assumed of HandlerSucceeds, HandlerFails or             *)
(* LateHandlerEnds, and nothing of Publish and Stop.                       *)
(***************************************************************************)
Fairness ==
    /\ \A m \in Msgs :
          /\ WF_vars(\E s \in Servers : Deliver(m, s))
          /\ WF_vars(AckWaitExpires(m))
    /\ \A d \in Delivery :
          /\ WF_vars(ConsumeNext(d))
          /\ WF_vars(BeginProcess(d))
          /\ WF_vars(HandlerTimesOut(d))
          /\ WF_vars(DlqStores(d) \/ DlqConfirms(d) \/ DlqFails(d))
    /\ \A s \in Servers : WF_vars(Listen(s))

FairSpec == Spec /\ Fairness

-----------------------------------------------------------------------------
(* The semaphore neither leaks nor over-grants slots (consumeLoop,         *)
(* semaphore.ts): current counts exactly the processMessage calls that     *)
(* have not ended, the loop waits only for a delivery that is queued, and  *)
(* it waits only while every slot is taken, so that no wake-up is lost.    *)
SlotAccounting ==
    \A s \in Servers :
        /\ current[s] = Cardinality({d \in Delivery : at[d] = s /\ call[d] \in Holding})
        /\ {d \in Delivery : at[d] = s /\ call[d] = "queued"} = {waiter[s]} \cap Delivery
        /\ waiter[s] # NoDelivery => current[s] = Concurrency

(* Nothing is settled without an outcome (processMessage): NATS is told to *)
(* forget a message only after a handler run completed for it or a record  *)
(* of it reached the DLQ stream, whatever stops, times out or is stale.    *)
SettledHasOutcome ==
    \A m \in Msgs : stream[m].st = "settled" =>
        \E n \in 1..MaxDeliver : <<m, n>> \in executed \cup dlq

(* The only ways to strand a message (handleFailure, sendToDlqOrNak): once *)
(* NATS has used up max_deliver, the last delivery is still being worked   *)
(* on, or its DLQ publish failed, or its replica stopped under it.         *)
StrandedOnlyByFault ==
    \A m \in Msgs : stream[m].st = "exhausted" =>
        call[<<m, MaxDeliver>>] \in Live \cup {"dlqFailed", "lost"}

(* A message that parses is dead-lettered at most once (handleFailure):    *)
(* the DLQ reader keys its rows by DLQ sequence number, so a second record *)
(* would become a second row to replay.                                    *)
SingleDeadLetter ==
    \A d, e \in dlq : d[1] = e[1] /\ d[1] \notin Malformed => d = e

(* The transport implements the abstract promise.                          *)
Promise == INSTANCE AtLeastOnce WITH
    accepted <- {m \in Msgs : stream[m].st # "absent"},
    executed <- {d[1] : d \in executed},
    recorded <- {d[1] : d \in dlq},
    finished <- {m \in Msgs : stream[m].st = "settled"}

(* Every step of the transport is a step AtLeastOnce allows: a message is  *)
(* finished only with a completed handler run or a dead-letter record.     *)
PromiseKept == Promise!Spec

(* A published message does not stay in limbo (consumeLoop, executeHandler,*)
(* sendToDlqOrNak): it is settled, or it is stranded by a failed DLQ       *)
(* publish or a stop during its last delivery.                             *)
Resolved(m) ==
    \/ stream[m].st = "settled"
    \/ /\ stream[m].st = "exhausted"
       /\ call[<<m, MaxDeliver>>] \in {"dlqFailed", "lost"}

EventuallyResolved == \A m \in Msgs : stream[m].st = "ready" ~> Resolved(m)
=============================================================================
