------------------------- MODULE AuditConsumerProofs -------------------------
(***************************************************************************)
(* Proofs about AuditConsumer, for any number of events, timer flushes,    *)
(* retries and faults.                                                     *)
(*                                                                         *)
(* LossTakesTwoDrops is made inductive by Traced, which follows every      *)
(* delivery from the MAX_RETRIES-th on, from the fetch to the answer: it   *)
(* is still held, it was dropped, or its event is kept.  HeldOnce needs to know that the loop flushes     *)
(* only when its previous flush is over (LoopFree) and that a delivery is  *)
(* new when it is handed out (HeldSeen).                                   *)
(***************************************************************************)
EXTENDS AuditConsumer, TLAPS

(* NATS has a delivery left for an event it can hand out, and none for one *)
(* it has given up on.                                                     *)
DeliveryCounts ==
    \A e \in Events : /\ stream[e].st \in {"absent", "ready"} => stream[e].n < MaxDeliver
                      /\ stream[e].st = "exhausted" => stream[e].n = MaxDeliver

Typed == TypeOK /\ DeliveryCounts

(* A loop that takes messages, or has ended, waits for no flush; a process *)
(* that is down holds nothing.                                             *)
LoopFree ==
    /\ loop \in {"running", "dead"} => phase[Loop] = "idle"
    /\ loop = "down" => \A f \in Flushes : phase[f] = "idle"

HeldSeen == \A d \in Held : d[2] <= stream[d[1]].n

Owned == HeldOnce /\ LoopFree /\ HeldSeen

Kept == logs \cup dlq

(* No delivery that may dead-letter its event disappears.                  *)
Traced ==
    \A d \in Delivery :
        MaxRetries <= d[2] /\ d[2] <= stream[d[1]].n => d \in Held \cup dropped \/ d[1] \in Kept

IInv == Typed /\ Owned /\ SettledIsKept /\ Traced

-----------------------------------------------------------------------------
(* The constants of audit.consumer.ts: max_deliver exceeds MAX_RETRIES by  *)
(* one, and a delivery is an event and a count.                            *)
LEMMA ConstantFacts ==
    /\ MaxDeliver \in Nat \ {0} /\ MaxDeliver = MaxRetries + 1 /\ MaxRetries \in Nat \ {0}
    /\ Loop \in Flushes
    /\ \A d \in Delivery : /\ d[1] \in Events /\ d[2] \in 1..MaxDeliver
                           /\ d = <<d[1], d[2]>>
  BY AuditAssumption DEF MaxDeliver, Delivery, Flushes

(* The process holds what it fetched, what is in the buffer and what is in   *)
(* the batch of a flush.                                                   *)
LEMMA HeldMembers ==
    /\ \A d : d \in Held <=> d \in inbox \/ d \in buffer \/ \E f \in Flushes : d \in batch[f]
    /\ TypeOK => \A d \in Held : d \in Delivery
  BY DEF Held, TypeOK

(* A redelivery, by nak or by ack_wait, leaves the count alone and settles *)
(* nothing.                                                                *)
LEMMA RedeliverableFacts ==
    ASSUME NEW q \in [st : StreamState, n : 0..MaxDeliver]
    PROVE  /\ Redeliverable(q) \in [st : StreamState, n : 0..MaxDeliver]
           /\ Redeliverable(q).n = q.n
           /\ Redeliverable(q).st \notin {"settled", "absent"}
           /\ Redeliverable(q).st = "ready" => q.n < MaxDeliver
           /\ Redeliverable(q).st = "exhausted" => q.n = MaxDeliver
  BY ConstantFacts DEF Redeliverable, StreamState

(* ack() and term() settle the events of D only and keep their counts.     *)
LEMMA SettleFacts ==
    ASSUME Typed, NEW D \in SUBSET Delivery, Settle(D)
    PROVE  /\ stream' \in [Events -> [st : StreamState, n : 0..MaxDeliver]]
           /\ DeliveryCounts'
           /\ \A e \in Events : /\ stream'[e].n = stream[e].n
                                /\ stream'[e].st = "settled" =>
                                      stream[e].st = "settled" \/ e \in EventsOf(D)
  BY DEF Settle, Typed, TypeOK, DeliveryCounts, StreamState

(* nak() settles nothing and keeps the delivery count.                     *)
LEMMA NakFacts ==
    ASSUME Typed, NEW d \in Delivery, Nak(d)
    PROVE  /\ stream' \in [Events -> [st : StreamState, n : 0..MaxDeliver]]
           /\ DeliveryCounts'
           /\ \A e \in Events : /\ stream'[e].n = stream[e].n
                                /\ stream'[e].st = "settled" => stream[e].st = "settled"
  BY ConstantFacts, RedeliverableFacts DEF Nak, Typed, TypeOK, DeliveryCounts

-----------------------------------------------------------------------------
(* One delivery of a failed batch is answered.                             *)
AnswerStep(f, d) == AnswerNak(f, d) \/ AnswerDlq(f, d) \/ AnswerFails(f, d)

(* Type correctness is preserved by every step.                            *)
LEMMA TypeStep == Typed /\ [Next]_vars => Typed'
<1> SUFFICES ASSUME Typed, [Next]_vars PROVE TypeOK' /\ DeliveryCounts'
  BY DEF Typed
<1> USE DEF Typed
<1>0. Loop \in Flushes /\ TypeOK /\ DeliveryCounts
  BY ConstantFacts
<1>1. ASSUME NEW e \in Events, Publish(e) PROVE TypeOK' /\ DeliveryCounts'
  BY <1>1 DEF Publish, TypeOK, DeliveryCounts, StreamState
<1>2. ASSUME NEW e \in Events, AckWaitExpires(e) PROVE TypeOK' /\ DeliveryCounts'
  BY <1>2, RedeliverableFacts DEF AckWaitExpires, TypeOK, DeliveryCounts
<1>3. ASSUME NEW e \in Events, Deliver(e) PROVE TypeOK' /\ DeliveryCounts'
  <2>1. stream[e].n + 1 \in 1..MaxDeliver /\ DeliveryOf(e) \in Delivery
    BY <1>3, ConstantFacts DEF Deliver, TypeOK, DeliveryCounts, DeliveryOf, Delivery
  <2>2. stream' \in [Events -> [st : StreamState, n : 0..MaxDeliver]] /\ DeliveryCounts'
    BY <1>3, <2>1, ConstantFacts DEF Deliver, TypeOK, DeliveryCounts, StreamState
  <2> QED
    BY <1>3, <2>1, <2>2 DEF Deliver, TypeOK
<1>t. ASSUME NEW d \in inbox, Take(d) PROVE TypeOK' /\ DeliveryCounts'
  <2>1. d \in Delivery
    BY DEF TypeOK
  <2>2. /\ inbox' \subseteq Delivery
        /\ loop' \in LoopState
        /\ buffer' \subseteq Delivery
        /\ batch' \in [Flushes -> SUBSET Delivery]
        /\ phase' \in [Flushes -> {"idle", "insert", "answer"}]
    BY <1>0, <1>t, <2>1 DEF Take, BeginFlush, TypeOK, LoopState
  <2> QED
    BY <1>t, <2>2 DEF Take, TypeOK, DeliveryCounts
<1>4. ASSUME NEW f \in Flushes, TimerFlush(f) PROVE TypeOK' /\ DeliveryCounts'
  BY <1>4 DEF TimerFlush, BeginFlush, TypeOK, DeliveryCounts
<1>5. ASSUME NEW f \in Flushes, InsertOk(f) PROVE TypeOK' /\ DeliveryCounts'
  <2>1. batch[f] \in SUBSET Delivery /\ EventsOf(batch[f]) \subseteq Events
    BY ConstantFacts DEF TypeOK, EventsOf
  <2>2. stream' \in [Events -> [st : StreamState, n : 0..MaxDeliver]] /\ DeliveryCounts'
    BY <1>5, <2>1, SettleFacts DEF InsertOk
  <2> QED
    BY <1>5, <2>1, <2>2 DEF InsertOk, EndFlush, TypeOK, LoopState
<1>6. ASSUME NEW f \in Flushes, InsertFails(f) PROVE TypeOK' /\ DeliveryCounts'
  <2>1. EventsOf(batch[f]) \subseteq Events
    BY ConstantFacts DEF TypeOK, EventsOf
  <2>2. faults' \in [stop : 0..MaxStops, db : 0..MaxDbFailures, dlq : 0..MaxDlqFailures]
    BY <1>6, AuditAssumption DEF InsertFails, TypeOK
  <2> QED
    BY <1>6, <2>1, <2>2 DEF InsertFails, TypeOK, DeliveryCounts
<1>7. ASSUME NEW f \in Flushes, NEW d \in batch[f], AnswerStep(f, d)
      PROVE  TypeOK' /\ DeliveryCounts'
  <2>0. d \in Delivery /\ d[1] \in Events
    BY ConstantFacts DEF TypeOK
  <2>1. ASSUME Answered(f, d)
        PROVE  /\ loop' \in LoopState
               /\ batch' \in [Flushes -> SUBSET Delivery]
               /\ phase' \in [Flushes -> {"idle", "insert", "answer"}]
    BY <2>1 DEF Answered, EndFlush, TypeOK, LoopState
  <2>2. CASE AnswerNak(f, d)
    <3>1. stream' \in [Events -> [st : StreamState, n : 0..MaxDeliver]] /\ DeliveryCounts'
      BY <2>0, <2>2, NakFacts DEF AnswerNak
    <3> QED
      BY <2>1, <2>2, <3>1 DEF AnswerNak, TypeOK
  <2>3. CASE AnswerDlq(f, d)
    <3>1. stream' \in [Events -> [st : StreamState, n : 0..MaxDeliver]] /\ DeliveryCounts'
      BY <2>0, <2>3, SettleFacts DEF AnswerDlq
    <3> QED
      BY <2>0, <2>1, <2>3, <3>1 DEF AnswerDlq, TypeOK
  <2>4. CASE AnswerFails(f, d)
    <3>1. faults' \in [stop : 0..MaxStops, db : 0..MaxDbFailures, dlq : 0..MaxDlqFailures]
      BY <2>4, AuditAssumption DEF AnswerFails, TypeOK
    <3>2. Held \subseteq Delivery
      BY HeldMembers
    <3>3. /\ loop' \in LoopState
          /\ inbox' \subseteq Delivery
          /\ open' \in BOOLEAN
          /\ buffer' \subseteq Delivery
          /\ batch' \in [Flushes -> SUBSET Delivery]
          /\ phase' \in [Flushes -> {"idle", "insert", "answer"}]
          /\ dropped' \subseteq Delivery
      BY <2>4, <3>2 DEF AnswerFails, Die, TypeOK, LoopState
    <3> QED
      BY <2>0, <2>4, <3>1, <3>3 DEF AnswerFails, TypeOK, DeliveryCounts
  <2> QED
    BY <1>7, <2>2, <2>3, <2>4 DEF AnswerStep
<1>8. CASE CloseMessages \/ FinalFlush
  BY <1>0, <1>8 DEF CloseMessages, FinalFlush, BeginFlush, TypeOK, DeliveryCounts, LoopState
<1>9. CASE Stop
  <2>1. Held \subseteq Delivery
    BY HeldMembers
  <2>2. faults' \in [stop : 0..MaxStops, db : 0..MaxDbFailures, dlq : 0..MaxDlqFailures]
    BY <1>9, AuditAssumption DEF Stop, TypeOK
  <2> QED
    BY <1>9, <2>1, <2>2 DEF Stop, Die, TypeOK, DeliveryCounts, LoopState
<1>10. CASE Start
  BY <1>10 DEF Start, TypeOK, DeliveryCounts, LoopState
<1>11. CASE UNCHANGED vars
  BY <1>11 DEF vars, TypeOK, DeliveryCounts
<1> QED
  BY <1>1, <1>2, <1>3, <1>t, <1>4, <1>5, <1>6, <1>7, <1>8, <1>9, <1>10, <1>11
  DEF Next, FlushStep, AnswerStep
-----------------------------------------------------------------------------
(* A step that moves deliveries only from the inbox to the buffer or to an *)
(* idle flush, or out of the process, keeps their owner unique.            *)
LEMMA OwnedStep == Typed /\ Owned /\ [Next]_vars => Owned'
<1> SUFFICES ASSUME Typed, Owned, [Next]_vars PROVE HeldOnce' /\ LoopFree' /\ HeldSeen'
  BY DEF Owned
<1> USE DEF Owned
<1> DEFINE Counts == \A e \in Events : stream'[e].n >= stream[e].n
           Fewer == Held' \subseteq Held
<1>0. /\ Loop \in Flushes
      /\ TypeOK /\ HeldOnce /\ LoopFree /\ HeldSeen
      /\ \A d \in Held : d[1] \in Events /\ d[2] \in Nat /\ stream[d[1]].n \in Nat
      /\ \A e \in Events : stream[e].n \in Nat
  BY ConstantFacts, HeldMembers DEF Typed, TypeOK
<1>a. ASSUME Counts, Fewer, \A e \in Events : stream'[e].n \in Nat PROVE HeldSeen'
  BY <1>0, <1>a DEF HeldSeen
<1>b. \A e \in Events : stream'[e].n \in Nat
  BY TypeStep, ConstantFacts DEF Typed, TypeOK
<1>1. ASSUME NEW e \in Events, Publish(e) \/ AckWaitExpires(e)
      PROVE  HeldOnce' /\ LoopFree' /\ HeldSeen'
  <2>1. Counts
    <3>1. ASSUME Publish(e) PROVE Counts
      BY <1>0, <3>1 DEF Publish, TypeOK
    <3>2. ASSUME AckWaitExpires(e) PROVE Counts
      <4>1. stream[e] \in [st : StreamState, n : 0..MaxDeliver]
        BY <1>0 DEF TypeOK
      <4>2. Redeliverable(stream[e]).n = stream[e].n
        BY <4>1, RedeliverableFacts
      <4> QED
        BY <1>0, <3>2, <4>2 DEF AckWaitExpires, TypeOK
    <3> QED
      BY <1>1, <3>1, <3>2
  <2>2. Fewer /\ UNCHANGED <<inbox, loop, buffer, batch, phase>>
    BY <1>1 DEF Publish, AckWaitExpires, Held
  <2> QED
    BY <1>0, <1>a, <1>b, <2>1, <2>2 DEF HeldOnce, LoopFree
<1>2. ASSUME NEW e \in Events, Deliver(e) PROVE HeldOnce' /\ LoopFree' /\ HeldSeen'
  <2> DEFINE d == DeliveryOf(e)
  <2>1. d \notin Held /\ d[1] = e /\ d[2] = stream[e].n + 1
    BY <1>0 DEF DeliveryOf, HeldSeen
  <2>2. Held' = Held \cup {d}
    BY <1>2 DEF Deliver, Held
  <2>3. HeldSeen'
    BY <1>0, <1>2, <2>1, <2>2 DEF Deliver, TypeOK, HeldSeen
  <2>4. d \notin buffer /\ \A f \in Flushes : d \notin batch[f]
    BY <2>1, HeldMembers
  <2>5. HeldOnce'
    BY <1>0, <1>2, <2>4 DEF Deliver, HeldOnce
  <2>6. LoopFree'
    BY <1>0, <1>2 DEF Deliver, LoopFree
  <2> QED
    BY <2>3, <2>5, <2>6
<1>t. ASSUME NEW d \in inbox, Take(d) PROVE HeldOnce' /\ LoopFree' /\ HeldSeen'
  <2>1. phase[Loop] = "idle" /\ batch[Loop] = {} /\ loop = "running"
    BY <1>0, <1>t DEF Take, LoopFree, HeldOnce
  <2>2. d \notin buffer /\ \A f \in Flushes : d \notin batch[f]
    BY <1>0 DEF HeldOnce
  <2>3. Fewer /\ Counts
    BY <1>0, <1>t, <2>1 DEF Take, BeginFlush, TypeOK, Held
  <2>4. HeldOnce'
    BY <1>0, <1>t, <2>1, <2>2 DEF Take, BeginFlush, TypeOK, HeldOnce
  <2>5. LoopFree'
    BY <1>0, <1>t, <2>1 DEF Take, BeginFlush, TypeOK, LoopFree
  <2> QED
    BY <1>a, <1>b, <2>3, <2>4, <2>5
<1>3. ASSUME NEW f \in Flushes, TimerFlush(f) PROVE HeldOnce' /\ LoopFree' /\ HeldSeen'
  <2>1. f # Loop /\ batch[f] = {} /\ loop # "down"
    BY <1>0, <1>3, AuditAssumption DEF TimerFlush, HeldOnce
  <2>2. Fewer /\ Counts
    BY <1>0, <1>3, <2>1 DEF TimerFlush, BeginFlush, TypeOK, Held
  <2>3. HeldOnce'
    BY <1>0, <1>3, <2>1 DEF TimerFlush, BeginFlush, TypeOK, HeldOnce
  <2>4. LoopFree'
    BY <1>0, <1>3, <2>1 DEF TimerFlush, BeginFlush, TypeOK, LoopFree
  <2> QED
    BY <1>a, <1>b, <2>2, <2>3, <2>4
<1>4. ASSUME NEW f \in Flushes, phase[f] # "idle", EndFlush(f), UNCHANGED <<inbox, buffer>>, Counts
      PROVE  HeldOnce' /\ LoopFree' /\ HeldSeen'
  <2>1. Fewer
    BY <1>0, <1>4 DEF EndFlush, TypeOK, Held
  <2>2. HeldOnce'
    BY <1>0, <1>4 DEF EndFlush, TypeOK, HeldOnce
  <2>3. LoopFree'
    BY <1>0, <1>4 DEF EndFlush, TypeOK, LoopFree
  <2> QED
    BY <1>4, <1>a, <1>b, <2>1, <2>2, <2>3
<1>5. ASSUME NEW f \in Flushes, InsertOk(f) PROVE HeldOnce' /\ LoopFree' /\ HeldSeen'
  <2>1. Counts
    BY <1>0, <1>5, SettleFacts DEF InsertOk, TypeOK
  <2> QED
    BY <1>4, <1>5, <2>1 DEF InsertOk
<1>6. ASSUME NEW f \in Flushes, InsertFails(f) PROVE HeldOnce' /\ LoopFree' /\ HeldSeen'
  <2>1. Counts /\ Fewer
    BY <1>0, <1>6 DEF InsertFails, Held
  <2>2. HeldOnce' /\ LoopFree'
    BY <1>0, <1>6 DEF InsertFails, TypeOK, HeldOnce, LoopFree
  <2> QED
    BY <1>a, <1>b, <2>1, <2>2
<1>7. ASSUME NEW f \in Flushes, NEW d \in batch[f], phase[f] = "answer",
             Answered(f, d), UNCHANGED <<inbox, buffer>>, Counts
      PROVE  HeldOnce' /\ LoopFree' /\ HeldSeen'
  <2>1. CASE batch[f] = {d}
    BY <1>4, <1>7, <2>1 DEF Answered
  <2>2. CASE batch[f] # {d}
    <3>1. batch' = [batch EXCEPT ![f] = @ \ {d}] /\ UNCHANGED <<inbox, loop, phase, buffer>>
      BY <1>7, <2>2 DEF Answered
    <3>2. Fewer
      BY <1>0, <3>1 DEF TypeOK, Held
    <3>3. HeldOnce'
      BY <1>0, <3>1 DEF TypeOK, HeldOnce
    <3> QED
      BY <1>0, <1>7, <1>a, <1>b, <3>1, <3>2, <3>3 DEF LoopFree
  <2> QED
    BY <2>1, <2>2
<1>8. ASSUME Die, UNCHANGED stream PROVE HeldOnce' /\ LoopFree' /\ HeldSeen'
  BY <1>8, HeldMembers DEF Die, HeldOnce, LoopFree, HeldSeen, Held
<1>9. ASSUME NEW f \in Flushes, NEW d \in batch[f], AnswerStep(f, d)
      PROVE  HeldOnce' /\ LoopFree' /\ HeldSeen'
  <2>0. d \in Delivery /\ {d} \in SUBSET Delivery
    BY <1>0 DEF TypeOK
  <2>1. CASE AnswerNak(f, d)
    <3>1. Counts
      BY <1>0, <2>0, <2>1, NakFacts DEF AnswerNak
    <3> QED
      BY <1>7, <2>1, <3>1 DEF AnswerNak
  <2>2. CASE AnswerDlq(f, d)
    <3>1. Counts
      BY <1>0, <2>0, <2>2, SettleFacts DEF AnswerDlq
    <3> QED
      BY <1>7, <2>2, <3>1 DEF AnswerDlq
  <2>3. CASE AnswerFails(f, d)
    <3>1. CASE f = Loop /\ loop = "busy"
      <4>1. /\ batch' = [batch EXCEPT ![f] = {}]
            /\ phase' = [phase EXCEPT ![f] = "idle"]
            /\ loop' = "dead"
            /\ inbox' = {}
            /\ UNCHANGED <<stream, buffer>>
        BY <2>3, <3>1 DEF AnswerFails
      <4>2. Fewer /\ Counts
        BY <1>0, <4>1 DEF TypeOK, Held
      <4>3. HeldOnce' /\ LoopFree'
        BY <1>0, <3>1, <4>1 DEF TypeOK, HeldOnce, LoopFree
      <4> QED
        BY <1>a, <1>b, <4>2, <4>3
    <3>2. CASE ~(f = Loop /\ loop = "busy")
      BY <1>8, <2>3, <3>2 DEF AnswerFails
    <3> QED
      BY <3>1, <3>2
  <2> QED
    BY <1>9, <2>1, <2>2, <2>3 DEF AnswerStep
<1>10. CASE FinalFlush
  <2>1. batch[Loop] = {} /\ phase[Loop] = "idle"
    BY <1>0, <1>10 DEF FinalFlush, LoopFree, HeldOnce
  <2>2. Fewer /\ Counts
    BY <1>0, <1>10, <2>1 DEF FinalFlush, BeginFlush, TypeOK, Held
  <2>3. HeldOnce' /\ LoopFree'
    BY <1>0, <1>10, <2>1 DEF FinalFlush, BeginFlush, TypeOK, HeldOnce, LoopFree
  <2> QED
    BY <1>a, <1>b, <2>2, <2>3
<1>11. CASE Stop
  BY <1>8, <1>11 DEF Stop
<1>12. CASE Start \/ CloseMessages
  BY <1>0, <1>12 DEF Start, CloseMessages, HeldOnce, LoopFree, HeldSeen, Held
<1>13. CASE UNCHANGED vars
  BY <1>0, <1>13 DEF vars, HeldOnce, LoopFree, HeldSeen, Held
<1> QED
  BY <1>1, <1>2, <1>t, <1>3, <1>5, <1>6, <1>9, <1>10, <1>11, <1>12, <1>13
  DEF Next, FlushStep, AnswerStep
-----------------------------------------------------------------------------
(* flush acks after the insert and terminates after the DLQ publish.       *)
LEMMA KeptStep == Typed /\ SettledIsKept /\ [Next]_vars => SettledIsKept'
<1> SUFFICES ASSUME Typed, SettledIsKept, [Next]_vars PROVE SettledIsKept'
  OBVIOUS
<1>0. TypeOK
  BY DEF Typed
<1> DEFINE Grows == logs \subseteq logs' /\ dlq \subseteq dlq'
           Same == \A e \in Events : stream'[e].st = "settled" => stream[e].st = "settled"
<1>a. ASSUME Grows, Same PROVE SettledIsKept'
  BY <1>a DEF SettledIsKept
<1>1. ASSUME NEW e \in Events, Publish(e) \/ AckWaitExpires(e) \/ Deliver(e)
      PROVE  SettledIsKept'
  <2>1. Same
    <3>1. CASE Publish(e)
      BY <1>0, <3>1 DEF Publish, TypeOK
    <3>2. CASE AckWaitExpires(e)
      <4>1. stream[e] \in [st : StreamState, n : 0..MaxDeliver]
        BY <1>0 DEF TypeOK
      <4>2. Redeliverable(stream[e]).st # "settled"
        BY <4>1, RedeliverableFacts
      <4> QED
        BY <1>0, <3>2, <4>2 DEF AckWaitExpires, TypeOK
    <3>3. CASE Deliver(e)
      BY <1>0, <3>3 DEF Deliver, TypeOK
    <3> QED
      BY <1>1, <3>1, <3>2, <3>3
  <2>2. Grows
    BY <1>1 DEF Publish, AckWaitExpires, Deliver
  <2> QED
    BY <1>a, <2>1, <2>2
<1>2. ASSUME NEW f \in Flushes, TimerFlush(f) \/ InsertFails(f) PROVE SettledIsKept'
  <2>1. Grows /\ Same
    BY <1>2 DEF TimerFlush, InsertFails
  <2> QED
    BY <1>a, <2>1
<1>3. ASSUME NEW f \in Flushes, InsertOk(f) PROVE SettledIsKept'
  <2>1. batch[f] \in SUBSET Delivery
    BY <1>0 DEF TypeOK
  <2>2. \A e \in Events : stream'[e].st = "settled" =>
            stream[e].st = "settled" \/ e \in EventsOf(batch[f])
    BY <1>3, <2>1, SettleFacts DEF InsertOk
  <2> QED
    BY <1>3, <2>2 DEF InsertOk, SettledIsKept
<1>4. ASSUME NEW f \in Flushes, NEW d \in batch[f], AnswerStep(f, d) PROVE SettledIsKept'
  <2>0. d \in Delivery /\ {d} \in SUBSET Delivery /\ EventsOf({d}) = {d[1]}
    BY <1>0 DEF TypeOK, EventsOf
  <2>1. CASE AnswerNak(f, d)
    <3>1. Grows /\ Same
      BY <2>0, <2>1, NakFacts DEF AnswerNak
    <3> QED
      BY <1>a, <3>1
  <2>2. CASE AnswerDlq(f, d)
    <3>1. \A e \in Events : stream'[e].st = "settled" => stream[e].st = "settled" \/ e = d[1]
      BY <2>0, <2>2, SettleFacts DEF AnswerDlq
    <3> QED
      BY <2>2, <3>1 DEF AnswerDlq, SettledIsKept
  <2>3. CASE AnswerFails(f, d)
    <3>1. Grows /\ Same
      BY <2>3 DEF AnswerFails
    <3> QED
      BY <1>a, <3>1
  <2> QED
    BY <1>4, <2>1, <2>2, <2>3 DEF AnswerStep
<1>5. CASE (\E d \in inbox : Take(d)) \/ CloseMessages \/ FinalFlush \/ Stop \/ Start \/ UNCHANGED vars
  <2>1. Grows /\ Same
    BY <1>5 DEF Take, CloseMessages, FinalFlush, Stop, Start, vars
  <2> QED
    BY <1>a, <2>1
<1> QED
  BY <1>1, <1>2, <1>3, <1>4, <1>5 DEF Next, FlushStep, AnswerStep
-----------------------------------------------------------------------------
(* Every path of flush answers, keeps or drops what it took, and whatever  *)
(* it answers from the MAX_RETRIES-th delivery on is kept.                 *)
LEMMA TracedStep == Typed /\ Owned /\ Traced /\ [Next]_vars => Traced'
<1> SUFFICES ASSUME Typed, Owned, Traced, [Next]_vars PROVE Traced'
  OBVIOUS
<1>0. /\ TypeOK /\ HeldOnce /\ LoopFree /\ Loop \in Flushes
      /\ \A d \in Held : d \in Delivery
      /\ \A d \in Delivery : d[1] \in Events /\ d[2] \in Nat
  BY ConstantFacts, HeldMembers DEF Typed, Owned
<1> DEFINE Grows == Kept \subseteq Kept' /\ dropped \subseteq dropped'
           Counts == \A e \in Events : stream'[e].n = stream[e].n
           Handed == \A d \in Held : \/ d \in Held' \cup dropped'
                                     \/ MaxRetries <= d[2] => d[1] \in Kept'
<1>a. ASSUME Grows, Counts, Handed PROVE Traced'
  <2> SUFFICES ASSUME NEW d \in Delivery, MaxRetries <= d[2], d[2] <= stream'[d[1]].n
               PROVE  d \in Held' \cup dropped' \/ d[1] \in Kept'
    BY DEF Traced
  <2>1. d \in Held \cup dropped \/ d[1] \in Kept
    BY <1>0, <1>a DEF Traced
  <2> QED
    BY <1>a, <2>1
<1>1. ASSUME NEW e \in Events, Publish(e) \/ AckWaitExpires(e) PROVE Traced'
  <2>1. Counts
    <3>1. stream[e] \in [st : StreamState, n : 0..MaxDeliver]
      BY <1>0 DEF TypeOK
    <3>2. Redeliverable(stream[e]).n = stream[e].n
      BY <3>1, RedeliverableFacts
    <3>3. ASSUME Publish(e) PROVE Counts
      BY <1>0, <3>3 DEF Publish, TypeOK
    <3>4. ASSUME AckWaitExpires(e) PROVE Counts
      BY <1>0, <3>2, <3>4 DEF AckWaitExpires, TypeOK
    <3> QED
      BY <1>1, <3>3, <3>4
  <2>2. Grows /\ Handed
    BY <1>1 DEF Publish, AckWaitExpires, Kept, Held
  <2> QED
    BY <1>a, <2>1, <2>2
<1>2. ASSUME NEW e \in Events, Deliver(e) PROVE Traced'
  <2>1. Held' = Held \cup {DeliveryOf(e)} /\ UNCHANGED <<dropped, logs, dlq>>
    BY <1>2 DEF Deliver, Held
  <2> SUFFICES ASSUME NEW d \in Delivery, MaxRetries <= d[2], d[2] <= stream'[d[1]].n,
                      d # DeliveryOf(e)
               PROVE  d \in Held \cup dropped \/ d[1] \in Kept
    BY <2>1 DEF Traced, Kept
  <2>2. d[2] <= stream[d[1]].n
    <3>1. CASE d[1] # e
      BY <1>0, <1>2, <3>1 DEF Deliver, TypeOK
    <3>2. CASE d[1] = e
      <4>1. stream'[e].n = stream[e].n + 1 /\ stream[e].n \in Nat
        BY <1>0, <1>2, ConstantFacts DEF Deliver, TypeOK
      <4>2. d[2] # stream[e].n + 1
        BY <3>2, ConstantFacts DEF DeliveryOf
      <4> QED
        BY <1>0, <3>2, <4>1, <4>2
    <3> QED
      BY <3>1, <3>2
  <2> QED
    BY <2>2 DEF Traced
<1>t. ASSUME NEW d \in inbox, Take(d) PROVE Traced'
  <2>1. batch[Loop] = {}
    BY <1>0, <1>t DEF Take, LoopFree, HeldOnce
  <2>2. Grows /\ Counts /\ Handed
    BY <1>0, <1>t, <2>1 DEF Take, BeginFlush, TypeOK, Kept, Held
  <2> QED
    BY <1>a, <2>2
<1>3. ASSUME NEW f \in Flushes, TimerFlush(f) PROVE Traced'
  <2>1. batch[f] = {}
    BY <1>0, <1>3 DEF TimerFlush, HeldOnce
  <2>2. Grows /\ Counts /\ Handed
    BY <1>0, <1>3, <2>1 DEF TimerFlush, BeginFlush, TypeOK, Kept, Held
  <2> QED
    BY <1>a, <2>2
<1>4. ASSUME NEW f \in Flushes, InsertOk(f) PROVE Traced'
  <2>1. Counts
    BY <1>0, <1>4, SettleFacts DEF InsertOk, TypeOK
  <2>2. \A d \in Held : d \in Held' \/ d \in batch[f]
    BY <1>0, <1>4 DEF InsertOk, EndFlush, TypeOK, Held
  <2>3. \A d \in batch[f] : d[1] \in Kept'
    BY <1>4 DEF InsertOk, Kept, EventsOf
  <2>4. Grows
    BY <1>4 DEF InsertOk, Kept
  <2> QED
    BY <1>a, <2>1, <2>2, <2>3, <2>4
<1>5. ASSUME NEW f \in Flushes, InsertFails(f) PROVE Traced'
  <2>1. Grows /\ Counts /\ Handed
    BY <1>5 DEF InsertFails, Kept, Held
  <2> QED
    BY <1>a, <2>1
<1>6. ASSUME NEW f \in Flushes, NEW d \in batch[f], AnswerStep(f, d) PROVE Traced'
  <2>0. d \in Delivery /\ {d} \in SUBSET Delivery
    BY <1>0 DEF TypeOK
  <2>1. ASSUME Answered(f, d), UNCHANGED <<inbox, buffer>> PROVE \A x \in Held : x \in Held' \/ x = d
    BY <1>0, <2>1 DEF Answered, EndFlush, TypeOK, Held
  <2>2. CASE AnswerNak(f, d)
    <3>1. Counts /\ Grows /\ \A x \in Held : x \in Held' \/ x = d
      BY <2>0, <2>1, <2>2, NakFacts DEF AnswerNak, Kept
    <3>2. ~(MaxRetries <= d[2])
      BY <1>0, <2>0, <2>2, ConstantFacts DEF AnswerNak, GoesToDlq
    <3> QED
      BY <1>a, <3>1, <3>2
  <2>3. CASE AnswerDlq(f, d)
    <3>1. Counts /\ Grows /\ \A x \in Held : x \in Held' \/ x = d
      BY <2>0, <2>1, <2>3, SettleFacts DEF AnswerDlq, Kept
    <3>2. d[1] \in Kept'
      BY <2>3 DEF AnswerDlq, Kept
    <3> QED
      BY <1>a, <3>1, <3>2
  <2>4. CASE AnswerFails(f, d)
    <3>1. Counts /\ Grows
      BY <2>4 DEF AnswerFails, Die, Kept
    <3>2. Handed
      BY <1>0, <2>4 DEF AnswerFails, Die, TypeOK, Held
    <3> QED
      BY <1>a, <3>1, <3>2
  <2> QED
    BY <1>6, <2>2, <2>3, <2>4 DEF AnswerStep
<1>7. CASE FinalFlush
  <2>1. batch[Loop] = {}
    BY <1>0, <1>7 DEF FinalFlush, LoopFree, HeldOnce
  <2>2. Grows /\ Counts /\ Handed
    BY <1>0, <1>7, <2>1 DEF FinalFlush, BeginFlush, TypeOK, Kept, Held
  <2> QED
    BY <1>a, <2>2
<1>8. CASE Stop
  <2>1. Grows /\ Counts /\ Handed
    BY <1>8 DEF Stop, Die, Kept
  <2> QED
    BY <1>a, <2>1
<1>9. CASE CloseMessages \/ Start \/ UNCHANGED vars
  <2>1. Grows /\ Counts /\ Handed
    BY <1>9 DEF CloseMessages, Start, vars, Kept, Held
  <2> QED
    BY <1>a, <2>1
<1> QED
  BY <1>1, <1>2, <1>t, <1>3, <1>4, <1>5, <1>6, <1>7, <1>8, <1>9 DEF Next, FlushStep, AnswerStep
-----------------------------------------------------------------------------
(* The inductive invariant holds in every reachable state.                 *)
THEOREM Inductive == Spec => []IInv
<1>1. Init => IInv
  <2> SUFFICES ASSUME Init PROVE IInv
    OBVIOUS
  <2>1. Typed
    BY ConstantFacts, AuditAssumption DEF Init, Typed, TypeOK, DeliveryCounts, StreamState, LoopState
  <2>2. Owned
    BY ConstantFacts DEF Init, Owned, HeldOnce, LoopFree, HeldSeen, Held
  <2>3. SettledIsKept
    BY DEF Init, SettledIsKept
  <2>4. Traced
    BY ConstantFacts DEF Init, Traced
  <2> QED
    BY <2>1, <2>2, <2>3, <2>4 DEF IInv
<1>2. IInv /\ [Next]_vars => IInv'
  BY TypeStep, OwnedStep, KeptStep, TracedStep DEF IInv
<1> QED
  BY <1>1, <1>2, PTL DEF Spec

(* The states of audit.consumer.ts and of its stream are well formed.      *)
THEOREM TypeCorrect == Spec => []TypeOK
  BY Inductive, PTL DEF IInv, Typed

(* Overlapping flushes of the loop and the timer never share a message.    *)
THEOREM FlushesDisjoint == Spec => []HeldOnce
  BY Inductive, PTL DEF IInv, Owned

(* An audit event that was acked or terminated is in audit_logs or in the  *)
(* DLQ, for any faults.                                                    *)
THEOREM AckedIsKept == Spec => []SettledIsKept
  BY Inductive, PTL DEF IInv

(* An audit event is lost only when both of its last two deliveries were   *)
(* dropped.                                                                *)
THEOREM LossNeedsTwoDrops == Spec => []LossTakesTwoDrops
<1>1. IInv => LossTakesTwoDrops
  <2> SUFFICES ASSUME IInv, NEW e \in Events,
                      stream[e].st = "exhausted", e \notin EventsOf(Held), e \notin Kept
               PROVE  <<e, MaxRetries>> \in dropped /\ <<e, MaxDeliver>> \in dropped
    BY DEF LossTakesTwoDrops, Kept
  <2>1. stream[e].n = MaxDeliver
    BY DEF IInv, Typed, DeliveryCounts
  <2>2. \A n \in 1..MaxDeliver : MaxRetries <= n => <<e, n>> \in dropped
    <3> SUFFICES ASSUME NEW n \in 1..MaxDeliver, MaxRetries <= n PROVE <<e, n>> \in dropped
      OBVIOUS
    <3>1. <<e, n>> \in Delivery /\ n <= MaxDeliver
      BY ConstantFacts DEF Delivery
    <3>2. <<e, n>> \notin Held
      BY DEF EventsOf
    <3> QED
      BY <2>1, <3>1, <3>2 DEF IInv, Traced
  <2> QED
    BY <2>2, ConstantFacts
<1> QED
  BY <1>1, Inductive, PTL
=============================================================================
