----------------------- MODULE JetStreamServerProofs -----------------------
(***************************************************************************)
(* Proofs about JetStreamServer for every set of messages and replicas,    *)
(* every max_deliver, concurrency and batch size.                          *)
(***************************************************************************)
EXTENDS JetStreamServer, FiniteSetTheorems, TLAPS

\* The processMessage calls of replica s that hold a slot.
Hold(s) == {d \in Delivery : at[d] = s /\ call[d] \in Holding}

\* The deliveries of replica s waiting for a slot.
Queued(s) == {d \in Delivery : at[d] = s /\ call[d] = "queued"}

(* Where a delivery can be, given the delivery count NATS keeps: numbers   *)
(* above the count are unused, a live call sits on a running replica.      *)
Placement ==
    /\ \A d \in Delivery : d[2] > stream[d[1]].n => call[d] = "none"
    /\ \A d \in Delivery : d[2] <= stream[d[1]].n => call[d] # "none"
    /\ \A d \in Delivery : call[d] \in Live => at[d] \in up
    /\ \A d \in late : call[d] # "none"

(* What each answer already given to NATS implies, and what the delivery   *)
(* count says about the consumer's state.                                  *)
Answers ==
    /\ \A m \in Msgs : stream[m].st = "absent" => stream[m].n = 0
    /\ \A m \in Msgs : stream[m].st = "ready" => stream[m].n < MaxDeliver
    /\ \A m \in Msgs : stream[m].st = "exhausted" => stream[m].n = MaxDeliver
    /\ \A d \in Delivery : call[d] \in {"acked", "dead"} => stream[d[1]].st = "settled"
    /\ \A d \in Delivery : call[d] = "retried" => d[2] < MaxDeliver

(* A delivery on the dead-letter path is the last one, unless its message  *)
(* does not parse; and once publishToDlq resolves the record is stored.    *)
DeadLetters ==
    /\ \A d \in Delivery : call[d] = "dlqStored" => d \in dlq
    /\ \A d \in Delivery : call[d] \in {"dlq", "dlqStored"} /\ d[1] \notin Malformed
                              => d[2] = MaxDeliver
    /\ \A d \in dlq : d[1] \notin Malformed => d[2] = MaxDeliver

IInv ==
    /\ TypeOK
    /\ SlotAccounting
    /\ Placement
    /\ Answers
    /\ DeadLetters
    /\ SettledHasOutcome

-----------------------------------------------------------------------------
\* The pairs <<m, n>> are finitely many (processMessage calls of one consumer).
LEMMA DeliveryFinite == IsFiniteSet(Delivery)
<1>1. IsFiniteSet(1..MaxDeliver)
  BY FS_Interval, ServerAssumption
<1> QED
  BY <1>1, FS_Product, ServerAssumption DEF Delivery

\* "Nobody waits" is not a delivery (the empty queue of the semaphore).
LEMMA NoDeliveryIsNone == NoDelivery \notin Delivery
  BY ServerAssumption DEF NoDelivery, Delivery

\* Components of a delivery.
LEMMA DeliveryParts ==
  ASSUME NEW d \in Delivery
  PROVE  /\ d[1] \in Msgs
         /\ d[2] \in 1..MaxDeliver
         /\ d = <<d[1], d[2]>>
  BY ServerAssumption DEF Delivery

\* The slots of a replica are finitely many and counted by a natural number.
LEMMA HoldFinite ==
  ASSUME NEW s
  PROVE  IsFiniteSet(Hold(s)) /\ Cardinality(Hold(s)) \in Nat
<1>1. Hold(s) \subseteq Delivery
  BY DEF Hold
<1> QED
  BY <1>1, DeliveryFinite, FS_Subset, FS_CardinalityType

\* The accounting of one replica, in terms of Hold and Queued.
Slots(s) ==
    /\ current[s] = Cardinality(Hold(s))
    /\ Queued(s) = {waiter[s]} \cap Delivery
    /\ waiter[s] # NoDelivery => current[s] = Concurrency

\* Accounting, replica by replica.
LEMMA SlotsAre == SlotAccounting <=> \A s \in Servers : Slots(s)
  BY DEF SlotAccounting, Slots, Hold, Queued

\* The same after a step.
LEMMA SlotsArePrimed == (\A s \in Servers : Slots(s)') => SlotAccounting'
  BY DEF SlotAccounting, Slots, Hold, Queued

\* Steps that move no delivery in or out of a slot or the queue.
LEMMA SlotsKept ==
  ASSUME SlotAccounting, UNCHANGED <<current, waiter>>,
         \A s \in Servers : Hold(s)' = Hold(s) /\ Queued(s)' = Queued(s)
  PROVE  SlotAccounting'
  BY DEF SlotAccounting, Hold, Queued

\* Semaphore.acquire keeps the accounting.
LEMMA AcquireSlots ==
  ASSUME TypeOK, SlotAccounting, NEW d \in Delivery, at[d] \in Servers,
         call[d] = "buffered", waiter[at[d]] = NoDelivery,
         Acquire(at[d], d), UNCHANGED at
  PROVE  SlotAccounting' /\ current' \in [Servers -> 0..Concurrency]
<1> DEFINE s == at[d]
<1>0. s \in Servers /\ current[s] \in 0..Concurrency /\ Slots(s)
  BY SlotsAre DEF TypeOK
<1>1. CASE current[s] < Concurrency
  <2>1. /\ current' = [current EXCEPT ![s] = @ + 1]
        /\ call' = [call EXCEPT ![d] = "granted"]
        /\ waiter' = waiter
    BY <1>1, <1>0, ServerAssumption DEF Acquire
  <2>2. Hold(s)' = Hold(s) \cup {d} /\ d \notin Hold(s)
    BY <2>1 DEF Hold, Holding, TypeOK
  <2>3. Cardinality(Hold(s)') = Cardinality(Hold(s)) + 1
    BY <2>2, HoldFinite, FS_AddElement
  <2>4. \A t \in Servers : Queued(t)' = Queued(t)
    BY <2>1 DEF Queued, TypeOK
  <2>5. \A t \in Servers : t # s => Hold(t)' = Hold(t)
    BY <2>1 DEF Hold, TypeOK
  <2>6. \A t \in Servers : Slots(t)'
    <3> SUFFICES ASSUME NEW t \in Servers PROVE Slots(t)'
      OBVIOUS
    <3>1. CASE t = s
      BY <3>1, <1>0, <2>1, <2>3, <2>4 DEF Slots, TypeOK
    <3>2. CASE t # s
      BY <3>2, <2>1, <2>4, <2>5, SlotsAre DEF Slots, TypeOK
    <3> QED BY <3>1, <3>2
  <2>7. current' \in [Servers -> 0..Concurrency]
    BY <2>1, <1>0, <1>1, ServerAssumption DEF TypeOK
  <2> QED
    BY <2>6, <2>7, SlotsArePrimed
<1>2. CASE current[s] >= Concurrency
  <2>1. /\ current' = current
        /\ call' = [call EXCEPT ![d] = "queued"]
        /\ waiter' = [waiter EXCEPT ![s] = d]
    BY <1>2, <1>0, ServerAssumption DEF Acquire
  <2>2. \A t \in Servers : Hold(t)' = Hold(t)
    BY <2>1 DEF Hold, Holding, TypeOK
  <2>3. Queued(s) = {}
    BY <1>0, NoDeliveryIsNone DEF Slots
  <2>4. Queued(s)' = {d}
    BY <2>1, <2>3 DEF Queued, TypeOK
  <2>5. \A t \in Servers : t # s => Queued(t)' = Queued(t)
    BY <2>1 DEF Queued, TypeOK
  <2>6. \A t \in Servers : Slots(t)'
    <3> SUFFICES ASSUME NEW t \in Servers PROVE Slots(t)'
      OBVIOUS
    <3>1. CASE t = s
      <4>1. waiter'[s] = d /\ current'[s] = current[s]
        BY <2>1, <1>0 DEF TypeOK
      <4>2. current[s] = Concurrency
        BY <1>2, <1>0, ServerAssumption
      <4> QED
        BY <3>1, <1>0, <4>1, <4>2, <2>2, <2>4 DEF Slots
    <3>2. CASE t # s
      BY <3>2, <2>1, <2>2, <2>5, SlotsAre DEF Slots, TypeOK
    <3> QED BY <3>1, <3>2
  <2> QED
    BY <2>1, <2>6, SlotsArePrimed DEF TypeOK
<1> QED
  BY <1>0, <1>1, <1>2, ServerAssumption

\* Semaphore.release keeps the accounting: the slot is free or handed over.
LEMMA ReleaseSlots ==
  ASSUME TypeOK, SlotAccounting, NEW d \in Delivery, NEW result \in Finished,
         at[d] \in Servers, call[d] \in Holding,
         Release(d, result), UNCHANGED at
  PROVE  /\ SlotAccounting'
         /\ current' \in [Servers -> 0..Concurrency]
         /\ waiter' \in [Servers -> Delivery \cup {NoDelivery}]
         /\ call' \in [Delivery -> {"none"} \cup Live \cup Finished]
         /\ call'[d] = result
         /\ \A e \in Delivery : e # d =>
               call'[e] = call[e] \/ (call[e] = "queued" /\ call'[e] = "granted")
<1> DEFINE s == at[d]
           w == waiter[s]
<1>0. s \in Servers /\ current[s] \in 0..Concurrency /\ Slots(s)
  BY SlotsAre DEF TypeOK
<1>a. result \notin Holding /\ result # "queued"
  BY DEF Finished, Holding
<1>b. d \in Hold(s) /\ IsFiniteSet(Hold(s)) /\ Cardinality(Hold(s)) \in Nat
  BY HoldFinite DEF Hold
<1>c. Cardinality(Hold(s) \ {d}) = Cardinality(Hold(s)) - 1
  BY <1>b, FS_RemoveElement
<1>d. current[s] >= 1
  <2>1. Cardinality(Hold(s) \ {d}) \in Nat
    BY <1>b, FS_RemoveElement, FS_CardinalityType
  <2> QED
    BY <2>1, <1>0, <1>b, <1>c DEF Slots
<1>1. CASE waiter[s] = NoDelivery
  <2>1. /\ current' = [current EXCEPT ![s] = @ - 1]
        /\ call' = [call EXCEPT ![d] = result]
        /\ waiter' = waiter
    BY <1>1 DEF Release, ReleaseTo
  <2>2. Hold(s)' = Hold(s) \ {d}
    BY <2>1, <1>a DEF Hold, TypeOK
  <2>3. \A t \in Servers : t # s => Hold(t)' = Hold(t)
    BY <2>1 DEF Hold, TypeOK
  <2>4. \A t \in Servers : Queued(t)' = Queued(t)
    BY <2>1, <1>a DEF Queued, TypeOK, Holding
  <2>5. \A t \in Servers : Slots(t)'
    <3> SUFFICES ASSUME NEW t \in Servers PROVE Slots(t)'
      OBVIOUS
    <3>1. CASE t = s
      BY <3>1, <1>0, <1>1, <1>c, <2>1, <2>2, <2>4 DEF Slots, TypeOK
    <3>2. CASE t # s
      BY <3>2, <2>1, <2>3, <2>4, SlotsAre DEF Slots, TypeOK
    <3> QED BY <3>1, <3>2
  <2>6. current' \in [Servers -> 0..Concurrency]
    BY <2>1, <1>0, <1>d, ServerAssumption DEF TypeOK
  <2> QED
    BY <2>1, <2>5, <2>6, SlotsArePrimed DEF TypeOK
<1>2. CASE waiter[s] # NoDelivery
  <2>1. /\ current' = current
        /\ call' = [call EXCEPT ![d] = result, ![w] = "granted"]
        /\ waiter' = [waiter EXCEPT ![s] = NoDelivery]
    BY <1>2 DEF Release, ReleaseTo
  <2>2. w \in Delivery
    BY <1>0, <1>2 DEF TypeOK
  <2>2a. Queued(s) = {w} /\ w \in Queued(s)
    BY <2>2, <1>0 DEF Slots
  <2>2b. at[w] = s /\ call[w] = "queued" /\ w # d
    BY <2>2, <2>2a DEF Queued, Holding
  <2>3. call'[d] = result /\ call'[w] = "granted"
        /\ \A e \in Delivery : e # d /\ e # w => call'[e] = call[e]
    BY <2>1, <2>2, <2>2b DEF TypeOK
  <2>4. Hold(s)' = (Hold(s) \ {d}) \cup {w} /\ w \notin Hold(s) \ {d}
    BY <2>2, <2>2b, <2>3, <1>a DEF Hold, TypeOK, Holding
  <2>5. Cardinality(Hold(s)') = Cardinality(Hold(s))
    <3>1. IsFiniteSet(Hold(s) \ {d})
      BY <1>b, FS_RemoveElement
    <3>2. Cardinality((Hold(s) \ {d}) \cup {w}) = Cardinality(Hold(s) \ {d}) + 1
      BY <3>1, <2>4, FS_AddElement
    <3> QED
      BY <3>2, <2>4, <1>b, <1>c
  <2>6. Queued(s)' = {}
    BY <2>2a, <2>3, <1>a DEF Queued, Holding
  <2>7. \A t \in Servers : t # s => Hold(t)' = Hold(t) /\ Queued(t)' = Queued(t)
    BY <2>2b, <2>3 DEF Hold, Queued, TypeOK
  <2>8. \A t \in Servers : Slots(t)'
    <3> SUFFICES ASSUME NEW t \in Servers PROVE Slots(t)'
      OBVIOUS
    <3>1. CASE t = s
      <4>1. waiter'[s] = NoDelivery
        BY <2>1, <1>0 DEF TypeOK
      <4> QED
        BY <3>1, <4>1, <1>0, <2>1, <2>5, <2>6, NoDeliveryIsNone DEF Slots
    <3>2. CASE t # s
      BY <3>2, <2>1, <2>7, SlotsAre DEF Slots, TypeOK
    <3> QED BY <3>1, <3>2
  <2>9. call' \in [Delivery -> {"none"} \cup Live \cup Finished]
    BY <2>1 DEF TypeOK, Live, Holding
  <2> QED
    BY <2>1, <2>2b, <2>3, <2>8, <2>9, SlotsArePrimed DEF TypeOK
<1> QED
  BY <1>1, <1>2

-----------------------------------------------------------------------------
\* The initial state (no message published, no replica working) satisfies IInv.
LEMMA InitIInv == Init => IInv
<1> SUFFICES ASSUME Init PROVE IInv
  OBVIOUS
<1>1. TypeOK
  BY ServerAssumption DEF Init, TypeOK, StreamState, Live, Holding
<1>2. SlotAccounting
  <2>1. \A s \in Servers : {d \in Delivery : at[d] = s /\ call[d] \in Holding} = {}
    BY DEF Init, Holding
  <2>2. \A s \in Servers : {d \in Delivery : at[d] = s /\ call[d] = "queued"} = {}
    BY DEF Init
  <2> QED
    BY <2>1, <2>2, FS_EmptySet, NoDeliveryIsNone DEF Init, SlotAccounting
<1>3. Placement
  BY ServerAssumption, DeliveryParts DEF Init, Placement, Live, Holding
<1>4. Answers /\ DeadLetters /\ SettledHasOutcome
  BY ServerAssumption, DeliveryParts DEF Init, Answers, DeadLetters, SettledHasOutcome
<1> QED
  BY <1>1, <1>2, <1>3, <1>4 DEF IInv

\* The NATS consumer's own steps: publish, ack_wait, delivery.
LEMMA PublishStep ==
  ASSUME IInv, NEW m \in Msgs, Publish(m)
  PROVE  IInv'
<1> USE DEF IInv, Publish
<1>1. TypeOK'
  BY DEF TypeOK, StreamState
<1>2. SlotAccounting'
  BY SlotsKept DEF Hold, Queued
<1>3. /\ stream'[m].st = "ready" /\ stream'[m].n = stream[m].n
      /\ \A k \in Msgs : k # m => stream'[k] = stream[k]
      /\ \A k \in Msgs : stream'[k].n = stream[k].n
      /\ UNCHANGED <<call, at, executed, dlq, up>>
  BY DEF TypeOK
<1>4. Placement'
  BY <1>3, DeliveryParts DEF Placement
<1>5. Answers'
  BY <1>3, DeliveryParts, ServerAssumption DEF Answers
<1>6. DeadLetters' /\ SettledHasOutcome'
  BY <1>3 DEF DeadLetters, SettledHasOutcome
<1> QED
  BY <1>1, <1>2, <1>4, <1>5, <1>6

\* An expired ack_wait leaves every call alone.
LEMMA AckWaitStep ==
  ASSUME IInv, NEW m \in Msgs, AckWaitExpires(m)
  PROVE  IInv'
<1> USE DEF IInv, AckWaitExpires
<1>1. TypeOK'
  BY DEF TypeOK, StreamState, Redeliverable
<1>2. SlotAccounting'
  BY SlotsKept DEF Hold, Queued
<1>3. /\ stream'[m].st = (IF stream[m].n < MaxDeliver THEN "ready" ELSE "exhausted")
      /\ \A k \in Msgs : k # m => stream'[k] = stream[k]
      /\ \A k \in Msgs : stream'[k].n = stream[k].n
      /\ UNCHANGED <<call, at, executed, dlq, up>>
      /\ stream[m].n \in 0..MaxDeliver
  BY DEF TypeOK, Redeliverable
<1>4. Placement'
  BY <1>3, DeliveryParts DEF Placement
<1>5. Answers'
  BY <1>3, DeliveryParts, ServerAssumption DEF Answers
<1>6. DeadLetters' /\ SettledHasOutcome'
  BY <1>3 DEF DeadLetters, SettledHasOutcome
<1> QED
  BY <1>1, <1>2, <1>4, <1>5, <1>6

\* A delivery uses a number no earlier delivery of the message had.
LEMMA DeliverStep ==
  ASSUME IInv, NEW m \in Msgs, NEW s \in Servers, Deliver(m, s)
  PROVE  IInv'
<1> DEFINE d == <<m, stream[m].n + 1>>
<1> USE DEF IInv
<1>0. stream[m].n \in 0..MaxDeliver /\ stream[m].st = "ready" /\ stream[m].n < MaxDeliver
  BY DEF Deliver, TypeOK, Answers
<1>1. d \in Delivery /\ d[1] = m /\ d[2] = stream[m].n + 1 /\ call[d] = "none"
  BY <1>0, ServerAssumption DEF Delivery, Placement
<1>2. /\ s \in up
      /\ stream' = [stream EXCEPT ![m] = [st |-> "pending", n |-> @.n + 1]]
      /\ call' = [call EXCEPT ![d] = "buffered"]
      /\ at' = [at EXCEPT ![d] = s]
      /\ UNCHANGED <<current, waiter, late, executed, dlq, up, stops>>
  BY DEF Deliver
<1>3. TypeOK'
  <2>1. stream' \in [Msgs -> [st : StreamState, n : 0..MaxDeliver]]
    BY <1>0, <1>2, ServerAssumption DEF TypeOK, StreamState
  <2>2. call' \in [Delivery -> {"none"} \cup Live \cup Finished]
    BY <1>1, <1>2 DEF TypeOK, Live
  <2>3. at' \in [Delivery -> Servers \cup {NoServer}]
    BY <1>1, <1>2 DEF TypeOK
  <2> QED
    BY <2>1, <2>2, <2>3, <1>2 DEF TypeOK
<1>4. \A t \in Servers : Hold(t)' = Hold(t) /\ Queued(t)' = Queued(t)
  BY <1>1, <1>2 DEF Hold, Queued, Holding, TypeOK
<1>5. SlotAccounting'
  BY <1>2, <1>4, SlotsKept
<1>6. /\ stream'[m].st = "pending" /\ stream'[m].n = stream[m].n + 1
      /\ \A k \in Msgs : k # m => stream'[k] = stream[k]
      /\ call'[d] = "buffered" /\ at'[d] = s
      /\ \A e \in Delivery : e # d => call'[e] = call[e] /\ at'[e] = at[e]
  BY <1>1, <1>2 DEF TypeOK
<1>7. Placement'
  BY <1>0, <1>1, <1>2, <1>6, DeliveryParts DEF Placement, Live
<1>8. Answers'
  BY <1>0, <1>1, <1>6, DeliveryParts DEF Answers
<1>9. DeadLetters'
  BY <1>1, <1>2, <1>6 DEF DeadLetters
<1>10. SettledHasOutcome'
  BY <1>2, <1>6 DEF SettledHasOutcome
<1> QED
  BY <1>3, <1>5, <1>7, <1>8, <1>9, <1>10

-----------------------------------------------------------------------------
\* A live call sits on a replica, so its slot and queue are that replica's.
LEMMA LivePlace ==
  ASSUME TypeOK, Placement, NEW d \in Delivery, call[d] \in Live
  PROVE  at[d] \in Servers
  BY DEF TypeOK, Placement

\* Steps that move one call d from a live state to a state c without touching
\* NATS: the facts about answers and dead letters that need no more than c.
LEMMA LiveMove ==
  ASSUME IInv, NEW d \in Delivery, call[d] \in Live,
         call'[d] \in Live,
         \A e \in Delivery : e # d => call'[e] = call[e],
         late' \subseteq late \cup {d}, UNCHANGED <<stream, at, up>>
  PROVE  Placement' /\ Answers'
<1>1. Placement'
  BY DEF IInv, TypeOK, Placement, Live, Holding
<1>2. Answers'
  BY DEF IInv, Answers, Live, Holding
<1> QED
  BY <1>1, <1>2

\* consumeLoop takes a buffered message.
LEMMA ConsumeStep ==
  ASSUME IInv, NEW d \in Delivery, ConsumeNext(d)
  PROVE  IInv'
<1>0. /\ call[d] = "buffered" /\ waiter[at[d]] = NoDelivery /\ Acquire(at[d], d)
      /\ UNCHANGED <<stream, at, late, executed, dlq, up, stops>>
      /\ TypeOK /\ SlotAccounting /\ Placement
  BY DEF ConsumeNext, IInv
<1>1. at[d] \in Servers
  BY <1>0, LivePlace DEF Live
<1>2. SlotAccounting' /\ current' \in [Servers -> 0..Concurrency]
  BY <1>0, <1>1, AcquireSlots
<1>3. /\ call'[d] \in {"granted", "queued"}
      /\ \A e \in Delivery : e # d => call'[e] = call[e]
  BY <1>0 DEF Acquire, TypeOK
<1>4. TypeOK'
  <2>1. call' \in [Delivery -> {"none"} \cup Live \cup Finished]
    BY <1>0 DEF Acquire, TypeOK, Live, Holding
  <2>2. waiter' \in [Servers -> Delivery \cup {NoDelivery}]
    BY <1>0, <1>1 DEF Acquire, TypeOK
  <2> QED
    BY <2>1, <2>2, <1>0, <1>2 DEF TypeOK
<1>5. Placement' /\ Answers'
  BY <1>0, <1>3, LiveMove DEF Live, Holding
<1>6. DeadLetters' /\ SettledHasOutcome'
  BY <1>0, <1>3 DEF IInv, DeadLetters, SettledHasOutcome
<1> QED
  BY <1>2, <1>4, <1>5, <1>6 DEF IInv

\* A call that keeps its slot keeps the accounting.
LEMMA SlotMove ==
  ASSUME TypeOK, SlotAccounting, NEW d \in Delivery, NEW c \in Holding,
         call[d] \in Holding, call' = [call EXCEPT ![d] = c],
         UNCHANGED <<at, current, waiter>>
  PROVE  SlotAccounting' /\ call' \in [Delivery -> {"none"} \cup Live \cup Finished]
<1>1. \A s \in Servers : Hold(s)' = Hold(s) /\ Queued(s)' = Queued(s)
  BY DEF Hold, Queued, Holding, TypeOK
<1> QED
  BY <1>1, SlotsKept DEF TypeOK, Live

\* processMessage starts.
LEMMA BeginStep ==
  ASSUME IInv, NEW d \in Delivery, BeginProcess(d)
  PROVE  IInv'
<1> DEFINE c == IF d[1] \in Malformed THEN "dlq" ELSE "running"
<1>0. /\ call[d] = "granted" /\ call' = [call EXCEPT ![d] = c] /\ c \in Holding
      /\ UNCHANGED <<stream, at, current, waiter, late, executed, dlq, up, stops>>
      /\ TypeOK /\ SlotAccounting
  BY DEF BeginProcess, IInv, Holding
<1>1. SlotAccounting' /\ call' \in [Delivery -> {"none"} \cup Live \cup Finished]
  BY <1>0, SlotMove DEF Holding
<1>2. call'[d] = c /\ \A e \in Delivery : e # d => call'[e] = call[e]
  BY <1>0 DEF TypeOK
<1>3. TypeOK'
  BY <1>0, <1>1 DEF TypeOK
<1>4. Placement' /\ Answers'
  BY <1>0, <1>2, LiveMove DEF Live, Holding
<1>5. DeadLetters' /\ SettledHasOutcome'
  BY <1>0, <1>2 DEF IInv, DeadLetters, SettledHasOutcome
<1> QED
  BY <1>1, <1>3, <1>4, <1>5 DEF IInv

-----------------------------------------------------------------------------
\* A processMessage call ends: it settles the message with an outcome, or it
\* naks it, and gives its slot back.
LEMMA EndStep ==
  ASSUME IInv, NEW d \in Delivery, call[d] \in Holding, NEW result \in Finished,
         Release(d, result), UNCHANGED <<at, dlq, up, stops>>,
         late' \subseteq late \cup {d}, executed \subseteq executed',
         executed' \subseteq Delivery,
         \/ /\ Settle(d[1])
            /\ d \in executed' \cup dlq
            /\ result \in {"acked", "dead"}
         \/ /\ Nak(d[1])
            /\ result \in {"retried", "dlqFailed"}
            /\ result = "retried" => d[2] < MaxDeliver
  PROVE  IInv'
<1> DEFINE m == d[1]
<1>0. TypeOK /\ SlotAccounting /\ Placement /\ at[d] \in Servers /\ m \in Msgs
  BY LivePlace, DeliveryParts DEF IInv, Live
<1>1. /\ SlotAccounting'
      /\ current' \in [Servers -> 0..Concurrency]
      /\ waiter' \in [Servers -> Delivery \cup {NoDelivery}]
      /\ call' \in [Delivery -> {"none"} \cup Live \cup Finished]
      /\ call'[d] = result
      /\ \A e \in Delivery : e # d =>
            call'[e] = call[e] \/ (call[e] = "queued" /\ call'[e] = "granted")
  BY <1>0, ReleaseSlots
<1>2. /\ stream' \in [Msgs -> [st : StreamState, n : 0..MaxDeliver]]
      /\ \A k \in Msgs : stream'[k].n = stream[k].n
      /\ \A k \in Msgs : k # m => stream'[k] = stream[k]
      /\ \A k \in Msgs : stream[k].st = "settled" => stream'[k].st = "settled"
      /\ result \in {"acked", "dead"} => stream'[m].st = "settled"
      /\ stream'[m].st = "settled" => stream[m].st = "settled" \/ result \in {"acked", "dead"}
      /\ stream'[m].st = "exhausted" => stream[m].st = "exhausted" \/ stream[m].n = MaxDeliver
      /\ stream'[m].st = "ready" => stream[m].st = "ready" \/ stream[m].n < MaxDeliver
      /\ stream'[m].st = "absent" => stream[m].st = "absent"
  <2>1. CASE Settle(m) /\ result \in {"acked", "dead"}
    BY <2>1, <1>0 DEF Settle, TypeOK, StreamState
  <2>2. CASE Nak(m) /\ result \in {"retried", "dlqFailed"}
    <3>1. stream' = [stream EXCEPT ![m] =
                        IF stream[m].st = "pending" THEN Redeliverable(stream[m]) ELSE stream[m]]
      BY <2>2 DEF Nak
    <3>2. stream[m] \in [st : StreamState, n : 0..MaxDeliver]
      BY <1>0 DEF TypeOK
    <3>3. CASE stream[m].st = "pending"
      BY <3>1, <3>2, <3>3, <2>2, <1>0, ServerAssumption DEF Redeliverable, TypeOK, StreamState
    <3>4. CASE stream[m].st # "pending"
      BY <3>1, <3>2, <3>4, <2>2, <1>0 DEF TypeOK
    <3> QED BY <3>3, <3>4
  <2> QED BY <2>1, <2>2
<1>3. TypeOK'
  BY <1>0, <1>1, <1>2 DEF TypeOK
<1>4. Placement'
  <2>1. \A e \in Delivery : call'[e] = "none" <=> call[e] = "none"
    BY <1>1 DEF Finished, Holding
  <2>2. \A e \in Delivery : call'[e] \in Live => call[e] \in Live
    BY <1>1 DEF Finished, Live, Holding
  <2>3. \A e \in late' : call'[e] # "none"
    BY <1>0, <2>1 DEF Placement, TypeOK, Holding
  <2> QED
    BY <1>0, <1>2, <2>1, <2>2, <2>3, DeliveryParts DEF Placement
<1>5. Answers'
  <2>0. \A k \in Msgs : stream'[k].st = "absent" => stream'[k].n = 0
    BY <1>2 DEF IInv, Answers
  <2>1. \A k \in Msgs : stream'[k].st = "ready" => stream'[k].n < MaxDeliver
    BY <1>2 DEF IInv, Answers
  <2>2. \A k \in Msgs : stream'[k].st = "exhausted" => stream'[k].n = MaxDeliver
    BY <1>2 DEF IInv, Answers
  <2>3. \A e \in Delivery : call'[e] \in {"acked", "dead"} => stream'[e[1]].st = "settled"
    BY <1>1, <1>2, DeliveryParts DEF IInv, Answers
  <2>4. \A e \in Delivery : call'[e] = "retried" => e[2] < MaxDeliver
    BY <1>1 DEF IInv, Answers
  <2> QED
    BY <2>0, <2>1, <2>2, <2>3, <2>4 DEF Answers
<1>6. DeadLetters'
  BY <1>1 DEF IInv, DeadLetters, Finished
<1>7. SettledHasOutcome'
  <2> SUFFICES ASSUME NEW k \in Msgs, stream'[k].st = "settled"
               PROVE  \E n \in 1..MaxDeliver : <<k, n>> \in executed' \cup dlq'
    BY DEF SettledHasOutcome
  <2>1. CASE stream[k].st = "settled"
    BY <2>1 DEF IInv, SettledHasOutcome
  <2>2. CASE stream[k].st # "settled"
    <3>1. k = m /\ result \in {"acked", "dead"}
      BY <2>2, <1>2
    <3>2. d \in executed' \cup dlq'
      BY <3>1
    <3> QED
      BY <3>1, <3>2, DeliveryParts
  <2> QED BY <2>1, <2>2
<1> QED
  BY <1>1, <1>3, <1>4, <1>5, <1>6, <1>7 DEF IInv

\* The handler completes in time.
LEMMA SucceedsStep ==
  ASSUME IInv, NEW d \in Delivery, HandlerSucceeds(d)
  PROVE  IInv'
  BY EndStep DEF HandlerSucceeds, Holding, Finished, IInv, TypeOK

\* handleFailure, after an error or a timeout.
LEMMA FailureStep ==
  ASSUME IInv, NEW d \in Delivery, call[d] = "running", HandleFailure(d),
         late' \subseteq late \cup {d}, UNCHANGED <<at, executed, dlq, up, stops>>
  PROVE  IInv'
<1>0. TypeOK /\ SlotAccounting
  BY DEF IInv
<1>1. CASE d[2] < MaxDeliver
  <2>1. Nak(d[1]) /\ Release(d, "retried")
    BY <1>1, DeliveryParts, ServerAssumption DEF HandleFailure
  <2> QED
    BY <1>0, <1>1, <2>1, EndStep DEF Holding, Finished, TypeOK
<1>2. CASE d[2] >= MaxDeliver
  <2>1. /\ call' = [call EXCEPT ![d] = "dlq"] /\ UNCHANGED <<stream, current, waiter>>
        /\ d[2] = MaxDeliver
    BY <1>2, DeliveryParts, ServerAssumption DEF HandleFailure
  <2>2. SlotAccounting' /\ call' \in [Delivery -> {"none"} \cup Live \cup Finished]
    BY <1>0, <2>1, SlotMove DEF Holding
  <2>3. call'[d] = "dlq" /\ \A e \in Delivery : e # d => call'[e] = call[e]
    BY <1>0, <2>1 DEF TypeOK
  <2>4. TypeOK'
    BY <1>0, <2>1, <2>2 DEF TypeOK
  <2>5. Placement' /\ Answers'
    BY <2>1, <2>3, LiveMove DEF Live, Holding
  <2>6. DeadLetters' /\ SettledHasOutcome'
    BY <2>1, <2>3 DEF IInv, DeadLetters, SettledHasOutcome
  <2> QED
    BY <2>2, <2>4, <2>5, <2>6 DEF IInv
<1> QED
  BY <1>1, <1>2, DeliveryParts, ServerAssumption

\* publishToDlq: the record is stored.
LEMMA DlqStoresStep ==
  ASSUME IInv, NEW d \in Delivery, DlqStores(d)
  PROVE  IInv'
<1>0. /\ call[d] = "dlq" /\ call' = [call EXCEPT ![d] = "dlqStored"]
      /\ dlq' = dlq \cup {d}
      /\ UNCHANGED <<stream, at, current, waiter, late, executed, up, stops>>
      /\ TypeOK /\ SlotAccounting
  BY DEF DlqStores, IInv
<1>1. SlotAccounting' /\ call' \in [Delivery -> {"none"} \cup Live \cup Finished]
  BY <1>0, SlotMove DEF Holding
<1>2. call'[d] = "dlqStored" /\ \A e \in Delivery : e # d => call'[e] = call[e]
  BY <1>0 DEF TypeOK
<1>3. TypeOK'
  BY <1>0, <1>1 DEF TypeOK
<1>4. Placement' /\ Answers'
  BY <1>0, <1>2, LiveMove DEF Live, Holding
<1>5. DeadLetters'
  BY <1>0, <1>2 DEF IInv, DeadLetters
<1>6. SettledHasOutcome'
  BY <1>0 DEF IInv, SettledHasOutcome
<1> QED
  BY <1>1, <1>3, <1>4, <1>5, <1>6 DEF IInv

\* publishToDlq resolves: term; the record is there to justify it.
LEMMA DlqConfirmsStep ==
  ASSUME IInv, NEW d \in Delivery, DlqConfirms(d)
  PROVE  IInv'
<1>1. d \in dlq
  BY DEF DlqConfirms, IInv, DeadLetters
<1> QED
  BY <1>1, EndStep DEF DlqConfirms, Holding, Finished, IInv, TypeOK

\* publishToDlq rejects: nak.
LEMMA DlqFailsStep ==
  ASSUME IInv, NEW d \in Delivery, DlqFails(d)
  PROVE  IInv'
  BY EndStep DEF DlqFails, Holding, Finished, IInv, TypeOK

\* A handler that lost the race ends.
LEMMA LateStep ==
  ASSUME IInv, NEW d \in Delivery, NEW ok \in BOOLEAN, LateHandlerEnds(d, ok)
  PROVE  IInv'
<1>0. /\ UNCHANGED <<stream, call, at, current, waiter, dlq, up, stops>>
      /\ executed \subseteq executed' /\ executed' \subseteq Delivery
      /\ late' \subseteq late
      /\ TypeOK /\ SlotAccounting
  BY DEF LateHandlerEnds, IInv, TypeOK
<1>1. TypeOK'
  BY <1>0 DEF TypeOK
<1>2. SlotAccounting'
  BY <1>0, SlotsKept DEF Hold, Queued
<1>3. Placement' /\ Answers' /\ DeadLetters'
  BY <1>0 DEF IInv, Placement, Answers, DeadLetters
<1>4. SettledHasOutcome'
  BY <1>0 DEF IInv, SettledHasOutcome
<1> QED
  BY <1>1, <1>2, <1>3, <1>4 DEF IInv

\* close() or a crash: every call of the replica is lost, its slots are free.
LEMMA StopStep ==
  ASSUME IInv, NEW s \in Servers, Stop(s)
  PROVE  IInv'
<1>0. /\ s \in up /\ stops < MaxStops /\ stops' = stops + 1 /\ up' = up \ {s}
      /\ call' = [d \in Delivery |->
                    IF at[d] = s /\ call[d] \in Live THEN "lost" ELSE call[d]]
      /\ late' = {d \in late : at[d] # s}
      /\ current' = [current EXCEPT ![s] = 0]
      /\ waiter' = [waiter EXCEPT ![s] = NoDelivery]
      /\ UNCHANGED <<stream, at, executed, dlq>>
      /\ TypeOK /\ SlotAccounting
  BY DEF Stop, IInv
<1>1. TypeOK'
  BY <1>0, ServerAssumption DEF TypeOK, Finished
<1>2. Hold(s)' = {} /\ Queued(s)' = {}
  BY <1>0 DEF Hold, Queued, Live, Holding
<1>3. \A t \in Servers : t # s => Hold(t)' = Hold(t) /\ Queued(t)' = Queued(t)
  BY <1>0 DEF Hold, Queued
<1>4. \A t \in Servers : Slots(t)'
  <2> SUFFICES ASSUME NEW t \in Servers PROVE Slots(t)'
    OBVIOUS
  <2>1. CASE t = s
    <3>1. current'[s] = 0 /\ waiter'[s] = NoDelivery
      BY <1>0 DEF TypeOK
    <3> QED
      BY <2>1, <3>1, <1>2, FS_EmptySet, NoDeliveryIsNone DEF Slots
  <2>2. CASE t # s
    BY <2>2, <1>0, <1>3, SlotsAre DEF Slots, TypeOK
  <2> QED BY <2>1, <2>2
<1>5. SlotAccounting'
  BY <1>4, SlotsArePrimed
<1>6. \A d \in Delivery : call'[d] = call[d] \/ (call[d] \in Live /\ call'[d] = "lost")
  BY <1>0
<1>7. Placement'
  <2>1. \A d \in Delivery : call'[d] \in Live => at'[d] \in up'
    BY <1>0, <1>6 DEF IInv, Placement, Live, Holding
  <2>2. \A d \in Delivery : call'[d] = "none" <=> call[d] = "none"
    BY <1>6 DEF Live, Holding
  <2>3. \A d \in late' : call'[d] # "none"
    BY <1>0, <2>2 DEF IInv, Placement, TypeOK
  <2> QED
    BY <1>0, <2>1, <2>2, <2>3 DEF IInv, Placement
<1>8. Answers' /\ DeadLetters'
  BY <1>0, <1>6 DEF IInv, Answers, DeadLetters
<1>9. SettledHasOutcome'
  BY <1>0 DEF IInv, SettledHasOutcome
<1> QED
  BY <1>1, <1>5, <1>7, <1>8, <1>9 DEF IInv

\* listen(): nothing but the replica's state changes.
LEMMA ListenStep ==
  ASSUME IInv, NEW s \in Servers, Listen(s)
  PROVE  IInv'
<1>0. /\ up' = up \cup {s}
      /\ UNCHANGED <<stream, call, at, current, waiter, late, executed, dlq, stops>>
      /\ TypeOK /\ SlotAccounting
  BY DEF Listen, IInv
<1>1. TypeOK'
  BY <1>0 DEF TypeOK
<1>2. SlotAccounting'
  BY <1>0, SlotsKept DEF Hold, Queued
<1>3. Placement' /\ Answers' /\ DeadLetters' /\ SettledHasOutcome'
  BY <1>0 DEF IInv, Placement, Answers, DeadLetters, SettledHasOutcome
<1> QED
  BY <1>1, <1>2, <1>3 DEF IInv

\* IInv survives every step.
LEMMA NextIInv == IInv /\ [Next]_vars => IInv'
<1> SUFFICES ASSUME IInv, [Next]_vars PROVE IInv'
  OBVIOUS
<1>1. ASSUME NEW m \in Msgs, Publish(m) \/ AckWaitExpires(m) PROVE IInv'
  BY <1>1, PublishStep, AckWaitStep
<1>2. ASSUME NEW m \in Msgs, NEW s \in Servers, Deliver(m, s) PROVE IInv'
  BY <1>2, DeliverStep
<1>3. ASSUME NEW d \in Delivery, Step(d) PROVE IInv'
  <2>1. CASE ConsumeNext(d)
    BY <2>1, ConsumeStep
  <2>2. CASE BeginProcess(d)
    BY <2>2, BeginStep
  <2>3. CASE HandlerSucceeds(d)
    BY <2>3, SucceedsStep
  <2>4. CASE HandlerFails(d)
    BY <2>4, FailureStep DEF HandlerFails, IInv, TypeOK
  <2>5. CASE HandlerTimesOut(d)
    BY <2>5, FailureStep DEF HandlerTimesOut, IInv, TypeOK
  <2>6. CASE \E ok \in BOOLEAN : LateHandlerEnds(d, ok)
    BY <2>6, LateStep
  <2>7. CASE DlqStores(d)
    BY <2>7, DlqStoresStep
  <2>8. CASE DlqConfirms(d)
    BY <2>8, DlqConfirmsStep
  <2>9. CASE DlqFails(d)
    BY <2>9, DlqFailsStep
  <2> QED
    BY <1>3, <2>1, <2>2, <2>3, <2>4, <2>5, <2>6, <2>7, <2>8, <2>9 DEF Step
<1>4. ASSUME NEW s \in Servers, Stop(s) \/ Listen(s) PROVE IInv'
  BY <1>4, StopStep, ListenStep
<1>5. CASE UNCHANGED vars
  <2>1. UNCHANGED <<stream, call, at, current, waiter, late, executed, dlq, up, stops>>
    BY <1>5 DEF vars
  <2>2. TypeOK'
    BY <2>1 DEF IInv, TypeOK
  <2>3. SlotAccounting'
    BY <2>1, SlotsKept DEF IInv, Hold, Queued
  <2>4. Placement' /\ Answers' /\ DeadLetters' /\ SettledHasOutcome'
    BY <2>1 DEF IInv, Placement, Answers, DeadLetters, SettledHasOutcome
  <2> QED
    BY <2>2, <2>3, <2>4 DEF IInv
<1> QED
  BY <1>1, <1>2, <1>3, <1>4, <1>5 DEF Next

(* The inductive invariant holds in every reachable state of the transport *)
(* (consumeLoop, processMessage and the NATS consumer together).           *)
THEOREM Inductive == Spec => []IInv
  BY InitIInv, NextIInv, PTL DEF Spec

(* Type correctness; in particular the semaphore's current never leaves    *)
(* 0..concurrency, which needs the slot accounting.                        *)
THEOREM TypeCorrect == Spec => []TypeOK
<1>1. IInv => TypeOK
  BY DEF IInv
<1> QED
  BY <1>1, Inductive, PTL

(* Slots are neither leaked nor over-granted, and no wake-up is lost, for  *)
(* every concurrency and every number of replicas (semaphore.ts).          *)
THEOREM SlotsAccounted == Spec => []SlotAccounting
<1>1. IInv => SlotAccounting
  BY DEF IInv
<1> QED
  BY <1>1, Inductive, PTL

(* No message is acked or terminated without a completed handler run or a  *)
(* stored dead-letter record (processMessage, sendToDlqOrNak).             *)
THEOREM SettledWithOutcome == Spec => []SettledHasOutcome
<1>1. IInv => SettledHasOutcome
  BY DEF IInv
<1> QED
  BY <1>1, Inductive, PTL

(* A message NATS gave up on is still being worked on, or its DLQ publish  *)
(* failed, or its replica stopped during the last delivery (handleFailure).*)
THEOREM StrandedByFault == Spec => []StrandedOnlyByFault
<1>1. IInv => StrandedOnlyByFault
  <2> SUFFICES ASSUME IInv, NEW m \in Msgs, stream[m].st = "exhausted"
               PROVE  call[<<m, MaxDeliver>>] \in Live \cup {"dlqFailed", "lost"}
    BY DEF StrandedOnlyByFault
  <2> DEFINE d == <<m, MaxDeliver>>
  <2>1. d \in Delivery /\ d[1] = m /\ d[2] = MaxDeliver
    BY ServerAssumption DEF Delivery
  <2>2. stream[m].n = MaxDeliver
    BY DEF IInv, Answers
  <2>3. call[d] # "none"
    BY <2>1, <2>2, ServerAssumption DEF IInv, Placement
  <2>4. call[d] \notin {"acked", "dead", "retried"}
    BY <2>1, ServerAssumption DEF IInv, Answers
  <2>5. call[d] \in {"none"} \cup Live \cup Finished
    BY <2>1 DEF IInv, TypeOK
  <2> QED
    BY <2>3, <2>4, <2>5 DEF Finished
<1> QED
  BY <1>1, Inductive, PTL

(* A message that parses has at most one dead-letter record, whatever      *)
(* stops and late answers there are (handleFailure, publishToDlq).         *)
THEOREM DeadLetteredOnce == Spec => []SingleDeadLetter
<1>1. IInv => SingleDeadLetter
  BY DeliveryParts DEF IInv, TypeOK, DeadLetters, SingleDeadLetter
<1> QED
  BY <1>1, Inductive, PTL

-----------------------------------------------------------------------------
\* The sets of the refinement mapping.
Accepted == {m \in Msgs : stream[m].st # "absent"}
Completed == {d[1] : d \in executed}
Recorded == {d[1] : d \in dlq}
Settled == {m \in Msgs : stream[m].st = "settled"}

\* A message with a delivery that has been handed out is on the stream.
LEMMA HandedOut ==
  ASSUME IInv, NEW d \in Delivery, call[d] # "none"
  PROVE  d[1] \in Accepted
<1>1. d[1] \in Msgs /\ d[2] \in 1..MaxDeliver
  BY DeliveryParts
<1>2. stream[d[1]].n \in 0..MaxDeliver /\ d[2] <= stream[d[1]].n
  BY <1>1, ServerAssumption DEF IInv, TypeOK, Placement
<1> QED
  BY <1>1, <1>2 DEF IInv, Answers, Accepted

\* Every step of the transport is a step of the promise or leaves it alone.
LEMMA StepSimulation ==
  ASSUME IInv, [Next]_vars
  PROVE  [Promise!Next]_(Promise!vars)
<1> USE DEF Accepted, Completed, Recorded, Settled
<1> DEFINE Stutter == /\ Accepted' = Accepted /\ Completed' = Completed
                      /\ Recorded' = Recorded /\ Settled' = Settled
<1>0. Stutter => UNCHANGED Promise!vars
  BY DEF Promise!vars
<1> HIDE DEF Stutter
<1>1. ASSUME NEW m \in Msgs, Publish(m) PROVE Promise!Accept(m)
  <2>1. /\ m \notin Accepted /\ Accepted' = Accepted \cup {m} /\ Settled' = Settled
        /\ UNCHANGED <<executed, dlq>>
    BY <1>1 DEF Publish, IInv, TypeOK
  <2> QED
    BY <2>1 DEF Promise!Accept
<1>2. ASSUME NEW m \in Msgs, AckWaitExpires(m) PROVE Stutter
  BY <1>2 DEF Stutter, AckWaitExpires, Redeliverable, IInv, TypeOK
<1>3. ASSUME NEW m \in Msgs, NEW s \in Servers, Deliver(m, s) PROVE Stutter
  BY <1>3 DEF Stutter, Deliver, IInv, TypeOK
<1>4. ASSUME NEW d \in Delivery, Nak(d[1]), UNCHANGED <<executed, dlq>> PROVE Stutter
  <2>1. d[1] \in Msgs
    BY DeliveryParts
  <2> QED
    BY <1>4, <2>1 DEF Stutter, Nak, Redeliverable, IInv, TypeOK
<1>5. ASSUME NEW d \in Delivery, HandlerSucceeds(d) PROVE Promise!Execute(d[1])
  <2>1. d[1] \in Accepted /\ d[1] \in Msgs
    BY <1>5, HandedOut, DeliveryParts DEF HandlerSucceeds
  <2>2. Completed' = Completed \cup {d[1]} /\ UNCHANGED dlq
    BY <1>5 DEF HandlerSucceeds
  <2>3. Settled' = Settled \cup {d[1]} /\ Accepted' = Accepted
    BY <1>5, <2>1 DEF HandlerSucceeds, Settle, IInv, TypeOK
  <2> QED
    BY <2>1, <2>2, <2>3 DEF Promise!Execute
<1>6. ASSUME NEW d \in Delivery, HandleFailure(d), UNCHANGED <<executed, dlq>> PROVE Stutter
  BY <1>4, <1>6 DEF HandleFailure, Stutter
<1>7. ASSUME NEW d \in Delivery, NEW ok \in BOOLEAN, LateHandlerEnds(d, ok)
      PROVE  Stutter \/ Promise!Execute(d[1])
  <2>1. d[1] \in Accepted
    BY <1>7, HandedOut DEF LateHandlerEnds, IInv, Placement
  <2>2. UNCHANGED <<stream, dlq>> /\ Accepted' = Accepted /\ Settled' = Settled
    BY <1>7 DEF LateHandlerEnds
  <2>3. CASE ok
    <3>1. Completed' = Completed \cup {d[1]}
      BY <1>7, <2>3 DEF LateHandlerEnds
    <3> QED
      BY <2>1, <2>2, <3>1 DEF Promise!Execute
  <2>4. CASE ~ok
    BY <1>7, <2>2, <2>4 DEF Stutter, LateHandlerEnds
  <2> QED BY <2>3, <2>4
<1>8. ASSUME NEW d \in Delivery, DlqStores(d) PROVE Promise!Record(d[1])
  <2>1. d[1] \in Accepted
    BY <1>8, HandedOut DEF DlqStores
  <2>2. Recorded' = Recorded \cup {d[1]} /\ UNCHANGED <<stream, executed>>
    BY <1>8 DEF DlqStores
  <2> QED
    BY <2>1, <2>2 DEF Promise!Record
<1>9. ASSUME NEW d \in Delivery, DlqConfirms(d) PROVE Promise!Finish(d[1])
  <2>1. d[1] \in Recorded /\ d[1] \in Accepted /\ d[1] \in Msgs
    BY <1>9, HandedOut, DeliveryParts DEF DlqConfirms, IInv, DeadLetters
  <2>2. UNCHANGED <<executed, dlq>> /\ Settled' = Settled \cup {d[1]} /\ Accepted' = Accepted
    BY <1>9, <2>1 DEF DlqConfirms, Settle, IInv, TypeOK
  <2> QED
    BY <2>1, <2>2 DEF Promise!Finish
<1>10. ASSUME NEW d \in Delivery, Step(d) PROVE Stutter \/ Promise!Next
  <2>0. d[1] \in Msgs
    BY DeliveryParts
  <2>1. CASE ConsumeNext(d)
    BY <2>1 DEF ConsumeNext, Stutter
  <2>2. CASE BeginProcess(d)
    BY <2>2 DEF BeginProcess, Stutter
  <2>3. CASE HandlerSucceeds(d)
    BY <2>0, <2>3, <1>5 DEF Promise!Next
  <2>4. CASE HandlerFails(d) \/ HandlerTimesOut(d)
    BY <2>4, <1>6 DEF HandlerFails, HandlerTimesOut
  <2>5. CASE \E ok \in BOOLEAN : LateHandlerEnds(d, ok)
    BY <2>0, <2>5, <1>7 DEF Promise!Next
  <2>6. CASE DlqStores(d)
    BY <2>0, <2>6, <1>8 DEF Promise!Next
  <2>7. CASE DlqConfirms(d)
    BY <2>0, <2>7, <1>9 DEF Promise!Next
  <2>8. CASE DlqFails(d)
    BY <2>8, <1>4 DEF DlqFails
  <2> QED
    BY <1>10, <2>1, <2>2, <2>3, <2>4, <2>5, <2>6, <2>7, <2>8 DEF Step
<1>11. ASSUME NEW s \in Servers, Stop(s) \/ Listen(s) PROVE Stutter
  BY <1>11 DEF Stop, Listen, Stutter
<1>12. CASE UNCHANGED vars
  BY <1>0, <1>12 DEF vars, Stutter
<1>13. ASSUME NEW m \in Msgs, Publish(m) PROVE Promise!Next
  BY <1>1, <1>13 DEF Promise!Next
<1>14. CASE Next
  <2>1. CASE \E m \in Msgs : Publish(m) \/ AckWaitExpires(m)
    BY <2>1, <1>0, <1>2, <1>13
  <2>2. CASE \E m \in Msgs, s \in Servers : Deliver(m, s)
    BY <2>2, <1>0, <1>3
  <2>3. CASE \E d \in Delivery : Step(d)
    BY <2>3, <1>0, <1>10
  <2>4. CASE \E s \in Servers : Stop(s) \/ Listen(s)
    BY <2>4, <1>0, <1>11
  <2> QED
    BY <1>14, <2>1, <2>2, <2>3, <2>4 DEF Next
<1> QED
  BY <1>0, <1>12, <1>14

(* The transport implements the abstract at-least-once promise: whatever   *)
(* stops, times out or is answered late, the visible sets of accepted,     *)
(* executed, dead-lettered and settled messages change as AtLeastOnce      *)
(* allows (processMessage and everything it calls).                        *)
THEOREM Refinement == Spec => PromiseKept
<1>1. Init => Promise!Init
  BY DEF Init, Promise!Init
<1>2. IInv /\ [Next]_vars => [Promise!Next]_(Promise!vars)
  BY StepSimulation
<1> QED
  BY <1>1, <1>2, Inductive, PTL DEF Spec, PromiseKept, Promise!Spec
=============================================================================
