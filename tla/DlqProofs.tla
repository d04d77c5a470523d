------------------------------ MODULE DlqProofs ------------------------------
(***************************************************************************)
(* Proofs about Dlq, for any number of records, gateways and calls.        *)
(*                                                                         *)
(* The invariants of the runs are not inductive: an ack needs to know that *)
(* the insert has committed (StoredHasRow), and an update that the copy it *)
(* counts has been published (CallsCovered).                               *)
(***************************************************************************)
EXTENDS Dlq, TLAPS

(* An insert that has committed and is not acked yet has left a row.       *)
StoredHasRow ==
    \A g \in Gateways : \A d \in stored[g] : rows[d[1]].st # "none"

(* What a replay call is about to write is covered by published copies.    *)
CallsCovered ==
    \A q \in Requests :
        /\ req[q].at = "publish" => req[q].count <= copies[req[q].r]
        /\ req[q].at = "replay" => req[q].count + 1 <= copies[req[q].r]

(* NATS has a delivery left for every record it can still hand out.        *)
DeliveriesLeft ==
    \A r \in Records : record[r].st \in {"absent", "ready"} => record[r].n < MaxDeliver

Typed == TypeOK /\ DeliveriesLeft

IInv == Typed /\ StoredHasRow /\ SettledHasRow /\ CallsCovered /\ ReplaysHappened

-----------------------------------------------------------------------------
(* The nak of startConsuming and an expired ack_wait leave a well-typed    *)
(* consumer and settle nothing.                                            *)
LEMMA RedeliverableType ==
    ASSUME NEW s \in [st : RecordState, n : 0..MaxDeliver]
    PROVE  /\ Redeliverable(s) \in [st : RecordState, n : 0..MaxDeliver]
           /\ Redeliverable(s).st \notin {"settled", "absent"}
           /\ Redeliverable(s).st = "ready" => Redeliverable(s).n < MaxDeliver
  BY DlqAssumption DEF Redeliverable, RecordState

(* persist never removes a row, and changes neither the status nor the     *)
(* count of an existing one.                                               *)
LEMMA InsertedFacts ==
    ASSUME TypeOK, NEW r \in Records
    PROVE  /\ Inserted(r) \in [Records -> [st : RowState, count : Nat]]
           /\ Inserted(r)[r].st # "none"
           /\ \A x \in Records : /\ rows[x].st # "none" => Inserted(r)[x] = rows[x]
                                 /\ Inserted(r)[x].st = "replayed" => Inserted(r)[x] = rows[x]
                                 /\ Inserted(r)[x].count \in {0, rows[x].count}
  BY DEF TypeOK, Inserted, RowState, DlqStatus

-----------------------------------------------------------------------------
(* Type correctness is preserved by every step.                            *)
LEMMA TypeStep == Typed /\ [Next]_vars => Typed'
<1> SUFFICES ASSUME TypeOK, DeliveriesLeft, [Next]_vars PROVE TypeOK' /\ DeliveriesLeft'
  BY DEF Typed
<1> USE DEF RecordState
<1>1. ASSUME NEW r \in Records, DeadLetter(r) PROVE TypeOK' /\ DeliveriesLeft'
  BY <1>1 DEF DeadLetter, TypeOK, DeliveriesLeft
<1>2. ASSUME NEW r \in Records, AckWaitExpires(r) PROVE TypeOK' /\ DeliveriesLeft'
  BY <1>2, RedeliverableType DEF AckWaitExpires, TypeOK, DeliveriesLeft
<1>3. ASSUME NEW g \in Gateways, NEW r \in Records, Deliver(g, r)
      PROVE  TypeOK' /\ DeliveriesLeft'
  <2>1. record[r].n + 1 \in 1..MaxDeliver
    BY <1>3, DlqAssumption DEF Deliver, TypeOK, DeliveriesLeft
  <2>2. record' \in [Records -> [st : RecordState, n : 0..MaxDeliver]] /\ DeliveriesLeft'
    BY <1>3, <2>1, DlqAssumption DEF Deliver, TypeOK, DeliveriesLeft
  <2>3. held' \in [Gateways -> SUBSET Delivery]
    BY <1>3, <2>1 DEF Deliver, TypeOK, Delivery
  <2> QED
    BY <1>3, <2>2, <2>3 DEF Deliver, TypeOK
<1>4. ASSUME NEW g \in Gateways, NEW d \in held[g], ConsumerStep(g, d)
      PROVE  TypeOK' /\ DeliveriesLeft'
  <2>0. d \in Delivery /\ d[1] \in Records
    BY DEF TypeOK, Delivery
  <2>1. CASE Persist(g, d)
    BY <2>0, <2>1, InsertedFacts DEF Persist, TypeOK, DeliveriesLeft
  <2>2. CASE Ack(g, d)
    BY <2>0, <2>2 DEF Ack, TypeOK, DeliveriesLeft
  <2>3. CASE PersistFails(g, d)
    <3>1. record' \in [Records -> [st : RecordState, n : 0..MaxDeliver]] /\ DeliveriesLeft'
      BY <2>0, <2>3, RedeliverableType DEF PersistFails, Nak, TypeOK, DeliveriesLeft
    <3>2. rows' \in [Records -> [st : RowState, count : Nat]]
      BY <2>0, <2>3, InsertedFacts DEF PersistFails, TypeOK
    <3>3. faults' \in [stop : 0..MaxStops, db : 0..MaxDbFailures]
      BY <2>3, DlqAssumption DEF PersistFails, TypeOK
    <3> QED
      BY <2>3, <3>1, <3>2, <3>3 DEF PersistFails, TypeOK
  <2> QED
    BY <1>4, <2>1, <2>2, <2>3 DEF ConsumerStep
<1>5. ASSUME NEW g \in Gateways, Stop(g) \/ Start(g) PROVE TypeOK' /\ DeliveriesLeft'
  <2>1. CASE Stop(g)
    BY <2>1, DlqAssumption DEF Stop, TypeOK, DeliveriesLeft
  <2>2. CASE Start(g)
    BY <2>2 DEF Start, TypeOK, DeliveriesLeft
  <2> QED
    BY <1>5, <2>1, <2>2
<1>6. ASSUME NEW q \in Requests, NEW r \in Records, ReplayRead(q, r) \/ DiscardRead(q, r)
      PROVE  TypeOK' /\ DeliveriesLeft'
  BY <1>6 DEF ReplayRead, DiscardRead, TypeOK, DeliveriesLeft, Call
<1>7. ASSUME NEW q \in Requests,
             ReplayPublish(q) \/ ReplayUpdate(q) \/ DiscardUpdate(q) \/ CallFails(q)
      PROVE  TypeOK' /\ DeliveriesLeft'
  <2>1. CASE ReplayPublish(q)
    <3>1. req[q] \in Call
      BY <2>1 DEF ReplayPublish, TypeOK, Idle
    <3>2. copies' \in [Records -> 0..MaxReplays]
      BY <2>1, <3>1, DlqAssumption DEF ReplayPublish, TypeOK, Call
    <3>3. req' \in [Requests -> {Idle} \cup Call]
      <4>1. [req[q] EXCEPT !.at = "replay"] \in Call
        BY <3>1 DEF Call
      <4>2. req' = [req EXCEPT ![q] = Idle] \/ req' = [req EXCEPT ![q] = [@ EXCEPT !.at = "replay"]]
        BY <2>1 DEF ReplayPublish
      <4> QED
        BY <4>1, <4>2 DEF TypeOK
    <3> QED
      BY <2>1, <3>2, <3>3 DEF ReplayPublish, TypeOK, DeliveriesLeft
  <2>2. CASE ReplayUpdate(q)
    <3>1. req[q] \in Call
      BY <2>2 DEF ReplayUpdate, TypeOK, Idle
    <3> QED
      BY <2>2, <3>1 DEF ReplayUpdate, TypeOK, DeliveriesLeft, Call, RowState, DlqStatus
  <2>3. CASE DiscardUpdate(q)
    <3>1. req[q] \in Call
      BY <2>3 DEF DiscardUpdate, TypeOK, Idle
    <3> QED
      BY <2>3, <3>1 DEF DiscardUpdate, TypeOK, DeliveriesLeft, Call, RowState, DlqStatus
  <2>4. CASE CallFails(q)
    BY <2>4 DEF CallFails, TypeOK, DeliveriesLeft
  <2> QED
    BY <1>7, <2>1, <2>2, <2>3, <2>4
<1>8. CASE UNCHANGED vars
  BY <1>8 DEF vars, TypeOK, DeliveriesLeft
<1> QED
  BY <1>1, <1>2, <1>3, <1>4, <1>5, <1>6, <1>7, <1>8 DEF Next
-----------------------------------------------------------------------------
(* Rows: startConsuming acks what it has inserted and nothing else.        *)
LEMMA RowStep ==
    TypeOK /\ StoredHasRow /\ SettledHasRow /\ [Next]_vars => StoredHasRow' /\ SettledHasRow'
<1> SUFFICES ASSUME TypeOK, StoredHasRow, SettledHasRow, [Next]_vars
             PROVE  StoredHasRow' /\ SettledHasRow'
  OBVIOUS
<1> DEFINE Keeps == \A r \in Records : rows[r].st # "none" => rows'[r].st # "none"
<1>0. stored \in [Gateways -> SUBSET Delivery] /\ \A d \in Delivery : d[1] \in Records
  BY DEF TypeOK, Delivery
<1>1. ASSUME NEW r \in Records, DeadLetter(r) \/ AckWaitExpires(r)
      PROVE  StoredHasRow' /\ SettledHasRow'
  BY <1>1, RedeliverableType
  DEF DeadLetter, AckWaitExpires, TypeOK, StoredHasRow, SettledHasRow
<1>2. ASSUME NEW g \in Gateways, NEW r \in Records, Deliver(g, r)
      PROVE  StoredHasRow' /\ SettledHasRow'
  BY <1>2 DEF Deliver, TypeOK, StoredHasRow, SettledHasRow
<1>3. ASSUME NEW g \in Gateways, NEW d \in held[g], ConsumerStep(g, d)
      PROVE  StoredHasRow' /\ SettledHasRow'
  <2>0. d[1] \in Records
    BY <1>0 DEF TypeOK
  <2>1. CASE Persist(g, d)
    <3>1. Keeps /\ rows'[d[1]].st # "none"
      BY <2>0, <2>1, InsertedFacts DEF Persist
    <3>2. StoredHasRow'
      BY <1>0, <2>0, <2>1, <3>1 DEF Persist, StoredHasRow
    <3> QED
      BY <2>1, <3>1, <3>2 DEF Persist, SettledHasRow
  <2>2. CASE Ack(g, d)
    BY <1>0, <2>0, <2>2 DEF Ack, TypeOK, StoredHasRow, SettledHasRow
  <2>3. CASE PersistFails(g, d)
    <3>1. Keeps
      BY <2>0, <2>3, InsertedFacts DEF PersistFails
    <3>2. \A r \in Records : record'[r].st = "settled" => record[r].st = "settled"
      BY <2>0, <2>3, RedeliverableType DEF PersistFails, Nak, TypeOK
    <3>3. StoredHasRow'
      BY <1>0, <2>3, <3>1 DEF PersistFails, StoredHasRow
    <3> QED
      BY <3>1, <3>2, <3>3 DEF SettledHasRow
  <2> QED
    BY <1>3, <2>1, <2>2, <2>3 DEF ConsumerStep
<1>4. ASSUME NEW g \in Gateways, Stop(g) \/ Start(g)
      PROVE  StoredHasRow' /\ SettledHasRow'
  BY <1>0, <1>4 DEF Stop, Start, StoredHasRow, SettledHasRow
<1>5. ASSUME NEW q \in Requests, NEW r \in Records, ReplayRead(q, r) \/ DiscardRead(q, r)
      PROVE  StoredHasRow' /\ SettledHasRow'
  BY <1>5 DEF ReplayRead, DiscardRead, StoredHasRow, SettledHasRow
<1>6. ASSUME NEW q \in Requests,
             ReplayPublish(q) \/ ReplayUpdate(q) \/ DiscardUpdate(q) \/ CallFails(q)
      PROVE  StoredHasRow' /\ SettledHasRow'
  <2>1. Keeps
    BY <1>6 DEF ReplayPublish, ReplayUpdate, DiscardUpdate, CallFails, TypeOK
  <2>2. UNCHANGED <<record, stored>>
    BY <1>6 DEF ReplayPublish, ReplayUpdate, DiscardUpdate, CallFails
  <2> QED
    BY <1>0, <2>1, <2>2 DEF StoredHasRow, SettledHasRow
<1>7. CASE UNCHANGED vars
  BY <1>7 DEF vars, StoredHasRow, SettledHasRow
<1> QED
  BY <1>1, <1>2, <1>3, <1>4, <1>5, <1>6, <1>7 DEF Next
-----------------------------------------------------------------------------
(* Replays: a copy is published before the update that counts it.          *)
LEMMA ReplayStep ==
    TypeOK /\ CallsCovered /\ ReplaysHappened /\ [Next]_vars => CallsCovered' /\ ReplaysHappened'
<1> SUFFICES ASSUME TypeOK, CallsCovered, ReplaysHappened, [Next]_vars
             PROVE  CallsCovered' /\ ReplaysHappened'
  OBVIOUS
<1>1. CASE UNCHANGED <<rows, copies, req>>
  BY <1>1 DEF CallsCovered, ReplaysHappened
<1>2. ASSUME NEW g \in Gateways, NEW d \in held[g], ConsumerStep(g, d)
      PROVE  CallsCovered' /\ ReplaysHappened'
  <2>0. d[1] \in Records
    BY DEF TypeOK, Delivery
  <2>1. rows' \in {rows, Inserted(d[1])} /\ UNCHANGED <<copies, req>>
    BY <1>2 DEF ConsumerStep, Persist, Ack, PersistFails
  <2>2. ReplaysHappened'
    <3> SUFFICES ASSUME NEW r \in Records
                 PROVE  /\ rows'[r].count <= copies[r]
                        /\ rows'[r].st = "replayed" => rows'[r].count >= 1
      BY <2>1 DEF ReplaysHappened
    <3>1. /\ rows'[r].count \in {0, rows[r].count}
          /\ rows'[r].st = "replayed" => rows'[r] = rows[r]
      BY <2>0, <2>1, InsertedFacts
    <3>2. copies[r] \in Nat
      BY DlqAssumption DEF TypeOK
    <3> QED
      BY <3>1, <3>2 DEF ReplaysHappened
  <2> QED
    BY <2>1, <2>2 DEF CallsCovered
<1>3. ASSUME NEW q \in Requests, NEW r \in Records, ReplayRead(q, r) \/ DiscardRead(q, r)
      PROVE  CallsCovered' /\ ReplaysHappened'
  BY <1>3 DEF ReplayRead, DiscardRead, TypeOK, CallsCovered, ReplaysHappened
<1>4. ASSUME NEW q \in Requests, ReplayPublish(q) PROVE CallsCovered' /\ ReplaysHappened'
  <2>1. req[q] \in Call /\ req[q].count <= copies[req[q].r]
    BY <1>4 DEF ReplayPublish, TypeOK, Idle, CallsCovered
  <2>2. \A r \in Records : copies'[r] >= copies[r]
    BY <1>4, <2>1 DEF ReplayPublish, TypeOK, Call
  <2>3. copies'[req[q].r] = copies[req[q].r] + 1
    BY <1>4, <2>1 DEF ReplayPublish, TypeOK, Call
  <2>4. ReplaysHappened'
    <3>1. \A r \in Records : copies'[r] \in Nat /\ copies[r] \in Nat /\ rows[r].count \in Nat
      BY <1>4, <2>1, DlqAssumption DEF ReplayPublish, TypeOK, Call
    <3> QED
      BY <1>4, <2>2, <3>1 DEF ReplayPublish, ReplaysHappened
  <2>5. CallsCovered'
    <3> SUFFICES ASSUME NEW p \in Requests, req'[p].at \in {"publish", "replay"}
                 PROVE  /\ req'[p].at = "publish" => req'[p].count <= copies'[req'[p].r]
                        /\ req'[p].at = "replay" => req'[p].count + 1 <= copies'[req'[p].r]
      BY DEF CallsCovered
    <3>1. CASE p # q
      <4>1. req'[p] = req[p] /\ req[p] \in Call
        BY <1>4, <3>1 DEF ReplayPublish, TypeOK, Idle
      <4> QED
        BY <1>4, <2>1, <2>2, <4>1, DlqAssumption DEF ReplayPublish, CallsCovered, TypeOK, Call
    <3>2. CASE p = q
      <4>1. req'[q] = [req[q] EXCEPT !.at = "replay"]
        BY <1>4, <3>2 DEF ReplayPublish, TypeOK, Idle
      <4>2. req'[q].count = req[q].count /\ req'[q].r = req[q].r /\ req'[q].at = "replay"
        BY <2>1, <4>1 DEF Call
      <4> QED
        BY <2>1, <2>3, <3>2, <4>2, DlqAssumption DEF TypeOK, Call
    <3> QED
      BY <3>1, <3>2
  <2> QED
    BY <2>4, <2>5
<1>5. ASSUME NEW q \in Requests, ReplayUpdate(q) PROVE CallsCovered' /\ ReplaysHappened'
  <2>1. req[q] \in Call /\ req[q].count + 1 <= copies[req[q].r]
    BY <1>5 DEF ReplayUpdate, TypeOK, Idle, CallsCovered
  <2>2. ReplaysHappened'
    BY <1>5, <2>1 DEF ReplayUpdate, TypeOK, Call, ReplaysHappened
  <2> QED
    BY <1>5, <2>2 DEF ReplayUpdate, TypeOK, Idle, CallsCovered
<1>6. ASSUME NEW q \in Requests, DiscardUpdate(q) PROVE CallsCovered' /\ ReplaysHappened'
  <2>1. req[q] \in Call
    BY <1>6 DEF DiscardUpdate, TypeOK, Idle
  <2>2. ReplaysHappened'
    BY <1>6, <2>1 DEF DiscardUpdate, TypeOK, Call, ReplaysHappened
  <2> QED
    BY <1>6, <2>2 DEF DiscardUpdate, TypeOK, Idle, CallsCovered
<1>7. ASSUME NEW q \in Requests, CallFails(q) PROVE CallsCovered' /\ ReplaysHappened'
  BY <1>7 DEF CallFails, TypeOK, Idle, CallsCovered, ReplaysHappened
<1> QED
  BY <1>1, <1>2, <1>3, <1>4, <1>5, <1>6, <1>7
  DEF Next, vars, DeadLetter, AckWaitExpires, Deliver, Stop, Start
-----------------------------------------------------------------------------
(* The inductive invariant holds in every reachable state.                 *)
THEOREM Inductive == Spec => []IInv
<1>1. Init => IInv
  BY DlqAssumption
  DEF Init, IInv, Typed, TypeOK, DeliveriesLeft, StoredHasRow, SettledHasRow, CallsCovered,
      ReplaysHappened, RecordState, RowState, Idle
<1>2. IInv /\ [Next]_vars => IInv'
  BY TypeStep, RowStep, ReplayStep DEF IInv, Typed
<1> QED
  BY <1>1, <1>2, PTL DEF Spec

(* dlq.consumer.ts and dlq.service.ts keep the stream's and the table's    *)
(* states well formed.                                                     *)
THEOREM TypeCorrect == Spec => []TypeOK
  BY Inductive, PTL DEF IInv, Typed

(* A dead letter that the consumer has acked is in dlq_messages, for any   *)
(* number of gateways, redeliveries, failures and stops.                   *)
THEOREM AckedIsPersisted == Spec => []SettledHasRow
  BY Inductive, PTL DEF IInv

(* replay never counts a copy that was not published, for any number of    *)
(* overlapping calls.                                                      *)
THEOREM ReplaysCovered == Spec => []ReplaysHappened
  BY Inductive, PTL DEF IInv

(* A redelivered record never takes an admin's decision back.              *)
THEOREM DecisionKept == Spec => DecisionSurvives
<1> DEFINE Step == \A r \in Records :
                rows[r].st \in DlqStatus => rows'[r].st \in {rows[r].st, "replayed", "discarded"}
<1>1. TypeOK /\ [Next]_vars => [Step]_vars
  <2> SUFFICES ASSUME TypeOK, Next PROVE Step
    OBVIOUS
  <2>1. CASE UNCHANGED rows
    BY <2>1
  <2>2. ASSUME NEW g \in Gateways, NEW d \in held[g], ConsumerStep(g, d) PROVE Step
    <3>1. d[1] \in Records /\ rows' \in {rows, Inserted(d[1])}
      BY <2>2 DEF TypeOK, Delivery, ConsumerStep, Persist, Ack, PersistFails
    <3> QED
      BY <3>1, InsertedFacts DEF DlqStatus
  <2>3. ASSUME NEW q \in Requests, ReplayUpdate(q) \/ DiscardUpdate(q) PROVE Step
    BY <2>3 DEF ReplayUpdate, DiscardUpdate, TypeOK
  <2> QED
    BY <2>1, <2>2, <2>3
    DEF Next, DeadLetter, AckWaitExpires, Deliver, Stop, Start, ReplayRead, DiscardRead,
        ReplayPublish, CallFails
<1> QED
  BY <1>1, TypeCorrect, PTL DEF Spec, DecisionSurvives

(* A discarded row that no replay call has read stays discarded and is     *)
(* never published again, for any number of gateways and calls.            *)
THEOREM DiscardFinal == Spec => DiscardHolds
<1> DEFINE Step == \A r \in Records : Closed(r) => Closed(r)' /\ copies'[r] = copies[r]
<1>1. TypeOK /\ [Next]_vars => [Step]_vars
  <2> SUFFICES ASSUME TypeOK, Next, NEW r \in Records, Closed(r)
               PROVE  Closed(r)' /\ copies'[r] = copies[r]
    OBVIOUS
  <2>1. CASE UNCHANGED <<rows, copies, req>>
    BY <2>1 DEF Closed
  <2>2. ASSUME NEW g \in Gateways, NEW d \in held[g], ConsumerStep(g, d)
        PROVE  Closed(r)' /\ copies'[r] = copies[r]
    <3>1. d[1] \in Records /\ rows' \in {rows, Inserted(d[1])} /\ UNCHANGED <<copies, req>>
      BY <2>2 DEF TypeOK, Delivery, ConsumerStep, Persist, Ack, PersistFails
    <3>2. rows'[r].st = "discarded"
      BY <3>1, InsertedFacts DEF Closed
    <3> QED
      BY <3>1, <3>2 DEF Closed
  <2>3. ASSUME NEW q \in Requests, NEW s \in Records, ReplayRead(q, s)
        PROVE  Closed(r)' /\ copies'[r] = copies[r]
    <3>1. s # r
      BY <2>3 DEF ReplayRead, MayBecome, Transitions, Closed
    <3> QED
      BY <2>3, <3>1 DEF ReplayRead, Closed, TypeOK
  <2>4. ASSUME NEW q \in Requests, NEW s \in Records, DiscardRead(q, s)
        PROVE  Closed(r)' /\ copies'[r] = copies[r]
    BY <2>4 DEF DiscardRead, Closed, TypeOK
  <2>5. ASSUME NEW q \in Requests, ReplayPublish(q)
        PROVE  Closed(r)' /\ copies'[r] = copies[r]
    <3>1. req[q].r # r
      BY <2>5 DEF ReplayPublish, Closed
    <3>2. rows' = rows /\ copies'[r] = copies[r]
      BY <2>5, <3>1 DEF ReplayPublish, TypeOK
    <3>3. CASE req' = [req EXCEPT ![q] = Idle]
      BY <3>2, <3>3 DEF Closed, TypeOK, Idle
    <3>4. CASE req' = [req EXCEPT ![q].at = "replay"]
      BY <2>5, <3>1, <3>2, <3>4 DEF ReplayPublish, Closed, TypeOK, Idle, Call
    <3> QED
      BY <2>5, <3>3, <3>4 DEF ReplayPublish
  <2>6. ASSUME NEW q \in Requests, ReplayUpdate(q)
        PROVE  Closed(r)' /\ copies'[r] = copies[r]
    <3>1. req[q].r # r
      BY <2>6 DEF ReplayUpdate, Closed
    <3> QED
      BY <2>6, <3>1 DEF ReplayUpdate, Closed, TypeOK, Idle, Call
  <2>7. ASSUME NEW q \in Requests, DiscardUpdate(q)
        PROVE  Closed(r)' /\ copies'[r] = copies[r]
    BY <2>7 DEF DiscardUpdate, Closed, TypeOK, Idle, Call
  <2>8. ASSUME NEW q \in Requests, CallFails(q)
        PROVE  Closed(r)' /\ copies'[r] = copies[r]
    BY <2>8 DEF CallFails, Closed, TypeOK, Idle
  <2> QED
    BY <2>1, <2>2, <2>3, <2>4, <2>5, <2>6, <2>7, <2>8
    DEF Next, DeadLetter, AckWaitExpires, Deliver, Stop, Start
<1> QED
  BY <1>1, TypeCorrect, PTL DEF Spec, DiscardHolds
=============================================================================
