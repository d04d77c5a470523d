----------------------------- MODULE BillingProofs -----------------------------
(***************************************************************************)
(* Proofs about Billing, for any numbers of subscriptions, invoices,       *)
(* payments, requests and crashes and any amounts.                         *)
(*                                                                         *)
(* However requests overlap and wherever they crash.  The first part is    *)
(* the type and what a single row says (IInv).  The rest rests on met, the *)
(* requests that were under way together: a read of the database is still  *)
(* true when it is acted on unless a request that ended in between was met *)
(* (Meetings, Base), so two credits of one UTR, two invoices of one period *)
(* and two refunds that exceed a payment each need two requests that met,  *)
(* or one that died between its steps.                                     *)
(***************************************************************************)
EXTENDS Billing, TLAPS

(* A row that was not inserted is blank; the refunds recorded on a payment *)
(* are at most its amount.                                                 *)
PaymentRows == \A p \in Payments :
    /\ payment[p].st = "ABSENT" => payment[p] = NoRow
    /\ payment[p].refunded >= 0
    /\ payment[p].refunded > 0 => payment[p].refunded <= payment[p].amt

(* The steps of a request that is about a payment row.                     *)
PaymentSteps ==
    {"verifyUpdate", "webhookLookup", "refundPayer", "refundUpdate", "upiVerify",
     "markRefundedRead", "markRefundedWrite", "revertInvoiceRead", "revertSubRead",
     "revertWrite", "rejectUpdate", "expireRead", "expireCommit"}

RefundSteps == {"refundPayer", "refundUpdate"}

(* A request names a row that exists, and a refund under way fits in the   *)
(* amount of its payment, given what had been refunded when it was read.   *)
Sound(q) ==
    /\ q.p \in Payments => payment[q.p].st # "ABSENT"
    /\ q.pc \in PaymentSteps => q.p \in Payments
    /\ q.pc \in RefundSteps => /\ q.paid >= 0 /\ q.amt > 0
                               /\ q.paid + q.amt <= payment[q.p].amt

IInv ==
    /\ TypeOK
    /\ StatusMatchesAmount
    /\ PaymentRows
    /\ \A r \in Requests : Sound(req[r])

-----------------------------------------------------------------------------
(* The constants and the fields of the rows, one by one.                   *)
LEMMA Types ==
    ASSUME TypeOK
    PROVE  /\ Total \in Nat \ {0} /\ 1 \in Subs /\ 1 \in Invoices
           /\ \A i \in Invoices : /\ invoice[i] \in InvoiceRow /\ invoice[i].paid \in Int
                                  /\ invoice[i].st \in InvoiceStatus
           /\ \A p \in Payments : /\ payment[p] \in PaymentRow /\ payment[p].amt \in Int
                                  /\ payment[p].refunded \in Int /\ payment[p].inv \in Invoices
                                  /\ refundedOut[p] \in Nat
           /\ \A r \in Requests : /\ req[r] \in RequestRow /\ req[r].i \in Invoices
                                  /\ req[r].amt \in Int /\ req[r].paid \in Int
                                  /\ req[r].p \in Payments \cup {NoPayment}
                                  /\ req[r].utr \in Utrs \cup {NoUtr}
                                  /\ req[r].to.s \in Subs /\ req[r].to.st \in SubStatus
                                  /\ req[r].to \in [s : Subs, was : SubStatus \cup {"ABSENT"}, st : SubStatus]
           /\ \A r \in Requests : met[r] \in SUBSET Requests
<1>1. Total \in Nat \ {0} /\ 1 \in Subs /\ 1 \in Invoices
  BY BillingAssumption DEF Subs, Invoices
<1>2. /\ \A i \in Invoices : invoice[i] \in InvoiceRow
      /\ \A p \in Payments : payment[p] \in PaymentRow
      /\ \A r \in Requests : req[r] \in RequestRow
  BY DEF TypeOK
<1>3. \A i \in Invoices : invoice[i].paid \in Int /\ invoice[i].st \in InvoiceStatus
  BY <1>2 DEF InvoiceRow
<1>4. \A p \in Payments : /\ payment[p].amt \in Int /\ payment[p].refunded \in Int
                         /\ payment[p].inv \in Invoices /\ refundedOut[p] \in Nat
  BY <1>2 DEF PaymentRow, TypeOK
<1>5. \A r \in Requests : /\ req[r].i \in Invoices /\ req[r].amt \in Int /\ req[r].paid \in Int
                         /\ req[r].p \in Payments \cup {NoPayment}
                         /\ req[r].utr \in Utrs \cup {NoUtr}
                         /\ req[r].to \in [s : Subs, was : SubStatus \cup {"ABSENT"}, st : SubStatus]
  BY <1>2 DEF RequestRow
<1>6. \A r \in Requests : req[r].to.s \in Subs /\ req[r].to.st \in SubStatus
  BY <1>5
<1> QED
  BY <1>1, <1>2, <1>3, <1>4, <1>5, <1>6 DEF TypeOK

LEMMA IdleType ==
    /\ Idle \in RequestRow
    /\ Idle.pc = "idle" /\ Idle.p = NoPayment /\ Idle.amt = 0 /\ Idle.paid = 0
<1>1. 1 \in Subs /\ 1 \in Invoices
  BY BillingAssumption DEF Subs, Invoices
<1> QED
  BY <1>1 DEF Idle, RequestRow, Steps, SubStatus

LEMMA NoRowType ==
    /\ NoRow \in PaymentRow
    /\ NoRow.st = "ABSENT" /\ NoRow.refunded = 0 /\ NoRow.amt = 0 /\ NoRow.ver = "NONE"
    /\ NoRow.gid = NoPayment /\ NoRow.utr = NoUtr /\ NoRow.order = "NONE"
<1>1. 1 \in Invoices
  BY BillingAssumption DEF Invoices
<1> QED
  BY <1>1 DEF NoRow, PaymentRow, PaymentStatus, Verification

-----------------------------------------------------------------------------
(* A step of request r leaves it at v and the others alone.                *)
Sets(r, v) ==
    /\ req' \in [Requests -> RequestRow]
    /\ req'[r] = v
    /\ \A t \in Requests \ {r} : req'[t] = req[t]

(* What v carries is what w carries.                                       *)
Carries(v, w) ==
    v.i = w.i /\ v.p = w.p /\ v.amt = w.amt /\ v.paid = w.paid /\ v.utr = w.utr /\ v.to = w.to

LEMMA RowSets ==
    ASSUME TypeOK, NEW r \in Requests, NEW v \in RequestRow, req' = [req EXCEPT ![r] = v]
    PROVE  Sets(r, v)
  BY DEF TypeOK, Sets

LEMMA StartSets ==
    ASSUME TypeOK, NEW r \in Requests, NEW op, NEW pc \in Steps, NEW row \in RequestRow,
           Start(r, op, pc, row)
    PROVE  /\ req[r].pc = "idle" /\ Offered(op)
           /\ \E v \in RequestRow : Sets(r, v) /\ Carries(v, row) /\ v.pc = pc /\ v.op = op
<1> DEFINE v == [row EXCEPT !.op = op, !.pc = pc]
<1>1. v \in RequestRow /\ Carries(v, row) /\ v.pc = pc /\ v.op = op
  BY DEF Start, Offered, RequestRow, Carries
<1>2. Sets(r, v)
  BY <1>1, RowSets DEF Start
<1> HIDE DEF v
<1> QED
  BY <1>1, <1>2 DEF Start

LEMMA GotoSets ==
    ASSUME TypeOK, NEW r \in Requests, NEW pc \in Steps, Goto(r, pc)
    PROVE  \E v \in RequestRow : Sets(r, v) /\ Carries(v, req[r]) /\ v.pc = pc /\ v.op = req[r].op
<1> DEFINE v == [req[r] EXCEPT !.pc = pc]
<1>1. v \in RequestRow /\ Carries(v, req[r]) /\ v.pc = pc /\ v.op = req[r].op
  BY Types DEF RequestRow, Carries
<1>2. Sets(r, v)
  <2>1. req' = [req EXCEPT ![r] = v]
    BY DEF Goto
  <2> QED
    BY <1>1, <2>1, RowSets
<1> HIDE DEF v
<1> QED
  BY <1>1, <1>2

(* readInvoice: the request goes on with the paid amount it has read.      *)
LEMMA ReadInvoiceSets ==
    ASSUME TypeOK, NEW r \in Requests, NEW from, NEW to \in Steps, ReadInvoice(r, from, to)
    PROVE  /\ req[r].pc = from
           /\ \E v \in RequestRow : /\ Sets(r, v) /\ v.pc = to /\ v.op = req[r].op /\ v.p = req[r].p
                                    /\ v.i = req[r].i /\ v.amt = req[r].amt /\ v.utr = req[r].utr
                                    /\ v.paid = invoice[req[r].i].paid
<1> DEFINE v == [req[r] EXCEPT !.pc = to, !.paid = invoice[req[r].i].paid]
<1>1. /\ v \in RequestRow /\ v.pc = to /\ v.op = req[r].op /\ v.p = req[r].p
      /\ v.i = req[r].i /\ v.amt = req[r].amt /\ v.utr = req[r].utr
      /\ v.paid = invoice[req[r].i].paid
  <2>1. invoice[req[r].i].paid \in Int /\ req[r] \in RequestRow
    BY Types
  <2> QED
    BY <2>1 DEF RequestRow
<1>2. Sets(r, v)
  <2>1. req' = [req EXCEPT ![r] = v]
    BY DEF ReadInvoice
  <2> QED
    BY <1>1, <2>1, RowSets
<1> HIDE DEF v
<1> QED
  BY <1>1, <1>2 DEF ReadInvoice, At

(* readSub: the request remembers a subscription and what it will become.  *)
LEMMA ReadSubSets ==
    ASSUME TypeOK, NEW r \in Requests, NEW from \in SubStatus, NEW to \in SubStatus,
           NEW write \in Steps, NEW pc \in Steps, ReadSub(r, from, to, write, pc)
    PROVE  \E v \in RequestRow :
              /\ Sets(r, v) /\ v.op = req[r].op /\ v.p = req[r].p /\ v.pc \in {write, pc}
              /\ v.i = req[r].i /\ v.amt = req[r].amt /\ v.utr = req[r].utr
              /\ v.pc = pc \/ (v.pc = write /\ v.to.was = from /\ v.to.st = to)
<1>1. ASSUME NEW s \in Subs, sub[s] = from,
             req' = [req EXCEPT ![r].pc = write, ![r].to = [s |-> s, was |-> from, st |-> to]]
      PROVE  \E v \in RequestRow :
                /\ Sets(r, v) /\ v.op = req[r].op /\ v.p = req[r].p /\ v.pc = write
                /\ v.i = req[r].i /\ v.amt = req[r].amt /\ v.utr = req[r].utr
                /\ v.to.was = from /\ v.to.st = to
  <2> DEFINE w == [s |-> s, was |-> from, st |-> to]
             v == [req[r] EXCEPT !.pc = write, !.to = w]
  <2>1. /\ w \in [s : Subs, was : SubStatus \cup {"ABSENT"}, st : SubStatus]
        /\ w.s = s /\ w.was = from /\ w.st = to
    OBVIOUS
  <2>2. req' = [req EXCEPT ![r] = v]
    BY <1>1
  <2> HIDE DEF w
  <2>3. /\ v \in RequestRow /\ v.op = req[r].op /\ v.p = req[r].p /\ v.pc = write /\ v.to = w
        /\ v.i = req[r].i /\ v.amt = req[r].amt /\ v.utr = req[r].utr
    BY <2>1, Types DEF RequestRow
  <2>4. Sets(r, v)
    BY <2>2, <2>3, RowSets
  <2> HIDE DEF v
  <2> QED
    BY <1>1, <2>1, <2>3, <2>4
<1>2. CASE Goto(r, pc)
  BY <1>2, GotoSets DEF Carries
<1> QED
  BY <1>1, <1>2 DEF ReadSub

LEMMA WritePaymentSets ==
    ASSUME TypeOK, NEW r \in Requests, NEW p \in Payments, NEW row \in PaymentRow,
           NEW pc \in Steps, WritePayment(r, p, row, pc)
    PROVE  /\ payment' \in [Payments -> PaymentRow] /\ payment'[p] = row
           /\ \A x \in Payments \ {p} : payment'[x] = payment[x]
           /\ UNCHANGED <<invoice, sub, institute, refundedOut, met, dead, crashes>>
           /\ \E v \in RequestRow : /\ Sets(r, v) /\ v.op = req[r].op /\ v.p = p /\ v.pc = pc
                                    /\ v.i = req[r].i /\ v.amt = req[r].amt /\ v.utr = req[r].utr
<1> DEFINE v == [req[r] EXCEPT !.p = p, !.pc = pc]
<1>1. /\ v \in RequestRow /\ v.op = req[r].op /\ v.p = p /\ v.pc = pc
      /\ v.i = req[r].i /\ v.amt = req[r].amt /\ v.utr = req[r].utr
  BY Types DEF RequestRow
<1>2. Sets(r, v)
  <2>1. req' = [req EXCEPT ![r] = v]
    BY DEF WritePayment
  <2> QED
    BY <1>1, <2>1, RowSets
<1>3. /\ payment' \in [Payments -> PaymentRow] /\ payment'[p] = row
      /\ \A x \in Payments \ {p} : payment'[x] = payment[x]
  BY DEF WritePayment, TypeOK
<1> HIDE DEF v
<1> QED
  BY <1>1, <1>2, <1>3 DEF WritePayment, SameRun
-----------------------------------------------------------------------------
(* What is said of the tables alone.                                       *)
Tables ==
    /\ invoice \in [Invoices -> InvoiceRow]
    /\ payment \in [Payments -> PaymentRow]
    /\ sub \in [Subs -> SubStatus \cup {"ABSENT"}]
    /\ institute \in {"ACTIVE", "SUSPENDED"}
    /\ met \in [Requests -> SUBSET Requests]
    /\ dead \in SUBSET Requests
    /\ refundedOut \in [Payments -> Nat]
    /\ crashes \in 0..MaxCrashes
    /\ StatusMatchesAmount
    /\ PaymentRows

(* A payment row that exists stays and keeps its amount.                   *)
AmountsKept == \A p \in Payments :
    payment[p].st # "ABSENT" => payment'[p].st # "ABSENT" /\ payment'[p].amt = payment[p].amt

(* A step of request r keeps the invariant if it keeps what is said of the *)
(* tables and of r.                                                        *)
LEMMA RequestKeeps ==
    ASSUME IInv, NEW r \in Requests, NEW v \in RequestRow, Sets(r, v), Sound(v)',
           Tables', AmountsKept
    PROVE  IInv'
<1>1. ASSUME NEW t \in Requests PROVE Sound(req[t])'
  <2>1. CASE t = r
    <3>1. req'[t] = v
      BY <2>1 DEF Sets
    <3> QED
      BY <3>1 DEF Sound
  <2>2. CASE t # r
    <3>1. req'[t] = req[t] /\ Sound(req[t])
      BY <2>2 DEF Sets, IInv
    <3> QED
      BY <3>1 DEF Sound, AmountsKept, RefundSteps, PaymentSteps
  <2> QED
    BY <2>1, <2>2
<1> QED
  BY <1>1 DEF IInv, Tables, TypeOK, Sets

LEMMA TablesHold == IInv => Tables
  BY DEF IInv, TypeOK, Tables

(* Only the request moves.                                                 *)
LEMMA OnlyRequest ==
    ASSUME IInv, NEW r \in Requests, NEW v \in RequestRow, Sets(r, v), Sound(v),
           UNCHANGED <<invoice, payment, sub, institute, refundedOut, dead, crashes>>,
           met' \in [Requests -> SUBSET Requests]
    PROVE  IInv'
<1>1. Tables' /\ AmountsKept /\ Sound(v)'
  BY TablesHold DEF Tables, AmountsKept, Sound, StatusMatchesAmount, PaymentRows
<1> QED
  BY <1>1, RequestKeeps

(* A request starts.                                                       *)
LEMMA OnlyStart ==
    ASSUME IInv, NEW r \in Requests, NEW op, NEW pc \in Steps, NEW row \in RequestRow,
           Start(r, op, pc, row),
           row.p \in Payments => payment[row.p].st # "ABSENT",
           pc \in PaymentSteps => row.p \in Payments,
           pc \in RefundSteps => /\ row.paid >= 0 /\ row.amt > 0
                                 /\ row.paid + row.amt <= payment[row.p].amt
    PROVE  IInv'
<1>1. PICK v \in RequestRow : Sets(r, v) /\ Carries(v, row) /\ v.pc = pc
  BY StartSets DEF IInv
<1>2. Sound(v)
  BY <1>1 DEF Sound, Carries
<1>3. met' \in [Requests -> SUBSET Requests]
  BY DEF Start, InFlight, IInv, TypeOK
<1>4. UNCHANGED <<invoice, payment, sub, institute, refundedOut, dead, crashes>>
  BY DEF Start, tables
<1> QED
  BY <1>1, <1>2, <1>3, <1>4, OnlyRequest

(* The request's payment row is written.                                   *)
LEMMA OnlyPayment ==
    ASSUME IInv, NEW r \in Requests, NEW p \in Payments, NEW row \in PaymentRow,
           NEW pc \in Steps \ RefundSteps, WritePayment(r, p, row, pc),
           row.st # "ABSENT", payment[p].st # "ABSENT" => row.amt = payment[p].amt,
           row.refunded >= 0, row.refunded > 0 => row.refunded <= row.amt
    PROVE  IInv'
<1>1. /\ payment' \in [Payments -> PaymentRow] /\ payment'[p] = row
      /\ \A x \in Payments \ {p} : payment'[x] = payment[x]
      /\ UNCHANGED <<invoice, sub, institute, refundedOut, met, dead, crashes>>
  BY WritePaymentSets DEF IInv
<1>2. PICK v \in RequestRow : Sets(r, v) /\ v.p = p /\ v.pc = pc
  BY WritePaymentSets DEF IInv
<1>3. AmountsKept /\ PaymentRows'
  BY <1>1 DEF AmountsKept, PaymentRows, IInv
<1>4. Tables'
  BY <1>1, <1>3, TablesHold DEF Tables, StatusMatchesAmount
<1>5. Sound(v)'
  BY <1>1, <1>2 DEF Sound
<1> QED
  BY <1>2, <1>3, <1>4, <1>5, RequestKeeps

(* A request writes its invoice.                                           *)
LEMMA OnlyInvoice ==
    ASSUME IInv, NEW r \in Requests, NEW i \in Invoices, NEW st \in InvoiceStatus, NEW paid \in Int,
           invoice' = [invoice EXCEPT ![i].st = st, ![i].paid = paid],
           st = "PAID" => paid >= Total,
           st \in {"ABSENT", "SENT", "OVERDUE", "REFUNDED"} => paid = 0
    PROVE  invoice' \in [Invoices -> InvoiceRow] /\ StatusMatchesAmount'
<1> DEFINE row == [invoice[i] EXCEPT !.st = st, !.paid = paid]
<1>1. invoice' = [invoice EXCEPT ![i] = row]
  OBVIOUS
<1>2. row \in InvoiceRow /\ row.st = st /\ row.paid = paid
  BY Types DEF IInv, InvoiceRow
<1> HIDE DEF row
<1>3. /\ invoice' \in [Invoices -> InvoiceRow] /\ invoice'[i] = row
      /\ \A x \in Invoices \ {i} : invoice'[x] = invoice[x]
  BY <1>1, <1>2 DEF IInv, TypeOK
<1> QED
  BY <1>2, <1>3 DEF IInv, StatusMatchesAmount

LEMMA InsertKeeps ==
    ASSUME IInv, NEW i \in Invoices, NEW s \in Subs, NEW period \in {"current", "next"},
           InsertInvoice(i, s, period)
    PROVE  invoice' \in [Invoices -> InvoiceRow] /\ StatusMatchesAmount'
<1>1. invoice' = [invoice EXCEPT ![i] = [st |-> "SENT", paid |-> 0, of |-> s, period |-> period]]
  BY DEF InsertInvoice
<1>2. [st |-> "SENT", paid |-> 0, of |-> s, period |-> period] \in InvoiceRow
  BY DEF InvoiceRow, InvoiceStatus
<1> QED
  BY <1>1, <1>2 DEF IInv, TypeOK, StatusMatchesAmount

-----------------------------------------------------------------------------
(* The initial state.                                                      *)
LEMMA InitHolds == Init => IInv
<1> SUFFICES ASSUME Init PROVE IInv
  OBVIOUS
<1>1. \A i \in Invoices : /\ invoice[i] \in InvoiceRow /\ invoice[i].paid = 0
                         /\ invoice[i].st \in {"SENT", "ABSENT"}
  <2>1. NoInvoice \in InvoiceRow /\ NoInvoice.paid = 0
    BY BillingAssumption DEF NoInvoice, InvoiceRow, InvoiceStatus, Subs
  <2>2. ASSUME NEW x \in InvoiceRow, x.paid = 0, NEW st \in {"SENT", "ABSENT"}
        PROVE  LET w == [x EXCEPT !.st = st]
               IN  w \in InvoiceRow /\ w.paid = 0 /\ w.st = st
    BY <2>2 DEF InvoiceRow, InvoiceStatus
  <2>3. ASSUME NEW i \in Invoices
        PROVE  invoice[i] = [NoInvoice EXCEPT !.st = IF i = 1 THEN "SENT" ELSE "ABSENT"]
    BY DEF Init
  <2> QED
    BY <2>1, <2>2, <2>3
<1>2. TypeOK
  BY <1>1, IdleType, NoRowType, BillingAssumption DEF Init, TypeOK, SubStatus
<1>3. StatusMatchesAmount /\ PaymentRows
  BY <1>1, NoRowType DEF Init, StatusMatchesAmount, PaymentRows
<1>4. \A r \in Requests : Sound(req[r])
  BY IdleType, BillingAssumption DEF Init, Sound, PaymentSteps, RefundSteps
<1> QED
  BY <1>2, <1>3, <1>4 DEF IInv

(* invoice.service.ts                                                      *)
LEMMA InvoiceHolds ==
    ASSUME IInv, NEW r \in Requests, InvoiceStart(r) \/ InvoiceStep(r) PROVE IInv'
<1>0. TypeOK /\ Tables /\ Sound(req[r])
  BY TablesHold DEF IInv
<1>1. ASSUME NEW s \in Subs, GenerateStart(r, s) PROVE IInv'
  <2> DEFINE w == [Idle EXCEPT !.to.s = s]
  <2>1. w \in RequestRow /\ w.p = NoPayment
    BY IdleType DEF RequestRow
  <2>2. Start(r, "generate", "invoiceCreate", w)
    BY <1>1 DEF GenerateStart
  <2> HIDE DEF w
  <2>3. "invoiceCreate" \in Steps \ PaymentSteps /\ "invoiceCreate" \notin RefundSteps
    BY DEF Steps, PaymentSteps, RefundSteps
  <2> QED
    BY <1>1, <2>1, <2>2, <2>3, OnlyStart, BillingAssumption DEF GenerateStart
<1>2. ASSUME GenerateInvoice(r) PROVE IInv'
  <2>1. invoice' \in [Invoices -> InvoiceRow] /\ StatusMatchesAmount'
    BY <1>0, <1>2, Types, InsertKeeps DEF GenerateInvoice
  <2>2. PICK v \in RequestRow : Sets(r, v) /\ v.p = req[r].p /\ v.pc = "done"
    BY <1>0, <1>2, GotoSets DEF GenerateInvoice, Carries, Steps
  <2>3. UNCHANGED <<payment, sub, institute, refundedOut, met, dead, crashes>>
    BY <1>2 DEF GenerateInvoice, SameRun
  <2>4. Tables' /\ AmountsKept
    BY <1>0, <2>1, <2>3 DEF Tables, AmountsKept, PaymentRows
  <2>5. Sound(v)'
    BY <1>0, <2>2, <2>3 DEF Sound, PaymentSteps, RefundSteps
  <2> QED
    BY <2>2, <2>4, <2>5, RequestKeeps
<1>3. ASSUME MarkPaidRead(r) PROVE IInv'
  <2>1. PICK v \in RequestRow : Sets(r, v) /\ v.p = req[r].p /\ v.pc = "markPaidWrite"
    BY <1>0, <1>3, ReadInvoiceSets DEF MarkPaidRead, Steps
  <2>2. Sound(v)
    BY <1>0, <2>1 DEF Sound, PaymentSteps, RefundSteps
  <2> QED
    BY <1>3, <2>1, <2>2, OnlyRequest DEF MarkPaidRead, ReadInvoice, Untouched, SameRun, tables, IInv, TypeOK
<1>4. ASSUME MarkRefundedRead(r) PROVE IInv'
  <2>1. PICK v \in RequestRow : /\ Sets(r, v) /\ v.p = req[r].p /\ v.pc = "markRefundedWrite"
                                /\ req[r].pc = "markRefundedRead"
    BY <1>0, <1>4, ReadInvoiceSets DEF MarkRefundedRead, Steps
  <2>2. Sound(v)
    BY <1>0, <2>1 DEF Sound, PaymentSteps, RefundSteps
  <2> QED
    BY <1>4, <2>1, <2>2, OnlyRequest DEF MarkRefundedRead, ReadInvoice, Untouched, SameRun, tables, IInv, TypeOK
<1>5. ASSUME MarkPaidWrite(r) PROVE IInv'
  <2> DEFINE paid == req[r].paid + req[r].amt
             pc == IF req[r].op = "submitUpi" THEN "reactivateRead" ELSE "done"
  <2>1. /\ req[r].i \in Invoices /\ paid \in Int /\ PaidStatus(paid) \in InvoiceStatus
        /\ PaidStatus(paid) = "PAID" => paid >= Total
        /\ PaidStatus(paid) \notin {"ABSENT", "SENT", "OVERDUE", "REFUNDED"}
    BY <1>0, Types DEF PaidStatus, InvoiceStatus
  <2>2. invoice' \in [Invoices -> InvoiceRow] /\ StatusMatchesAmount'
    BY <1>5, <2>1, OnlyInvoice DEF MarkPaidWrite
  <2>3. PICK v \in RequestRow : Sets(r, v) /\ v.p = req[r].p /\ v.pc = pc
    <3>1. Goto(r, pc) /\ pc \in Steps
      BY <1>5 DEF MarkPaidWrite, Steps
    <3> QED
      BY <1>0, <3>1, GotoSets DEF Carries
  <2>4. UNCHANGED <<payment, sub, institute, refundedOut, met, dead, crashes>>
    BY <1>5 DEF MarkPaidWrite, Announce, SameRun
  <2>5. Tables' /\ AmountsKept
    BY <1>0, <2>2, <2>4 DEF Tables, AmountsKept, PaymentRows
  <2>6. Sound(v)'
    BY <1>0, <2>3, <2>4 DEF Sound, PaymentSteps, RefundSteps
  <2> QED
    BY <2>3, <2>5, <2>6, RequestKeeps
<1>6. ASSUME MarkRefundedWrite(r) PROVE IInv'
  <2> DEFINE paid == AtLeastZero(req[r].paid - req[r].amt)
             pc == IF req[r].op = "rejectUpi" THEN "revertInvoiceRead" ELSE "done"
  <2>1. /\ req[r].i \in Invoices /\ paid \in Int /\ RefundStatus(paid) \in InvoiceStatus
        /\ RefundStatus(paid) # "PAID"
        /\ RefundStatus(paid) \in {"ABSENT", "SENT", "OVERDUE", "REFUNDED"} => paid = 0
    BY <1>0, Types DEF RefundStatus, InvoiceStatus, AtLeastZero
  <2>2. invoice' \in [Invoices -> InvoiceRow] /\ StatusMatchesAmount'
    BY <1>6, <2>1, OnlyInvoice DEF MarkRefundedWrite
  <2>3. PICK v \in RequestRow : /\ Sets(r, v) /\ v.p = req[r].p /\ v.pc = pc
                                /\ req[r].pc = "markRefundedWrite"
    <3>1. Goto(r, pc) /\ pc \in Steps /\ req[r].pc = "markRefundedWrite"
      BY <1>6 DEF MarkRefundedWrite, Steps, At
    <3> QED
      BY <1>0, <3>1, GotoSets DEF Carries
  <2>4. UNCHANGED <<payment, sub, institute, refundedOut, met, dead, crashes>>
    BY <1>6 DEF MarkRefundedWrite, SameRun
  <2>5. Tables' /\ AmountsKept
    BY <1>0, <2>2, <2>4 DEF Tables, AmountsKept, PaymentRows
  <2>6. Sound(v)'
    BY <1>0, <2>3, <2>4 DEF Sound, PaymentSteps, RefundSteps
  <2> QED
    BY <2>3, <2>5, <2>6, RequestKeeps
<1> QED
  BY <1>1, <1>2, <1>3, <1>4, <1>5, <1>6 DEF InvoiceStart, InvoiceStep

(* payment.service.ts: the checks that start a request.                    *)
LEMMA PaymentStartHolds == ASSUME IInv, NEW r \in Requests, PaymentStart(r) PROVE IInv'
<1>0. TypeOK
  BY DEF IInv
<1>1. /\ Idle \in RequestRow /\ Idle.p = NoPayment /\ NoPayment \notin Payments
  BY IdleType, BillingAssumption
<1>2. {"manualCreate", "orderCreate", "utrCheck"} \subseteq Steps \ (PaymentSteps \cup RefundSteps)
  BY DEF Steps, PaymentSteps, RefundSteps
<1>3. {"verifyUpdate", "webhookLookup", "upiVerify", "markRefundedRead"} \subseteq Steps \ RefundSteps
  BY DEF Steps, RefundSteps
<1>4. ASSUME NEW i \in Invoices, NEW amt \in Amounts, ManualStart(r, i, amt) PROVE IInv'
  <2> DEFINE w == [Idle EXCEPT !.i = i, !.amt = amt]
  <2>0. amt \in Int
    BY BillingAssumption
  <2>1. w \in RequestRow /\ w.p = NoPayment
    BY <1>1, <2>0 DEF RequestRow
  <2>2. Start(r, "manual", "manualCreate", w)
    BY <1>4 DEF ManualStart
  <2> HIDE DEF w
  <2> QED
    BY <1>1, <1>2, <2>1, <2>2, OnlyStart
<1>5. ASSUME NEW i \in Invoices, InitiateStart(r, i) PROVE IInv'
  <2> DEFINE w == [Idle EXCEPT !.i = i, !.amt = Remaining(i)]
  <2>1. Remaining(i) \in Int
    BY <1>0, Types DEF Remaining
  <2>2. w \in RequestRow /\ w.p = NoPayment
    BY <1>1, <2>1 DEF RequestRow
  <2>3. Start(r, "initiate", "orderCreate", w)
    BY <1>5 DEF InitiateStart
  <2> HIDE DEF w
  <2> QED
    BY <1>1, <1>2, <2>2, <2>3, OnlyStart
<1>6. ASSUME NEW i \in Invoices, NEW u \in Utrs, SubmitUpiStart(r, i, u) PROVE IInv'
  <2> DEFINE w == [Idle EXCEPT !.i = i, !.amt = Remaining(i), !.utr = u]
  <2>1. Remaining(i) \in Int
    BY <1>0, Types DEF Remaining
  <2>2. w \in RequestRow /\ w.p = NoPayment
    BY <1>1, <2>1 DEF RequestRow
  <2>3. Start(r, "submitUpi", "utrCheck", w)
    BY <1>6 DEF SubmitUpiStart
  <2> HIDE DEF w
  <2> QED
    BY <1>1, <1>2, <2>2, <2>3, OnlyStart
\* The requests about a payment row p that is there.
<1>7. ASSUME NEW p \in Payments, payment[p].st # "ABSENT", NEW op,
             NEW pc \in {"verifyUpdate", "webhookLookup", "upiVerify", "markRefundedRead"},
             \/ Start(r, op, pc, [Idle EXCEPT !.i = payment[p].inv, !.p = p, !.amt = payment[p].amt])
             \/ Start(r, op, pc, [Idle EXCEPT !.i = payment[p].inv, !.p = p])
             \/ Start(r, op, pc, [Idle EXCEPT !.p = p])
      PROVE  IInv'
  <2> DEFINE w == [Idle EXCEPT !.i = payment[p].inv, !.p = p, !.amt = payment[p].amt]
             x == [Idle EXCEPT !.i = payment[p].inv, !.p = p]
             y == [Idle EXCEPT !.p = p]
  <2>1. payment[p].amt \in Int /\ payment[p].inv \in Invoices
    BY <1>0, Types
  <2>2. /\ w \in RequestRow /\ w.p = p /\ x \in RequestRow /\ x.p = p
        /\ y \in RequestRow /\ y.p = p
    BY <1>1, <2>1 DEF RequestRow
  <2>3. Start(r, op, pc, w) \/ Start(r, op, pc, x) \/ Start(r, op, pc, y)
    BY <1>7
  <2> HIDE DEF w, x, y
  <2> QED
    BY <1>3, <1>7, <2>2, <2>3, OnlyStart
<1>8. ASSUME NEW p \in Payments, payment[p] = NoRow
      PROVE  payment[p].ver = "NONE" /\ payment[p].order = "NONE"
  BY <1>8, NoRowType
<1>9. ASSUME NEW p \in Payments, payment[p].st = "ABSENT"
      PROVE  payment[p].ver = "NONE" /\ payment[p].order = "NONE"
  BY <1>8, <1>9 DEF IInv, PaymentRows
<1>10. ASSUME NEW p \in Payments,
              VerifyStart(r, p) \/ WebhookStart(r, p) \/ VerifyUpiStart(r, p) \/ RejectUpiStart(r, p)
       PROVE  IInv'
  BY <1>7, <1>9, <1>10 DEF VerifyStart, WebhookStart, VerifyUpiStart, RejectUpiStart
<1>11. ASSUME NEW p \in Payments, NEW amt \in Amounts, RefundStart(r, p, amt) PROVE IInv'
  <2> DEFINE w == [Idle EXCEPT !.i = payment[p].inv, !.p = p, !.amt = amt, !.paid = payment[p].refunded]
  <2>1. payment[p].refunded \in Int /\ payment[p].inv \in Invoices /\ amt \in Int /\ amt > 0
    <3>1. amt \in Nat \ {0}
      BY BillingAssumption
    <3> QED
      BY <1>0, <3>1, Types
  <2>2. w \in RequestRow /\ w.p = p /\ w.amt = amt /\ w.paid = payment[p].refunded
    BY <1>1, <2>1 DEF RequestRow
  <2>3. Start(r, "refund", "refundPayer", w) /\ Refundable(p, amt)
    BY <1>11 DEF RefundStart
  <2> HIDE DEF w
  <2>4. /\ w.paid >= 0 /\ w.amt > 0 /\ w.paid + w.amt <= payment[w.p].amt
        /\ payment[w.p].st # "ABSENT"
    BY <2>1, <2>2, <2>3 DEF IInv, PaymentRows, Refundable
  <2>5. "refundPayer" \in Steps
    BY DEF Steps
  <2> QED
    BY <2>2, <2>3, <2>4, <2>5, OnlyStart
<1> QED
  BY <1>4, <1>5, <1>6, <1>10, <1>11 DEF PaymentStart

(* A new payment row of a request.                                         *)
LEMMA NewRowType ==
    ASSUME TypeOK, NEW r \in Requests, NEW st \in PaymentStatus
    PROVE  /\ NewRow(r, st) \in PaymentRow /\ NewRow(r, st).st = st
           /\ NewRow(r, st).refunded = 0 /\ NewRow(r, st).amt = req[r].amt
           /\ NewRow(r, st).utr = NoUtr
<1>1. req[r].i \in Invoices /\ req[r].amt \in Int
  BY Types
<1> QED
  BY <1>1, NoRowType DEF NewRow, PaymentRow

(* A step that goes on and leaves the tables alone.                        *)
LEMMA OnlyGoto ==
    ASSUME IInv, NEW r \in Requests, NEW pc \in Steps \ RefundSteps, Goto(r, pc), Untouched,
           pc \in PaymentSteps => req[r].pc \in PaymentSteps
    PROVE  IInv'
<1>1. PICK v \in RequestRow : Sets(r, v) /\ Carries(v, req[r]) /\ v.pc = pc
  BY GotoSets DEF IInv
<1>2. Sound(v)
  BY <1>1 DEF IInv, Sound, Carries
<1> QED
  BY <1>1, <1>2, OnlyRequest DEF Untouched, SameRun, tables, IInv, TypeOK

LEMMA OnlyReadSub ==
    ASSUME IInv, NEW r \in Requests, NEW from \in SubStatus, NEW to \in SubStatus,
           NEW write \in Steps \ RefundSteps, NEW pc \in Steps \ RefundSteps,
           ReadSub(r, from, to, write, pc),
           {write, pc} \cap PaymentSteps # {} => req[r].pc \in PaymentSteps
    PROVE  IInv'
<1>1. PICK v \in RequestRow : Sets(r, v) /\ v.p = req[r].p /\ v.pc \in {write, pc}
  BY ReadSubSets DEF IInv
<1>2. Sound(v)
  BY <1>1 DEF IInv, Sound
<1> QED
  BY <1>1, <1>2, OnlyRequest DEF ReadSub, Untouched, SameRun, tables, IInv, TypeOK

(* subscriptionRepo.update, or its refusal.                                *)
LEMMA OnlyWriteSub ==
    ASSUME IInv, NEW r \in Requests, NEW pc \in Steps \ RefundSteps, WriteSub(r, pc),
           pc \in PaymentSteps => req[r].pc \in PaymentSteps
    PROVE  IInv'
<1>1. /\ sub' \in [Subs -> SubStatus \cup {"ABSENT"}]
      /\ UNCHANGED <<invoice, payment, institute, refundedOut, met, dead, crashes>>
  BY Types DEF WriteSub, SameRun, IInv, TypeOK
<1>2. PICK to \in {pc, "done"} : Goto(r, to)
  BY DEF WriteSub
<1>3. "done" \in Steps \ RefundSteps /\ "done" \notin PaymentSteps
  BY DEF Steps, RefundSteps, PaymentSteps
<1>4. PICK v \in RequestRow : Sets(r, v) /\ Carries(v, req[r]) /\ v.pc = to
  BY <1>2, <1>3, GotoSets DEF IInv
<1>5. Tables' /\ AmountsKept
  BY <1>1, TablesHold DEF Tables, AmountsKept, PaymentRows, StatusMatchesAmount
<1>6. Sound(v)'
  BY <1>1, <1>3, <1>4 DEF IInv, Sound, Carries
<1> QED
  BY <1>4, <1>5, <1>6, RequestKeeps

(* payment.service.ts: the steps that follow.                              *)
LEMMA PaymentStepHolds == ASSUME IInv, NEW r \in Requests, PaymentStep(r) PROVE IInv'
<1>0. /\ TypeOK /\ PaymentRows /\ Sound(req[r]) /\ req[r] \in RequestRow /\ req[r].p \in Payments \cup {NoPayment}
      /\ \A p \in Payments : payment[p] \in PaymentRow
      /\ NoPayment \notin Payments
  BY Types, BillingAssumption DEF IInv
<1>1. ASSUME ManualCreate(r) PROVE IInv'
  <2>1. PICK p \in Payments : /\ payment[p].st = "ABSENT"
                              /\ WritePayment(r, p, NewRow(r, "SUCCEEDED"), "markPaidRead")
    BY <1>1 DEF ManualCreate, Free
  <2>2. "SUCCEEDED" \in PaymentStatus /\ "markPaidRead" \in Steps \ RefundSteps
    BY DEF PaymentStatus, Steps, RefundSteps
  <2> QED
    BY <1>0, <2>1, <2>2, NewRowType, OnlyPayment
<1>2. ASSUME OrderCreate(r) PROVE IInv'
  <2> DEFINE w == [NewRow(r, "PENDING") EXCEPT !.order = "OPEN"]
  <2>1. PICK p \in Payments : payment[p].st = "ABSENT" /\ WritePayment(r, p, w, "done")
    BY <1>2 DEF OrderCreate, Free
  <2>2. "PENDING" \in PaymentStatus /\ "done" \in Steps \ RefundSteps
    BY DEF PaymentStatus, Steps, RefundSteps
  <2>3. w \in PaymentRow /\ w.st = "PENDING" /\ w.refunded = 0
    <3>1. ASSUME NEW x \in PaymentRow, NEW b \in {"OPEN", "CAPTURED"}
          PROVE  LET y == [x EXCEPT !.order = b]
                 IN  y \in PaymentRow /\ y.st = x.st /\ y.refunded = x.refunded
      BY DEF PaymentRow
    <3> QED
      BY <1>0, <2>2, <3>1, NewRowType
  <2> HIDE DEF w
  <2> QED
    BY <2>1, <2>2, <2>3, OnlyPayment
<1>3. ASSUME VerifyUpdate(r) PROVE IInv'
  <2> DEFINE p == req[r].p
             w == [payment[p] EXCEPT !.st = "SUCCEEDED", !.gid = p]
  <2>1. p \in Payments /\ WritePayment(r, p, w, "markPaidRead")
    BY <1>0, <1>3 DEF VerifyUpdate, At, Sound, PaymentSteps
  <2>2. /\ w \in PaymentRow /\ w.st = "SUCCEEDED" /\ w.amt = payment[p].amt
        /\ w.refunded = payment[p].refunded
    <3> DEFINE x == payment[p]
    <3>1. x \in PaymentRow /\ p \in Payments
      BY <1>0, <2>1
    <3> HIDE DEF x
    <3>2. LET y == [x EXCEPT !.st = "SUCCEEDED", !.gid = p]
          IN  /\ y \in PaymentRow /\ y.st = "SUCCEEDED" /\ y.amt = x.amt
              /\ y.refunded = x.refunded
      BY <3>1 DEF PaymentRow, PaymentStatus
    <3> QED
      BY <3>2 DEF x
  <2>3. "markPaidRead" \in Steps \ RefundSteps
    BY DEF Steps, RefundSteps
  <2> HIDE DEF p, w
  <2> QED
    BY <1>0, <2>1, <2>2, <2>3, OnlyPayment DEF PaymentRows
<1>4. ASSUME WebhookEnd(r) PROVE IInv'
  <2>1. Goto(r, "done") /\ Untouched
    BY <1>4 DEF WebhookEnd
  <2>2. "done" \in Steps \ RefundSteps /\ "done" \notin PaymentSteps
    BY DEF Steps, RefundSteps, PaymentSteps
  <2> QED
    BY <2>1, <2>2, OnlyGoto
<1>5. ASSUME RefundPayer(r) PROVE IInv'
  <2>1. req[r].pc = "refundPayer" /\ UNCHANGED <<invoice, payment, sub, institute, met, dead, crashes>>
    BY <1>5 DEF RefundPayer, At, SameRun
  <2>2. PICK pc \in {"refundUpdate", "done"} : Goto(r, pc)
    BY <1>5 DEF RefundPayer
  <2>3. PICK v \in RequestRow : Sets(r, v) /\ Carries(v, req[r]) /\ v.pc = pc
    BY <1>0, <2>2, GotoSets DEF Steps
  <2>4. /\ req[r].p \in Payments /\ req[r].amt > 0 /\ req[r].paid >= 0
        /\ req[r].paid + req[r].amt <= payment[req[r].p].amt
    BY <1>0, <2>1 DEF Sound, RefundSteps, PaymentSteps
  <2>5. refundedOut' \in [Payments -> Nat]
    <3>1. refundedOut[req[r].p] + req[r].amt \in Nat
      BY <1>0, <2>4, Types
    <3> QED
      BY <1>0, <1>5, <3>1 DEF RefundPayer, TypeOK
  <2>6. Tables' /\ AmountsKept
    BY <2>1, <2>5, TablesHold DEF Tables, AmountsKept, PaymentRows, StatusMatchesAmount
  <2>7. Sound(v)'
    BY <1>0, <2>1, <2>3, <2>4 DEF Sound, Carries
  <2> QED
    BY <2>3, <2>6, <2>7, RequestKeeps
<1>6. ASSUME RefundUpdate(r) PROVE IInv'
  <2> DEFINE p == req[r].p
             total == req[r].paid + req[r].amt
             st == IF total >= payment[p].amt THEN "REFUNDED" ELSE "PARTIALLY_REFUNDED"
             w == [payment[p] EXCEPT !.st = st, !.refunded = total]
  <2>1. p \in Payments /\ WritePayment(r, p, w, "markRefundedRead")
    BY <1>0, <1>6 DEF RefundUpdate, At, Sound, PaymentSteps
  <2>2. total \in Int /\ total >= 0 /\ total <= payment[p].amt
    BY <1>0, <1>6, Types DEF RefundUpdate, At, Sound, RefundSteps
  <2>5. st \in PaymentStatus \ {"ABSENT"}
    BY DEF PaymentStatus
  <2> HIDE DEF total, st
  <2>3. /\ w \in PaymentRow /\ w.st # "ABSENT" /\ w.amt = payment[p].amt /\ w.refunded = total
    <3> DEFINE x == payment[p]
    <3>2. x \in PaymentRow /\ st \in PaymentStatus /\ total \in Int
      BY <1>0, <2>1, <2>2, <2>5
    <3> HIDE DEF x, p, w
    <3>3. LET z == [x EXCEPT !.st = st, !.refunded = total]
          IN  z \in PaymentRow /\ z.st = st /\ z.amt = x.amt /\ z.refunded = total
      BY <3>2 DEF PaymentRow
    <3> QED
      BY <2>5, <3>3 DEF x, w
  <2>4. "markRefundedRead" \in Steps \ RefundSteps
    BY DEF Steps, RefundSteps
  <2> HIDE DEF p, w
  <2> QED
    BY <2>1, <2>2, <2>3, <2>4, OnlyPayment
<1>7. ASSUME UtrCheck(r) PROVE IInv'
  <2>1. PICK pc \in {"done", "upiCreate"} : Goto(r, pc)
    BY <1>7 DEF UtrCheck
  <2>2. pc \in Steps \ RefundSteps /\ pc \notin PaymentSteps
    BY DEF Steps, RefundSteps, PaymentSteps
  <2> QED
    BY <1>7, <2>1, <2>2, OnlyGoto DEF UtrCheck
<1>8. ASSUME UpiCreate(r) PROVE IInv'
  <2> DEFINE w == [NewRow(r, "SUCCEEDED") EXCEPT !.ver = "PENDING_VERIFICATION", !.utr = req[r].utr]
  <2>1. PICK p \in Payments : payment[p].st = "ABSENT" /\ WritePayment(r, p, w, "markPaidRead")
    BY <1>8 DEF UpiCreate, Free
  <2>2. "SUCCEEDED" \in PaymentStatus /\ "markPaidRead" \in Steps \ RefundSteps
    BY DEF PaymentStatus, Steps, RefundSteps
  <2>3. w \in PaymentRow /\ w.st = "SUCCEEDED" /\ w.refunded = 0
    <3>1. ASSUME NEW x \in PaymentRow, NEW ver \in Verification, NEW u \in Utrs \cup {NoUtr}
          PROVE  LET y == [x EXCEPT !.ver = ver, !.utr = u]
                 IN  y \in PaymentRow /\ y.st = x.st /\ y.refunded = x.refunded
      BY DEF PaymentRow
    <3>2. req[r].utr \in Utrs \cup {NoUtr} /\ "PENDING_VERIFICATION" \in Verification
      BY <1>0, Types DEF Verification
    <3> DEFINE x == NewRow(r, "SUCCEEDED")
    <3>3. x \in PaymentRow /\ x.st = "SUCCEEDED" /\ x.refunded = 0
      BY <1>0, <2>2, NewRowType
    <3> HIDE DEF x
    <3>4. LET y == [x EXCEPT !.ver = "PENDING_VERIFICATION", !.utr = req[r].utr]
          IN  y \in PaymentRow /\ y.st = x.st /\ y.refunded = x.refunded
      BY <3>1, <3>2, <3>3
    <3> QED
      BY <3>3, <3>4 DEF x
  <2> HIDE DEF w
  <2> QED
    BY <2>1, <2>2, <2>3, OnlyPayment
<1>9. ASSUME ReactivateRead(r) PROVE IInv'
  <2>1. {"reactivateWrite", "done"} \subseteq Steps \ (RefundSteps \cup PaymentSteps)
        /\ {"PAST_DUE", "ACTIVE"} \subseteq SubStatus
    BY DEF Steps, RefundSteps, PaymentSteps, SubStatus
  <2> QED
    BY <1>9, <2>1, OnlyReadSub DEF ReactivateRead
<1>10. ASSUME ReactivateWrite(r) PROVE IInv'
  <2>1. "done" \in Steps \ (RefundSteps \cup PaymentSteps)
    BY DEF Steps, RefundSteps, PaymentSteps
  <2> QED
    BY <1>10, <2>1, OnlyWriteSub DEF ReactivateWrite
<1>11. ASSUME UpiVerify(r) PROVE IInv'
  <2> DEFINE p == req[r].p
             w == [payment[p] EXCEPT !.ver = "VERIFIED"]
  <2>1. p \in Payments /\ payment[p].st # "ABSENT" /\ WritePayment(r, p, w, "done")
    BY <1>0, <1>11 DEF UpiVerify, At, Sound, PaymentSteps
  <2>2. /\ w \in PaymentRow /\ w.st = payment[p].st /\ w.amt = payment[p].amt
        /\ w.refunded = payment[p].refunded
    BY <1>0, <2>1 DEF PaymentRow, Verification
  <2>3. "done" \in Steps \ RefundSteps
    BY DEF Steps, RefundSteps
  <2> HIDE DEF p, w
  <2> QED
    BY <1>0, <2>1, <2>2, <2>3, OnlyPayment DEF PaymentRows
<1>12. ASSUME RevertInvoiceRead(r) PROVE IInv'
  <2>1. PICK pc \in {"revertSubRead", "rejectUpdate"} : Goto(r, pc)
    BY <1>12 DEF RevertInvoiceRead
  <2>2. pc \in Steps \ RefundSteps /\ req[r].pc \in PaymentSteps
    BY <1>12 DEF Steps, RefundSteps, PaymentSteps, RevertInvoiceRead, At
  <2> QED
    BY <1>12, <2>1, <2>2, OnlyGoto DEF RevertInvoiceRead
<1>13. ASSUME RevertSubRead(r) PROVE IInv'
  <2>1. {"revertWrite", "rejectUpdate"} \subseteq Steps \ RefundSteps /\ req[r].pc \in PaymentSteps
        /\ {"PAST_DUE", "ACTIVE"} \subseteq SubStatus
    BY <1>13 DEF Steps, RefundSteps, PaymentSteps, SubStatus, RevertSubRead, At
  <2> QED
    BY <1>13, <2>1, OnlyReadSub DEF RevertSubRead
<1>14. ASSUME RevertWrite(r) PROVE IInv'
  <2>1. "rejectUpdate" \in Steps \ RefundSteps /\ req[r].pc \in PaymentSteps
    BY <1>14 DEF Steps, RefundSteps, PaymentSteps, RevertWrite, At
  <2> QED
    BY <1>14, <2>1, OnlyWriteSub DEF RevertWrite
<1>15. ASSUME RejectUpdate(r) PROVE IInv'
  <2> DEFINE p == req[r].p
             w == [payment[p] EXCEPT !.st = "FAILED", !.ver = "REJECTED"]
  <2>1. p \in Payments /\ WritePayment(r, p, w, "done")
    BY <1>0, <1>15 DEF RejectUpdate, At, Sound, PaymentSteps
  <2>2. /\ w \in PaymentRow /\ w.st = "FAILED" /\ w.amt = payment[p].amt
        /\ w.refunded = payment[p].refunded
    BY <1>0, <2>1 DEF PaymentRow, PaymentStatus, Verification
  <2>3. "done" \in Steps \ RefundSteps
    BY DEF Steps, RefundSteps
  <2> HIDE DEF p, w
  <2> QED
    BY <1>0, <2>1, <2>2, <2>3, OnlyPayment DEF PaymentRows
<1> QED
  BY <1>1, <1>2, <1>3, <1>4, <1>5, <1>6, <1>7, <1>8, <1>9, <1>10, <1>11, <1>12, <1>13, <1>14,
     <1>15 DEF PaymentStep

(* assignPlan: the request remembers the row it has created.               *)
LEMMA AssignSets ==
    ASSUME TypeOK, NEW r \in Requests, AssignCreate(r)
    PROVE  \E v \in RequestRow : /\ Sets(r, v) /\ v.p = req[r].p /\ v.pc \in {"invoiceCreate", "done"}
                                 /\ v.op = req[r].op /\ v.utr = req[r].utr
<1>1. CASE Goto(r, "done")
  BY <1>1, GotoSets DEF Carries, Steps
<1>2. ASSUME NEW s \in Subs, NEW pc \in {"invoiceCreate", "done"},
             req' = [req EXCEPT ![r].to.s = s, ![r].pc = pc]
      PROVE  \E v \in RequestRow : /\ Sets(r, v) /\ v.p = req[r].p /\ v.pc = pc
                                   /\ v.op = req[r].op /\ v.utr = req[r].utr
  <2> DEFINE v == [req[r] EXCEPT !.to.s = s, !.pc = pc]
  <2>1. v \in RequestRow /\ v.p = req[r].p /\ v.pc = pc /\ v.op = req[r].op /\ v.utr = req[r].utr
    <3>1. req[r] \in RequestRow /\ {"invoiceCreate", "done"} \subseteq Steps
      BY Types DEF Steps
    <3> QED
      BY <3>1 DEF RequestRow
  <2>2. req' = [req EXCEPT ![r] = v]
    BY <1>2
  <2> HIDE DEF v
  <2> QED
    BY <2>1, <2>2, RowSets
<1>3. \/ Goto(r, "done")
      \/ \E s \in Subs, pc \in {"invoiceCreate", "done"} :
             req' = [req EXCEPT ![r].to.s = s, ![r].pc = pc]
  <2>1. PICK s \in Subs :
          \/ Goto(r, "done")
          \/ req' = [req EXCEPT ![r].to.s = s,
                        ![r].pc = IF req[r].to.st = "ACTIVE" THEN "invoiceCreate" ELSE "done"]
    BY DEF AssignCreate
  <2> QED
    BY <2>1
<1> QED
  BY <1>1, <1>2, <1>3

(* subscription.service.ts                                                 *)
LEMMA SubscriptionHolds ==
    ASSUME IInv, NEW r \in Requests, SubscriptionStart(r) \/ SubscriptionStep(r) PROVE IInv'
<1>0. /\ TypeOK /\ Sound(req[r]) /\ req[r] \in RequestRow
      /\ Idle \in RequestRow /\ Idle.p = NoPayment /\ NoPayment \notin Payments
      /\ {"subWrite", "assignCreate", "invoiceCreate", "done"}
             \subseteq Steps \ (RefundSteps \cup PaymentSteps)
  BY Types, IdleType, BillingAssumption DEF IInv, Steps, RefundSteps, PaymentSteps
<1>1. ASSUME NEW op, NEW pc \in {"subWrite", "assignCreate"}, NEW s \in Subs, NEW st \in SubStatus,
             NEW was \in SubStatus \cup {"ABSENT"},
             Start(r, op, pc, [Idle EXCEPT !.to = [s |-> s, was |-> was, st |-> st]])
      PROVE  IInv'
  <2> DEFINE to == [s |-> s, was |-> was, st |-> st]
             w == [Idle EXCEPT !.to = to]
  <2>1. to \in [s : Subs, was : SubStatus \cup {"ABSENT"}, st : SubStatus]
    OBVIOUS
  <2>2. Start(r, op, pc, w)
    BY <1>1
  <2> HIDE DEF to
  <2>3. w \in RequestRow /\ w.p = NoPayment
    BY <1>0, <2>1 DEF RequestRow
  <2> HIDE DEF w
  <2> QED
    BY <1>0, <1>1, <2>2, <2>3, OnlyStart
<1>2. ASSUME NEW op \in DOMAIN Target, NEW s \in Subs, ChangeStart(r, op, s) PROVE IInv'
  <2>1. Target[op] \in SubStatus /\ sub[s] \in SubStatus \cup {"ABSENT"}
    BY <1>0 DEF Target, SubStatus, TypeOK
  <2> QED
    BY <1>0, <1>1, <1>2, <2>1 DEF ChangeStart
<1>3. ASSUME AssignStart(r) PROVE IInv'
  <2>1. 1 \in Subs /\ {"TRIALING", "ACTIVE"} \subseteq SubStatus
    BY <1>0, Types DEF SubStatus
  <2> QED
    BY <1>0, <1>1, <1>3, <2>1 DEF AssignStart
<1>4. ASSUME SubWrite(r) PROVE IInv'
  BY <1>0, <1>4, OnlyWriteSub DEF SubWrite
<1>5. ASSUME AssignCreate(r) PROVE IInv'
  <2>1. /\ sub' \in [Subs -> SubStatus \cup {"ABSENT"}]
        /\ UNCHANGED <<invoice, payment, institute, refundedOut, met, dead, crashes>>
    BY <1>0, <1>5, Types DEF AssignCreate, TypeOK, SameRun
  <2>3. PICK v \in RequestRow : Sets(r, v) /\ v.p = req[r].p /\ v.pc \in {"invoiceCreate", "done"}
    BY <1>0, <1>5, AssignSets
  <2>4. Tables' /\ AmountsKept
    BY <2>1, TablesHold DEF Tables, AmountsKept, PaymentRows, StatusMatchesAmount
  <2>5. Sound(v)'
    BY <1>0, <2>1, <2>3 DEF Sound
  <2> QED
    BY <2>3, <2>4, <2>5, RequestKeeps
<1> QED
  BY <1>2, <1>3, <1>4, <1>5 DEF SubscriptionStart, SubscriptionStep

(* processRenewals: the request ends and remembers the invoice it made.    *)
LEMMA DoneSets ==
    ASSUME TypeOK, NEW r \in Requests, NEW i \in Invoices,
           req' = [req EXCEPT ![r].pc = "done", ![r].i = i]
    PROVE  \E v \in RequestRow : /\ Sets(r, v) /\ v.pc = "done" /\ v.op = req[r].op /\ v.p = req[r].p
                                 /\ v.i = i /\ v.amt = req[r].amt /\ v.utr = req[r].utr
                                 /\ v.to = req[r].to
<1> DEFINE v == [req[r] EXCEPT !.pc = "done", !.i = i]
<1>1. /\ v \in RequestRow /\ v.pc = "done" /\ v.op = req[r].op /\ v.p = req[r].p
      /\ v.i = i /\ v.amt = req[r].amt /\ v.utr = req[r].utr /\ v.to = req[r].to
  <2> DEFINE q == req[r]
  <2>1. q \in RequestRow
    BY Types
  <2> HIDE DEF q
  <2>2. LET x == [q EXCEPT !.pc = "done", !.i = i]
        IN  /\ x \in RequestRow /\ x.pc = "done" /\ x.op = q.op /\ x.p = q.p
            /\ x.i = i /\ x.amt = q.amt /\ x.utr = q.utr /\ x.to = q.to
    BY <2>1 DEF RequestRow, Steps
  <2> QED
    BY <2>2 DEF q
<1>2. Sets(r, v)
  <2>1. req' = [req EXCEPT ![r] = v]
    OBVIOUS
  <2> QED
    BY <1>1, <2>1, RowSets
<1> HIDE DEF v
<1> QED
  BY <1>1, <1>2

(* billing.activities.ts: the activities that take two transactions or     *)
(* may be repeated while they run.                                         *)
LEMMA ActivityHolds ==
    ASSUME IInv, NEW r \in Requests, ActivityStart(r) \/ ActivityStep(r) PROVE IInv'
<1>0. /\ TypeOK /\ PaymentRows /\ Sound(req[r]) /\ req[r] \in RequestRow
      /\ Idle \in RequestRow /\ Idle.p = NoPayment /\ Idle.pc = "idle" /\ NoPayment \notin Payments
  BY Types, IdleType, BillingAssumption DEF IInv
<1>1. ASSUME NEW p \in Payments, ExpireStart(r, p) PROVE IInv'
  <2> DEFINE w == [Idle EXCEPT !.i = payment[p].inv, !.p = p, !.amt = payment[p].amt]
  <2>1. payment[p].amt \in Int /\ payment[p].inv \in Invoices
    BY <1>0, Types
  <2>2. w \in RequestRow /\ w.p = p
    BY <1>0, <2>1 DEF RequestRow
  <2>3. Start(r, "expireUpi", "expireRead", w)
    BY <1>1 DEF ExpireStart
  <2> HIDE DEF w
  <2>4. payment[p].st # "ABSENT"
    <3>1. ASSUME payment[p] = NoRow PROVE payment[p].ver = "NONE"
      BY <3>1, NoRowType
    <3> QED
      BY <1>0, <1>1, <3>1 DEF ExpireStart, PaymentRows
  <2>5. "expireRead" \in Steps \ RefundSteps
    BY DEF Steps, RefundSteps
  <2> QED
    BY <2>2, <2>3, <2>4, <2>5, OnlyStart
<1>2. ASSUME NEW s \in Subs, RenewStart(r, s) PROVE IInv'
  <2> DEFINE w == [Idle EXCEPT !.to.s = s]
  <2>1. w \in RequestRow /\ w.p = NoPayment
    BY <1>0 DEF RequestRow
  <2>2. Start(r, "renew", "renewInsert", w)
    BY <1>2 DEF RenewStart
  <2> HIDE DEF w
  <2>3. "renewInsert" \in Steps \ (PaymentSteps \cup RefundSteps)
    BY DEF Steps, PaymentSteps, RefundSteps
  <2> QED
    BY <1>0, <2>1, <2>2, <2>3, OnlyStart
<1>3. ASSUME ExpireRead(r) PROVE IInv'
  <2>1. PICK v \in RequestRow : /\ Sets(r, v) /\ v.p = req[r].p /\ v.pc = "expireCommit"
                                /\ req[r].pc = "expireRead"
    BY <1>0, <1>3, ReadInvoiceSets DEF ExpireRead, Steps
  <2>2. Sound(v)
    BY <1>0, <2>1 DEF Sound, PaymentSteps, RefundSteps
  <2> QED
    BY <1>3, <2>1, <2>2, OnlyRequest DEF ExpireRead, ReadInvoice, Untouched, SameRun, tables, IInv, TypeOK
<1>4. ASSUME ExpireCommit(r) PROVE IInv'
  <2> DEFINE p == req[r].p
             row == [payment[p] EXCEPT !.st = "FAILED", !.ver = "EXPIRED"]
             paid == AtLeastZero(req[r].paid - req[r].amt)
  <2>1. p \in Payments
    BY <1>0, <1>4 DEF ExpireCommit, At, Sound, PaymentSteps
  <2>2. /\ row \in PaymentRow /\ row.st = "FAILED" /\ row.amt = payment[p].amt
        /\ row.refunded = payment[p].refunded
    <3>1. payment[p] \in PaymentRow /\ "FAILED" \in PaymentStatus /\ "EXPIRED" \in Verification
      BY <1>0, <2>1, Types DEF PaymentStatus, Verification
    <3> QED
      BY <3>1 DEF PaymentRow
  <2>3. payment' = [payment EXCEPT ![p] = row]
    BY <1>4 DEF ExpireCommit
  <2>4. /\ req[r].i \in Invoices /\ paid \in Int /\ ExpiredStatus(paid) \in InvoiceStatus
        /\ ExpiredStatus(paid) # "PAID"
        /\ ExpiredStatus(paid) \in {"ABSENT", "SENT", "OVERDUE", "REFUNDED"} => paid = 0
    BY <1>0, Types DEF ExpiredStatus, InvoiceStatus, AtLeastZero
  <2>5. invoice' \in [Invoices -> InvoiceRow] /\ StatusMatchesAmount'
    BY <1>4, <2>4, OnlyInvoice DEF ExpireCommit
  <2>6. PICK v \in RequestRow : Sets(r, v) /\ Carries(v, req[r]) /\ v.pc = "done"
    BY <1>0, <1>4, GotoSets DEF ExpireCommit, Steps
  <2>7. /\ sub' \in [Subs -> SubStatus \cup {"ABSENT"}]
        /\ UNCHANGED <<institute, refundedOut, met, dead, crashes>>
    BY <1>0, <1>4 DEF ExpireCommit, DemoteSome, TypeOK, SubStatus, SameRun
  <2> HIDE DEF p, row
  <2>8. payment' \in [Payments -> PaymentRow] /\ PaymentRows' /\ AmountsKept
    BY <1>0, <2>1, <2>2, <2>3 DEF TypeOK, PaymentRows, AmountsKept
  <2>9. Tables'
    BY <2>5, <2>7, <2>8, TablesHold DEF Tables
  <2>10. Sound(v)'
    BY <1>0, <2>6, <2>8 DEF Sound, Carries, AmountsKept, PaymentSteps, RefundSteps
  <2> QED
    BY <2>6, <2>8, <2>9, <2>10, RequestKeeps
<1>5. ASSUME RenewInsert(r) PROVE IInv'
  <2>0. PICK i \in Invoices : InsertInvoice(i, req[r].to.s, "next")
                              /\ req' = [req EXCEPT ![r].pc = "done", ![r].i = i]
    BY <1>5 DEF RenewInsert
  <2>1. invoice' \in [Invoices -> InvoiceRow] /\ StatusMatchesAmount'
    BY <1>0, <2>0, Types, InsertKeeps
  <2>2. PICK v \in RequestRow : Sets(r, v) /\ v.p = req[r].p /\ v.pc = "done"
    BY <1>0, <2>0, DoneSets
  <2>3. UNCHANGED <<payment, sub, institute, refundedOut, met, dead, crashes>>
    BY <1>5 DEF RenewInsert, SameRun
  <2>4. Tables' /\ AmountsKept
    BY <2>1, <2>3, TablesHold DEF Tables, AmountsKept, PaymentRows
  <2>5. Sound(v)'
    BY <1>0, <2>2, <2>3 DEF Sound, PaymentSteps, RefundSteps
  <2> QED
    BY <2>2, <2>4, <2>5, RequestKeeps
<1>6. ASSUME ActivityAbort(r) PROVE IInv'
  <2>1. Sets(r, Idle)
    BY <1>0, <1>6, RowSets DEF ActivityAbort
  <2>2. PICK v \in RequestRow : v = Idle
    BY <1>0
  <2>3. Sets(r, v) /\ Sound(v)
    BY <1>0, <2>1, <2>2 DEF Sound, PaymentSteps, RefundSteps
  <2> QED
    BY <1>0, <1>6, <2>3, OnlyRequest DEF ActivityAbort, tables, TypeOK
<1> QED
  BY <1>1, <1>2, <1>3, <1>4, <1>5, <1>6 DEF ActivityStart, ActivityStep

(* The scheduled activities of one transaction, the customer at the        *)
(* gateway and a crash.                                                    *)
LEMMA OthersHold ==
    ASSUME IInv, Cron \/ (\E p \in Payments : CustomerPays(p)) \/ Crash PROVE IInv'
<1>0. TypeOK /\ Tables
  BY TablesHold DEF IInv
<1>1. ASSUME Tables', UNCHANGED <<payment, req>> PROVE IInv'
  BY <1>0, <1>1 DEF IInv, Tables, TypeOK, Sound
<1>2. CASE CancelGracePeriodExpired \/ ProcessTrialExpiry
  <2>1. PICK S \in SUBSET Subs, st \in {"CANCELLED", "EXPIRED"} : SetSubs(S, st)
    BY <1>2 DEF CancelGracePeriodExpired, ProcessTrialExpiry, GraceOver
  <2>2. Tables'
    BY <1>0, <2>1 DEF SetSubs, SameRun, Tables, SubStatus, StatusMatchesAmount, PaymentRows
  <2> QED
    BY <1>1, <2>1, <2>2 DEF SetSubs
<1>3. CASE MarkOverdueInvoices
  <2>1. /\ UNCHANGED <<payment, sub, institute, refundedOut, req, met, dead, crashes>>
        /\ \E I \in SUBSET Overdue :
              invoice' = [i \in Invoices |-> IF i \in I THEN [invoice[i] EXCEPT !.st = "OVERDUE"]
                                                        ELSE invoice[i]]
    BY <1>3 DEF MarkOverdueInvoices, SameRun
  <2>2. \A i \in Invoices : invoice'[i] \in InvoiceRow /\
            (invoice'[i] = invoice[i] \/ (/\ invoice'[i].st = "OVERDUE" /\ invoice[i].st = "SENT"
                                         /\ invoice'[i].paid = invoice[i].paid))
    <3>1. ASSUME NEW x \in InvoiceRow
          PROVE  LET y == [x EXCEPT !.st = "OVERDUE"]
                 IN  y \in InvoiceRow /\ y.st = "OVERDUE" /\ y.paid = x.paid
      BY DEF InvoiceRow, InvoiceStatus
    <3> QED
      BY <1>0, <2>1, <3>1, Types DEF Overdue
  <2>3. Tables'
    BY <1>0, <2>1, <2>2 DEF Tables, StatusMatchesAmount, PaymentRows
  <2> QED
    BY <1>1, <2>1, <2>3
<1>4. ASSUME NEW p \in Payments, CustomerPays(p) PROVE IInv'
  <2> DEFINE row == [payment[p] EXCEPT !.order = "CAPTURED"]
  <2>1. payment' = [payment EXCEPT ![p] = row]
    BY <1>4 DEF CustomerPays
  <2>2. /\ row \in PaymentRow /\ row.st = payment[p].st /\ row.amt = payment[p].amt
        /\ row.refunded = payment[p].refunded
    BY <1>0, Types DEF PaymentRow
  <2>3. UNCHANGED <<invoice, sub, institute, refundedOut, req, met, dead, crashes>>
    BY <1>4 DEF CustomerPays, SameRun
  <2>4. payment[p].order = "OPEN"
    BY <1>4 DEF CustomerPays
  <2>5. payment[p].st # "ABSENT"
    <3>1. ASSUME payment[p] = NoRow PROVE payment[p].order = "NONE"
      BY <3>1, NoRowType
    <3> QED
      BY <2>4, <3>1 DEF IInv, PaymentRows
  <2> HIDE DEF row
  <2>6. /\ payment' \in [Payments -> PaymentRow] /\ payment'[p] = row
        /\ \A x \in Payments \ {p} : payment'[x] = payment[x]
    BY <1>0, <2>1, <2>2 DEF TypeOK
  <2>7. PaymentRows' /\ AmountsKept
    BY <1>0, <2>2, <2>5, <2>6 DEF IInv, PaymentRows, AmountsKept
  <2>8. Tables'
    BY <1>0, <2>3, <2>6, <2>7 DEF Tables, StatusMatchesAmount
  <2>9. ASSUME NEW t \in Requests PROVE Sound(req[t])'
    BY <2>3, <2>7 DEF IInv, Sound, AmountsKept, PaymentSteps, RefundSteps
  <2> QED
    BY <1>0, <2>3, <2>8, <2>9 DEF IInv, Tables, TypeOK
<1>5. CASE Crash
  <2>1. /\ UNCHANGED <<invoice, payment, sub, institute, refundedOut, req, met>>
        /\ crashes' \in 0..MaxCrashes /\ dead' \in SUBSET Requests
    BY <1>0, <1>5, BillingAssumption DEF Crash, tables, InFlight, TypeOK
  <2>2. Tables'
    BY <1>0, <2>1 DEF Tables, StatusMatchesAmount, PaymentRows
  <2> QED
    BY <1>1, <2>1, <2>2
<1> QED
  BY <1>2, <1>3, <1>4, <1>5 DEF Cron

(* Every step keeps the invariant, however requests overlap.               *)
LEMMA StepHolds == IInv /\ [Next]_vars => IInv'
<1> SUFFICES ASSUME IInv, [Next]_vars PROVE IInv'
  OBVIOUS
<1>1. ASSUME NEW r \in Requests, Begin(r) PROVE IInv'
  BY <1>1, InvoiceHolds, PaymentStartHolds, SubscriptionHolds, ActivityHolds DEF Begin
<1>2. ASSUME NEW r \in Requests, Continue(r) PROVE IInv'
  BY <1>2, InvoiceHolds, PaymentStepHolds, SubscriptionHolds, ActivityHolds DEF Continue
<1>3. CASE Cron \/ (\E p \in Payments : CustomerPays(p)) \/ Crash
  BY <1>3, OthersHold
<1>4. CASE UNCHANGED vars
  BY <1>4 DEF vars, tables, IInv, TypeOK, StatusMatchesAmount, PaymentRows, Sound
<1> QED
  BY <1>1, <1>2, <1>3, <1>4 DEF Next

THEOREM Inductive == Spec => []IInv
  BY InitHolds, StepHolds, PTL DEF Spec

(* Type correctness of the billing tables and requests.                    *)
THEOREM TypeCorrect == Spec => []TypeOK
<1>1. IInv => TypeOK
  BY DEF IInv
<1> QED
  BY <1>1, Inductive, PTL

(* An invoice's status agrees with its paid amount, for any overlap of     *)
(* requests, any crashes and any amounts (invoice.service.ts markPaid and  *)
(* markRefunded, billing.activities.ts).                                   *)
THEOREM StatusAgrees == Spec => []StatusMatchesAmount
<1>1. IInv => StatusMatchesAmount
  BY DEF IInv
<1> QED
  BY <1>1, Inductive, PTL

(* No payment row records a refund above its amount, for any overlap of    *)
(* refunds (payment.service.ts issueRefund).                               *)
THEOREM RefundsBounded == Spec => []RefundRecordBounded
<1>1. IInv => RefundRecordBounded
  <2> SUFFICES ASSUME IInv, NEW p \in Payments, payment[p].amt >= 0
               PROVE  payment[p].refunded \in 0..payment[p].amt
    BY DEF RefundRecordBounded
  <2>1. payment[p].amt \in Int /\ payment[p].refunded \in Int
    BY Types DEF IInv
  <2>2. payment[p].refunded >= 0 /\ (payment[p].refunded > 0 => payment[p].refunded <= payment[p].amt)
    BY DEF IInv, PaymentRows
  <2> QED
    BY <2>1, <2>2
<1> QED
  BY <1>1, Inductive, PTL
-----------------------------------------------------------------------------
(* What a request is doing tells which operation it serves; the status it  *)
(* will write is one the status it has read may become.                    *)
Placed(q) ==
    /\ q.pc = "idle" => q.op = "none" /\ q.p = NoPayment
    /\ q.pc \in {"utrCheck", "upiCreate"} => q.op = "submitUpi" /\ q.p = NoPayment
    /\ q.pc \in {"reactivateRead", "reactivateWrite"} => q.op = "submitUpi"
    /\ q.pc = "manualCreate" => q.op = "manual"
    /\ q.pc = "orderCreate" => q.op = "initiate"
    /\ q.pc = "verifyUpdate" => q.op = "verify"
    /\ q.pc = "webhookLookup" => q.op = "webhook"
    /\ q.pc = "upiVerify" => q.op = "verifyUpi"
    /\ q.pc \in {"markPaidRead", "markPaidWrite"} => q.op \in {"manual", "verify", "submitUpi"}
    /\ q.pc \in RefundSteps => q.op = "refund"
    /\ q.pc \in {"markRefundedRead", "markRefundedWrite"} => q.op \in {"refund", "rejectUpi"}
    /\ q.pc \in {"revertInvoiceRead", "revertSubRead", "revertWrite", "rejectUpdate"} => q.op = "rejectUpi"
    /\ q.pc \in {"expireRead", "expireCommit"} => q.op = "expireUpi"
    /\ q.pc \in {"subWrite", "assignCreate", "invoiceCreate"} =>
           q.op \in {"pause", "resume", "cancel", "expire", "assign", "generate"}
    /\ q.pc = "renewInsert" => q.op = "renew"
    /\ q.op = "renew" => q.pc \in {"renewInsert", "done"}
    /\ q.pc \in {"subWrite", "reactivateWrite", "revertWrite"} =>
           q.to.was \in SubStatus /\ q.to.st \in SubTransitions[q.to.was]

AllPlaced == \A r \in Requests : Placed(req[r])

(* What most steps leave alone: UTR numbers, refunds, and an invoice that  *)
(* exists, its subscription and its period.                                *)
UtrsKept == \A p \in Payments : payment'[p].utr = payment[p].utr

RefundsKept == refundedOut' = refundedOut /\ \A p \in Payments : payment'[p].refunded = payment[p].refunded

InvoicesKept == \A i \in Invoices :
    /\ invoice[i].st # "ABSENT" => invoice'[i].st # "ABSENT"
    /\ invoice'[i].of = invoice[i].of
    /\ invoice'[i].period = invoice[i].period

InvoiceAdded(i, s, period) ==
    /\ invoice[i].st = "ABSENT"
    /\ invoice'[i].st # "ABSENT" /\ invoice'[i].of = s /\ invoice'[i].period = period
    /\ \A j \in Invoices \ {i} : invoice'[j] = invoice[j]

(* The kinds of steps.  A request comes in: it becomes v.                  *)
Enters(r, v) ==
    /\ Sets(r, v) /\ req[r].pc = "idle" /\ Placed(v)
    /\ v.pc \notin {"idle", "done", "upiCreate", "refundUpdate"}
    /\ met' = [t \in Requests |-> IF t = r THEN InFlight
                                  ELSE IF t \in InFlight THEN met[t] \cup {r} ELSE met[t]]
    /\ UNCHANGED <<invoice, payment, sub, institute, refundedOut, dead>>
    /\ v.pc = "refundPayer" => v.paid = payment[v.p].refunded
    /\ v.pc = "renewInsert" => ~Renewed(v.to.s)
    /\ v.op = "submitUpi" => v.p = NoPayment

(* A request in flight goes on: it becomes v.                              *)
Goes(r, v) ==
    /\ Sets(r, v) /\ r \in InFlight /\ Placed(v) /\ v.pc # "idle"
    /\ v.op = req[r].op /\ v.utr = req[r].utr
    /\ UNCHANGED <<met, dead>>

GoesOn(r, v) ==
    /\ Goes(r, v)
    /\ req[r].pc \notin {"upiCreate", "renewInsert"} \cup RefundSteps
    /\ v.pc \notin {"renewInsert"} \cup RefundSteps
    /\ v.p = req[r].p \/ req[r].op \in {"manual", "initiate"}
    /\ v.pc = "upiCreate" => ~UtrSubmitted(v.utr)
    /\ UtrsKept /\ RefundsKept
    /\ InvoicesKept \/ \E i \in Invoices, s \in Subs : InvoiceAdded(i, s, "current")

CreatesUpi(r, v) ==
    /\ Goes(r, v) /\ req[r].pc = "upiCreate" /\ v.pc = "markPaidRead"
    /\ v.p \in Payments /\ payment[v.p].st = "ABSENT"
    /\ payment'[v.p].utr = req[r].utr
    /\ \A x \in Payments \ {v.p} : payment'[x] = payment[x]
    /\ RefundsKept /\ UNCHANGED invoice

Renews(r, v) ==
    /\ Goes(r, v) /\ req[r].pc = "renewInsert" /\ v.pc = "done"
    /\ v.p = req[r].p /\ v.to = req[r].to
    /\ v.i \in Invoices /\ InvoiceAdded(v.i, v.to.s, "next")
    /\ UNCHANGED <<payment, refundedOut>>

PaysBack(r, v) ==
    /\ Goes(r, v) /\ req[r].pc = "refundPayer"
    /\ v.p = req[r].p /\ v.amt = req[r].amt /\ v.paid = req[r].paid
    /\ \/ v.pc = "refundUpdate" /\ refundedOut' = [refundedOut EXCEPT ![v.p] = @ + v.amt]
       \/ v.pc = "done" /\ refundedOut' = refundedOut
    /\ UNCHANGED <<invoice, payment>>

RecordsRefund(r, v) ==
    /\ Goes(r, v) /\ req[r].pc = "refundUpdate" /\ v.pc = "markRefundedRead" /\ v.p = req[r].p
    /\ payment'[v.p].refunded = req[r].paid + req[r].amt
    /\ \A x \in Payments \ {v.p} : payment'[x] = payment[x]
    /\ UtrsKept /\ UNCHANGED <<invoice, refundedOut>>

(* An activity's transaction fails.                                        *)
Aborts(r) ==
    /\ Sets(r, Idle) /\ r \in InFlight /\ req[r].op \in {"expireUpi", "renew"}
    /\ met' = [t \in Requests |-> IF t = r THEN {} ELSE met[t] \ {r}]
    /\ UNCHANGED <<invoice, payment, sub, institute, refundedOut, dead>>

(* No request moves.                                                       *)
Stays ==
    /\ UNCHANGED <<req, met, dead>>
    /\ UtrsKept /\ RefundsKept /\ InvoicesKept

Dies ==
    /\ dead' = dead \cup InFlight
    /\ UNCHANGED <<invoice, payment, sub, institute, refundedOut, req, met>>

Kind ==
    \/ \E r \in Requests, v \in RequestRow :
          \/ Enters(r, v) \/ GoesOn(r, v) \/ CreatesUpi(r, v) \/ Renews(r, v)
          \/ PaysBack(r, v) \/ RecordsRefund(r, v)
    \/ \E r \in Requests : Aborts(r)
    \/ Stays
    \/ Dies

-----------------------------------------------------------------------------
(* A start of a request is of the first kind.                              *)
LEMMA StartEnters ==
    ASSUME IInv, NEW r \in Requests, NEW op, NEW pc \in Steps, NEW row \in RequestRow,
           Start(r, op, pc, row),
           pc \notin {"idle", "done", "upiCreate", "refundUpdate"},
           \A v \in RequestRow : Carries(v, row) /\ v.pc = pc /\ v.op = op => Placed(v),
           pc = "refundPayer" => row.paid = payment[row.p].refunded,
           pc = "renewInsert" => ~Renewed(row.to.s),
           op = "submitUpi" => row.p = NoPayment
    PROVE  Kind
<1>0. TypeOK
  BY DEF IInv
<1>1. PICK v \in RequestRow : Sets(r, v) /\ Carries(v, row) /\ v.pc = pc /\ v.op = op
  BY <1>0, StartSets
<1>2. /\ req[r].pc = "idle"
      /\ met' = [t \in Requests |-> IF t = r THEN InFlight
                                    ELSE IF t \in InFlight THEN met[t] \cup {r} ELSE met[t]]
      /\ UNCHANGED <<invoice, payment, sub, institute, refundedOut, dead>>
  BY DEF Start, tables
<1>3. v.p = row.p /\ v.paid = row.paid /\ v.to = row.to
  BY <1>1 DEF Carries
<1>4. Enters(r, v)
  BY <1>1, <1>2, <1>3 DEF Enters
<1> QED
  BY <1>4 DEF Kind

(* A blank payment row has no UTR number and no refund.                    *)
LEMMA BlankRow ==
    ASSUME IInv, NEW p \in Payments, payment[p].st = "ABSENT"
    PROVE  payment[p].utr = NoUtr /\ payment[p].refunded = 0 /\ payment[p].gid = NoPayment
           /\ payment[p].ver = "NONE" /\ payment[p].order = "NONE"
<1>1. ASSUME payment[p] = NoRow
      PROVE  payment[p].utr = NoUtr /\ payment[p].refunded = 0 /\ payment[p].gid = NoPayment
             /\ payment[p].ver = "NONE" /\ payment[p].order = "NONE"
  BY <1>1, NoRowType
<1> QED
  BY <1>1 DEF IInv, PaymentRows

(* A request that goes on and changes no payment and no invoice.           *)
LEMMA GoesByGoto ==
    ASSUME IInv, NEW r \in Requests, NEW v \in RequestRow, Sets(r, v), Placed(v),
           r \notin dead, req[r].pc \notin {"idle", "done", "upiCreate", "renewInsert"} \cup RefundSteps,
           v.pc \notin {"idle", "renewInsert"} \cup RefundSteps,
           v.op = req[r].op, v.utr = req[r].utr, v.p = req[r].p,
           v.pc = "upiCreate" => ~UtrSubmitted(v.utr),
           UNCHANGED <<met, dead, refundedOut>>, UtrsKept, RefundsKept,
           InvoicesKept \/ \E i \in Invoices, s \in Subs : InvoiceAdded(i, s, "current")
    PROVE  Kind
<1>1. r \in InFlight
  BY DEF InFlight
<1>2. GoesOn(r, v)
  BY <1>1 DEF GoesOn, Goes
<1> QED
  BY <1>2 DEF Kind

(* A request writes a payment row that exists; neither its UTR number nor  *)
(* its refunds change.                                                     *)
LEMMA GoesByPayment ==
    ASSUME IInv, NEW r \in Requests, NEW p \in Payments, p = req[r].p, NEW row \in PaymentRow,
           NEW pc \in Steps \ ({"idle", "renewInsert", "upiCreate"} \cup RefundSteps),
           WritePayment(r, p, row, pc),
           row.utr = payment[p].utr, row.refunded = payment[p].refunded,
           r \notin dead, req[r].pc \notin {"idle", "done", "upiCreate", "renewInsert"} \cup RefundSteps,
           \A v \in RequestRow : v.op = req[r].op /\ v.p = p /\ v.pc = pc => Placed(v)
    PROVE  Kind
<1>1. /\ payment'[p] = row
      /\ \A x \in Payments \ {p} : payment'[x] = payment[x]
      /\ UNCHANGED <<invoice, sub, institute, refundedOut, met, dead, crashes>>
  BY WritePaymentSets DEF IInv
<1>2. PICK v \in RequestRow : /\ Sets(r, v) /\ v.op = req[r].op /\ v.p = p /\ v.pc = pc
                              /\ v.utr = req[r].utr
  BY WritePaymentSets DEF IInv
<1>3. UtrsKept /\ RefundsKept /\ InvoicesKept
  BY <1>1 DEF UtrsKept, RefundsKept, InvoicesKept
<1> QED
  BY <1>1, <1>2, <1>3, GoesByGoto

(* A manual payment or a gateway order: a new row without a UTR number.    *)
LEMMA GoesByRow ==
    ASSUME IInv, NEW r \in Requests, NEW p \in Payments, payment[p].st = "ABSENT",
           NEW row \in PaymentRow,
           NEW pc \in {"markPaidRead", "done"}, WritePayment(r, p, row, pc),
           row.utr = NoUtr, row.refunded = 0,
           r \notin dead, req[r].pc \in {"manualCreate", "orderCreate"}, Placed(req[r]),
           pc = "markPaidRead" => req[r].pc = "manualCreate"
    PROVE  Kind
<1>0. pc \in Steps
  BY DEF Steps
<1>1. /\ payment'[p] = row
      /\ \A x \in Payments \ {p} : payment'[x] = payment[x]
      /\ UNCHANGED <<invoice, sub, institute, refundedOut, met, dead, crashes>>
  BY <1>0, WritePaymentSets DEF IInv
<1>2. PICK v \in RequestRow : /\ Sets(r, v) /\ v.op = req[r].op /\ v.p = p /\ v.pc = pc
                              /\ v.utr = req[r].utr
  BY <1>0, WritePaymentSets DEF IInv
<1>3. UtrsKept /\ RefundsKept /\ InvoicesKept
  BY <1>1, BlankRow DEF UtrsKept, RefundsKept, InvoicesKept
<1>4. req[r].op \in {"manual", "initiate"} /\ (pc = "markPaidRead" => req[r].op = "manual")
  BY DEF Placed
<1>5. Placed(v)
  BY <1>2, <1>4 DEF Placed, RefundSteps
<1>6. r \in InFlight
  BY DEF InFlight
<1>7. GoesOn(r, v)
  BY <1>1, <1>2, <1>3, <1>4, <1>5, <1>6 DEF GoesOn, Goes, RefundSteps
<1> QED
  BY <1>7 DEF Kind

(* An invoice row is inserted.                                             *)
LEMMA InsertAdds ==
    ASSUME IInv, NEW i \in Invoices, NEW s \in Subs, NEW period, InsertInvoice(i, s, period)
    PROVE  InvoiceAdded(i, s, period)
  BY DEF IInv, TypeOK, InsertInvoice, InvoiceAdded

(* An invoice's status and amount are written.                             *)
LEMMA WriteKeeps ==
    ASSUME IInv, NEW i \in Invoices, NEW st \in InvoiceStatus \ {"ABSENT"}, NEW paid \in Int,
           invoice' = [invoice EXCEPT ![i].st = st, ![i].paid = paid]
    PROVE  InvoicesKept
<1> DEFINE x == invoice[i]
           row == [x EXCEPT !.st = st, !.paid = paid]
<1>0. x \in InvoiceRow
  BY Types DEF IInv
<1>1. invoice' = [invoice EXCEPT ![i] = row]
  OBVIOUS
<1> HIDE DEF x
<1>2. row.st = st /\ row.of = x.of /\ row.period = x.period
  BY <1>0 DEF InvoiceRow
<1> HIDE DEF row
<1>3. invoice'[i] = row /\ \A j \in Invoices \ {i} : invoice'[j] = invoice[j]
  BY <1>1 DEF IInv, TypeOK
<1> QED
  BY <1>2, <1>3 DEF InvoicesKept, x

(* invoice.service.ts                                                      *)
LEMMA InvoiceKind ==
    ASSUME IInv, AllPlaced, NEW r \in Requests, InvoiceStart(r) \/ InvoiceStep(r) PROVE Kind
<1>0. TypeOK /\ Placed(req[r])
  BY DEF IInv, AllPlaced
<1>1. ASSUME NEW s \in Subs, GenerateStart(r, s) PROVE Kind
  <2> DEFINE w == [Idle EXCEPT !.to.s = s]
  <2>1. w \in RequestRow
    BY IdleType DEF RequestRow
  <2>2. Start(r, "generate", "invoiceCreate", w)
    BY <1>1 DEF GenerateStart
  <2> HIDE DEF w
  <2>3. "invoiceCreate" \in Steps
    BY DEF Steps
  <2>4. ASSUME NEW v \in RequestRow, v.pc = "invoiceCreate", v.op = "generate" PROVE Placed(v)
    BY <2>4 DEF Placed, RefundSteps
  <2> QED
    BY <2>1, <2>2, <2>3, <2>4, StartEnters
<1>2. ASSUME GenerateInvoice(r) PROVE Kind
  <2>1. PICK v \in RequestRow : /\ Sets(r, v) /\ v.p = req[r].p /\ v.pc = "done" /\ v.op = req[r].op
                                /\ v.utr = req[r].utr
    BY <1>0, <1>2, GotoSets DEF GenerateInvoice, Carries, Steps
  <2>2. req[r].pc = "invoiceCreate" /\ r \notin dead
    BY <1>2 DEF GenerateInvoice, At
  <2>3. Placed(v)
    BY <1>0, <2>1, <2>2 DEF Placed, RefundSteps
  <2>4. \E i \in Invoices, s \in Subs : InvoiceAdded(i, s, "current")
    BY <1>0, <1>2, Types, InsertAdds DEF GenerateInvoice
  <2>5. UNCHANGED <<met, dead, refundedOut>> /\ UtrsKept /\ RefundsKept
    BY <1>2 DEF GenerateInvoice, SameRun, UtrsKept, RefundsKept
  <2> QED
    BY <2>1, <2>2, <2>3, <2>4, <2>5, GoesByGoto DEF RefundSteps
<1>3. ASSUME NEW from \in Steps, NEW to \in Steps, ReadInvoice(r, from, to),
             from \notin {"idle", "done", "upiCreate", "renewInsert"} \cup RefundSteps,
             to \notin {"idle", "upiCreate", "renewInsert"} \cup RefundSteps,
             \A v \in RequestRow : v.op = req[r].op /\ v.pc = to => Placed(v)
      PROVE  Kind
  <2>1. PICK v \in RequestRow : /\ Sets(r, v) /\ v.p = req[r].p /\ v.pc = to /\ v.op = req[r].op
                                /\ v.utr = req[r].utr
    BY <1>0, <1>3, ReadInvoiceSets
  <2>2. req[r].pc = from /\ r \notin dead
    BY <1>3 DEF ReadInvoice, At
  <2>3. /\ UNCHANGED <<met, dead, refundedOut>> /\ UtrsKept /\ RefundsKept
        /\ InvoicesKept
    BY <1>3 DEF ReadInvoice, Untouched, tables, SameRun, UtrsKept, RefundsKept, InvoicesKept
  <2> QED
    BY <1>3, <2>1, <2>2, <2>3, GoesByGoto
<1>4. ASSUME MarkPaidRead(r) PROVE Kind
  <2>1. ReadInvoice(r, "markPaidRead", "markPaidWrite") /\ req[r].pc = "markPaidRead"
    BY <1>4 DEF MarkPaidRead, ReadInvoice, At
  <2>2. ASSUME NEW v \in RequestRow, v.op = req[r].op, v.pc = "markPaidWrite" PROVE Placed(v)
    BY <1>0, <2>1, <2>2 DEF Placed, RefundSteps
  <2> QED
    BY <1>3, <2>1, <2>2 DEF Steps, RefundSteps
<1>5. ASSUME MarkRefundedRead(r) PROVE Kind
  <2>1. ReadInvoice(r, "markRefundedRead", "markRefundedWrite") /\ req[r].pc = "markRefundedRead"
    BY <1>5 DEF MarkRefundedRead, ReadInvoice, At
  <2>2. ASSUME NEW v \in RequestRow, v.op = req[r].op, v.pc = "markRefundedWrite" PROVE Placed(v)
    BY <1>0, <2>1, <2>2 DEF Placed, RefundSteps
  <2> QED
    BY <1>3, <2>1, <2>2 DEF Steps, RefundSteps
<1>6. ASSUME MarkPaidWrite(r) PROVE Kind
  <2> DEFINE paid == req[r].paid + req[r].amt
             pc == IF req[r].op = "submitUpi" THEN "reactivateRead" ELSE "done"
  <2>1. req[r].i \in Invoices /\ paid \in Int /\ PaidStatus(paid) \in InvoiceStatus \ {"ABSENT"}
    BY <1>0, Types DEF PaidStatus, InvoiceStatus
  <2>2. InvoicesKept
    BY <1>6, <2>1, WriteKeeps DEF MarkPaidWrite
  <2>3. req[r].pc = "markPaidWrite" /\ r \notin dead /\ Goto(r, pc) /\ pc \in Steps
    BY <1>6 DEF MarkPaidWrite, At, Steps
  <2>4. PICK v \in RequestRow : /\ Sets(r, v) /\ v.p = req[r].p /\ v.pc = pc /\ v.op = req[r].op
                                /\ v.utr = req[r].utr
    BY <1>0, <2>3, GotoSets DEF Carries
  <2>5. Placed(v)
    BY <1>0, <2>3, <2>4 DEF Placed, RefundSteps
  <2>6. UNCHANGED <<met, dead, refundedOut>> /\ UtrsKept /\ RefundsKept
    BY <1>6 DEF MarkPaidWrite, SameRun, UtrsKept, RefundsKept
  <2> QED
    BY <2>2, <2>3, <2>4, <2>5, <2>6, GoesByGoto DEF RefundSteps
<1>7. ASSUME MarkRefundedWrite(r) PROVE Kind
  <2> DEFINE paid == AtLeastZero(req[r].paid - req[r].amt)
             pc == IF req[r].op = "rejectUpi" THEN "revertInvoiceRead" ELSE "done"
  <2>1. req[r].i \in Invoices /\ paid \in Int /\ RefundStatus(paid) \in InvoiceStatus \ {"ABSENT"}
    BY <1>0, Types DEF RefundStatus, InvoiceStatus, AtLeastZero
  <2>2. InvoicesKept
    BY <1>7, <2>1, WriteKeeps DEF MarkRefundedWrite
  <2>3. req[r].pc = "markRefundedWrite" /\ r \notin dead /\ Goto(r, pc) /\ pc \in Steps
    BY <1>7 DEF MarkRefundedWrite, At, Steps
  <2>4. PICK v \in RequestRow : /\ Sets(r, v) /\ v.p = req[r].p /\ v.pc = pc /\ v.op = req[r].op
                                /\ v.utr = req[r].utr
    BY <1>0, <2>3, GotoSets DEF Carries
  <2>5. Placed(v)
    BY <1>0, <2>3, <2>4 DEF Placed, RefundSteps
  <2>6. UNCHANGED <<met, dead, refundedOut>> /\ UtrsKept /\ RefundsKept
    BY <1>7 DEF MarkRefundedWrite, SameRun, UtrsKept, RefundsKept
  <2> QED
    BY <2>2, <2>3, <2>4, <2>5, <2>6, GoesByGoto DEF RefundSteps
<1> QED
  BY <1>1, <1>2, <1>4, <1>5, <1>6, <1>7 DEF InvoiceStart, InvoiceStep

(* payment.service.ts: the checks that start a request.                    *)
LEMMA PaymentStartKind ==
    ASSUME IInv, NEW r \in Requests, PaymentStart(r) PROVE Kind
<1>0. TypeOK /\ Idle \in RequestRow /\ Idle.p = NoPayment /\ NoPayment \notin Payments
  BY IdleType, BillingAssumption DEF IInv
<1>1. {"manualCreate", "orderCreate", "utrCheck", "verifyUpdate", "webhookLookup", "upiVerify",
       "markRefundedRead", "refundPayer"} \subseteq Steps
  BY DEF Steps
<1>2. ASSUME NEW i \in Invoices, NEW amt \in Amounts, ManualStart(r, i, amt) PROVE Kind
  <2> DEFINE w == [Idle EXCEPT !.i = i, !.amt = amt]
  <2>0. amt \in Int
    BY BillingAssumption
  <2>1. w \in RequestRow
    BY <1>0, <2>0 DEF RequestRow
  <2>2. Start(r, "manual", "manualCreate", w)
    BY <1>2 DEF ManualStart
  <2> HIDE DEF w
  <2>3. ASSUME NEW v \in RequestRow, v.pc = "manualCreate", v.op = "manual" PROVE Placed(v)
    BY <2>3 DEF Placed, RefundSteps
  <2> QED
    BY <1>1, <2>1, <2>2, <2>3, StartEnters
<1>3. ASSUME NEW i \in Invoices, InitiateStart(r, i) PROVE Kind
  <2> DEFINE w == [Idle EXCEPT !.i = i, !.amt = Remaining(i)]
  <2>0. Remaining(i) \in Int
    BY <1>0, Types DEF Remaining
  <2>1. w \in RequestRow
    BY <1>0, <2>0 DEF RequestRow
  <2>2. Start(r, "initiate", "orderCreate", w)
    BY <1>3 DEF InitiateStart
  <2> HIDE DEF w
  <2>3. ASSUME NEW v \in RequestRow, v.pc = "orderCreate", v.op = "initiate" PROVE Placed(v)
    BY <2>3 DEF Placed, RefundSteps
  <2> QED
    BY <1>1, <2>1, <2>2, <2>3, StartEnters
<1>4. ASSUME NEW i \in Invoices, NEW u \in Utrs, SubmitUpiStart(r, i, u) PROVE Kind
  <2> DEFINE w == [Idle EXCEPT !.i = i, !.amt = Remaining(i), !.utr = u]
  <2>0. Remaining(i) \in Int
    BY <1>0, Types DEF Remaining
  <2>1. w \in RequestRow /\ w.p = NoPayment
    BY <1>0, <2>0 DEF RequestRow
  <2>2. Start(r, "submitUpi", "utrCheck", w)
    BY <1>4 DEF SubmitUpiStart
  <2> HIDE DEF w
  <2>3. ASSUME NEW v \in RequestRow, v.pc = "utrCheck", v.op = "submitUpi", Carries(v, w)
        PROVE  Placed(v)
    BY <2>1, <2>3 DEF Placed, RefundSteps, Carries
  <2> QED
    BY <1>1, <2>1, <2>2, <2>3, StartEnters
<1>5. ASSUME NEW p \in Payments, VerifyStart(r, p) PROVE Kind
  <2> DEFINE w == [Idle EXCEPT !.i = payment[p].inv, !.p = p, !.amt = payment[p].amt]
  <2>1. w \in RequestRow
    BY <1>0, Types DEF RequestRow
  <2>2. Start(r, "verify", "verifyUpdate", w)
    BY <1>5 DEF VerifyStart
  <2> HIDE DEF w
  <2>3. ASSUME NEW v \in RequestRow, v.pc = "verifyUpdate", v.op = "verify" PROVE Placed(v)
    BY <2>3 DEF Placed, RefundSteps
  <2> QED
    BY <1>1, <2>1, <2>2, <2>3, StartEnters
<1>6. ASSUME NEW p \in Payments, WebhookStart(r, p) PROVE Kind
  <2> DEFINE w == [Idle EXCEPT !.p = p]
  <2>1. w \in RequestRow
    BY <1>0 DEF RequestRow
  <2>2. Start(r, "webhook", "webhookLookup", w)
    BY <1>6 DEF WebhookStart
  <2> HIDE DEF w
  <2>3. ASSUME NEW v \in RequestRow, v.pc = "webhookLookup", v.op = "webhook" PROVE Placed(v)
    BY <2>3 DEF Placed, RefundSteps
  <2> QED
    BY <1>1, <2>1, <2>2, <2>3, StartEnters
<1>7. ASSUME NEW p \in Payments, NEW amt \in Amounts, RefundStart(r, p, amt) PROVE Kind
  <2> DEFINE w == [Idle EXCEPT !.i = payment[p].inv, !.p = p, !.amt = amt, !.paid = payment[p].refunded]
  <2>0. amt \in Int
    BY BillingAssumption
  <2>1. w \in RequestRow /\ w.p = p /\ w.paid = payment[p].refunded
    BY <1>0, <2>0, Types DEF RequestRow
  <2>2. Start(r, "refund", "refundPayer", w)
    BY <1>7 DEF RefundStart
  <2> HIDE DEF w
  <2>3. ASSUME NEW v \in RequestRow, v.pc = "refundPayer", v.op = "refund" PROVE Placed(v)
    BY <2>3 DEF Placed, RefundSteps
  <2> QED
    BY <1>1, <2>1, <2>2, <2>3, StartEnters
<1>8. ASSUME NEW p \in Payments, VerifyUpiStart(r, p) PROVE Kind
  <2> DEFINE w == [Idle EXCEPT !.i = payment[p].inv, !.p = p]
  <2>1. w \in RequestRow
    BY <1>0, Types DEF RequestRow
  <2>2. Start(r, "verifyUpi", "upiVerify", w)
    BY <1>8 DEF VerifyUpiStart
  <2> HIDE DEF w
  <2>3. ASSUME NEW v \in RequestRow, v.pc = "upiVerify", v.op = "verifyUpi" PROVE Placed(v)
    BY <2>3 DEF Placed, RefundSteps
  <2> QED
    BY <1>1, <2>1, <2>2, <2>3, StartEnters
<1>9. ASSUME NEW p \in Payments, RejectUpiStart(r, p) PROVE Kind
  <2> DEFINE w == [Idle EXCEPT !.i = payment[p].inv, !.p = p, !.amt = payment[p].amt]
  <2>1. w \in RequestRow
    BY <1>0, Types DEF RequestRow
  <2>2. Start(r, "rejectUpi", "markRefundedRead", w)
    BY <1>9 DEF RejectUpiStart
  <2> HIDE DEF w
  <2>3. ASSUME NEW v \in RequestRow, v.pc = "markRefundedRead", v.op = "rejectUpi" PROVE Placed(v)
    BY <2>3 DEF Placed, RefundSteps
  <2> QED
    BY <1>1, <2>1, <2>2, <2>3, StartEnters
<1> QED
  BY <1>2, <1>3, <1>4, <1>5, <1>6, <1>7, <1>8, <1>9 DEF PaymentStart

(* payment.service.ts: the steps that follow.                              *)
LEMMA PaymentStepKind ==
    ASSUME IInv, AllPlaced, NEW r \in Requests, PaymentStep(r) PROVE Kind
<1>0. /\ TypeOK /\ PaymentRows /\ Sound(req[r]) /\ Placed(req[r]) /\ req[r] \in RequestRow
      /\ req[r].p \in Payments \cup {NoPayment} /\ NoPayment \notin Payments
      /\ \A p \in Payments : payment[p] \in PaymentRow
  BY Types, BillingAssumption DEF IInv, AllPlaced
\* A step that only moves the request.
<1>g. ASSUME NEW pc \in Steps, Goto(r, pc), UNCHANGED <<met, dead, payment, refundedOut>>, InvoicesKept,
             r \notin dead,
             req[r].pc \notin {"idle", "done", "upiCreate", "renewInsert"} \cup RefundSteps,
             pc \notin {"idle", "renewInsert"} \cup RefundSteps,
             pc = "upiCreate" => ~UtrSubmitted(req[r].utr),
             \A v \in RequestRow : Carries(v, req[r]) /\ v.op = req[r].op /\ v.pc = pc => Placed(v)
      PROVE  Kind
  <2>1. PICK v \in RequestRow : Sets(r, v) /\ Carries(v, req[r]) /\ v.pc = pc /\ v.op = req[r].op
    BY <1>0, <1>g, GotoSets
  <2>2. Placed(v) /\ v.p = req[r].p /\ v.utr = req[r].utr
    BY <1>g, <2>1 DEF Carries
  <2>3. UtrsKept /\ RefundsKept
    BY <1>g DEF UtrsKept, RefundsKept
  <2> QED
    BY <1>g, <2>1, <2>2, <2>3, GoesByGoto
<1>k. ASSUME UNCHANGED invoice PROVE InvoicesKept
  BY <1>k DEF InvoicesKept
<1>1. ASSUME ManualCreate(r) PROVE Kind
  <2>1. PICK p \in Payments : /\ payment[p].st = "ABSENT"
                              /\ WritePayment(r, p, NewRow(r, "SUCCEEDED"), "markPaidRead")
    BY <1>1 DEF ManualCreate, Free
  <2>2. "SUCCEEDED" \in PaymentStatus /\ r \notin dead /\ req[r].pc = "manualCreate"
    BY <1>1 DEF PaymentStatus, ManualCreate, At
  <2> QED
    BY <1>0, <2>1, <2>2, NewRowType, GoesByRow
<1>2. ASSUME OrderCreate(r) PROVE Kind
  <2> DEFINE w == [NewRow(r, "PENDING") EXCEPT !.order = "OPEN"]
  <2>1. PICK p \in Payments : payment[p].st = "ABSENT" /\ WritePayment(r, p, w, "done")
    BY <1>2 DEF OrderCreate, Free
  <2>2. "PENDING" \in PaymentStatus /\ r \notin dead /\ req[r].pc = "orderCreate"
    BY <1>2 DEF PaymentStatus, OrderCreate, At
  <2>3. w \in PaymentRow /\ w.utr = NoUtr /\ w.refunded = 0
    <3>1. ASSUME NEW x \in PaymentRow
          PROVE  LET y == [x EXCEPT !.order = "OPEN"]
                 IN  y \in PaymentRow /\ y.utr = x.utr /\ y.refunded = x.refunded
      BY DEF PaymentRow
    <3> QED
      BY <1>0, <2>2, <3>1, NewRowType
  <2> HIDE DEF w
  <2> QED
    BY <1>0, <2>1, <2>2, <2>3, GoesByRow
<1>3. ASSUME VerifyUpdate(r) PROVE Kind
  <2> DEFINE p == req[r].p
             x == payment[p]
             w == [x EXCEPT !.st = "SUCCEEDED", !.gid = p]
  <2>1. /\ p \in Payments /\ WritePayment(r, p, w, "markPaidRead")
        /\ req[r].pc = "verifyUpdate" /\ r \notin dead
    BY <1>0, <1>3 DEF VerifyUpdate, At, Sound, PaymentSteps
  <2>2. x \in PaymentRow
    BY <1>0, <2>1
  <2> HIDE DEF x
  <2>3. w \in PaymentRow /\ w.utr = x.utr /\ w.refunded = x.refunded
    BY <2>1, <2>2 DEF PaymentRow, PaymentStatus
  <2> HIDE DEF w
  <2>4. w \in PaymentRow /\ w.utr = payment[p].utr /\ w.refunded = payment[p].refunded
    BY <2>3 DEF x
  <2>5. "markPaidRead" \in Steps
    BY DEF Steps
  <2>6. ASSUME NEW v \in RequestRow, v.op = req[r].op, v.pc = "markPaidRead" PROVE Placed(v)
    BY <1>0, <2>1, <2>6 DEF Placed, RefundSteps
  <2> QED
    BY <2>1, <2>4, <2>5, <2>6, GoesByPayment DEF RefundSteps
<1>4. ASSUME WebhookEnd(r) PROVE Kind
  <2>1. /\ Goto(r, "done") /\ UNCHANGED <<met, dead, payment, refundedOut, invoice>> /\ r \notin dead
        /\ req[r].pc = "webhookLookup" /\ "done" \in Steps
    BY <1>4 DEF WebhookEnd, Untouched, SameRun, tables, At, Steps
  <2>2. ASSUME NEW v \in RequestRow, v.op = req[r].op, v.pc = "done" PROVE Placed(v)
    BY <1>0, <2>1, <2>2 DEF Placed, RefundSteps
  <2> QED
    BY <1>g, <1>k, <2>1, <2>2 DEF RefundSteps
<1>5. ASSUME RefundPayer(r) PROVE Kind
  <2>1. req[r].pc = "refundPayer" /\ r \notin dead /\ UNCHANGED <<invoice, payment, met, dead>>
    BY <1>5 DEF RefundPayer, At, SameRun
  <2>2. PICK pc \in {"refundUpdate", "done"} :
            /\ Goto(r, pc)
            /\ pc = "refundUpdate" => refundedOut' = [refundedOut EXCEPT ![req[r].p] = @ + req[r].amt]
            /\ pc = "done" => refundedOut' = refundedOut
    BY <1>5 DEF RefundPayer
  <2>3. PICK v \in RequestRow : Sets(r, v) /\ Carries(v, req[r]) /\ v.pc = pc /\ v.op = req[r].op
    BY <1>0, <2>2, GotoSets DEF Steps
  <2>4. Placed(v)
    BY <1>0, <2>1, <2>3 DEF Placed, RefundSteps
  <2>5. Goes(r, v)
    BY <2>1, <2>2, <2>3, <2>4 DEF Goes, Carries, InFlight
  <2>6. PaysBack(r, v)
    BY <2>1, <2>2, <2>3, <2>5 DEF PaysBack, Carries
  <2> QED
    BY <2>6 DEF Kind
<1>6. ASSUME RefundUpdate(r) PROVE Kind
  <2> DEFINE p == req[r].p
             x == payment[p]
             total == req[r].paid + req[r].amt
             st == IF total >= payment[p].amt THEN "REFUNDED" ELSE "PARTIALLY_REFUNDED"
             w == [x EXCEPT !.st = st, !.refunded = total]
  <2>1. p \in Payments /\ WritePayment(r, p, w, "markRefundedRead")
        /\ req[r].pc = "refundUpdate" /\ r \notin dead
    BY <1>0, <1>6 DEF RefundUpdate, At, Sound, PaymentSteps
  <2>2. x \in PaymentRow /\ total \in Int /\ st \in PaymentStatus
    BY <1>0, <2>1, Types DEF PaymentStatus
  <2> HIDE DEF x, st, total
  <2>3. w \in PaymentRow /\ w.utr = x.utr /\ w.refunded = total
    BY <2>2 DEF PaymentRow
  <2> HIDE DEF w
  <2>4. "markRefundedRead" \in Steps
    BY DEF Steps
  <2>5. /\ payment'[p] = w
        /\ \A y \in Payments \ {p} : payment'[y] = payment[y]
        /\ UNCHANGED <<invoice, sub, institute, refundedOut, met, dead, crashes>>
    BY <1>0, <2>1, <2>3, <2>4, WritePaymentSets
  <2>6. PICK v \in RequestRow : /\ Sets(r, v) /\ v.op = req[r].op /\ v.p = p /\ v.pc = "markRefundedRead"
                                /\ v.utr = req[r].utr
    BY <1>0, <2>1, <2>3, <2>4, WritePaymentSets
  <2>7. Placed(v)
    BY <1>0, <2>1, <2>6 DEF Placed, RefundSteps
  <2>8. UtrsKept
    BY <2>3, <2>5 DEF UtrsKept, x
  <2>9. Goes(r, v)
    BY <2>1, <2>5, <2>6, <2>7 DEF Goes, InFlight
  <2>10. payment'[v.p].refunded = req[r].paid + req[r].amt
    BY <2>3, <2>5, <2>6 DEF total
  <2>11. RecordsRefund(r, v)
    BY <2>1, <2>5, <2>6, <2>8, <2>9, <2>10 DEF RecordsRefund
  <2> QED
    BY <2>11 DEF Kind
<1>7. ASSUME UtrCheck(r) PROVE Kind
  <2>1. /\ UNCHANGED <<met, dead, payment, refundedOut, invoice>> /\ r \notin dead
        /\ req[r].pc = "utrCheck"
    BY <1>7 DEF UtrCheck, Untouched, SameRun, tables, At
  <2>2. PICK pc \in {"done", "upiCreate"} : Goto(r, pc) /\ (pc = "upiCreate" => ~UtrSubmitted(req[r].utr))
    BY <1>7 DEF UtrCheck
  <2>3. ASSUME NEW v \in RequestRow, Carries(v, req[r]), v.op = req[r].op, v.pc = pc PROVE Placed(v)
    BY <1>0, <2>1, <2>3 DEF Placed, RefundSteps, Carries
  <2> QED
    BY <1>g, <1>k, <2>1, <2>2, <2>3 DEF RefundSteps, Steps
<1>8. ASSUME UpiCreate(r) PROVE Kind
  <2> DEFINE x == NewRow(r, "SUCCEEDED")
             w == [x EXCEPT !.ver = "PENDING_VERIFICATION", !.utr = req[r].utr]
  <2>1. PICK p \in Payments : payment[p].st = "ABSENT" /\ WritePayment(r, p, w, "markPaidRead")
    BY <1>8 DEF UpiCreate, Free
  <2>2. req[r].pc = "upiCreate" /\ r \notin dead /\ "markPaidRead" \in Steps
        /\ "SUCCEEDED" \in PaymentStatus
    BY <1>8 DEF UpiCreate, At, Steps, PaymentStatus
  <2>3. x \in PaymentRow /\ x.refunded = 0 /\ req[r].utr \in Utrs \cup {NoUtr}
        /\ "PENDING_VERIFICATION" \in Verification
    BY <1>0, <2>2, NewRowType, Types DEF Verification
  <2> HIDE DEF x
  <2>4. w \in PaymentRow /\ w.utr = req[r].utr /\ w.refunded = 0
    BY <2>3 DEF PaymentRow
  <2> HIDE DEF w
  <2>5. /\ payment'[p] = w
        /\ \A y \in Payments \ {p} : payment'[y] = payment[y]
        /\ UNCHANGED <<invoice, sub, institute, refundedOut, met, dead, crashes>>
    BY <1>0, <2>1, <2>2, <2>4, WritePaymentSets
  <2>6. PICK v \in RequestRow : /\ Sets(r, v) /\ v.op = req[r].op /\ v.p = p /\ v.pc = "markPaidRead"
                                /\ v.utr = req[r].utr
    BY <1>0, <2>1, <2>2, <2>4, WritePaymentSets
  <2>7. Placed(v)
    BY <1>0, <2>2, <2>6 DEF Placed, RefundSteps
  <2>8. RefundsKept
    BY <2>1, <2>4, <2>5, BlankRow DEF RefundsKept
  <2>9. Goes(r, v)
    BY <2>2, <2>5, <2>6, <2>7 DEF Goes, InFlight
  <2>10. CreatesUpi(r, v)
    BY <2>1, <2>2, <2>4, <2>5, <2>6, <2>8, <2>9 DEF CreatesUpi
  <2> QED
    BY <2>10 DEF Kind
\* readSub and subscriptionRepo.update
<1>r. ASSUME NEW from \in SubStatus, NEW to \in SubTransitions[from], to \in SubStatus,
             NEW write \in {"reactivateWrite", "revertWrite"}, NEW pc \in {"done", "rejectUpdate"},
             ReadSub(r, from, to, write, pc), r \notin dead,
             \/ write = "reactivateWrite" /\ pc = "done" /\ req[r].pc = "reactivateRead"
             \/ write = "revertWrite" /\ pc = "rejectUpdate" /\ req[r].pc = "revertSubRead"
      PROVE  Kind
  <2>0. write \in Steps /\ pc \in Steps
    BY DEF Steps
  <2>1. PICK v \in RequestRow :
              /\ Sets(r, v) /\ v.op = req[r].op /\ v.p = req[r].p /\ v.pc \in {write, pc}
              /\ v.utr = req[r].utr
              /\ v.pc = pc \/ (v.pc = write /\ v.to.was = from /\ v.to.st = to)
    BY <1>0, <1>r, <2>0, ReadSubSets
  <2>2. UNCHANGED <<met, dead, refundedOut>> /\ UtrsKept /\ RefundsKept /\ InvoicesKept
    BY <1>r DEF ReadSub, Untouched, tables, SameRun, UtrsKept, RefundsKept, InvoicesKept
  <2>3. Placed(v)
    BY <1>0, <1>r, <2>1 DEF Placed, RefundSteps
  <2> QED
    BY <1>r, <2>1, <2>2, <2>3, GoesByGoto DEF RefundSteps
<1>t. /\ "ACTIVE" \in SubTransitions["PAST_DUE"] /\ "PAST_DUE" \in SubTransitions["ACTIVE"]
      /\ {"ACTIVE", "PAST_DUE"} \subseteq SubStatus
  BY DEF SubTransitions, SubStatus
<1>9. ASSUME ReactivateRead(r) PROVE Kind
  BY <1>9, <1>r, <1>t DEF ReactivateRead, At
<1>10. ASSUME ReactivateWrite(r) PROVE Kind
  <2>1. /\ Goto(r, "done") /\ UNCHANGED <<met, dead, payment, refundedOut, invoice>> /\ r \notin dead
        /\ req[r].pc = "reactivateWrite" /\ "done" \in Steps
    BY <1>10 DEF ReactivateWrite, WriteSub, SameRun, At, Steps
  <2>2. ASSUME NEW v \in RequestRow, v.op = req[r].op, v.pc = "done" PROVE Placed(v)
    BY <1>0, <2>1, <2>2 DEF Placed, RefundSteps
  <2> QED
    BY <1>g, <1>k, <2>1, <2>2 DEF RefundSteps
<1>11. ASSUME UpiVerify(r) PROVE Kind
  <2> DEFINE p == req[r].p
             x == payment[p]
             w == [x EXCEPT !.ver = "VERIFIED"]
  <2>1. /\ p \in Payments /\ WritePayment(r, p, w, "done")
        /\ req[r].pc = "upiVerify" /\ r \notin dead
    BY <1>0, <1>11 DEF UpiVerify, At, Sound, PaymentSteps
  <2>2. x \in PaymentRow
    BY <1>0, <2>1
  <2> HIDE DEF x
  <2>3. w \in PaymentRow /\ w.utr = x.utr /\ w.refunded = x.refunded
    BY <2>2 DEF PaymentRow, Verification
  <2> HIDE DEF w
  <2>4. w \in PaymentRow /\ w.utr = payment[p].utr /\ w.refunded = payment[p].refunded
    BY <2>3 DEF x
  <2>5. "done" \in Steps
    BY DEF Steps
  <2>6. ASSUME NEW v \in RequestRow, v.op = req[r].op, v.pc = "done" PROVE Placed(v)
    BY <1>0, <2>1, <2>6 DEF Placed, RefundSteps
  <2> QED
    BY <2>1, <2>4, <2>5, <2>6, GoesByPayment DEF RefundSteps
<1>12. ASSUME RevertInvoiceRead(r) PROVE Kind
  <2>1. /\ UNCHANGED <<met, dead, payment, refundedOut, invoice>> /\ r \notin dead
        /\ req[r].pc = "revertInvoiceRead"
    BY <1>12 DEF RevertInvoiceRead, Untouched, SameRun, tables, At
  <2>2. PICK pc \in {"revertSubRead", "rejectUpdate"} : Goto(r, pc)
    BY <1>12 DEF RevertInvoiceRead
  <2>3. ASSUME NEW v \in RequestRow, v.op = req[r].op, v.pc = pc PROVE Placed(v)
    BY <1>0, <2>1, <2>3 DEF Placed, RefundSteps
  <2> QED
    BY <1>g, <1>k, <2>1, <2>2, <2>3 DEF RefundSteps, Steps
<1>13. ASSUME RevertSubRead(r) PROVE Kind
  BY <1>13, <1>r, <1>t DEF RevertSubRead, At
<1>14. ASSUME RevertWrite(r) PROVE Kind
  <2>1. /\ UNCHANGED <<met, dead, payment, refundedOut, invoice>> /\ r \notin dead
        /\ req[r].pc = "revertWrite"
    BY <1>14 DEF RevertWrite, WriteSub, SameRun, At
  <2>2. PICK pc \in {"done", "rejectUpdate"} : Goto(r, pc)
    BY <1>14 DEF RevertWrite, WriteSub
  <2>3. ASSUME NEW v \in RequestRow, v.op = req[r].op, v.pc = pc PROVE Placed(v)
    BY <1>0, <2>1, <2>3 DEF Placed, RefundSteps
  <2> QED
    BY <1>g, <1>k, <2>1, <2>2, <2>3 DEF RefundSteps, Steps
<1>15. ASSUME RejectUpdate(r) PROVE Kind
  <2> DEFINE p == req[r].p
             x == payment[p]
             w == [x EXCEPT !.st = "FAILED", !.ver = "REJECTED"]
  <2>1. /\ p \in Payments /\ WritePayment(r, p, w, "done")
        /\ req[r].pc = "rejectUpdate" /\ r \notin dead
    BY <1>0, <1>15 DEF RejectUpdate, At, Sound, PaymentSteps
  <2>2. x \in PaymentRow
    BY <1>0, <2>1
  <2> HIDE DEF x
  <2>3. w \in PaymentRow /\ w.utr = x.utr /\ w.refunded = x.refunded
    BY <2>2 DEF PaymentRow, PaymentStatus, Verification
  <2> HIDE DEF w
  <2>4. w \in PaymentRow /\ w.utr = payment[p].utr /\ w.refunded = payment[p].refunded
    BY <2>3 DEF x
  <2>5. "done" \in Steps
    BY DEF Steps
  <2>6. ASSUME NEW v \in RequestRow, v.op = req[r].op, v.pc = "done" PROVE Placed(v)
    BY <1>0, <2>1, <2>6 DEF Placed, RefundSteps
  <2> QED
    BY <2>1, <2>4, <2>5, <2>6, GoesByPayment DEF RefundSteps
<1> QED
  BY <1>1, <1>2, <1>3, <1>4, <1>5, <1>6, <1>7, <1>8, <1>9, <1>10, <1>11, <1>12, <1>13, <1>14,
     <1>15 DEF PaymentStep

(* subscription.service.ts                                                 *)
LEMMA SubscriptionKind ==
    ASSUME IInv, AllPlaced, NEW r \in Requests, SubscriptionStart(r) \/ SubscriptionStep(r) PROVE Kind
<1>0. TypeOK /\ Placed(req[r]) /\ {"subWrite", "assignCreate", "invoiceCreate", "done"} \subseteq Steps
  BY DEF IInv, AllPlaced, Steps
<1>1. ASSUME NEW op \in {"pause", "resume", "cancel", "expire", "assign"},
             NEW pc \in {"subWrite", "assignCreate"}, NEW s \in Subs, NEW st \in SubStatus,
             NEW was \in SubStatus \cup {"ABSENT"},
             pc = "subWrite" => was \in SubStatus /\ st \in SubTransitions[was],
             Start(r, op, pc, [Idle EXCEPT !.to = [s |-> s, was |-> was, st |-> st]])
      PROVE  Kind
  <2> DEFINE to == [s |-> s, was |-> was, st |-> st]
             w == [Idle EXCEPT !.to = to]
  <2>1. /\ to \in [s : Subs, was : SubStatus \cup {"ABSENT"}, st : SubStatus]
        /\ to.was = was /\ to.st = st
    OBVIOUS
  <2>2. Start(r, op, pc, w)
    BY <1>1
  <2> HIDE DEF to
  <2>3. w \in RequestRow /\ w.to = to
    BY <2>1, IdleType DEF RequestRow
  <2> HIDE DEF w
  <2>4. ASSUME NEW v \in RequestRow, Carries(v, w), v.pc = pc, v.op = op PROVE Placed(v)
    <3>1. v.to.was = was /\ v.to.st = st
      BY <2>1, <2>3, <2>4 DEF Carries
    <3> QED
      BY <1>1, <2>4, <3>1 DEF Placed, RefundSteps
  <2> QED
    BY <1>0, <1>1, <2>2, <2>3, <2>4, StartEnters
<1>2. ASSUME NEW op \in DOMAIN Target, NEW s \in Subs, ChangeStart(r, op, s) PROVE Kind
  <2>1. Target[op] \in SubStatus /\ sub[s] \in SubStatus /\ op \in {"pause", "resume", "cancel", "expire"}
    BY <1>0, <1>2 DEF Target, SubStatus, TypeOK, ChangeStart, Existing
  <2>2. Target[op] \in SubTransitions[sub[s]]
    BY <1>2 DEF ChangeStart, MayBecome
  <2> QED
    BY <1>1, <1>2, <2>1, <2>2 DEF ChangeStart
<1>3. ASSUME AssignStart(r) PROVE Kind
  <2>1. 1 \in Subs /\ {"TRIALING", "ACTIVE"} \subseteq SubStatus
    BY <1>0, Types DEF SubStatus
  <2> QED
    BY <1>1, <1>3, <2>1 DEF AssignStart
<1>4. ASSUME SubWrite(r) PROVE Kind
  <2>1. /\ Goto(r, "done") /\ UNCHANGED <<met, dead, payment, refundedOut, invoice>> /\ r \notin dead
        /\ req[r].pc = "subWrite"
    BY <1>4 DEF SubWrite, WriteSub, SameRun, At
  <2>2. PICK v \in RequestRow : Sets(r, v) /\ Carries(v, req[r]) /\ v.pc = "done" /\ v.op = req[r].op
    BY <1>0, <2>1, GotoSets
  <2>3. v.p = req[r].p /\ v.utr = req[r].utr
    BY <2>2 DEF Carries
  <2>4. Placed(v)
    BY <1>0, <2>1, <2>2 DEF Placed, RefundSteps
  <2>5. UtrsKept /\ RefundsKept /\ InvoicesKept
    BY <2>1 DEF UtrsKept, RefundsKept, InvoicesKept
  <2> QED
    BY <2>1, <2>2, <2>3, <2>4, <2>5, GoesByGoto DEF RefundSteps
<1>5. ASSUME AssignCreate(r) PROVE Kind
  <2>1. /\ UNCHANGED <<met, dead, payment, refundedOut, invoice>> /\ r \notin dead
        /\ req[r].pc = "assignCreate"
    BY <1>5 DEF AssignCreate, SameRun, At
  <2>2. PICK v \in RequestRow : /\ Sets(r, v) /\ v.p = req[r].p /\ v.pc \in {"invoiceCreate", "done"}
                                /\ v.op = req[r].op /\ v.utr = req[r].utr
    BY <1>0, <1>5, AssignSets
  <2>4. Placed(v)
    BY <1>0, <2>1, <2>2 DEF Placed, RefundSteps
  <2>5. UtrsKept /\ RefundsKept /\ InvoicesKept
    BY <2>1 DEF UtrsKept, RefundsKept, InvoicesKept
  <2> QED
    BY <2>1, <2>2, <2>4, <2>5, GoesByGoto DEF RefundSteps
<1> QED
  BY <1>2, <1>3, <1>4, <1>5 DEF SubscriptionStart, SubscriptionStep

(* billing.activities.ts: the activities that may be repeated.             *)
LEMMA ActivityKind ==
    ASSUME IInv, AllPlaced, NEW r \in Requests, ActivityStart(r) \/ ActivityStep(r) PROVE Kind
<1>0. /\ TypeOK /\ Placed(req[r]) /\ Sound(req[r]) /\ Idle \in RequestRow
      /\ {"expireRead", "expireCommit", "renewInsert", "done"} \subseteq Steps
  BY IdleType DEF IInv, AllPlaced, Steps
<1>1. ASSUME NEW p \in Payments, ExpireStart(r, p) PROVE Kind
  <2> DEFINE w == [Idle EXCEPT !.i = payment[p].inv, !.p = p, !.amt = payment[p].amt]
  <2>1. w \in RequestRow
    BY <1>0, Types DEF RequestRow
  <2>2. Start(r, "expireUpi", "expireRead", w)
    BY <1>1 DEF ExpireStart
  <2> HIDE DEF w
  <2>3. ASSUME NEW v \in RequestRow, v.pc = "expireRead", v.op = "expireUpi" PROVE Placed(v)
    BY <2>3 DEF Placed, RefundSteps
  <2> QED
    BY <1>0, <2>1, <2>2, <2>3, StartEnters
<1>2. ASSUME NEW s \in Subs, RenewStart(r, s) PROVE Kind
  <2> DEFINE w == [Idle EXCEPT !.to.s = s]
  <2>1. w \in RequestRow /\ w.to.s = s
    BY <1>0 DEF RequestRow
  <2>2. Start(r, "renew", "renewInsert", w) /\ ~Renewed(s)
    BY <1>2 DEF RenewStart
  <2> HIDE DEF w
  <2>3. ASSUME NEW v \in RequestRow, v.pc = "renewInsert", v.op = "renew" PROVE Placed(v)
    BY <2>3 DEF Placed, RefundSteps
  <2> QED
    BY <1>0, <2>1, <2>2, <2>3, StartEnters
<1>3. ASSUME ExpireRead(r) PROVE Kind
  <2>1. PICK v \in RequestRow : /\ Sets(r, v) /\ v.p = req[r].p /\ v.pc = "expireCommit"
                                /\ v.op = req[r].op /\ v.utr = req[r].utr
    BY <1>0, <1>3, ReadInvoiceSets DEF ExpireRead
  <2>2. req[r].pc = "expireRead" /\ r \notin dead
    BY <1>3 DEF ExpireRead, ReadInvoice, At
  <2>3. /\ UNCHANGED <<met, dead, refundedOut>> /\ UtrsKept /\ RefundsKept
        /\ InvoicesKept
    BY <1>3 DEF ExpireRead, ReadInvoice, Untouched, tables, SameRun, UtrsKept, RefundsKept, InvoicesKept
  <2>4. Placed(v)
    BY <1>0, <2>1, <2>2 DEF Placed, RefundSteps
  <2> QED
    BY <2>1, <2>2, <2>3, <2>4, GoesByGoto DEF RefundSteps
<1>4. ASSUME ExpireCommit(r) PROVE Kind
  <2> DEFINE p == req[r].p
             x == payment[p]
             row == [x EXCEPT !.st = "FAILED", !.ver = "EXPIRED"]
             paid == AtLeastZero(req[r].paid - req[r].amt)
  <2>1. p \in Payments /\ req[r].pc = "expireCommit" /\ r \notin dead
    BY <1>0, <1>4 DEF ExpireCommit, At, Sound, PaymentSteps
  <2>2. x \in PaymentRow /\ payment' = [payment EXCEPT ![p] = row]
    BY <1>0, <1>4, <2>1, Types DEF ExpireCommit
  <2>3. req[r].i \in Invoices /\ paid \in Int /\ ExpiredStatus(paid) \in InvoiceStatus \ {"ABSENT"}
    BY <1>0, Types DEF ExpiredStatus, InvoiceStatus, AtLeastZero
  <2>4. InvoicesKept
    BY <1>4, <2>3, WriteKeeps DEF ExpireCommit
  <2>5. PICK v \in RequestRow : Sets(r, v) /\ Carries(v, req[r]) /\ v.pc = "done" /\ v.op = req[r].op
    BY <1>0, <1>4, GotoSets DEF ExpireCommit
  <2>6. UNCHANGED <<refundedOut, met, dead>>
    BY <1>4 DEF ExpireCommit, SameRun
  <2> HIDE DEF x
  <2>7. row.utr = x.utr /\ row.refunded = x.refunded
    BY <2>2 DEF PaymentRow
  <2> HIDE DEF row
  <2>8. payment'[p] = row /\ \A y \in Payments \ {p} : payment'[y] = payment[y]
    BY <1>0, <2>1, <2>2 DEF TypeOK
  <2>9. UtrsKept /\ RefundsKept
    BY <2>6, <2>7, <2>8 DEF UtrsKept, RefundsKept, x
  <2>10. Placed(v) /\ v.p = req[r].p /\ v.utr = req[r].utr
    BY <1>0, <2>1, <2>5 DEF Placed, RefundSteps, Carries
  <2> QED
    BY <2>1, <2>4, <2>5, <2>6, <2>9, <2>10, GoesByGoto DEF RefundSteps
<1>5. ASSUME RenewInsert(r) PROVE Kind
  <2>1. PICK i \in Invoices : /\ InsertInvoice(i, req[r].to.s, "next")
                              /\ req' = [req EXCEPT ![r].pc = "done", ![r].i = i]
    BY <1>5 DEF RenewInsert
  <2>2. PICK v \in RequestRow : /\ Sets(r, v) /\ v.pc = "done" /\ v.op = req[r].op /\ v.p = req[r].p
                                /\ v.i = i /\ v.utr = req[r].utr /\ v.to = req[r].to
    BY <1>0, <2>1, DoneSets
  <2>3. UNCHANGED <<payment, refundedOut, met, dead>> /\ req[r].pc = "renewInsert" /\ r \notin dead
    BY <1>5 DEF RenewInsert, SameRun, At
  <2>4. Placed(v)
    BY <1>0, <2>2, <2>3 DEF Placed, RefundSteps
  <2>5. InvoiceAdded(i, req[r].to.s, "next")
    BY <1>0, <2>1, InsertAdds, Types
  <2>6. Goes(r, v)
    BY <2>2, <2>3, <2>4 DEF Goes, InFlight
  <2>7. Renews(r, v)
    BY <2>2, <2>3, <2>5, <2>6 DEF Renews
  <2> QED
    BY <2>7 DEF Kind
<1>6. ASSUME ActivityAbort(r) PROVE Kind
  <2>1. Sets(r, Idle)
    BY <1>0, <1>6, RowSets DEF ActivityAbort
  <2>2. r \notin dead /\ req[r].pc \in {"expireRead", "expireCommit", "renewInsert"}
    BY <1>6 DEF ActivityAbort, At
  <2>3. r \in InFlight /\ req[r].op \in {"expireUpi", "renew"}
    BY <1>0, <2>2 DEF InFlight, Placed
  <2>4. Aborts(r)
    BY <1>6, <2>1, <2>3 DEF Aborts, ActivityAbort, tables
  <2> QED
    BY <2>4 DEF Kind
<1> QED
  BY <1>1, <1>2, <1>3, <1>4, <1>5, <1>6 DEF ActivityStart, ActivityStep

(* Every step is of one of the kinds.                                      *)
LEMMA Kinds == ASSUME IInv, AllPlaced, [Next]_vars PROVE Kind
<1>0. TypeOK
  BY DEF IInv
<1>1. ASSUME NEW r \in Requests, Begin(r) PROVE Kind
  BY <1>1, InvoiceKind, PaymentStartKind, SubscriptionKind, ActivityKind DEF Begin
<1>2. ASSUME NEW r \in Requests, Continue(r) PROVE Kind
  BY <1>2, InvoiceKind, PaymentStepKind, SubscriptionKind, ActivityKind DEF Continue
<1>3. ASSUME NEW p \in Payments, CustomerPays(p) PROVE Kind
  <2> DEFINE x == payment[p]
             row == [x EXCEPT !.order = "CAPTURED"]
  <2>1. payment' = [payment EXCEPT ![p] = row] /\ x \in PaymentRow
    BY <1>0, <1>3, Types DEF CustomerPays
  <2> HIDE DEF x
  <2>2. row.utr = x.utr /\ row.refunded = x.refunded
    BY <2>1 DEF PaymentRow
  <2> HIDE DEF row
  <2>3. payment'[p] = row /\ \A y \in Payments \ {p} : payment'[y] = payment[y]
    BY <1>0, <2>1 DEF TypeOK
  <2>4. UNCHANGED <<invoice, refundedOut, req, met, dead>>
    BY <1>3 DEF CustomerPays, SameRun
  <2>5. UtrsKept /\ RefundsKept /\ InvoicesKept
    BY <2>2, <2>3, <2>4 DEF UtrsKept, RefundsKept, InvoicesKept, x
  <2> QED
    BY <2>4, <2>5 DEF Kind, Stays
<1>4. ASSUME CancelGracePeriodExpired \/ ProcessTrialExpiry PROVE Kind
  <2>1. UNCHANGED <<payment, invoice, refundedOut, req, met, dead>>
    BY <1>4 DEF CancelGracePeriodExpired, ProcessTrialExpiry, SetSubs, SameRun
  <2> QED
    BY <2>1 DEF Kind, Stays, UtrsKept, RefundsKept, InvoicesKept
<1>5. ASSUME MarkOverdueInvoices PROVE Kind
  <2>1. /\ UNCHANGED <<payment, sub, institute, refundedOut, req, met, dead, crashes>>
        /\ \E I \in SUBSET Overdue :
              invoice' = [i \in Invoices |-> IF i \in I THEN [invoice[i] EXCEPT !.st = "OVERDUE"]
                                                        ELSE invoice[i]]
    BY <1>5 DEF MarkOverdueInvoices, SameRun
  <2>2. InvoicesKept
    <3>1. ASSUME NEW x \in InvoiceRow
          PROVE  LET y == [x EXCEPT !.st = "OVERDUE"]
                 IN  y.st = "OVERDUE" /\ y.of = x.of /\ y.period = x.period
      BY DEF InvoiceRow, InvoiceStatus
    <3> QED
      BY <1>0, <2>1, <3>1, Types DEF Overdue, InvoicesKept
  <2> QED
    BY <2>1, <2>2 DEF Kind, Stays, UtrsKept, RefundsKept
<1>6. ASSUME Crash PROVE Kind
  BY <1>6 DEF Crash, tables, Kind, Dies
<1>7. ASSUME UNCHANGED vars PROVE Kind
  BY <1>7 DEF vars, tables, Kind, Stays, UtrsKept, RefundsKept, InvoicesKept
<1> QED
  BY <1>1, <1>2, <1>3, <1>4, <1>5, <1>6, <1>7 DEF Next, Cron

-----------------------------------------------------------------------------
(* Who has met whom.  Requests that are in flight together have met; what  *)
(* has not started, or has been undone, has met nobody.                    *)
Meetings ==
    /\ \A r \in Requests : r \notin met[r]
    /\ \A r, t \in Requests : t \in met[r] => r \in met[t]
    /\ \A r, t \in InFlight : r # t => t \in met[r]
    /\ \A r \in Requests : req[r].pc = "idle" => met[r] = {} /\ r \notin dead

Base == IInv /\ AllPlaced /\ Meetings

LEMMA InitBase == Init => Base
<1> SUFFICES ASSUME Init PROVE Base
  OBVIOUS
<1>1. \A r \in Requests : req[r] = Idle /\ met[r] = {} /\ r \notin dead
  BY DEF Init
<1>2. Idle.pc = "idle" /\ Idle.op = "none" /\ Idle.p = NoPayment
  BY IdleType DEF Idle
<1>3. AllPlaced
  BY <1>1, <1>2 DEF AllPlaced, Placed, RefundSteps
<1>4. Meetings
  BY <1>1, <1>2 DEF Meetings, InFlight
<1> QED
  BY <1>3, <1>4, InitHolds DEF Base

LEMMA PlacedStep == ASSUME IInv, AllPlaced, Kind PROVE AllPlaced'
<1>1. ASSUME NEW r \in Requests, NEW v \in RequestRow, Sets(r, v), Placed(v) PROVE AllPlaced'
  <2> SUFFICES ASSUME NEW t \in Requests PROVE Placed(req'[t])
    BY DEF AllPlaced, Placed
  <2>1. CASE t = r
    BY <1>1, <2>1 DEF Sets
  <2>2. CASE t # r
    BY <1>1, <2>2 DEF Sets, AllPlaced
  <2> QED
    BY <2>1, <2>2
<1>2. ASSUME UNCHANGED req PROVE AllPlaced'
  BY <1>2 DEF AllPlaced, Placed
<1>3. Placed(Idle) /\ Idle \in RequestRow
  <2>1. Idle.pc = "idle" /\ Idle.op = "none" /\ Idle.p = NoPayment
    BY IdleType DEF Idle
  <2> QED
    BY <2>1, IdleType DEF Placed, RefundSteps
<1>4. CASE \E r \in Requests, v \in RequestRow : Enters(r, v) \/ Goes(r, v)
  BY <1>1, <1>4 DEF Enters, Goes
<1>5. CASE \E r \in Requests : Aborts(r)
  BY <1>1, <1>3, <1>5 DEF Aborts
<1>6. CASE Stays \/ Dies
  BY <1>2, <1>6 DEF Stays, Dies
<1> QED
  BY <1>4, <1>5, <1>6 DEF Kind, GoesOn, CreatesUpi, Renews, PaysBack, RecordsRefund

(* Who has met whom after a start and after an abort.                      *)
LEMMA JoinsMet ==
    ASSUME TypeOK, NEW r \in Requests, NEW v, Enters(r, v), NEW t \in Requests, NEW u \in Requests
    PROVE  u \in met'[t] <=> IF t = r THEN u \in InFlight
                             ELSE u \in met[t] \/ (u = r /\ t \in InFlight)
<1>1. met'[t] = IF t = r THEN InFlight ELSE IF t \in InFlight THEN met[t] \cup {r} ELSE met[t]
  BY DEF Enters
<1>2. CASE t = r
  BY <1>1, <1>2
<1>3. CASE t # r /\ t \in InFlight
  BY <1>1, <1>3
<1>4. CASE t # r /\ t \notin InFlight
  BY <1>1, <1>4
<1> QED
  BY <1>2, <1>3, <1>4

LEMMA LeavesMet ==
    ASSUME NEW r \in Requests, Aborts(r), NEW t \in Requests, NEW u
    PROVE  u \in met'[t] <=> t # r /\ u # r /\ u \in met[t]
<1>1. met'[t] = IF t = r THEN {} ELSE met[t] \ {r}
  BY DEF Aborts
<1>2. CASE t = r
  BY <1>1, <1>2
<1>3. CASE t # r
  BY <1>1, <1>3
<1> QED
  BY <1>2, <1>3

LEMMA MeetingsStep == ASSUME IInv, AllPlaced, Meetings, Kind PROVE Meetings'
<1>0. TypeOK /\ dead \subseteq Requests /\ met \in [Requests -> SUBSET Requests]
  BY DEF IInv, TypeOK
<1>1. ASSUME NEW r \in Requests, NEW v \in RequestRow, Enters(r, v) PROVE Meetings'
  <2>1. /\ req[r].pc = "idle" /\ met[r] = {} /\ r \notin dead /\ r \notin InFlight
        /\ \A t \in Requests : r \notin met[t]
    BY <1>1 DEF Enters, Meetings, InFlight
  <2>2. InFlight' = InFlight \cup {r}
    BY <1>1, <2>1 DEF Enters, InFlight, Sets
  <2>3. \A t, u \in Requests : u \in met'[t] <=> IF t = r THEN u \in InFlight
                                              ELSE u \in met[t] \/ (u = r /\ t \in InFlight)
    BY <1>0, <1>1, JoinsMet
  <2>4. InFlight \subseteq Requests
    BY DEF InFlight
  <2>5. \A t \in Requests : req'[t].pc = "idle" => met'[t] = {} /\ t \notin dead'
    <3>1. ASSUME NEW t \in Requests, req'[t].pc = "idle" PROVE met'[t] = {} /\ t \notin dead'
      <4>1. t # r /\ req[t].pc = "idle" /\ t \notin InFlight
        BY <1>1, <3>1 DEF Enters, Sets, InFlight
      <4>2. met[t] = {} /\ t \notin dead
        BY <4>1 DEF Meetings
      <4>3. met'[t] = met[t] /\ dead' = dead
        BY <1>1, <4>1 DEF Enters
      <4> QED
        BY <4>2, <4>3
    <3> QED
      BY <3>1
  <2>6. \A t \in Requests : t \notin met'[t]
    BY <2>1, <2>3 DEF Meetings
  <2>7. \A t, u \in Requests : u \in met'[t] => t \in met'[u]
    BY <2>1, <2>3, <2>4 DEF Meetings
  <2>8. \A t, u \in InFlight' : t # u => u \in met'[t]
    BY <2>2, <2>3, <2>4 DEF Meetings
  <2> QED
    BY <2>5, <2>6, <2>7, <2>8 DEF Meetings
<1>2. ASSUME NEW r \in Requests, NEW v \in RequestRow, Goes(r, v) PROVE Meetings'
  <2>1. InFlight' \subseteq InFlight
    BY <1>2 DEF Goes, InFlight, Sets
  <2>2. \A t \in Requests : req'[t].pc = "idle" => req[t].pc = "idle"
    BY <1>2 DEF Goes, Sets
  <2>3. UNCHANGED <<met, dead>>
    BY <1>2 DEF Goes
  <2> QED
    BY <2>1, <2>2, <2>3 DEF Meetings
<1>3. ASSUME NEW r \in Requests, Aborts(r) PROVE Meetings'
  <2>1. /\ \A t \in Requests : \A u : u \in met'[t] <=> t # r /\ u # r /\ u \in met[t]
        /\ dead' = dead /\ r \notin dead
    BY <1>3, LeavesMet DEF Aborts, InFlight
  <2>2. InFlight' \subseteq InFlight \ {r}
    BY <1>3, IdleType DEF Aborts, InFlight, Sets
  <2>3. \A t \in Requests \ {r} : req'[t] = req[t]
    BY <1>3 DEF Aborts, Sets
  <2>4. \A t, u \in InFlight' : t # u => u \in met'[t]
    BY <2>1, <2>2 DEF Meetings, InFlight
  <2>5. \A t \in Requests : req'[t].pc = "idle" => met'[t] = {} /\ t \notin dead'
    BY <2>1, <2>3 DEF Meetings
  <2>6. \A t, u \in Requests : t \notin met'[t] /\ (u \in met'[t] => t \in met'[u])
    BY <2>1 DEF Meetings
  <2> QED
    BY <2>4, <2>5, <2>6 DEF Meetings
<1>4. ASSUME Stays PROVE Meetings'
  BY <1>4 DEF Stays, Meetings, InFlight
<1>5. ASSUME Dies PROVE Meetings'
  <2>1. InFlight' \subseteq InFlight /\ UNCHANGED <<met, req>>
    BY <1>5 DEF Dies, InFlight
  <2>2. \A t \in Requests : req'[t].pc = "idle" => t \notin dead'
    BY <1>5 DEF Dies, InFlight, Meetings
  <2> QED
    BY <2>1, <2>2 DEF Meetings
<1> QED
  BY <1>1, <1>2, <1>3, <1>4, <1>5 DEF Kind, GoesOn, CreatesUpi, Renews, PaysBack, RecordsRefund

LEMMA BaseStep == ASSUME Base, [Next]_vars PROVE Base' /\ Kind
  BY Kinds, StepHolds, PlacedStep, MeetingsStep DEF Base

LEMMA BaseHolds == Spec => []Base
<1>1. Base /\ [Next]_vars => Base'
  BY BaseStep
<1> QED
  BY <1>1, InitBase, PTL DEF Spec

(* A request that died stays as it is; an operation that is never aborted  *)
(* keeps whom it has met and, once it has one, its payment.                *)
Undone == {"expireUpi", "renew"}

LEMMA Monotone ==
    ASSUME Base, Kind, NEW t \in Requests, NEW u \in Requests
    PROVE  /\ t \in dead => req'[t] = req[t] /\ t \in dead'
           /\ t \in met[u] /\ req[t].op \notin Undone /\ req[u].op \notin Undone => t \in met'[u]
           /\ req[t].op \notin Undone \cup {"none"} =>
                 /\ req'[t].op = req[t].op
                 /\ req[t].p \in Payments \/ req[t].op \notin {"manual", "initiate", "submitUpi"} =>
                        req'[t].p = req[t].p \/ req[t].op \in {"manual", "initiate"}
<1>0. TypeOK /\ AllPlaced /\ Meetings /\ NoPayment \notin Payments /\ IInv
  BY BillingAssumption DEF Base, IInv
<1>1. ASSUME NEW r \in Requests, NEW v \in RequestRow, Enters(r, v)
      PROVE  /\ t \in dead => req'[t] = req[t] /\ t \in dead'
             /\ t \in met[u] => t \in met'[u]
             /\ req[t].op # "none" => req'[t] = req[t]
  <2>1. req[r].op = "none" /\ met[r] = {} /\ r \notin dead
    BY <1>0, <1>1 DEF Enters, AllPlaced, Placed, Meetings
  <2>2. t \in met[u] => t \in met'[u]
    BY <1>0, <1>1, <2>1, JoinsMet
  <2> QED
    BY <1>1, <2>1, <2>2 DEF Enters, Sets
<1>2. ASSUME NEW r \in Requests, NEW v \in RequestRow, Goes(r, v)
      PROVE  /\ t \in dead => req'[t] = req[t] /\ t \in dead'
             /\ t \in met[u] => t \in met'[u]
             /\ req'[t].op = req[t].op
             /\ t # r => req'[t] = req[t]
  BY <1>2 DEF Goes, Sets, InFlight
<1>3. ASSUME NEW r \in Requests, Aborts(r)
      PROVE  /\ t \in dead => req'[t] = req[t] /\ t \in dead'
             /\ t \in met[u] /\ req[t].op \notin Undone /\ req[u].op \notin Undone => t \in met'[u]
             /\ req[t].op \notin Undone => req'[t] = req[t]
  BY <1>0, <1>3, LeavesMet DEF Aborts, Sets, InFlight, Undone
<1>4. ASSUME NEW r \in Requests, NEW v \in RequestRow, GoesOn(r, v), t = r
      PROVE  req'[t].p = req[t].p \/ req[t].op \in {"manual", "initiate"}
  BY <1>4 DEF GoesOn, Goes, Sets
<1>5. ASSUME NEW r \in Requests, NEW v \in RequestRow, CreatesUpi(r, v), t = r
      PROVE  req[t].op = "submitUpi" /\ req[t].p \notin Payments
  BY <1>0, <1>5 DEF CreatesUpi, AllPlaced, Placed
<1>6. ASSUME NEW r \in Requests, NEW v \in RequestRow, t = r,
             Renews(r, v) \/ PaysBack(r, v) \/ RecordsRefund(r, v)
      PROVE  req'[t].p = req[t].p
  BY <1>6 DEF Renews, PaysBack, RecordsRefund, Goes, Sets
<1>7. CASE \E r \in Requests, v \in RequestRow : Enters(r, v)
  BY <1>1, <1>7
<1>8. ASSUME NEW r \in Requests, NEW v \in RequestRow, Goes(r, v),
             GoesOn(r, v) \/ CreatesUpi(r, v) \/ Renews(r, v) \/ PaysBack(r, v) \/ RecordsRefund(r, v)
      PROVE  /\ t \in dead => req'[t] = req[t] /\ t \in dead'
             /\ t \in met[u] => t \in met'[u]
             /\ req'[t].op = req[t].op
             /\ req[t].p \in Payments \/ req[t].op \notin {"manual", "initiate", "submitUpi"} =>
                    req'[t].p = req[t].p \/ req[t].op \in {"manual", "initiate"}
  BY <1>2, <1>4, <1>5, <1>6, <1>8
<1>9. CASE \E r \in Requests, v \in RequestRow :
               \/ GoesOn(r, v) \/ CreatesUpi(r, v) \/ Renews(r, v)
               \/ PaysBack(r, v) \/ RecordsRefund(r, v)
  BY <1>8, <1>9 DEF GoesOn, CreatesUpi, Renews, PaysBack, RecordsRefund
<1>10. CASE \E r \in Requests : Aborts(r)
  BY <1>3, <1>10
<1>11. CASE Stays \/ Dies
  BY <1>11 DEF Stays, Dies
<1> QED
  BY <1>7, <1>9, <1>10, <1>11 DEF Kind

-----------------------------------------------------------------------------
(* The status changes of a step.                                           *)
LegalChange == \A s \in Subs :
    sub[s] \in SubStatus /\ sub'[s] # sub[s] =>
        \/ sub'[s] \in SubTransitions[sub[s]]
        \/ \E r \in InFlight : req[r].to.s = s /\ req[r].to.st = sub'[s] /\ req[r].to.was # sub[s]

LEMMA LegalWrite ==
    ASSUME Base, NEW r \in Requests, NEW pc, WriteSub(r, pc), r \notin dead,
           req[r].pc \in {"subWrite", "reactivateWrite", "revertWrite"}
    PROVE  LegalChange
<1>1. /\ TypeOK /\ req[r].to.s \in Subs /\ r \in InFlight
      /\ req[r].to.st \in SubTransitions[req[r].to.was]
  BY Types DEF Base, IInv, AllPlaced, Placed, InFlight
<1>2. \A s \in Subs : sub'[s] # sub[s] => s = req[r].to.s /\ sub'[s] = req[r].to.st
  BY <1>1 DEF WriteSub, TypeOK
<1> QED
  BY <1>1, <1>2 DEF LegalChange

LEMMA LegalStep == ASSUME Base, [Next]_vars PROVE LegalChange
<1>0. TypeOK /\ IInv
  BY DEF Base, IInv
<1>1. ASSUME UNCHANGED sub PROVE LegalChange
  BY <1>1 DEF LegalChange
<1>t. /\ "CANCELLED" \in SubTransitions["PAST_DUE"] /\ "EXPIRED" \in SubTransitions["TRIALING"]
      /\ "PAST_DUE" \in SubTransitions["ACTIVE"]
  BY DEF SubTransitions
<1>2. ASSUME NEW r \in Requests, Begin(r) PROVE LegalChange
  <2>1. \E op, pc, row : Start(r, op, pc, row)
    BY <1>2 DEF Begin, InvoiceStart, PaymentStart, SubscriptionStart, ActivityStart, GenerateStart,
          ManualStart, InitiateStart, VerifyStart, WebhookStart, RefundStart, SubmitUpiStart,
          VerifyUpiStart, RejectUpiStart, ChangeStart, AssignStart, ExpireStart, RenewStart
  <2> QED
    BY <1>1, <2>1 DEF Start, tables
<1>3. ASSUME NEW r \in Requests, InvoiceStep(r) PROVE LegalChange
  BY <1>1, <1>3 DEF InvoiceStep, GenerateInvoice, MarkPaidRead, MarkPaidWrite, MarkRefundedRead,
     MarkRefundedWrite, ReadInvoice, Untouched, tables
<1>4. ASSUME NEW r \in Requests, PaymentStep(r) PROVE LegalChange
  <2>1. CASE ReactivateWrite(r) \/ RevertWrite(r)
    BY <2>1, LegalWrite DEF ReactivateWrite, RevertWrite, At
  <2>2. CASE ManualCreate(r) \/ OrderCreate(r) \/ VerifyUpdate(r) \/ RefundUpdate(r) \/ UpiCreate(r)
             \/ UpiVerify(r) \/ RejectUpdate(r)
    BY <1>1, <2>2 DEF ManualCreate, OrderCreate, VerifyUpdate, RefundUpdate, UpiCreate, UpiVerify,
       RejectUpdate, WritePayment
  <2>3. CASE WebhookEnd(r) \/ RefundPayer(r) \/ UtrCheck(r) \/ ReactivateRead(r) \/ RevertInvoiceRead(r)
             \/ RevertSubRead(r)
    BY <1>1, <2>3 DEF WebhookEnd, RefundPayer, UtrCheck, ReactivateRead, RevertInvoiceRead,
       RevertSubRead, ReadSub, Untouched, tables
  <2> QED
    BY <1>4, <2>1, <2>2, <2>3 DEF PaymentStep
<1>5. ASSUME NEW r \in Requests, SubscriptionStep(r) PROVE LegalChange
  <2>1. CASE SubWrite(r)
    BY <2>1, LegalWrite DEF SubWrite, At
  <2>2. CASE AssignCreate(r)
    <3>1. PICK s \in Subs : sub[s] = "ABSENT" /\ \A x \in Subs \ {s} : sub'[x] = sub[x]
      BY <1>0, <2>2 DEF AssignCreate, NextSub, Existing, TypeOK
    <3> QED
      BY <3>1 DEF LegalChange, SubStatus
  <2> QED
    BY <1>5, <2>1, <2>2 DEF SubscriptionStep
<1>6. ASSUME NEW r \in Requests, ActivityStep(r) PROVE LegalChange
  <2>1. CASE ExpireRead(r) \/ RenewInsert(r) \/ ActivityAbort(r)
    BY <1>1, <2>1 DEF ExpireRead, RenewInsert, ActivityAbort, ReadInvoice, Untouched, tables
  <2>2. CASE ExpireCommit(r)
    <3>1. DemoteSome
      BY <2>2 DEF ExpireCommit
    <3>2. \A s \in Subs : sub'[s] # sub[s] => sub[s] = "ACTIVE" /\ sub'[s] = "PAST_DUE"
      BY <1>0, <3>1 DEF DemoteSome, TypeOK
    <3> QED
      BY <1>t, <3>2 DEF LegalChange
  <2> QED
    BY <1>6, <2>1, <2>2 DEF ActivityStep
<1>7. CASE Cron
  <2>1. CASE CancelGracePeriodExpired
    <3>1. \A s \in Subs : sub'[s] # sub[s] => sub[s] = "PAST_DUE" /\ sub'[s] = "CANCELLED"
      BY <1>0, <2>1 DEF CancelGracePeriodExpired, SetSubs, GraceOver, TypeOK
    <3> QED
      BY <1>t, <3>1 DEF LegalChange
  <2>2. CASE ProcessTrialExpiry
    <3>1. \A s \in Subs : sub'[s] # sub[s] => sub[s] = "TRIALING" /\ sub'[s] = "EXPIRED"
      BY <1>0, <2>2 DEF ProcessTrialExpiry, SetSubs, TypeOK
    <3> QED
      BY <1>t, <3>1 DEF LegalChange
  <2> QED
    BY <1>1, <1>7, <2>1, <2>2 DEF Cron, MarkOverdueInvoices
<1>8. CASE (\E p \in Payments : CustomerPays(p)) \/ Crash \/ UNCHANGED vars
  BY <1>1, <1>8 DEF CustomerPays, Crash, vars, tables
<1> QED
  BY <1>2, <1>3, <1>4, <1>5, <1>6, <1>7, <1>8 DEF Next, Continue

(* A status change the state machine does not allow overwrites another     *)
(* status than its request has read, for any number of requests, with the  *)
(* unique index or without it (subscription.service.ts, payment.service.ts,*)
(* billing.activities.ts).                                                 *)
THEOREM ChangesLegal == Spec => LegalTransitions
<1>1. Base /\ [Next]_vars => [LegalChange]_vars
  BY LegalStep
<1>2. [LegalChange]_vars => [\A s \in Subs :
          sub[s] \in SubStatus /\ sub'[s] # sub[s] =>
              \/ sub'[s] \in SubTransitions[sub[s]]
              \/ \E r \in InFlight : req[r].to.s = s /\ req[r].to.st = sub'[s] /\ req[r].to.was # sub[s]]_vars
  BY DEF LegalChange
<1> QED
  BY <1>1, <1>2, BaseHolds, PTL DEF Spec, LegalTransitions

-----------------------------------------------------------------------------
(* Submissions: the row a submission has made carries its UTR number, a    *)
(* row with a number was made by one, and two with one number have met.    *)
(* Until it makes its row, a submission has met all those that have made   *)
(* one for its number since it looked.                                     *)
Submissions ==
    /\ \A p \in Payments : payment[p].utr # NoUtr => \E r \in Requests : Submitted(r, p)
    /\ \A r \in Requests : \A p \in Payments : Submitted(r, p) => payment[p].utr = req[r].utr
    /\ \A r, t \in Requests : \A p, q \in Payments :
          Submitted(r, p) /\ Submitted(t, q) /\ p # q /\ req[r].utr = req[t].utr => t \in met[r]
    /\ \A r \in Requests \ dead : \A t \in Requests : \A q \in Payments :
          req[r].pc = "upiCreate" /\ Submitted(t, q) /\ req[t].utr = req[r].utr => t \in met[r]

(* A step that makes no such row.                                          *)
LEMMA SubmissionsSame ==
    ASSUME Base, Submissions, Kind, UtrsKept, dead \subseteq dead',
           \A t \in Requests : \A q \in Payments :
               /\ Submitted(t, q)' <=> Submitted(t, q)
               /\ Submitted(t, q) => req'[t].utr = req[t].utr,
           \A r \in Requests : r \notin dead' /\ req'[r].pc = "upiCreate" =>
               \/ r \notin dead /\ req[r].pc = "upiCreate" /\ req'[r].utr = req[r].utr
               \/ ~UtrSubmitted(req'[r].utr)
    PROVE  Submissions'
<1>0. AllPlaced /\ Meetings
  BY DEF Base
<1>1. \A p \in Payments : payment'[p].utr # NoUtr => \E r \in Requests : Submitted(r, p)'
  BY DEF Submissions, UtrsKept
<1>2. \A r \in Requests : \A p \in Payments : Submitted(r, p)' => payment'[p].utr = req'[r].utr
  BY DEF Submissions, UtrsKept
<1>3. ASSUME NEW r \in Requests, NEW t \in Requests, t \in met[r],
             req[r].op = "submitUpi", req[t].op = "submitUpi"
      PROVE  t \in met'[r]
  BY <1>3, Monotone DEF Undone
<1>4. ASSUME NEW r \in Requests, NEW t \in Requests, NEW p \in Payments, NEW q \in Payments,
             Submitted(r, p)', Submitted(t, q)', p # q, req'[r].utr = req'[t].utr
      PROVE  t \in met'[r]
  <2>1. Submitted(r, p) /\ Submitted(t, q) /\ req[r].utr = req[t].utr
    BY <1>4
  <2>2. t \in met[r]
    BY <1>4, <2>1 DEF Submissions
  <2> QED
    BY <1>3, <2>1, <2>2 DEF Submitted
<1>5. ASSUME NEW r \in Requests, r \notin dead', NEW t \in Requests, NEW q \in Payments,
             req'[r].pc = "upiCreate", Submitted(t, q)', req'[t].utr = req'[r].utr
      PROVE  t \in met'[r]
  <2>1. Submitted(t, q) /\ req'[t].utr = req[t].utr
    BY <1>5
  <2>2. UtrSubmitted(req'[r].utr)
    BY <1>5, <2>1 DEF Submissions, UtrSubmitted
  <2>3. r \notin dead /\ req[r].pc = "upiCreate" /\ req'[r].utr = req[r].utr
    BY <1>5, <2>2
  <2>4. t \in met[r]
    BY <1>5, <2>1, <2>3 DEF Submissions
  <2>5. req[r].op = "submitUpi" /\ req[t].op = "submitUpi"
    BY <1>0, <2>1, <2>3 DEF AllPlaced, Placed, Submitted
  <2> QED
    BY <1>3, <2>4, <2>5
<1> QED
  BY <1>1, <1>2, <1>4, <1>5 DEF Submissions

LEMMA SubmissionsStep == ASSUME Base, Base', Submissions, Kind PROVE Submissions'
<1>0. /\ TypeOK /\ AllPlaced /\ Meetings /\ IInv /\ NoPayment \notin Payments
      /\ Idle.op = "none"
  BY BillingAssumption DEF Base, IInv, Idle
<1>1. ASSUME NEW r \in Requests, NEW v \in RequestRow, Enters(r, v) PROVE Submissions'
  <2>1. req[r].op = "none" /\ (v.op = "submitUpi" => v.p = NoPayment)
    BY <1>0, <1>1 DEF Enters, AllPlaced, Placed
  <2>2. ASSUME NEW t \in Requests, NEW q \in Payments
        PROVE  /\ Submitted(t, q)' <=> Submitted(t, q)
               /\ Submitted(t, q) => req'[t].utr = req[t].utr
    BY <1>0, <1>1, <2>1 DEF Enters, Sets, Submitted
  <2>3. \A t \in Requests : req'[t].pc = "upiCreate" => req[t].pc = "upiCreate" /\ req'[t].utr = req[t].utr
    BY <1>1 DEF Enters, Sets
  <2>4. dead' = dead /\ UtrsKept
    BY <1>1 DEF Enters, UtrsKept
  <2> QED
    BY <2>2, <2>3, <2>4, SubmissionsSame
<1>2. ASSUME NEW r \in Requests, NEW v \in RequestRow, Goes(r, v), UtrsKept,
             req[r].op = "submitUpi" => v.p = req[r].p,
             v.pc = "upiCreate" => ~UtrSubmitted(v.utr)
      PROVE  Submissions'
  <2>1. ASSUME NEW t \in Requests, NEW q \in Payments
        PROVE  /\ Submitted(t, q)' <=> Submitted(t, q)
               /\ Submitted(t, q) => req'[t].utr = req[t].utr
    BY <1>2 DEF Goes, Sets, Submitted
  <2>2. ASSUME NEW t \in Requests, req'[t].pc = "upiCreate"
        PROVE  \/ req[t].pc = "upiCreate" /\ req'[t].utr = req[t].utr
               \/ ~UtrSubmitted(req'[t].utr)
    BY <1>2, <2>2 DEF Goes, Sets
  <2>3. dead' = dead
    BY <1>2 DEF Goes
  <2> QED
    BY <1>2, <2>1, <2>2, <2>3, SubmissionsSame
<1>3. ASSUME NEW r \in Requests, NEW v \in RequestRow, CreatesUpi(r, v) PROVE Submissions'
  <2> DEFINE p == v.p
  <2>1. /\ p \in Payments /\ payment[p].st = "ABSENT" /\ payment'[p].utr = req[r].utr
        /\ \A x \in Payments \ {p} : payment'[x] = payment[x]
        /\ req[r].pc = "upiCreate" /\ r \in InFlight /\ req[r].op = "submitUpi" /\ req[r].p = NoPayment
        /\ req'[r] = v /\ v.op = "submitUpi" /\ v.utr = req[r].utr /\ v.pc = "markPaidRead"
        /\ \A t \in Requests \ {r} : req'[t] = req[t]
        /\ UNCHANGED <<met, dead>>
    BY <1>0, <1>3 DEF CreatesUpi, Goes, Sets, AllPlaced, Placed
  <2> HIDE DEF p
  <2>2. \A t \in Requests : ~Submitted(t, p)
    BY <1>0, <2>1 DEF IInv, Sound, Submitted
  <2>3. \A q \in Payments : ~Submitted(r, q)
    BY <1>0, <2>1 DEF Submitted
  <2>4. \A t \in Requests : \A q \in Payments :
            Submitted(t, q)' <=> Submitted(t, q) \/ (t = r /\ q = p)
    BY <2>1, <2>2, <2>3 DEF Submitted, p
  <2>5. \A t \in Requests : req'[t].utr = req[t].utr
    BY <2>1
  <2>6. \A q \in Payments : payment'[q].utr # NoUtr => \E t \in Requests : Submitted(t, q)'
    BY <2>1, <2>4 DEF Submissions
  <2>7. \A t \in Requests : \A q \in Payments : Submitted(t, q)' => payment'[q].utr = req'[t].utr
    <3> SUFFICES ASSUME NEW t \in Requests, NEW q \in Payments, Submitted(t, q)'
                 PROVE  payment'[q].utr = req'[t].utr
      OBVIOUS
    <3>1. CASE t = r /\ q = p
      BY <2>1, <2>5, <3>1
    <3>2. CASE Submitted(t, q)
      <4>1. q # p
        BY <2>2, <3>2
      <4> QED
        BY <2>1, <2>5, <3>2, <4>1 DEF Submissions
    <3> QED
      BY <2>4, <3>1, <3>2
  <2>8. ASSUME NEW t \in Requests, NEW q \in Payments, Submitted(t, q), req[t].utr = req[r].utr
        PROVE  t \in met[r] /\ r \in met[t]
    <3>1. t \in met[r]
      BY <2>1, <2>8 DEF Submissions, InFlight
    <3> QED
      BY <1>0, <3>1 DEF Meetings
  <2>9. ASSUME NEW t \in Requests, NEW u \in Requests, NEW q \in Payments, NEW x \in Payments,
               Submitted(t, q)', Submitted(u, x)', q # x, req'[t].utr = req'[u].utr
        PROVE  u \in met'[t]
    <3>1. CASE Submitted(t, q) /\ Submitted(u, x)
      BY <2>1, <2>5, <2>9, <3>1 DEF Submissions
    <3>2. CASE t = r /\ q = p /\ Submitted(u, x)
      BY <2>1, <2>5, <2>8, <2>9, <3>2
    <3>3. CASE u = r /\ x = p /\ Submitted(t, q)
      BY <2>1, <2>5, <2>8, <2>9, <3>3
    <3> QED
      BY <2>4, <2>9, <3>1, <3>2, <3>3
  <2>10. ASSUME NEW t \in Requests, t \notin dead', NEW u \in Requests, NEW q \in Payments,
                req'[t].pc = "upiCreate", Submitted(u, q)', req'[u].utr = req'[t].utr
         PROVE  u \in met'[t]
    <3>1. t # r /\ req[t].pc = "upiCreate" /\ t \notin dead /\ t \in InFlight
      BY <2>1, <2>10 DEF InFlight
    <3>2. CASE Submitted(u, q)
      BY <2>1, <2>5, <2>10, <3>1, <3>2 DEF Submissions
    <3>3. CASE u = r
      BY <1>0, <2>1, <3>1, <3>3 DEF Meetings
    <3> QED
      BY <2>4, <2>10, <3>2, <3>3
  <2> QED
    BY <2>6, <2>7, <2>9, <2>10 DEF Submissions
<1>4. ASSUME NEW r \in Requests, Aborts(r) PROVE Submissions'
  <2>1. ASSUME NEW t \in Requests, NEW q \in Payments
        PROVE  /\ Submitted(t, q)' <=> Submitted(t, q)
               /\ Submitted(t, q) => req'[t].utr = req[t].utr
    BY <1>0, <1>4 DEF Aborts, Sets, Submitted
  <2>2. \A t \in Requests : req'[t].pc = "upiCreate" => req[t].pc = "upiCreate" /\ req'[t].utr = req[t].utr
    BY <1>4, IdleType DEF Aborts, Sets
  <2>3. dead' = dead /\ UtrsKept
    BY <1>4 DEF Aborts, UtrsKept
  <2> QED
    BY <2>1, <2>2, <2>3, SubmissionsSame
<1>5. ASSUME Stays \/ Dies PROVE Submissions'
  <2>1. UtrsKept /\ dead \subseteq dead' /\ req' = req
    BY <1>5 DEF Stays, Dies, UtrsKept
  <2> QED
    BY <2>1, SubmissionsSame DEF Submitted
<1>6. ASSUME NEW r \in Requests, NEW v \in RequestRow, GoesOn(r, v) PROVE Submissions'
  BY <1>2, <1>6 DEF GoesOn
<1>7. ASSUME NEW r \in Requests, NEW v \in RequestRow, Renews(r, v) \/ PaysBack(r, v) \/ RecordsRefund(r, v)
      PROVE  Submissions'
  BY <1>2, <1>7 DEF Renews, PaysBack, RecordsRefund, UtrsKept
<1> QED
  BY <1>1, <1>3, <1>4, <1>5, <1>6, <1>7 DEF Kind

LEMMA InitSubmissions == Init => Submissions
<1> SUFFICES ASSUME Init PROVE Submissions
  OBVIOUS
<1>1. \A r \in Requests : req[r].op = "none" /\ req[r].pc = "idle"
  BY IdleType DEF Init, Idle
<1>2. \A p \in Payments : payment[p].utr = NoUtr
  BY NoRowType DEF Init
<1> QED
  BY <1>1, <1>2 DEF Submissions, Submitted

(* Two payments carry one UTR number only if the submissions that made     *)
(* them have overlapped, for any number of requests and crashes            *)
(* (payment.service.ts submitUpiProof).                                    *)
THEOREM UtrCreditedOnce == Spec => []UtrOnce
<1>1. Base /\ Submissions /\ [Next]_vars => Submissions'
  BY BaseStep, SubmissionsStep
<1>2. Submissions => UtrOnce
  <2> SUFFICES ASSUME Submissions, NEW p \in Payments, NEW q \in Payments,
                      p # q, payment[p].utr = payment[q].utr, payment[p].utr # NoUtr
               PROVE  \E r \in Requests : \E t \in met[r] : Submitted(r, p) /\ Submitted(t, q)
    BY DEF UtrOnce
  <2>1. PICK r \in Requests : Submitted(r, p)
    BY DEF Submissions
  <2>2. PICK t \in Requests : Submitted(t, q)
    BY DEF Submissions
  <2>3. t \in met[r]
    BY <2>1, <2>2 DEF Submissions
  <2> QED
    BY <2>1, <2>2, <2>3
<1> QED
  BY <1>1, <1>2, BaseHolds, InitSubmissions, PTL DEF Spec

-----------------------------------------------------------------------------
(* Renewals: an invoice for a next period was made by an attempt that is   *)
(* done, and the attempts that made two for one subscription have met.     *)
(* Until it makes its invoice, an attempt has met all those that have made *)
(* one for its subscription since it looked.                               *)
Renewals ==
    /\ \A i \in Invoices : invoice[i].st = "ABSENT" => invoice[i].period = "current"
    /\ \A i \in Invoices : invoice[i].st # "ABSENT" /\ invoice[i].period = "next" =>
          \E r \in Requests : Billed(r, i)
    /\ \A r \in Requests : \A i \in Invoices : Billed(r, i) =>
          invoice[i].st # "ABSENT" /\ invoice[i].period = "next"
    /\ \A r, t \in Requests : \A i, j \in Invoices :
          Billed(r, i) /\ Billed(t, j) /\ i # j /\ invoice[i].of = invoice[j].of => t \in met[r]
    /\ \A r \in Requests \ dead : \A t \in Requests : \A i \in Invoices :
          req[r].pc = "renewInsert" /\ Billed(t, i) /\ invoice[i].of = req[r].to.s => t \in met[r]

(* A step that makes no invoice for a next period.                         *)
LEMMA RenewalsSame ==
    ASSUME Renewals, dead \subseteq dead',
           InvoicesKept \/ \E i \in Invoices, s \in Subs : InvoiceAdded(i, s, "current"),
           \A t \in Requests : \A i \in Invoices : Billed(t, i)' <=> Billed(t, i),
           \A t, u \in Requests :
               t \in met[u] /\ req[t].pc = "done" /\ req'[u].pc # "idle" => t \in met'[u],
           \A r \in Requests : r \notin dead' /\ req'[r].pc = "renewInsert" =>
               \/ r \notin dead /\ req[r].pc = "renewInsert" /\ req'[r].to = req[r].to
               \/ ~Renewed(req'[r].to.s)
    PROVE  Renewals'
<1>1. \A i \in Invoices :
          /\ invoice[i].st # "ABSENT" => /\ invoice'[i].st # "ABSENT" /\ invoice'[i].of = invoice[i].of
                                         /\ invoice'[i].period = invoice[i].period
          /\ invoice[i].st = "ABSENT" => invoice'[i].period = "current"
  <2>1. CASE InvoicesKept
    BY <2>1 DEF InvoicesKept, Renewals
  <2>2. ASSUME NEW i \in Invoices, NEW s \in Subs, InvoiceAdded(i, s, "current")
        PROVE  \A j \in Invoices :
          /\ invoice[j].st # "ABSENT" => /\ invoice'[j].st # "ABSENT" /\ invoice'[j].of = invoice[j].of
                                         /\ invoice'[j].period = invoice[j].period
          /\ invoice[j].st = "ABSENT" => invoice'[j].period = "current"
    BY <2>2 DEF InvoiceAdded, Renewals
  <2> QED
    BY <2>1, <2>2
<1>2. \A i \in Invoices :
        /\ invoice'[i].st = "ABSENT" => invoice'[i].period = "current"
        /\ invoice'[i].st # "ABSENT" /\ invoice'[i].period = "next" =>
              invoice[i].st # "ABSENT" /\ invoice[i].period = "next"
  BY <1>1 DEF Renewals
<1>3. \A r \in Requests : \A i \in Invoices : Billed(r, i)' =>
          invoice'[i].st # "ABSENT" /\ invoice'[i].period = "next" /\ invoice'[i].of = invoice[i].of
  BY <1>1 DEF Renewals
<1>4. \A i \in Invoices : invoice'[i].st # "ABSENT" /\ invoice'[i].period = "next" =>
          \E r \in Requests : Billed(r, i)'
  BY <1>2 DEF Renewals
<1>5. ASSUME NEW r \in Requests, NEW t \in Requests, NEW i \in Invoices, NEW j \in Invoices,
             Billed(r, i)', Billed(t, j)', i # j, invoice'[i].of = invoice'[j].of
      PROVE  t \in met'[r]
  <2>1. Billed(r, i) /\ Billed(t, j) /\ invoice[i].of = invoice[j].of
    BY <1>3, <1>5
  <2>2. t \in met[r]
    BY <1>5, <2>1 DEF Renewals
  <2>3. req[t].pc = "done" /\ req'[r].pc # "idle"
    BY <1>5, <2>1 DEF Billed
  <2> QED
    BY <2>2, <2>3
<1>6. ASSUME NEW r \in Requests, r \notin dead', NEW t \in Requests, NEW i \in Invoices,
             req'[r].pc = "renewInsert", Billed(t, i)', invoice'[i].of = req'[r].to.s
      PROVE  t \in met'[r]
  <2>1. Billed(t, i) /\ invoice[i].of = req'[r].to.s /\ invoice[i].st # "ABSENT" /\ invoice[i].period = "next"
    BY <1>3, <1>6 DEF Renewals
  <2>2. Renewed(req'[r].to.s)
    BY <2>1 DEF Renewed
  <2>3. r \notin dead /\ req[r].pc = "renewInsert" /\ req'[r].to = req[r].to
    BY <1>6, <2>2
  <2>4. t \in met[r]
    BY <2>1, <2>3 DEF Renewals
  <2>5. req[t].pc = "done" /\ req'[r].pc # "idle"
    BY <1>6, <2>1 DEF Billed
  <2> QED
    BY <2>4, <2>5
<1> QED
  BY <1>2, <1>3, <1>4, <1>5, <1>6 DEF Renewals

LEMMA RenewalsStep == ASSUME Base, Base', Renewals, Kind PROVE Renewals'
<1>0. TypeOK /\ AllPlaced /\ Meetings /\ Idle.op = "none" /\ Idle.pc = "idle"
  BY IdleType DEF Base, IInv, Idle
<1>1. ASSUME NEW r \in Requests, NEW v \in RequestRow, Enters(r, v) PROVE Renewals'
  <2>1. /\ req[r].pc = "idle" /\ req'[r] = v /\ v.pc # "done" /\ met[r] = {}
        /\ \A t \in Requests \ {r} : req'[t] = req[t]
        /\ v.pc = "renewInsert" => ~Renewed(v.to.s)
        /\ dead' = dead /\ invoice' = invoice
    BY <1>0, <1>1 DEF Enters, Sets, Meetings
  <2>2. \A t \in Requests : \A i \in Invoices : Billed(t, i)' <=> Billed(t, i)
    BY <2>1 DEF Billed
  <2>3. \A t, u \in Requests :
            t \in met[u] /\ req[t].pc = "done" /\ req'[u].pc # "idle" => t \in met'[u]
    BY <1>0, <1>1, <2>1, JoinsMet
  <2>4. \A t \in Requests : req'[t].pc = "renewInsert" =>
               \/ req[t].pc = "renewInsert" /\ req'[t].to = req[t].to
               \/ ~Renewed(req'[t].to.s)
    BY <2>1
  <2>5. InvoicesKept
    BY <2>1 DEF InvoicesKept
  <2> QED
    BY <2>1, <2>2, <2>3, <2>4, <2>5, RenewalsSame
<1>2. ASSUME NEW r \in Requests, NEW v \in RequestRow, Goes(r, v),
             req[r].pc # "renewInsert", v.pc # "renewInsert",
             InvoicesKept \/ \E i \in Invoices, s \in Subs : InvoiceAdded(i, s, "current")
      PROVE  Renewals'
  <2>1. /\ r \in InFlight /\ req'[r] = v /\ v.op = req[r].op /\ req[r].op # "renew"
        /\ \A t \in Requests \ {r} : req'[t] = req[t]
        /\ UNCHANGED <<met, dead>>
    BY <1>0, <1>2 DEF Goes, Sets, AllPlaced, Placed, InFlight
  <2>2. \A t \in Requests : \A i \in Invoices : Billed(t, i)' <=> Billed(t, i)
    BY <2>1 DEF Billed
  <2>3. \A t \in Requests : req'[t].pc = "renewInsert" =>
               req[t].pc = "renewInsert" /\ req'[t].to = req[t].to
    BY <1>2, <2>1
  <2> QED
    BY <1>2, <2>1, <2>2, <2>3, RenewalsSame
<1>3. ASSUME NEW r \in Requests, NEW v \in RequestRow, Renews(r, v) PROVE Renewals'
  <2> DEFINE n == v.i
  <2>1. /\ r \in InFlight /\ req'[r] = v /\ v.op = "renew" /\ req[r].pc = "renewInsert" /\ v.pc = "done"
        /\ v.to = req[r].to /\ n \in Invoices
        /\ \A t \in Requests \ {r} : req'[t] = req[t]
        /\ UNCHANGED <<met, dead>>
    BY <1>0, <1>3 DEF Renews, Goes, Sets, AllPlaced, Placed
  <2>2. /\ invoice[n].st = "ABSENT"
        /\ invoice'[n].st # "ABSENT" /\ invoice'[n].of = req[r].to.s /\ invoice'[n].period = "next"
        /\ \A j \in Invoices \ {n} : invoice'[j] = invoice[j]
    BY <1>3, <2>1 DEF Renews, InvoiceAdded
  <2> HIDE DEF n
  <2>3. \A t \in Requests : ~Billed(t, n)
    BY <2>1, <2>2 DEF Renewals
  <2>4. \A t \in Requests : \A i \in Invoices :
            Billed(t, i)' <=> Billed(t, i) \/ (t = r /\ i = n)
    BY <2>1 DEF Billed, n
  <2>5. \A i \in Invoices : invoice'[i].st = "ABSENT" => invoice'[i].period = "current"
    BY <2>2 DEF Renewals
  <2>6. \A i \in Invoices : invoice'[i].st # "ABSENT" /\ invoice'[i].period = "next" =>
            \E t \in Requests : Billed(t, i)'
    BY <2>1, <2>2, <2>4 DEF Renewals
  <2>7. \A t \in Requests : \A i \in Invoices : Billed(t, i)' =>
            invoice'[i].st # "ABSENT" /\ invoice'[i].period = "next"
    BY <2>1, <2>2, <2>3, <2>4 DEF Renewals
  <2>8. ASSUME NEW t \in Requests, NEW i \in Invoices, Billed(t, i), invoice[i].of = req[r].to.s
        PROVE  t \in met[r] /\ r \in met[t]
    <3>1. t \in met[r]
      BY <2>1, <2>8 DEF Renewals, InFlight
    <3> QED
      BY <1>0, <3>1 DEF Meetings
  <2>9. ASSUME NEW t \in Requests, NEW u \in Requests, NEW i \in Invoices, NEW j \in Invoices,
               Billed(t, i)', Billed(u, j)', i # j, invoice'[i].of = invoice'[j].of
        PROVE  u \in met'[t]
    <3>1. CASE Billed(t, i) /\ Billed(u, j)
      <4>1. i # n /\ j # n
        BY <2>3, <3>1
      <4> QED
        BY <2>1, <2>2, <2>9, <3>1, <4>1 DEF Renewals
    <3>2. CASE t = r /\ i = n /\ Billed(u, j)
      BY <2>1, <2>2, <2>8, <2>9, <3>2
    <3>3. CASE u = r /\ j = n /\ Billed(t, i)
      BY <2>1, <2>2, <2>8, <2>9, <3>3
    <3> QED
      BY <2>4, <2>9, <3>1, <3>2, <3>3
  <2>10. ASSUME NEW t \in Requests, t \notin dead', NEW u \in Requests, NEW i \in Invoices,
                req'[t].pc = "renewInsert", Billed(u, i)', invoice'[i].of = req'[t].to.s
         PROVE  u \in met'[t]
    <3>1. t # r /\ req[t].pc = "renewInsert" /\ t \notin dead /\ t \in InFlight /\ req'[t] = req[t]
      BY <2>1, <2>10 DEF InFlight
    <3>2. CASE Billed(u, i)
      <4>1. i # n
        BY <2>3, <3>2
      <4> QED
        BY <2>1, <2>2, <2>10, <3>1, <3>2, <4>1 DEF Renewals
    <3>3. CASE u = r
      BY <1>0, <2>1, <3>1, <3>3 DEF Meetings
    <3> QED
      BY <2>4, <2>10, <3>2, <3>3
  <2> QED
    BY <2>5, <2>6, <2>7, <2>9, <2>10 DEF Renewals
<1>4. ASSUME NEW r \in Requests, Aborts(r) PROVE Renewals'
  <2>1. /\ r \in InFlight /\ req'[r].pc = "idle" /\ dead' = dead /\ invoice' = invoice
        /\ \A t \in Requests \ {r} : req'[t] = req[t]
    BY <1>0, <1>4 DEF Aborts, Sets
  <2>2. \A t \in Requests : \A i \in Invoices : Billed(t, i)' <=> Billed(t, i)
    BY <2>1 DEF Billed, InFlight
  <2>3. \A t, u \in Requests :
            t \in met[u] /\ req[t].pc = "done" /\ req'[u].pc # "idle" => t \in met'[u]
    BY <1>4, <2>1, LeavesMet DEF InFlight
  <2>4. \A t \in Requests : req'[t].pc = "renewInsert" => req[t].pc = "renewInsert" /\ req'[t].to = req[t].to
    BY <2>1
  <2>5. InvoicesKept
    BY <2>1 DEF InvoicesKept
  <2> QED
    BY <2>1, <2>2, <2>3, <2>4, <2>5, RenewalsSame
<1>5. ASSUME Stays \/ Dies PROVE Renewals'
  <2>1. InvoicesKept /\ dead \subseteq dead' /\ req' = req /\ met' = met
    BY <1>5 DEF Stays, Dies, InvoicesKept
  <2> QED
    BY <2>1, RenewalsSame DEF Billed
<1>6. ASSUME NEW r \in Requests, NEW v \in RequestRow,
             GoesOn(r, v) \/ CreatesUpi(r, v) \/ PaysBack(r, v) \/ RecordsRefund(r, v)
      PROVE  Renewals'
  <2>1. /\ Goes(r, v) /\ req[r].pc # "renewInsert" /\ v.pc # "renewInsert"
        /\ InvoicesKept \/ \E i \in Invoices, s \in Subs : InvoiceAdded(i, s, "current")
    BY <1>6 DEF GoesOn, CreatesUpi, PaysBack, RecordsRefund, InvoicesKept
  <2> QED
    BY <1>2, <2>1
<1> QED
  BY <1>1, <1>3, <1>4, <1>5, <1>6 DEF Kind

LEMMA InitRenewals == Init => Renewals
<1> SUFFICES ASSUME Init PROVE Renewals
  OBVIOUS
<1>1. \A r \in Requests : req[r].op = "none" /\ req[r].pc = "idle"
  BY IdleType DEF Init, Idle
<1>2. \A i \in Invoices : invoice[i].period = "current"
  <2>1. NoInvoice \in InvoiceRow /\ NoInvoice.period = "current"
    BY BillingAssumption DEF NoInvoice, InvoiceRow, InvoiceStatus, Subs
  <2>2. ASSUME NEW x \in InvoiceRow, NEW st \in {"SENT", "ABSENT"}
        PROVE  [x EXCEPT !.st = st].period = x.period
    BY DEF InvoiceRow
  <2> QED
    BY <2>1, <2>2 DEF Init
<1> QED
  BY <1>1, <1>2 DEF Renewals, Billed

(* The next period of a subscription has two invoices only if the attempts *)
(* that made them have overlapped, for any number of attempts, aborts and  *)
(* crashes (billing.activities.ts processRenewals).                        *)
THEOREM PeriodBilledOnce == Spec => []RenewedOnce
<1>1. Base /\ Renewals /\ [Next]_vars => Renewals'
  BY BaseStep, RenewalsStep
<1>2. Renewals => RenewedOnce
  <2> SUFFICES ASSUME Renewals, NEW i \in Invoices, NEW j \in Invoices,
                      i # j, "ABSENT" \notin {invoice[i].st, invoice[j].st},
                      invoice[i].of = invoice[j].of,
                      invoice[i].period = "next", invoice[j].period = "next"
               PROVE  \E r \in Requests : \E t \in met[r] : Billed(r, i) /\ Billed(t, j)
    BY DEF RenewedOnce
  <2>1. PICK r \in Requests : Billed(r, i)
    BY DEF Renewals
  <2>2. PICK t \in Requests : Billed(t, j)
    BY DEF Renewals
  <2>3. t \in met[r]
    BY <2>1, <2>2 DEF Renewals
  <2> QED
    BY <2>1, <2>2, <2>3
<1> QED
  BY <1>1, <1>2, BaseHolds, InitRenewals, PTL DEF Spec

-----------------------------------------------------------------------------
(* Refunds of a payment none of which died between the gateway and the row *)
(* and no two of which have met: one under way has read what the row still *)
(* says, and what was handed back is on the row or about to be.            *)
RefundClean(p) == ~RefundCut(p) /\ ~RefundsOverlapped(p)

Refunding(r, p) == r \notin dead /\ Refunds(r, p) /\ req[r].pc \in RefundSteps

HandedBack(p) ==
    /\ \A r \in Requests : Refunding(r, p) => req[r].paid = payment[p].refunded
    /\ \/ refundedOut[p] <= payment[p].refunded
       \/ \E r \in Requests : /\ Refunding(r, p) /\ req[r].pc = "refundUpdate"
                              /\ refundedOut[p] <= req[r].paid + req[r].amt

RefundInv == \A p \in Payments : RefundClean(p) => HandedBack(p)

LEMMA CleanBefore ==
    ASSUME Base, Kind, NEW p \in Payments, RefundClean(p)' PROVE RefundClean(p)
<1>0. dead \subseteq Requests /\ \A r \in Requests : met[r] \subseteq Requests
  BY DEF Base, IInv, TypeOK
<1>1. ASSUME NEW t \in Requests, Refunds(t, p) PROVE Refunds(t, p)'
  BY <1>1, Monotone DEF Refunds, Undone
<1>2. ASSUME NEW t \in dead, Refunds(t, p), req[t].pc = "refundUpdate" PROVE RefundCut(p)'
  <2>1. req'[t] = req[t] /\ t \in dead'
    BY <1>0, <1>2, Monotone
  <2> QED
    BY <1>2, <2>1 DEF RefundCut, Refunds
<1>3. ASSUME NEW r \in Requests, NEW t \in met[r], Refunds(r, p), Refunds(t, p)
      PROVE  RefundsOverlapped(p)'
  <2>1. t \in met'[r]
    BY <1>0, <1>3, Monotone DEF Refunds, Undone
  <2> QED
    BY <1>0, <1>1, <1>3, <2>1 DEF RefundsOverlapped
<1> QED
  BY <1>2, <1>3 DEF RefundClean, RefundCut, RefundsOverlapped

(* Two refunds of one payment under way have met.                          *)
LEMMA OneRefund ==
    ASSUME Base, NEW p \in Payments, RefundClean(p), NEW r \in Requests, NEW t \in Requests,
           Refunding(r, p), Refunding(t, p)
    PROVE  t = r
<1>1. r \in InFlight /\ t \in InFlight
  BY DEF Refunding, RefundSteps, InFlight
<1>2. t # r => t \in met[r]
  BY <1>1 DEF Base, Meetings
<1> QED
  BY <1>2 DEF RefundClean, RefundsOverlapped, Refunding

LEMMA RefundsSame ==
    ASSUME Base, Kind, RefundInv, RefundsKept, dead \subseteq dead',
           \A t \in Requests : \A p \in Payments :
               /\ Refunding(t, p)' => Refunding(t, p) /\ req'[t] = req[t]
               /\ Refunding(t, p) => Refunding(t, p)' \/ RefundCut(p)' \/ req[t].pc # "refundUpdate"
    PROVE  RefundInv'
<1> SUFFICES ASSUME NEW p \in Payments, RefundClean(p)' PROVE HandedBack(p)'
  BY DEF RefundInv
<1>1. HandedBack(p)
  BY CleanBefore DEF RefundInv
<1>2. \A r \in Requests : Refunding(r, p)' => req'[r].paid = payment'[p].refunded
  BY <1>1 DEF HandedBack, RefundsKept
<1>3. CASE refundedOut[p] <= payment[p].refunded
  BY <1>2, <1>3 DEF HandedBack, RefundsKept
<1>4. ASSUME NEW r \in Requests, Refunding(r, p), req[r].pc = "refundUpdate",
             refundedOut[p] <= req[r].paid + req[r].amt
      PROVE  HandedBack(p)'
  <2>1. Refunding(r, p)' /\ req'[r] = req[r]
    BY <1>4 DEF RefundClean
  <2> QED
    BY <1>2, <1>4, <2>1 DEF HandedBack, RefundsKept
<1> QED
  BY <1>1, <1>3, <1>4 DEF HandedBack

LEMMA RefundStep == ASSUME Base, Base', RefundInv, Kind PROVE RefundInv'
<1>0. /\ TypeOK /\ AllPlaced /\ Meetings /\ IInv /\ Idle.pc = "idle"
      /\ \A p \in Payments : payment[p].refunded \in Int /\ refundedOut[p] \in Nat
      /\ \A r \in Requests : req[r].paid \in Int /\ req[r].amt \in Int
  BY IdleType, Types DEF Base, IInv
<1>1. ASSUME NEW r \in Requests, NEW v \in RequestRow, Enters(r, v) PROVE RefundInv'
  <2>1. /\ req[r].pc = "idle" /\ req'[r] = v /\ v.pc \notin {"refundUpdate"}
        /\ \A t \in Requests \ {r} : req'[t] = req[t]
        /\ v.pc = "refundPayer" => v.paid = payment[v.p].refunded
        /\ dead' = dead /\ payment' = payment /\ refundedOut' = refundedOut
    BY <1>1 DEF Enters, Sets
  <2> SUFFICES ASSUME NEW p \in Payments, RefundClean(p)' PROVE HandedBack(p)'
    BY DEF RefundInv
  <2>2. HandedBack(p)
    BY CleanBefore DEF RefundInv
  <2>3. ASSUME NEW t \in Requests, Refunding(t, p)' PROVE req'[t].paid = payment'[p].refunded
    <3>1. CASE t = r
      BY <2>1, <2>3, <3>1 DEF Refunding, RefundSteps, Refunds
    <3>2. CASE t # r
      BY <2>1, <2>2, <2>3, <3>2 DEF Refunding, Refunds, HandedBack
    <3> QED
      BY <3>1, <3>2
  <2>4. ASSUME NEW t \in Requests, Refunding(t, p) PROVE Refunding(t, p)' /\ req'[t] = req[t]
    BY <2>1, <2>4 DEF Refunding, RefundSteps, Refunds
  <2> QED
    BY <2>1, <2>2, <2>3, <2>4 DEF HandedBack
<1>2. ASSUME NEW r \in Requests, NEW v \in RequestRow, Goes(r, v), RefundsKept,
             req[r].pc \notin RefundSteps, v.pc \notin RefundSteps
      PROVE  RefundInv'
  <2>1. /\ req'[r] = v /\ dead' = dead
        /\ \A t \in Requests \ {r} : req'[t] = req[t]
    BY <1>2 DEF Goes, Sets
  <2>2. \A t \in Requests : \A p \in Payments :
               /\ Refunding(t, p)' => Refunding(t, p) /\ req'[t] = req[t]
               /\ Refunding(t, p) => Refunding(t, p)'
    BY <1>2, <2>1 DEF Refunding, Refunds
  <2> QED
    BY <1>2, <2>1, <2>2, RefundsSame
<1>3. ASSUME NEW r \in Requests, NEW v \in RequestRow, PaysBack(r, v) PROVE RefundInv'
  <2>1. /\ req'[r] = v /\ dead' = dead /\ r \notin dead /\ payment' = payment
        /\ \A t \in Requests \ {r} : req'[t] = req[t]
        /\ req[r].pc = "refundPayer" /\ v.p = req[r].p /\ v.amt = req[r].amt /\ v.paid = req[r].paid
        /\ v.op = req[r].op /\ req[r].op = "refund" /\ v.pc \in {"refundUpdate", "done"}
    BY <1>0, <1>3 DEF PaysBack, Goes, Sets, InFlight, AllPlaced, Placed, RefundSteps
  <2> SUFFICES ASSUME NEW p \in Payments, RefundClean(p)' PROVE HandedBack(p)'
    BY DEF RefundInv
  <2>2. HandedBack(p) /\ RefundClean(p)
    BY CleanBefore DEF RefundInv
  <2>3. ASSUME NEW t \in Requests, Refunding(t, p)' PROVE req'[t].paid = payment'[p].refunded
    <3>1. Refunding(t, p) /\ req'[t].paid = req[t].paid
      BY <2>1, <2>3 DEF Refunding, Refunds, RefundSteps
    <3> QED
      BY <2>1, <2>2, <3>1 DEF HandedBack
  <2>4. CASE p # req[r].p
    <3>1. refundedOut'[p] = refundedOut[p]
      BY <1>0, <1>3, <2>1, <2>4 DEF PaysBack, TypeOK
    <3>2. ASSUME NEW t \in Requests, Refunding(t, p) PROVE Refunding(t, p)' /\ req'[t] = req[t]
      BY <2>1, <2>4, <3>2 DEF Refunding, Refunds
    <3> QED
      BY <2>1, <2>2, <2>3, <3>1, <3>2 DEF HandedBack
  <2>5. CASE p = req[r].p
    <3>1. Refunding(r, p)
      BY <2>1, <2>5 DEF Refunding, Refunds, RefundSteps
    <3>2. req[r].paid = payment[p].refunded /\ refundedOut[p] <= payment[p].refunded
      <4>1. ASSUME NEW t \in Requests, Refunding(t, p), req[t].pc = "refundUpdate" PROVE FALSE
        BY <2>1, <2>2, <3>1, <4>1, OneRefund
      <4> QED
        BY <2>2, <3>1, <4>1 DEF HandedBack
    <3>3. CASE v.pc = "done"
      <4>1. refundedOut'[p] = refundedOut[p]
        BY <1>3, <3>3 DEF PaysBack
      <4> QED
        BY <2>1, <2>3, <3>2, <4>1 DEF HandedBack
    <3>4. CASE v.pc = "refundUpdate"
      <4>1. refundedOut'[p] = refundedOut[p] + req[r].amt
        BY <1>0, <1>3, <2>1, <2>5, <3>4 DEF PaysBack, TypeOK
      <4>2. Refunding(r, p)' /\ req'[r].pc = "refundUpdate"
        BY <2>1, <2>5, <3>4 DEF Refunding, Refunds, RefundSteps
      <4>3. refundedOut'[p] <= req'[r].paid + req'[r].amt
        BY <1>0, <2>1, <3>2, <4>1
      <4> QED
        BY <2>3, <4>2, <4>3 DEF HandedBack
    <3> QED
      BY <2>1, <3>3, <3>4
  <2> QED
    BY <2>4, <2>5
<1>4. ASSUME NEW r \in Requests, NEW v \in RequestRow, RecordsRefund(r, v) PROVE RefundInv'
  <2>1. /\ req'[r] = v /\ dead' = dead /\ r \notin dead /\ refundedOut' = refundedOut
        /\ \A t \in Requests \ {r} : req'[t] = req[t]
        /\ req[r].pc = "refundUpdate" /\ v.p = req[r].p /\ req[r].op = "refund"
        /\ v.pc = "markRefundedRead"
        /\ payment'[v.p].refunded = req[r].paid + req[r].amt
        /\ \A x \in Payments \ {v.p} : payment'[x] = payment[x]
    BY <1>0, <1>4 DEF RecordsRefund, Goes, Sets, InFlight, AllPlaced, Placed, RefundSteps
  <2>2. req[r].amt > 0
    BY <1>0, <2>1 DEF IInv, Sound, RefundSteps
  <2> SUFFICES ASSUME NEW p \in Payments, RefundClean(p)' PROVE HandedBack(p)'
    BY DEF RefundInv
  <2>3. HandedBack(p) /\ RefundClean(p)
    BY CleanBefore DEF RefundInv
  <2>4. \A t \in Requests : Refunding(t, p)' => Refunding(t, p) /\ req'[t] = req[t] /\ t # r
    BY <2>1 DEF Refunding, Refunds, RefundSteps
  <2>5. CASE p # req[r].p
    <3>1. ASSUME NEW t \in Requests, Refunding(t, p) PROVE Refunding(t, p)' /\ req'[t] = req[t]
      BY <2>1, <2>5, <3>1 DEF Refunding, Refunds
    <3> QED
      BY <2>1, <2>3, <2>4, <2>5, <3>1 DEF HandedBack
  <2>6. CASE p = req[r].p
    <3>1. Refunding(r, p)
      BY <2>1, <2>6 DEF Refunding, Refunds, RefundSteps
    <3>2. \A t \in Requests : ~Refunding(t, p)'
      BY <2>3, <2>4, <3>1, OneRefund
    <3>3. refundedOut[p] <= req[r].paid + req[r].amt
      <4>1. CASE refundedOut[p] <= payment[p].refunded
        BY <1>0, <2>2, <2>3, <3>1, <4>1 DEF HandedBack
      <4>2. ASSUME NEW t \in Requests, Refunding(t, p), refundedOut[p] <= req[t].paid + req[t].amt
            PROVE  refundedOut[p] <= req[r].paid + req[r].amt
        <5>1. t = r
          BY <2>3, <3>1, <4>2, OneRefund
        <5> QED
          BY <4>2, <5>1
      <4> QED
        BY <2>3, <4>1, <4>2 DEF HandedBack
    <3> QED
      BY <2>1, <2>6, <3>2, <3>3 DEF HandedBack
  <2> QED
    BY <2>5, <2>6
<1>5. ASSUME NEW r \in Requests, Aborts(r) PROVE RefundInv'
  <2>1. /\ req'[r].pc = "idle" /\ dead' = dead /\ req[r].op # "refund"
        /\ \A t \in Requests \ {r} : req'[t] = req[t]
    BY <1>0, <1>5 DEF Aborts, Sets
  <2>2. \A t \in Requests : \A p \in Payments :
               /\ Refunding(t, p)' => Refunding(t, p) /\ req'[t] = req[t]
               /\ Refunding(t, p) => Refunding(t, p)'
    BY <2>1 DEF Refunding, Refunds, RefundSteps
  <2>3. RefundsKept
    BY <1>5 DEF Aborts, RefundsKept
  <2> QED
    BY <2>1, <2>2, <2>3, RefundsSame
<1>6. ASSUME Stays PROVE RefundInv'
  BY <1>6, RefundsSame DEF Stays, Refunding, Refunds
<1>7. ASSUME Dies PROVE RefundInv'
  <2>1. dead' = dead \cup InFlight /\ req' = req /\ RefundsKept
    BY <1>7 DEF Dies, RefundsKept
  <2>2. ASSUME NEW t \in Requests, NEW p \in Payments
        PROVE  ~Refunding(t, p)' /\ (Refunding(t, p) => RefundCut(p)' \/ req[t].pc # "refundUpdate")
    <3>1. ~Refunding(t, p)'
      BY <2>1 DEF Refunding, RefundSteps, InFlight
    <3>2. ASSUME Refunding(t, p), req[t].pc = "refundUpdate" PROVE RefundCut(p)'
      <4>1. t \in dead' /\ Refunds(t, p)' /\ req'[t].pc = "refundUpdate"
        BY <2>1, <3>2 DEF Refunding, Refunds, InFlight
      <4> QED
        BY <4>1 DEF RefundCut
    <3> QED
      BY <3>1, <3>2
  <2> QED
    BY <2>1, <2>2, RefundsSame
<1>8. ASSUME NEW r \in Requests, NEW v \in RequestRow, GoesOn(r, v) \/ CreatesUpi(r, v) \/ Renews(r, v)
      PROVE  RefundInv'
  <2>1. /\ Goes(r, v) /\ RefundsKept
        /\ req[r].pc \notin RefundSteps /\ v.pc \notin RefundSteps
    BY <1>8 DEF GoesOn, CreatesUpi, Renews, RefundsKept, RefundSteps
  <2> QED
    BY <1>2, <2>1
<1> QED
  BY <1>1, <1>3, <1>4, <1>5, <1>6, <1>7, <1>8 DEF Kind

LEMMA InitRefunds == Init => RefundInv
<1> SUFFICES ASSUME Init PROVE RefundInv
  OBVIOUS
<1>1. \A r \in Requests : req[r].pc = "idle"
  BY IdleType DEF Init
<1>2. \A p \in Payments : payment[p].refunded = 0 /\ refundedOut[p] = 0
  BY NoRowType DEF Init
<1> QED
  BY <1>1, <1>2 DEF RefundInv, HandedBack, Refunding, RefundSteps

(* The payer is handed back more than a payment only by refunds of it that *)
(* have overlapped or by one that died before it was recorded, for any     *)
(* number of requests and any amounts (payment.service.ts issueRefund).    *)
THEOREM RefundsWithinPayment == Spec => []RefundWithinPayment
<1>1. Base /\ RefundInv /\ [Next]_vars => RefundInv'
  BY BaseStep, RefundStep
<1>2. Base /\ RefundInv => RefundWithinPayment
  <2> SUFFICES ASSUME Base, RefundInv, NEW p \in Payments, payment[p].amt >= 0, RefundClean(p)
               PROVE  ~(refundedOut[p] > payment[p].amt)
    BY DEF RefundWithinPayment, RefundClean
  <2>1. /\ payment[p].refunded \in Int /\ payment[p].amt \in Int /\ refundedOut[p] \in Nat
        /\ \A r \in Requests : req[r].paid \in Int /\ req[r].amt \in Int
    BY Types DEF Base, IInv
  <2>2. payment[p].refunded <= payment[p].amt
    BY <2>1 DEF Base, IInv, PaymentRows
  <2>3. CASE refundedOut[p] <= payment[p].refunded
    BY <2>1, <2>2, <2>3
  <2>4. ASSUME NEW r \in Requests, Refunding(r, p), refundedOut[p] <= req[r].paid + req[r].amt
        PROVE  ~(refundedOut[p] > payment[p].amt)
    <3>1. req[r].paid + req[r].amt <= payment[p].amt
      BY <2>4 DEF Base, IInv, Sound, Refunding, Refunds
    <3> QED
      BY <2>1, <2>4, <3>1
  <2> QED
    BY <2>3, <2>4 DEF RefundInv, HandedBack
<1> QED
  BY <1>1, <1>2, BaseHolds, InitRefunds, PTL DEF Spec
=============================================================================
