--------------------------- MODULE Invoicing_proofs ---------------------------
(***************************************************************************)
(* For every number of workers and leases: no invoice number is ahead of   *)
(* its day's count, so the next one is free; and where requests do not     *)
(* overlap, a lease is billed once for a month and a paid invoice stays    *)
(* paid.                                                                   *)
(***************************************************************************)
EXTENDS Invoicing, FiniteSetTheorems, SequenceTheorems, TLAPS

-----------------------------------------------------------------------------
(* The inductive invariant.                                                *)

\* A session that is creating an invoice holds the row.
SessionsHoldRows ==
    \A w \in Workers : pc[w] \in {"number", "insert"} => job[w] \in Invoice

\* How many rows each day has.
Counts == [d \in 1 .. MaxDay |-> Count(d)]

\* A number is at most the count it was made from plus one, and rows only ever
\* add to the count.
NumbersAreCounted ==
    \A i \in DOMAIN invoices : invoices[i].number <= Counts[invoices[i].day]

\* The same of a number that is not in the table yet.
PendingAreCounted ==
    \A w \in Workers :
        pc[w] = "insert" => job[w].number <= Counts[job[w].day] + 1

IInv == TypeOK /\ SessionsHoldRows /\ NumbersAreCounted /\ PendingAreCounted

USE DayAssumption, PeriodAssumption, AmountAssumption

-----------------------------------------------------------------------------
(* Counting.                                                               *)

\* The rows of a day are finitely many.
LEMMA RowsAreFinite ==
    ASSUME TypeOK, NEW d
    PROVE  IsFiniteSet(RowsOn(d)) /\ Count(d) \in Nat
<1>1. IsFiniteSet(1 .. Len(invoices))
  BY FS_Interval DEF TypeOK
<1>2. RowsOn(d) \subseteq 1 .. Len(invoices)
  BY DEF RowsOn, TypeOK
<1>3. IsFiniteSet(RowsOn(d))
  BY <1>1, <1>2, FS_Subset
<1>4. QED
  BY <1>3, FS_CardinalityType DEF Count

LEMMA CountsAreNat == TypeOK => Counts \in [1 .. MaxDay -> Nat]
BY RowsAreFinite DEF Counts

\* Changing rows in place changes no count.
LEMMA CountInPlace ==
    ASSUME DOMAIN invoices' = DOMAIN invoices,
           \A i \in DOMAIN invoices : invoices'[i].day = invoices[i].day
    PROVE  Counts' = Counts
<1>1. ASSUME NEW d PROVE Count(d)' = Count(d)
  <2>1. RowsOn(d)' = RowsOn(d)
    BY DEF RowsOn
  <2>2. QED
    BY <2>1 DEF Count
<1>2. QED
  BY <1>1 DEF Counts

\* A new row adds one to the count of its day and nothing elsewhere.
LEMMA CountAppended ==
    ASSUME TypeOK, NEW n, n \notin DOMAIN invoices,
           DOMAIN invoices' = DOMAIN invoices \cup {n},
           \A i \in DOMAIN invoices : invoices'[i] = invoices[i]
    PROVE  \A d \in 1 .. MaxDay :
               Counts'[d] = IF d = invoices'[n].day THEN Counts[d] + 1 ELSE Counts[d]
<1> TAKE d \in 1 .. MaxDay
<1>1. CASE d = invoices'[n].day
  <2>1. RowsOn(d)' = RowsOn(d) \cup {n}
    BY <1>1 DEF RowsOn
  <2>2. n \notin RowsOn(d)
    BY DEF RowsOn
  <2>3. Cardinality(RowsOn(d) \cup {n}) = Cardinality(RowsOn(d)) + 1
    BY <2>2, RowsAreFinite, FS_AddElement
  <2>4. QED
    BY <1>1, <2>1, <2>3 DEF Count, Counts
<1>2. CASE d # invoices'[n].day
  <2>1. RowsOn(d)' = RowsOn(d)
    BY <1>2 DEF RowsOn
  <2>2. QED
    BY <1>2, <2>1 DEF Count, Counts
<1>3. QED
  BY <1>1, <1>2

\* What the handlers make of a row is a row, and only numbering changes its
\* number and day.
LEMMA UpdatedRows ==
    ASSUME NEW r \in Invoice
    PROVE  /\ Sent(r) \in Invoice /\ Sent(r).number = r.number /\ Sent(r).day = r.day
           /\ Voided(r) \in Invoice /\ Voided(r).number = r.number
           /\ Voided(r).day = r.day
BY DEF Invoice, InvoiceStatus, Sent, Voided

LEMMA SettledRows ==
    ASSUME NEW r \in Invoice, NEW amount \in 1 .. Rent
    PROVE  /\ Settled(r, amount) \in Invoice
           /\ Settled(r, amount).number = r.number
           /\ Settled(r, amount).day = r.day
<1> DEFINE due == r.due - amount
           status == IF due <= 0 THEN "paid" ELSE "partial"
<1>1. due \in Int /\ status \in InvoiceStatus
  BY DEF Invoice, InvoiceStatus
<1>2. Settled(r, amount) = [r EXCEPT !.due = due, !.status = status]
  BY DEF Settled
<1> HIDE DEF due, status
<1>3. QED
  BY <1>1, <1>2 DEF Invoice

LEMMA NumberedRows ==
    ASSUME NEW r \in Invoice, NEW d \in 1 .. MaxDay, NEW n \in Nat
    PROVE  /\ Numbered(r, d, n) \in Invoice
           /\ Numbered(r, d, n).number = n
           /\ Numbered(r, d, n).day = d
BY DEF Invoice, Numbered

-----------------------------------------------------------------------------
(* Steps of the same effect.                                               *)

\* Whatever sends a worker to a phase where it holds no number, and leaves the
\* table alone, keeps the invariant.
LEMMA MovesKeep ==
    ASSUME IInv, NEW w \in Workers, NEW phase \in Phases, NEW j \in Job,
           phase # "insert",
           phase = "number" => j \in Invoice,
           Goto(w, phase, j), UNCHANGED <<invoices, active, day, overlap>>
    PROVE  IInv'
<1>1. TypeOK'
  BY DEF IInv, TypeOK, Goto
<1>2. Counts' = Counts
  BY CountInPlace
<1>3. SessionsHoldRows'
  BY DEF IInv, TypeOK, SessionsHoldRows, Goto
<1>4. NumbersAreCounted'
  BY <1>2 DEF IInv, NumbersAreCounted
<1>5. PendingAreCounted'
  BY <1>2 DEF IInv, TypeOK, PendingAreCounted, Goto
<1>6. QED
  BY <1>1, <1>3, <1>4, <1>5 DEF IInv

\* Rows changed in place keep it too, when their numbers and days stay,
\* whether the request ends with the change or is one step.
LEMMA RowsInPlaceKeep ==
    ASSUME IInv,
           invoices' \in [1 .. Len(invoices) -> Invoice],
           \A k \in DOMAIN invoices :
               /\ invoices'[k].number = invoices[k].number
               /\ invoices'[k].day = invoices[k].day,
           UNCHANGED <<pc, job>> \/ \E w \in Workers : Respond(w),
           UNCHANGED <<active, day, overlap>>
    PROVE  IInv'
<1>1. Len(invoices) \in Nat /\ DOMAIN invoices = 1 .. Len(invoices)
  BY DEF IInv, TypeOK
<1>2. invoices' \in Seq(Invoice) /\ DOMAIN invoices' = DOMAIN invoices
  BY <1>1, SeqDef
<1>3. Counts' = Counts
  BY <1>2, CountInPlace
<1>4. /\ pc' \in [Workers -> Phases] /\ job' \in [Workers -> Job]
      /\ \A v \in Workers :
            pc'[v] # "idle" => pc'[v] = pc[v] /\ job'[v] = job[v]
  <2>1. "idle" \in Phases /\ Nothing \in Job
    BY DEF Phases, Job, Nothing
  <2>2. CASE UNCHANGED <<pc, job>>
    BY <2>2 DEF IInv, TypeOK
  <2>3. CASE \E w \in Workers : Respond(w)
    BY <2>1, <2>3 DEF IInv, TypeOK, Respond, Goto
  <2>4. QED
    BY <2>2, <2>3
<1>5. TypeOK'
  BY <1>2, <1>4 DEF IInv, TypeOK
<1>6. SessionsHoldRows'
  BY <1>4 DEF IInv, SessionsHoldRows
<1>7. NumbersAreCounted'
  BY <1>2, <1>3 DEF IInv, NumbersAreCounted
<1>8. PendingAreCounted'
  BY <1>3, <1>4 DEF IInv, PendingAreCounted
<1>9. QED
  BY <1>5, <1>6, <1>7, <1>8 DEF IInv

-----------------------------------------------------------------------------

LEMMA InitHolds == Init => IInv
<1> SUFFICES ASSUME Init PROVE IInv
  OBVIOUS
<1>1. TypeOK
  BY DEF Init, TypeOK, Phases, Job, Nothing
<1>2. SessionsHoldRows /\ PendingAreCounted
  BY DEF Init, SessionsHoldRows, PendingAreCounted
<1>3. NumbersAreCounted
  BY DEF Init, NumbersAreCounted
<1>4. QED
  BY <1>1, <1>2, <1>3 DEF IInv

\* Reading: the row a session has made up is an invoice.
LEMMA CreateReadKeeps ==
    ASSUME IInv, NEW w \in Workers, NEW l \in Leases, NEW p \in Periods,
           NEW total \in Totals, CreateRead(w, l, p, total)
    PROVE  IInv'
<1>1. Draft(l, p, total, "draft") \in Invoice
  BY DEF IInv, TypeOK, Draft, Invoice, InvoiceStatus
<1>2. QED
  BY <1>1, MovesKeep DEF CreateRead, Phases, Job

LEMMA EnsureReadKeeps ==
    ASSUME IInv, NEW w \in Workers, NEW l \in Leases, EnsureRead(w, l)
    PROVE  IInv'
<1>1. PeriodOf[day] \in Periods
  BY DEF IInv, TypeOK
<1>2. Draft(l, PeriodOf[day], Rent, "sent") \in Invoice
  BY <1>1 DEF IInv, TypeOK, Draft, Invoice, InvoiceStatus
<1>3. QED
  BY <1>2, MovesKeep DEF EnsureRead, Phases, Job

LEMMA EnsureDraftKeeps ==
    ASSUME IInv, NEW w \in Workers, NEW l \in Leases, EnsureDraft(w, l)
    PROVE  IInv'
<1>1. PICK i \in Existing(l, PeriodOf[day]) : Goto(w, "flip", [id |-> i])
  BY DEF EnsureDraft
<1>2. i \in Nat
  BY DEF Existing, IInv, TypeOK
<1>3. [id |-> i] \in Job
  BY <1>2 DEF Job
<1>4. QED
  BY <1>1, <1>3, MovesKeep DEF EnsureDraft, Phases

LEMMA RespondKeeps ==
    ASSUME IInv, NEW w \in Workers, Respond(w), UNCHANGED <<invoices, active, day, overlap>>
    PROVE  IInv'
<1>1. Nothing \in Job
  BY DEF Nothing, Job
<1>2. QED
  BY <1>1, MovesKeep DEF Respond, Phases

\* Taking a number: the count is at least it less one, now.
LEMMA NumberKeeps ==
    ASSUME IInv, NEW w \in Workers, Number(w)
    PROVE  IInv'
<1> DEFINE row == Numbered(job[w], day, Count(day) + 1)
<1>1. job[w] \in Invoice /\ day \in 1 .. MaxDay /\ Count(day) \in Nat
  BY RowsAreFinite DEF IInv, TypeOK, SessionsHoldRows, Number
<1>2. row \in Invoice /\ row.day = day /\ row.number = Counts[day] + 1
  <2>1. PICK k \in Nat : k = Count(day) + 1
    BY <1>1
  <2>2. row = Numbered(job[w], day, k)
    BY <2>1
  <2>3. row \in Invoice /\ row.day = day /\ row.number = k
    BY <1>1, <2>2, NumberedRows
  <2>4. Counts[day] = Count(day)
    BY <1>1 DEF Counts
  <2>5. QED
    BY <2>1, <2>3, <2>4
<1>3. Goto(w, "insert", row) /\ UNCHANGED <<invoices, active, day, overlap>>
  BY DEF Number
<1> HIDE DEF row
<1>4. TypeOK'
  BY <1>2, <1>3 DEF IInv, TypeOK, Goto, Phases, Job
<1>5. Counts' = Counts
  BY <1>3, CountInPlace
<1>6. SessionsHoldRows'
  BY <1>2, <1>3 DEF IInv, TypeOK, SessionsHoldRows, Goto
<1>7. NumbersAreCounted'
  BY <1>3, <1>5 DEF IInv, NumbersAreCounted
<1>8. PendingAreCounted'
  <2> SUFFICES ASSUME NEW v \in Workers, pc'[v] = "insert"
               PROVE  job'[v].number <= Counts'[job'[v].day] + 1
    BY DEF PendingAreCounted
  <2>1. CASE v = w
    <3>1. job'[v] = row
      BY <1>3, <2>1 DEF Goto, IInv, TypeOK
    <3>2. Counts[day] \in Nat
      BY <1>1 DEF Counts
    <3>3. QED
      BY <1>2, <1>5, <3>1, <3>2
  <2>2. CASE v # w
    <3>1. pc[v] = "insert" /\ job'[v] = job[v]
      BY <1>3, <2>2 DEF Goto, IInv, TypeOK
    <3>2. QED
      BY <1>5, <3>1 DEF IInv, PendingAreCounted
  <2>3. QED
    BY <2>1, <2>2
<1>9. QED
  BY <1>4, <1>6, <1>7, <1>8 DEF IInv

\* Inserting: the new row's number is within the new count, and every other
\* count has only grown.
LEMMA InsertKeeps ==
    ASSUME IInv, NEW w \in Workers, Insert(w)
    PROVE  IInv'
<1> DEFINE n == Len(invoices) + 1
<1>1. /\ job[w] \in Invoice
      /\ invoices \in Seq(Invoice)
      /\ invoices' = Append(invoices, job[w])
      /\ job[w].number <= Counts[job[w].day] + 1
  BY DEF IInv, TypeOK, SessionsHoldRows, PendingAreCounted, Insert
<1>2. /\ invoices' \in Seq(Invoice)
      /\ n \notin DOMAIN invoices
      /\ DOMAIN invoices' = DOMAIN invoices \cup {n}
      /\ invoices'[n] = job[w]
      /\ \A i \in DOMAIN invoices : invoices'[i] = invoices[i]
  BY <1>1
<1> HIDE DEF n
<1>3. \A d \in 1 .. MaxDay :
          Counts'[d] = IF d = job[w].day THEN Counts[d] + 1 ELSE Counts[d]
  BY <1>2, CountAppended DEF IInv
<1>4. \A d \in 1 .. MaxDay : Counts[d] \in Nat
  BY CountsAreNat DEF IInv
<1>5. TypeOK'
  BY <1>2 DEF IInv, TypeOK, Insert, Respond, Goto, Phases, Job, Nothing
<1>6. SessionsHoldRows'
  BY DEF IInv, TypeOK, SessionsHoldRows, Insert, Respond, Goto
<1>7. NumbersAreCounted'
  <2> SUFFICES ASSUME NEW i \in DOMAIN invoices'
               PROVE  invoices'[i].number <= Counts'[invoices'[i].day]
    BY DEF NumbersAreCounted
  <2>1. CASE i = n
    <3>1. job[w].day \in 1 .. MaxDay
      BY <1>1 DEF Invoice
    <3>2. QED
      BY <1>1, <1>2, <1>3, <2>1, <3>1
  <2>2. CASE i \in DOMAIN invoices
    <3>1. invoices[i] \in Invoice /\ invoices[i].number <= Counts[invoices[i].day]
      BY <1>1, <2>2 DEF IInv, NumbersAreCounted
    <3>2. invoices[i].number \in Nat /\ invoices[i].day \in 1 .. MaxDay
      BY <3>1 DEF Invoice
    <3>3. /\ invoices'[i] = invoices[i]
          /\ Counts[invoices[i].day] \in Nat
          /\ \/ Counts'[invoices[i].day] = Counts[invoices[i].day]
             \/ Counts'[invoices[i].day] = Counts[invoices[i].day] + 1
      BY <1>2, <1>3, <1>4, <2>2, <3>2
    <3>4. QED
      BY <3>1, <3>2, <3>3
  <2>3. QED
    BY <1>2, <2>1, <2>2
<1>8. PendingAreCounted'
  <2> SUFFICES ASSUME NEW v \in Workers, pc'[v] = "insert"
               PROVE  job'[v].number <= Counts'[job'[v].day] + 1
    BY DEF PendingAreCounted
  <2>1. pc[v] = "insert" /\ job'[v] = job[v]
    BY DEF IInv, TypeOK, Insert, Respond, Goto
  <2>2. /\ job[v].number \in Nat /\ job[v].day \in 1 .. MaxDay
        /\ job[v].number <= Counts[job[v].day] + 1
    BY <2>1 DEF IInv, SessionsHoldRows, PendingAreCounted, Invoice
  <2>3. QED
    BY <1>3, <1>4, <2>1, <2>2
<1>9. QED
  BY <1>5, <1>6, <1>7, <1>8 DEF IInv

\* One row changed in place, to a row of the same number and day.
LEMMA RowInPlaceKeeps ==
    ASSUME IInv, NEW i, NEW row,
           i \in DOMAIN invoices =>
               /\ row \in Invoice
               /\ row.number = invoices[i].number
               /\ row.day = invoices[i].day,
           invoices' = [invoices EXCEPT ![i] = row],
           UNCHANGED <<pc, job>> \/ \E w \in Workers : Respond(w),
           UNCHANGED <<active, day, overlap>>
    PROVE  IInv'
<1>1. invoices \in [1 .. Len(invoices) -> Invoice]
  BY DEF IInv, TypeOK
<1>2. /\ invoices' \in [1 .. Len(invoices) -> Invoice]
      /\ \A k \in DOMAIN invoices :
            /\ invoices'[k].number = invoices[k].number
            /\ invoices'[k].day = invoices[k].day
  BY <1>1
<1>3. QED
  BY <1>2, RowsInPlaceKeep

\* Marking a draft sent.
LEMMA FlipKeeps ==
    ASSUME IInv, NEW w \in Workers, Flip(w)
    PROVE  IInv'
<1> DEFINE i == job[w].id
<1>1. i \in DOMAIN invoices => invoices[i] \in Invoice
  BY DEF IInv, TypeOK
<1>2. /\ invoices' = [invoices EXCEPT ![i] = Sent(invoices[i])]
      /\ Respond(w) /\ UNCHANGED <<active, day, overlap>>
  BY DEF Flip
<1> HIDE DEF i
<1>3. QED
  BY <1>1, <1>2, UpdatedRows, RowInPlaceKeeps

LEMMA PayKeeps ==
    ASSUME IInv, NEW w \in Workers, NEW i \in DOMAIN invoices,
           NEW amount \in 1 .. Rent, Pay(w, i, amount)
    PROVE  IInv'
<1>1. invoices[i] \in Invoice
  BY DEF IInv, TypeOK
<1>2. /\ invoices' = [invoices EXCEPT ![i] = Settled(invoices[i], amount)]
      /\ UNCHANGED <<active, day, pc, job, overlap>>
  BY DEF Pay
<1>3. QED
  BY <1>1, <1>2, SettledRows, RowInPlaceKeeps

LEMMA DeleteKeeps ==
    ASSUME IInv, NEW w \in Workers, NEW i \in DOMAIN invoices, Delete(w, i)
    PROVE  IInv'
<1>1. invoices[i] \in Invoice
  BY DEF IInv, TypeOK
<1>2. /\ invoices' = [invoices EXCEPT ![i] = Voided(invoices[i])]
      /\ UNCHANGED <<active, day, pc, job, overlap>>
  BY DEF Delete
<1>3. QED
  BY <1>1, <1>2, UpdatedRows, RowInPlaceKeeps

\* Leases and the calendar do not touch the numbers.
LEMMA AroundKeeps ==
    ASSUME IInv, NextDay \/ \E l \in Leases : SetActive(l)
    PROVE  IInv'
<1>1. UNCHANGED <<invoices, pc, job>>
  BY DEF NextDay, SetActive
<1>2. Counts' = Counts
  BY <1>1, CountInPlace
<1>3. TypeOK'
  BY <1>1 DEF IInv, TypeOK, NextDay, SetActive
<1>4. SessionsHoldRows' /\ NumbersAreCounted' /\ PendingAreCounted'
  BY <1>1, <1>2 DEF IInv, SessionsHoldRows, NumbersAreCounted, PendingAreCounted
<1>5. QED
  BY <1>3, <1>4 DEF IInv

LEMMA StutterKeeps == IInv /\ UNCHANGED vars => IInv'
<1> SUFFICES ASSUME IInv, UNCHANGED vars PROVE IInv'
  OBVIOUS
<1>1. Counts' = Counts
  BY CountInPlace DEF vars
<1>2. QED
  BY <1>1 DEF IInv, TypeOK, SessionsHoldRows, NumbersAreCounted,
              PendingAreCounted, vars

LEMMA NextHolds == IInv /\ [Next]_vars => IInv'
<1> SUFFICES ASSUME IInv, [Next]_vars PROVE IInv'
  OBVIOUS
<1>1. ASSUME NEW w \in Workers, NEW l \in Leases, NEW p \in Periods,
             NEW total \in Totals, CreateRead(w, l, p, total)
      PROVE  IInv'
  BY <1>1, CreateReadKeeps
<1>2. ASSUME NEW w \in Workers, NEW l \in Leases, EnsureRead(w, l)
      PROVE  IInv'
  BY <1>2, EnsureReadKeeps
<1>3. ASSUME NEW w \in Workers, NEW l \in Leases, EnsureDraft(w, l)
      PROVE  IInv'
  BY <1>3, EnsureDraftKeeps
<1>4. ASSUME NEW w \in Workers, Flip(w) PROVE IInv'
  BY <1>4, FlipKeeps
<1>5. ASSUME NEW w \in Workers, Number(w) PROVE IInv'
  BY <1>5, NumberKeeps
<1>6. ASSUME NEW w \in Workers, Insert(w) PROVE IInv'
  BY <1>6, InsertKeeps
<1>7. ASSUME NEW w \in Workers, Abort(w) PROVE IInv'
  BY <1>7, RespondKeeps DEF Abort
<1>8. ASSUME NEW w \in Workers, NEW i \in DOMAIN invoices,
             NEW amount \in 1 .. Rent, Pay(w, i, amount)
      PROVE  IInv'
  BY <1>8, PayKeeps
<1>9. ASSUME NEW w \in Workers, NEW i \in DOMAIN invoices, Delete(w, i)
      PROVE  IInv'
  BY <1>9, DeleteKeeps
<1>10. CASE NextDay \/ \E l \in Leases : SetActive(l)
  BY <1>10, AroundKeeps
<1>11. CASE UNCHANGED vars
  BY <1>11, StutterKeeps
<1>12. QED
  BY <1>1, <1>2, <1>3, <1>4, <1>5, <1>6, <1>7, <1>8, <1>9, <1>10, <1>11 DEF Next

-----------------------------------------------------------------------------

LEMMA InvariantHolds == Spec => []IInv
BY InitHolds, NextHolds, PTL DEF Spec

\* Every variable keeps its type.
THEOREM TypeCorrect == Spec => []TypeOK
<1>1. IInv => TypeOK
  BY DEF IInv
<1>2. QED
  BY <1>1, InvariantHolds, PTL

\* However many requests number invoices at the same moment, the number
\* generate_invoice_number gives next is not taken.
THEOREM NextNumberStaysFree == Spec => []NextNumberIsFree
<1>1. IInv => NextNumberIsFree
  <2> SUFFICES ASSUME IInv, NEW d \in 1 .. MaxDay, NEW i \in DOMAIN invoices,
                      invoices[i].day = d, invoices[i].number = Count(d) + 1
               PROVE  FALSE
    BY DEF NextNumberIsFree, Taken
  <2>1. Counts[d] = Count(d) /\ Count(d) \in Nat
    BY RowsAreFinite DEF IInv, Counts
  <2>2. invoices[i].number <= Counts[d]
    BY DEF IInv, NumbersAreCounted
  <2>3. QED
    BY <2>1, <2>2
<1>2. QED
  BY <1>1, InvariantHolds, PTL

-----------------------------------------------------------------------------
(* Where requests do not overlap: one bill for a month, and a paid invoice *)
(* stays paid.                                                             *)

\* One request is in flight at a time.
Alone == \A v, w \in Workers : pc[v] # "idle" /\ pc[w] # "idle" => v = w

\* What a session read still holds when it writes: the month has no bill, the
\* draft is a draft.
ReadsHold ==
    \A w \in Workers :
        /\ pc[w] \in {"number", "insert"} =>
              Existing(job[w].lease, job[w].period) = {}
        /\ pc[w] = "flip" =>
              /\ job[w].id \in DOMAIN invoices
              /\ invoices[job[w].id].status = "draft"

Serial == ~overlap => Alone /\ ReadsHold /\ OneInvoicePerMonth

Bills == IInv /\ Serial

\* Rows changed in place keep their lease and month, and none comes back.
BillsStay ==
    /\ DOMAIN invoices' = DOMAIN invoices
    /\ \A i \in DOMAIN invoices :
          /\ invoices'[i].lease = invoices[i].lease
          /\ invoices'[i].period = invoices[i].period
          /\ ~invoices'[i].deleted => ~invoices[i].deleted

PaidStay ==
    \A i \in DOMAIN invoices : invoices[i].status = "paid" => invoices'[i].status = "paid"

\* Changes in place make no second bill.
LEMMA NoneAdded ==
    ASSUME BillsStay
    PROVE  /\ OneInvoicePerMonth => OneInvoicePerMonth'
           /\ \A l, p : Existing(l, p) = {} => Existing(l, p)' = {}
<1>1. OneInvoicePerMonth => OneInvoicePerMonth'
  BY DEF BillsStay, OneInvoicePerMonth, Live
<1>2. ASSUME NEW l, NEW p, Existing(l, p) = {} PROVE Existing(l, p)' = {}
  BY <1>2 DEF BillsStay, Existing, Live
<1>3. QED
  BY <1>1, <1>2

\* Reading: the only request in flight is the one that has just read.
LEMMA ReadIsAlone ==
    ASSUME Bills, NEW w \in Workers, NEW phase \in Phases, NEW j,
           Ready(w), Goto(w, phase, j), UNCHANGED <<invoices, overlap>>,
           phase \in {"number", "insert"} => Existing(j.lease, j.period) = {},
           phase = "flip" =>
              j.id \in DOMAIN invoices /\ invoices[j.id].status = "draft"
    PROVE  Serial' /\ PaidStay
<1>1. pc \in [Workers -> Phases] /\ job \in [Workers -> Job]
  BY DEF Bills, IInv, TypeOK
<1>2. ASSUME ~overlap PROVE Alone' /\ ReadsHold' /\ OneInvoicePerMonth'
  <2>1. \A v \in Workers : v # w => pc'[v] = "idle"
    BY <1>1, <1>2 DEF Ready, Goto
  <2>2. pc'[w] = phase /\ job'[w] = j
    BY <1>1 DEF Goto
  <2>3. Alone'
    BY <2>1 DEF Alone
  <2>4. OneInvoicePerMonth'
    BY <1>2 DEF Bills, Serial, OneInvoicePerMonth, Live
  <2>5. ReadsHold'
    <3> SUFFICES ASSUME NEW v \in Workers
                 PROVE  /\ pc'[v] \in {"number", "insert"} =>
                              Existing(job[v].lease, job[v].period)' = {}
                        /\ pc'[v] = "flip" =>
                              /\ job'[v].id \in DOMAIN invoices'
                              /\ invoices'[job'[v].id].status = "draft"
      BY DEF ReadsHold
    <3>1. CASE v = w
      <4>1. phase \in {"number", "insert"} => Existing(job[v].lease, job[v].period)' = {}
        <5> SUFFICES ASSUME phase \in {"number", "insert"}
                     PROVE  Existing(job[v].lease, job[v].period)' = {}
          OBVIOUS
        <5>1. job'[v] = j
          BY <2>2, <3>1
        <5>2. Existing(j.lease, j.period) = {}
          OBVIOUS
        <5>3. QED
          BY <5>1, <5>2 DEF Existing, Live
      <4>2. QED
        BY <2>2, <3>1, <4>1
    <3>2. CASE v # w
      BY <2>1, <3>2
    <3>3. QED
      BY <3>1, <3>2
  <2>6. QED
    BY <2>3, <2>4, <2>5
<1>3. QED
  BY <1>2 DEF Serial, PaidStay

\* A request that ends, or a row that changes in one step, while nothing else
\* is in flight.
LEMMA AnswerIsAlone ==
    ASSUME Bills, BillsStay, UNCHANGED overlap,
           \/ \E w \in Workers : Respond(w) /\ pc[w] # "idle"
           \/ UNCHANGED <<pc, job>> /\ \E w \in Workers : Ready(w)
    PROVE  Serial'
<1>1. pc \in [Workers -> Phases] /\ job \in [Workers -> Job]
  BY DEF Bills, IInv, TypeOK
<1>2. ASSUME ~overlap PROVE Alone' /\ ReadsHold' /\ OneInvoicePerMonth'
  <2>1. \A v \in Workers : pc'[v] = "idle"
    BY <1>1, <1>2 DEF Bills, Serial, Alone, Respond, Goto, Ready
  <2>2. OneInvoicePerMonth'
    BY <1>2, NoneAdded DEF Bills, Serial
  <2>3. QED
    BY <2>1, <2>2 DEF Alone, ReadsHold
<1>3. QED
  BY <1>2 DEF Serial

LEMMA SerialCreateRead ==
    ASSUME Bills, NEW w \in Workers, NEW l \in Leases, NEW p \in Periods,
           NEW total \in Totals, CreateRead(w, l, p, total)
    PROVE  Serial' /\ PaidStay
<1> DEFINE j == Draft(l, p, total, "draft")
<1>1. j.lease = l /\ j.period = p
  BY DEF Draft
<1>2. /\ Ready(w) /\ Goto(w, "number", j) /\ UNCHANGED <<invoices, overlap>>
      /\ Existing(l, p) = {}
  BY DEF CreateRead
<1> HIDE DEF j
<1>3. "number" \in Phases
  BY DEF Phases
<1>4. Existing(j.lease, j.period) = {}
  BY <1>1, <1>2
<1>5. QED
  BY <1>2, <1>3, <1>4, ReadIsAlone

LEMMA SerialEnsureRead ==
    ASSUME Bills, NEW w \in Workers, NEW l \in Leases, EnsureRead(w, l)
    PROVE  Serial' /\ PaidStay
<1> DEFINE j == Draft(l, PeriodOf[day], Rent, "sent")
<1>1. j.lease = l /\ j.period = PeriodOf[day]
  BY DEF Draft
<1>2. /\ Ready(w) /\ Goto(w, "number", j) /\ UNCHANGED <<invoices, overlap>>
      /\ Existing(l, PeriodOf[day]) = {}
  BY DEF EnsureRead
<1> HIDE DEF j
<1>3. "number" \in Phases
  BY DEF Phases
<1>4. Existing(j.lease, j.period) = {}
  BY <1>1, <1>2
<1>5. QED
  BY <1>2, <1>3, <1>4, ReadIsAlone

LEMMA SerialEnsureDraft ==
    ASSUME Bills, NEW w \in Workers, NEW l \in Leases, EnsureDraft(w, l)
    PROVE  Serial' /\ PaidStay
<1>1. PICK i \in Existing(l, PeriodOf[day]) :
          invoices[i].status = "draft" /\ Goto(w, "flip", [id |-> i])
  BY DEF EnsureDraft
<1>2. Ready(w) /\ UNCHANGED <<invoices, overlap>> /\ "flip" \in Phases
  BY DEF EnsureDraft, Phases
<1>3. i \in DOMAIN invoices
  BY DEF Existing
<1>4. QED
  BY <1>1, <1>2, <1>3, ReadIsAlone

\* The number does not change which month the row bills.
LEMMA SerialNumber ==
    ASSUME Bills, NEW w \in Workers, Number(w)
    PROVE  Serial' /\ PaidStay
<1> DEFINE row == Numbered(job[w], day, Count(day) + 1)
<1>1. pc \in [Workers -> Phases] /\ job \in [Workers -> Job] /\ job[w] \in Invoice
  BY DEF Bills, IInv, TypeOK, SessionsHoldRows, Number
<1>2. row.lease = job[w].lease /\ row.period = job[w].period
  BY <1>1 DEF Numbered, Invoice
<1>3. /\ pc[w] = "number" /\ Goto(w, "insert", row)
      /\ UNCHANGED <<invoices, active, day, overlap>>
  BY DEF Number
<1> HIDE DEF row
<1>4. pc'[w] = "insert" /\ job'[w] = row
  BY <1>1, <1>3 DEF Goto
<1>5. \A v \in Workers : v # w => pc'[v] = pc[v] /\ job'[v] = job[v]
  BY <1>1, <1>3 DEF Goto
<1>6. ASSUME ~overlap PROVE Alone' /\ ReadsHold' /\ OneInvoicePerMonth'
  <2>1. Alone /\ ReadsHold /\ OneInvoicePerMonth
    BY <1>6 DEF Bills, Serial
  <2>2. \A v \in Workers : v # w => pc'[v] = "idle"
    BY <1>3, <1>5, <2>1 DEF Alone
  <2>3. Alone'
    BY <2>2 DEF Alone
  <2>4. OneInvoicePerMonth'
    BY <1>3, <2>1 DEF OneInvoicePerMonth, Live
  <2>5. Existing(job[w].lease, job[w].period) = {}
    BY <1>3, <2>1 DEF ReadsHold
  <2>6. Existing(job[w].lease, job[w].period)' = {}
    BY <1>2, <1>3, <1>4, <2>5 DEF Existing, Live
  <2>7. ReadsHold'
    BY <1>4, <2>2, <2>6 DEF ReadsHold
  <2>8. QED
    BY <2>3, <2>4, <2>7
<1>7. QED
  BY <1>3, <1>6 DEF Serial, PaidStay

\* A month that had no bill gets one.
LEMMA SerialInsert ==
    ASSUME Bills, NEW w \in Workers, Insert(w)
    PROVE  Serial' /\ PaidStay
<1> DEFINE n == Len(invoices) + 1
<1>1. /\ pc \in [Workers -> Phases] /\ job \in [Workers -> Job]
      /\ invoices \in Seq(Invoice) /\ job[w] \in Invoice
      /\ pc[w] = "insert" /\ Respond(w) /\ UNCHANGED overlap
  BY DEF Bills, IInv, TypeOK, SessionsHoldRows, Insert
<1>2. /\ DOMAIN invoices' = DOMAIN invoices \cup {n}
      /\ invoices'[n] = job[w]
      /\ \A i \in DOMAIN invoices : invoices'[i] = invoices[i]
  BY <1>1 DEF Insert
<1> HIDE DEF n
<1>3. ASSUME ~overlap PROVE Alone' /\ ReadsHold' /\ OneInvoicePerMonth'
  <2>1. Alone /\ ReadsHold /\ OneInvoicePerMonth
    BY <1>3 DEF Bills, Serial
  <2>2. \A v \in Workers : pc'[v] = "idle"
    BY <1>1, <2>1 DEF Alone, Respond, Goto
  <2>3. \A i \in DOMAIN invoices :
            Live(i) /\ invoices[i].lease = job[w].lease
               => invoices[i].period # job[w].period
    BY <1>1, <2>1 DEF ReadsHold, Existing
  <2>4. OneInvoicePerMonth'
    BY <1>2, <2>1, <2>3 DEF OneInvoicePerMonth, Live
  <2>5. QED
    BY <2>2, <2>4 DEF Alone, ReadsHold
<1>4. QED
  BY <1>1, <1>2, <1>3 DEF Serial, PaidStay

\* One row changed in place, to a row of the same month that is not live again.
LEMMA RowStays ==
    ASSUME Bills, NEW i, NEW row,
           i \in DOMAIN invoices =>
               /\ row.lease = invoices[i].lease
               /\ row.period = invoices[i].period
               /\ ~row.deleted => ~invoices[i].deleted
               /\ invoices[i].status # "paid",
           invoices' = [invoices EXCEPT ![i] = row]
    PROVE  BillsStay /\ PaidStay
<1>1. /\ DOMAIN invoices' = DOMAIN invoices
      /\ \A k \in DOMAIN invoices :
            invoices'[k] = IF k = i THEN row ELSE invoices[k]
  OBVIOUS
<1>2. QED
  BY <1>1 DEF BillsStay, PaidStay

\* The draft that was read is still one.
LEMMA SerialFlip ==
    ASSUME Bills, NEW w \in Workers, Flip(w)
    PROVE  Serial' /\ (~overlap => PaidStay)
<1> DEFINE i == job[w].id
<1>1. /\ invoices' = [invoices EXCEPT ![i] = Sent(invoices[i])]
      /\ pc[w] = "flip" /\ Respond(w) /\ UNCHANGED overlap
  BY DEF Flip
<1> HIDE DEF i
<1>2. ASSUME ~overlap PROVE BillsStay /\ PaidStay
  <2>1. i \in DOMAIN invoices /\ invoices[i].status = "draft"
    BY <1>1, <1>2 DEF Bills, Serial, ReadsHold, i
  <2>2. invoices[i] \in Invoice
    BY <2>1 DEF Bills, IInv, TypeOK
  <2>3. /\ Sent(invoices[i]).lease = invoices[i].lease
        /\ Sent(invoices[i]).period = invoices[i].period
        /\ Sent(invoices[i]).deleted = invoices[i].deleted
    BY <2>2 DEF Invoice, Sent
  <2>4. QED
    BY <1>1, <2>1, <2>3, RowStays
<1>3. CASE overlap
  BY <1>1, <1>3 DEF Serial
<1>4. CASE ~overlap
  BY <1>1, <1>2, <1>4, AnswerIsAlone
<1>5. QED
  BY <1>2, <1>3, <1>4

LEMMA SerialPay ==
    ASSUME Bills, NEW w \in Workers, NEW i \in DOMAIN invoices,
           NEW amount \in 1 .. Rent, Pay(w, i, amount)
    PROVE  Serial' /\ PaidStay
<1>1. invoices[i] \in Invoice
  BY DEF Bills, IInv, TypeOK
<1>2. /\ Settled(invoices[i], amount).lease = invoices[i].lease
      /\ Settled(invoices[i], amount).period = invoices[i].period
      /\ Settled(invoices[i], amount).deleted = invoices[i].deleted
  BY <1>1 DEF Invoice, Settled
<1>3. /\ invoices' = [invoices EXCEPT ![i] = Settled(invoices[i], amount)]
      /\ invoices[i].status # "paid"
      /\ Ready(w) /\ UNCHANGED <<pc, job, overlap>>
  BY DEF Pay
<1>4. BillsStay /\ PaidStay
  BY <1>2, <1>3, RowStays
<1>5. QED
  BY <1>3, <1>4, AnswerIsAlone

LEMMA SerialDelete ==
    ASSUME Bills, NEW w \in Workers, NEW i \in DOMAIN invoices, Delete(w, i)
    PROVE  Serial' /\ PaidStay
<1>1. invoices[i] \in Invoice
  BY DEF Bills, IInv, TypeOK
<1>2. /\ Voided(invoices[i]).lease = invoices[i].lease
      /\ Voided(invoices[i]).period = invoices[i].period
      /\ Voided(invoices[i]).deleted
  BY <1>1 DEF Invoice, Voided
<1>3. /\ invoices' = [invoices EXCEPT ![i] = Voided(invoices[i])]
      /\ invoices[i].status # "paid"
      /\ Ready(w) /\ UNCHANGED <<pc, job, overlap>>
  BY DEF Delete, Deletable
<1>4. BillsStay /\ PaidStay
  BY <1>2, <1>3, RowStays
<1>5. QED
  BY <1>3, <1>4, AnswerIsAlone

LEMMA SerialAbort ==
    ASSUME Bills, NEW w \in Workers, Abort(w)
    PROVE  Serial' /\ PaidStay
<1>1. BillsStay /\ PaidStay
  BY DEF Abort, BillsStay, PaidStay
<1>2. pc[w] # "idle" /\ Respond(w) /\ UNCHANGED overlap
  BY DEF Abort
<1>3. QED
  BY <1>1, <1>2, AnswerIsAlone

\* Leases, the calendar and stuttering touch neither invoices nor sessions.
LEMMA SerialAround ==
    ASSUME Bills, UNCHANGED <<invoices, pc, job, overlap>>
    PROVE  Serial' /\ PaidStay
BY DEF Bills, Serial, Alone, ReadsHold, OneInvoicePerMonth, Existing, Live, PaidStay

LEMMA BillsInit == Init => Bills
<1> SUFFICES ASSUME Init PROVE Bills
  OBVIOUS
<1>1. Alone /\ ReadsHold /\ OneInvoicePerMonth
  BY DEF Init, Alone, ReadsHold, OneInvoicePerMonth
<1>2. QED
  BY <1>1, InitHolds DEF Bills, Serial

LEMMA BillsNext == Bills /\ [Next]_vars => Bills' /\ (~overlap => PaidStay)
<1> SUFFICES ASSUME Bills, [Next]_vars PROVE Serial' /\ (~overlap => PaidStay)
  BY NextHolds DEF Bills
<1>1. ASSUME NEW w \in Workers, NEW l \in Leases, NEW p \in Periods,
             NEW total \in Totals, CreateRead(w, l, p, total)
      PROVE  Serial' /\ (~overlap => PaidStay)
  BY <1>1, SerialCreateRead
<1>2. ASSUME NEW w \in Workers, NEW l \in Leases, EnsureRead(w, l)
      PROVE  Serial' /\ (~overlap => PaidStay)
  BY <1>2, SerialEnsureRead
<1>3. ASSUME NEW w \in Workers, NEW l \in Leases, EnsureDraft(w, l)
      PROVE  Serial' /\ (~overlap => PaidStay)
  BY <1>3, SerialEnsureDraft
<1>4. ASSUME NEW w \in Workers, Flip(w)
      PROVE  Serial' /\ (~overlap => PaidStay)
  BY <1>4, SerialFlip
<1>5. ASSUME NEW w \in Workers, Number(w)
      PROVE  Serial' /\ (~overlap => PaidStay)
  BY <1>5, SerialNumber
<1>6. ASSUME NEW w \in Workers, Insert(w)
      PROVE  Serial' /\ (~overlap => PaidStay)
  BY <1>6, SerialInsert
<1>7. ASSUME NEW w \in Workers, Abort(w)
      PROVE  Serial' /\ (~overlap => PaidStay)
  BY <1>7, SerialAbort
<1>8. ASSUME NEW w \in Workers, NEW i \in DOMAIN invoices,
             NEW amount \in 1 .. Rent, Pay(w, i, amount)
      PROVE  Serial' /\ (~overlap => PaidStay)
  BY <1>8, SerialPay
<1>9. ASSUME NEW w \in Workers, NEW i \in DOMAIN invoices, Delete(w, i)
      PROVE  Serial' /\ (~overlap => PaidStay)
  BY <1>9, SerialDelete
<1>10. CASE NextDay \/ (\E l \in Leases : SetActive(l)) \/ UNCHANGED vars
  <2>1. UNCHANGED <<invoices, pc, job, overlap>>
    BY <1>10 DEF NextDay, SetActive, vars
  <2>2. QED
    BY <2>1, SerialAround
<1>11. QED
  BY <1>1, <1>2, <1>3, <1>4, <1>5, <1>6, <1>7, <1>8, <1>9, <1>10 DEF Next

\* Where each request is answered before the next one comes, create_invoice
\* and ensure_current_rent_invoice bill a lease once for a month, and no
\* request reopens or cancels a paid invoice.
THEOREM BillsAlwaysHold == Spec => BillsHold
<1>1. Bills => (~overlap => OneInvoicePerMonth)
  BY DEF Bills, Serial
<1>2. Bills /\ [Next]_vars =>
          [~overlap => \A i \in DOMAIN invoices :
              invoices[i].status = "paid" => invoices'[i].status = "paid"]_vars
  BY BillsNext DEF PaidStay
<1>3. QED
  BY <1>1, <1>2, BillsInit, BillsNext, PTL DEF Spec, BillsHold
=============================================================================
