------------------------------ MODULE Invoicing ------------------------------
(***************************************************************************)
(* How rent becomes invoices: the landlord's create_invoice                *)
(* (app/routers/invoices.py) and the bill the tenant's pay page makes sure *)
(* of on every load (app/services/invoice_service.py), with the numbers    *)
(* both give out.                                                          *)
(*                                                                         *)
(* A request that creates an invoice is three steps, as it is three        *)
(* statements: look for an invoice of the period, count the day's numbers, *)
(* insert and commit.  Payments and deletions, which Settlement has in     *)
(* detail, are one step each.                                              *)
(***************************************************************************)
EXTENDS Integers, FiniteSets, Sequences

CONSTANTS
    Workers,      \* requests that may be in flight at once
    Leases,       \* leases of one landlord
    Periods,      \* the months a landlord may bill
    PeriodOf,     \* the month of each day
    Rent,         \* leases.monthly_rent
    Totals,       \* totals a landlord may bill, discounts taken off
    MaxDay,       \* bound: days the clock runs through
    MaxInvoices   \* bound: invoices rows

ASSUME DayAssumption == MaxDay \in Nat \ {0}
ASSUME PeriodAssumption == PeriodOf \in [1 .. MaxDay -> Periods]
ASSUME AmountAssumption == Rent \in Nat \ {0} /\ Totals \subseteq Int
ASSUME MaxInvoicesAssumption == MaxInvoices \in Nat

VARIABLES
    invoices,     \* invoices rows, in id order
    active,       \* leases whose status is active
    day,          \* today
    pc,           \* where each worker's request stands
    job,          \* what each worker's session holds
    overlap       \* FALSE where a request is answered before the next one comes

vars == <<invoices, active, day, pc, job, overlap>>

-----------------------------------------------------------------------------

InvoiceStatus == {"draft", "sent", "partial", "paid", "cancelled"}
Phases == {"idle", "number", "insert", "flip"}

\* number and day stand for invoice_number, unique in the table.
Invoice == [lease : Leases, period : Periods, day : 1 .. MaxDay, number : Nat,
            due : Int, status : InvoiceStatus, deleted : BOOLEAN]

\* The row the handler is going to insert, or the id it is going to mark sent.
Job == Invoice \cup [id : Nat]

TypeOK ==
    /\ invoices \in Seq(Invoice)
    /\ active \subseteq Leases
    /\ day \in 1 .. MaxDay
    /\ pc \in [Workers -> Phases]
    /\ job \in [Workers -> Job]
    /\ overlap \in BOOLEAN

Nothing == [id |-> 0]

Init ==
    /\ invoices = <<>>
    /\ active = {}
    /\ day = 1
    /\ pc = [w \in Workers |-> "idle"]
    /\ job = [w \in Workers |-> Nothing]
    /\ overlap \in BOOLEAN

-----------------------------------------------------------------------------

Goto(w, phase, j) ==
    /\ pc' = [pc EXCEPT ![w] = phase]
    /\ job' = [job EXCEPT ![w] = j]

Respond(w) == Goto(w, "idle", Nothing)

\* A worker takes a request.
Ready(w) ==
    /\ pc[w] = "idle"
    /\ overlap \/ \A v \in Workers : pc[v] = "idle"

Live(i) == ~invoices[i].deleted

\* Mutant: the bill of an earlier month is found instead.
ExistingOfPast(l, p) ==
    {i \in DOMAIN invoices : invoices[i].lease = l /\ invoices[i].period < p /\ Live(i)}

\* The invoices the duplicate check of both handlers finds.
Existing(l, p) ==
    {i \in DOMAIN invoices : invoices[i].lease = l /\ invoices[i].period = p /\ Live(i)}

RowsOn(d) == {i \in DOMAIN invoices : invoices[i].day = d}

\* Mutant: deleted invoices are left out of the count.
CountLive(d) == Cardinality({i \in RowsOn(d) : Live(i)})

\* generate_invoice_number counts the rows of the day's prefix, the
\* soft-deleted ones too.
Count(d) == Cardinality(RowsOn(d))

Taken(d, n) == \E i \in DOMAIN invoices : invoices[i].day = d /\ invoices[i].number = n

Draft(l, p, due, status) ==
    [lease |-> l, period |-> p, day |-> day, number |-> 0, due |-> due,
     status |-> status, deleted |-> FALSE]

\* What the handlers make of a row.
Numbered(r, d, n) == [r EXCEPT !.day = d, !.number = n]

Sent(r) == [r EXCEPT !.status = "sent"]

Settled(r, amount) ==
    [r EXCEPT !.due = @ - amount,
              !.status = IF r.due - amount <= 0 THEN "paid" ELSE "partial"]

Voided(r) == [r EXCEPT !.deleted = TRUE, !.status = "cancelled"]

-----------------------------------------------------------------------------

\* create_invoice: the lease is active and has no invoice of the period.
CreateRead(w, l, p, total) ==
    /\ Ready(w)
    /\ l \in active
    /\ Existing(l, p) = {}
    /\ Goto(w, "number", Draft(l, p, total, "draft"))
    /\ UNCHANGED <<invoices, active, day, overlap>>

\* ensure_current_rent_invoice with no invoice of the month.
EnsureRead(w, l) ==
    /\ Ready(w)
    /\ l \in active
    /\ Existing(l, PeriodOf[day]) = {}
    /\ Goto(w, "number", Draft(l, PeriodOf[day], Rent, "sent"))
    /\ UNCHANGED <<invoices, active, day, overlap>>

\* ensure_current_rent_invoice with one that waits to be sent; any other it
\* leaves alone.
EnsureDraft(w, l) ==
    /\ Ready(w)
    /\ l \in active
    /\ \E i \in Existing(l, PeriodOf[day]) :
          /\ invoices[i].due > 0
          /\ invoices[i].status = "draft"
          /\ Goto(w, "flip", [id |-> i])
    /\ UNCHANGED <<invoices, active, day, overlap>>

\* The draft the session read is marked sent, whatever it has become.
Flip(w) ==
    /\ pc[w] = "flip"
    /\ invoices' = [invoices EXCEPT ![job[w].id] = Sent(@)]
    /\ Respond(w)
    /\ UNCHANGED <<active, day, overlap>>

Number(w) ==
    /\ pc[w] = "number"
    /\ Goto(w, "insert", Numbered(job[w], day, Count(day) + 1))
    /\ UNCHANGED <<invoices, active, day, overlap>>

\* A number that is taken is refused by the unique index: see Abort.
Insert(w) ==
    /\ pc[w] = "insert"
    /\ ~Taken(job[w].day, job[w].number)
    /\ Len(invoices) < MaxInvoices
    /\ invoices' = Append(invoices, job[w])
    /\ Respond(w)
    /\ UNCHANGED <<active, day, overlap>>

\* A request fails and its transaction is rolled back.
Abort(w) ==
    /\ pc[w] # "idle"
    /\ Respond(w)
    /\ UNCHANGED <<invoices, active, day, overlap>>

-----------------------------------------------------------------------------
(* What happens to invoices and leases meanwhile.                          *)

Pay(w, i, amount) ==
    /\ Ready(w)
    /\ Live(i)
    /\ invoices[i].status \notin {"paid", "cancelled"}
    /\ amount <= invoices[i].due
    /\ invoices' = [invoices EXCEPT ![i] = Settled(@, amount)]
    /\ UNCHANGED <<active, day, pc, job, overlap>>

Deletable(i) == Live(i) /\ invoices[i].status # "paid"

Delete(w, i) ==
    /\ Ready(w)
    /\ Deletable(i)
    /\ invoices' = [invoices EXCEPT ![i] = Voided(@)]
    /\ UNCHANGED <<active, day, pc, job, overlap>>

\* Leases start and end (Tenancy).
SetActive(l) ==
    /\ active' = IF l \in active THEN active \ {l} ELSE active \cup {l}
    /\ UNCHANGED <<invoices, day, pc, job, overlap>>

NextDay ==
    /\ day < MaxDay
    /\ day' = day + 1
    /\ UNCHANGED <<invoices, active, pc, job, overlap>>

Next ==
    \/ \E w \in Workers, l \in Leases :
          \/ \E p \in Periods, total \in Totals : CreateRead(w, l, p, total)
          \/ EnsureRead(w, l)
          \/ EnsureDraft(w, l)
    \/ \E w \in Workers : Flip(w) \/ Number(w) \/ Insert(w) \/ Abort(w)
    \/ \E w \in Workers, i \in DOMAIN invoices :
          \/ \E amount \in 1 .. Rent : Pay(w, i, amount)
          \/ Delete(w, i)
    \/ \E l \in Leases : SetActive(l)
    \/ NextDay

Spec == Init /\ [][Next]_vars

-----------------------------------------------------------------------------

\* Whatever requests race and whichever of them the unique index refuses, the
\* number the next request generates is free, so a request on its own can
\* always bill (generate_invoice_number: "Generate unique invoice number").
NextNumberIsFree == \A d \in 1 .. MaxDay : ~Taken(d, Count(d) + 1)

\* A lease is billed once for a month; loading the pay page again, or on two
\* devices, adds nothing (ensure_current_rent_invoice: "Idempotent - safe to
\* call on every tenant pay-page load").
OneInvoicePerMonth ==
    \A i, k \in DOMAIN invoices :
        /\ Live(i) /\ Live(k)
        /\ invoices[i].lease = invoices[k].lease
        /\ invoices[i].period = invoices[k].period
        => i = k

\* Requests that do not overlap bill a lease once for a month, whatever is
\* paid, deleted and billed again, and never reopen or cancel a paid invoice
\* (ensure_current_rent_invoice, delete_invoice).
BillsHold ==
    /\ [](~overlap => OneInvoicePerMonth)
    /\ [][~overlap =>
             \A i \in DOMAIN invoices :
                invoices[i].status = "paid" => invoices'[i].status = "paid"]_vars
=============================================================================
