------------------------------ MODULE Receipts ------------------------------
(***************************************************************************)
(* Payments recorded by a landlord or settled by a checkout, and the       *)
(* receipt of each (app/services/payment_service.py, record_payment;       *)
(* app/services/payment_gateway_service.py, complete_checkout;             *)
(* app/services/receipt_service.py).  The payment is committed first; the  *)
(* receipt is numbered by counting, inserted, mailed and committed in a    *)
(* second transaction, whose failure nobody reports.                       *)
(***************************************************************************)
EXTENDS Requests

CONSTANTS
    Payments,     \* ids of payments rows
    PrefixOf,     \* METHOD_PREFIX: the methods and the prefix of each
    Amounts,      \* amounts paid
    MaxYear       \* bound: years the calendar reaches

ASSUME ReceiptAssumption ==
    /\ IsFiniteSet(Payments) /\ None \notin Payments
    /\ DOMAIN PrefixOf # {} /\ Amounts # {}
    /\ MaxYear \in Nat \ {0}

VARIABLES
    payment,      \* payments rows
    receipt,      \* system_receipts rows, by number
    mailed,       \* receipts that were mailed to the tenant
    credited,     \* payments the landlord was notified of
    year          \* the calendar year

receiptVars == <<payment, receipt, mailed, credited, year>>

-----------------------------------------------------------------------------

Methods == DOMAIN PrefixOf
Prefixes == {PrefixOf[m] : m \in Methods}
Years == 1 .. MaxYear
Numbers == Prefixes \X Years \X (1 .. Cardinality(Payments))

PaymentRow == [row : {"absent", "live", "deleted"}, method : Methods, amount : Amounts]
ReceiptRow == [payment : Payments, amount : Amounts]

\* The receipt with a number; NoReceipt while the number is free.
NoReceipt == [payment |-> None, amount |-> None]
Taken(n) == receipt[n] # NoReceipt

ReceiptsInit ==
    /\ payment \in [Payments -> {[row |-> "absent", method |-> CHOOSE m \in Methods : TRUE,
                                  amount |-> CHOOSE a \in Amounts : TRUE]}]
    /\ receipt = [n \in Numbers |-> NoReceipt]
    /\ mailed = {}
    /\ credited = {}
    /\ year = 1

ReceiptsTypeOK ==
    /\ payment \in [Payments -> PaymentRow]
    /\ receipt \in [Numbers -> ReceiptRow \cup {NoReceipt}]
    /\ mailed \subseteq Numbers \X ReceiptRow
    /\ credited \subseteq Payments
    /\ year \in Years

-----------------------------------------------------------------------------
(* The payment.                                                            *)

\* record_payment and settle_invoice_payment commit the row before a receipt
\* is tried; only the first notifies the landlord after it.
PaymentMade(w, p, method, amount, notify) ==
    /\ payment[p].row = "absent"
    /\ payment' = [payment EXCEPT ![p] =
                     [row |-> "live", method |-> method, amount |-> amount]]
    /\ Goto(w, "number", [payment |-> p, notify |-> notify])
    /\ UNCHANGED <<receipt, mailed, credited, year>>

RecordPayment(w, p, method, amount) ==
    Ready(w, "record_payment") /\ PaymentMade(w, p, method, amount, TRUE)

CompleteCheckout(w, p, method, amount) ==
    Ready(w, "complete_checkout") /\ PaymentMade(w, p, method, amount, FALSE)

UpdatePayment(p, method, amount) ==
    /\ Served("update_payment")
    /\ payment[p].row = "live"
    /\ payment' = [payment EXCEPT ![p].method = method, ![p].amount = amount]
    /\ UNCHANGED <<requests, receipt, mailed, credited, year>>

DeletePayment(p) ==
    /\ Served("delete_payment")
    /\ payment[p].row = "live"
    /\ payment' = [payment EXCEPT ![p].row = "deleted"]
    /\ UNCHANGED <<requests, receipt, mailed, credited, year>>

-----------------------------------------------------------------------------
(* issue_from_payment.                                                     *)

\* Mutant: receipts of deleted payments count no longer.
NextNumberOfLive(method) ==
    <<PrefixOf[method], year,
      1 + Cardinality({n \in Numbers : /\ n[1] = PrefixOf[method] /\ n[2] = year /\ Taken(n)
                                       /\ payment[receipt[n].payment].row = "live"})>>

\* Receipts are numbered by counting those with the prefix and the year.
NextReceiptNumber(method) ==
    <<PrefixOf[method], year,
      1 + Cardinality({n \in Numbers : n[1] = PrefixOf[method] /\ n[2] = year /\ Taken(n)})>>

Receipted(p) == \E n \in Numbers : receipt[n].payment = p

\* The request leaves the receipt, made or not.
AfterReceipt(w) ==
    IF job[w].notify THEN Goto(w, "credit", job[w]) ELSE Respond(w)

\* The receipt is numbered from what the session reads now; record_payment
\* loads the payment again and finds none once it is deleted.
NumberReceipt(w) ==
    LET p == job[w].payment IN
    /\ pc[w] = "number"
    /\ IF Receipted(p) \/ (job[w].notify /\ payment[p].row = "deleted")
       THEN AfterReceipt(w)
       ELSE Goto(w, "flush",
                 [payment |-> p, notify |-> job[w].notify,
                  number |-> NextReceiptNumber(payment[p].method),
                  row |-> [payment |-> p, amount |-> payment[p].amount]])
    /\ UNCHANGED receiptVars

\* Its uncommitted row holds the number from the flush to the commit.
Holds(v, n) == pc[v] \in {"mail", "commit_receipt"} /\ job[v].number = n

\* The unique receipt_number refuses a row whose number is taken, and waits
\* for the transaction that holds it.
FlushReceipt(w) ==
    LET n == job[w].number IN
    /\ pc[w] = "flush"
    /\ ~\E v \in Workers : Holds(v, n)
    /\ IF Taken(n) THEN AfterReceipt(w) ELSE Goto(w, "mail", job[w])
    /\ UNCHANGED receiptVars

\* The receipt is mailed with its QR code before it is committed; a failing
\* mail server does not matter.
MailReceipt(w) ==
    /\ pc[w] = "mail"
    /\ mailed' \in {mailed, mailed \cup {<<job[w].number, job[w].row>>}}
    /\ Goto(w, "commit_receipt", job[w])
    /\ UNCHANGED <<payment, receipt, credited, year>>

CommitReceipt(w) ==
    /\ pc[w] = "commit_receipt"
    /\ receipt' = [receipt EXCEPT ![job[w].number] = job[w].row]
    /\ AfterReceipt(w)
    /\ UNCHANGED <<payment, mailed, credited, year>>

\* The last commit of record_payment.
CreditNotice(w) ==
    /\ pc[w] = "credit"
    /\ credited' = credited \cup {job[w].payment}
    /\ Respond(w)
    /\ UNCHANGED <<payment, receipt, mailed, year>>

\* email_receipt sends a committed receipt again.
EmailReceipt(n) ==
    /\ Served("email_receipt")
    /\ Taken(n)
    /\ mailed' = mailed \cup {<<n, receipt[n]>>}
    /\ UNCHANGED <<requests, payment, receipt, credited, year>>

\* verify_receipt, the chain aside: the row is as it was hashed, and its
\* payment, deleted or not, still has the amount.
ReceiptVerifies(n) == Taken(n) /\ payment[receipt[n].payment].amount = receipt[n].amount

NewYear ==
    /\ Served("new_year")
    /\ year < MaxYear
    /\ year' = year + 1
    /\ UNCHANGED <<requests, payment, receipt, mailed, credited>>

ReceiptsNext ==
    \/ \E w \in Workers, p \in Payments, m \in Methods, a \in Amounts :
          \/ RecordPayment(w, p, m, a)
          \/ CompleteCheckout(w, p, m, a)
    \/ \E p \in Payments, m \in Methods, a \in Amounts : UpdatePayment(p, m, a)
    \/ \E p \in Payments : DeletePayment(p)
    \/ \E w \in Workers :
          \/ NumberReceipt(w)
          \/ FlushReceipt(w)
          \/ MailReceipt(w)
          \/ CommitReceipt(w)
          \/ CreditNotice(w)
          \/ Die(w) /\ UNCHANGED receiptVars
    \/ \E n \in Numbers : EmailReceipt(n)
    \/ NewYear

-----------------------------------------------------------------------------

\* Counting never proposes a number that is taken, so a payment that is
\* receipted alone gets its receipt (_next_receipt_number).
NextReceiptNumberIsFree ==
    \A m \in Methods :
        NextReceiptNumber(m) \in Numbers => ~Taken(NextReceiptNumber(m))

\* A payment that stands is receipted once its request has answered, whatever
\* was deleted before; a failed receipt being silent, one without has lost its
\* number to another of its prefix, recorded at the same time
\* (issue_from_payment).
PaymentsAreReceipted ==
    (~load.fails /\ \A w \in Workers : ~Busy(w)) =>
        \A p \in Payments :
            payment[p].row = "live" =>
                \/ Receipted(p)
                \/ /\ load.overlap
                   /\ \/ "update_payment" \in load.uses
                      \/ \E n \in Numbers : Taken(n) /\ n[1] = PrefixOf[payment[p].method]

\* The QR code of a mailed receipt finds it, with the amount the mail states,
\* once the request that mailed it has finished, and the page confirms it for
\* as long as nobody edits the payment; only a request that dies between the
\* mail and the commit breaks this (_send_receipt_email, verify_receipt).
MailedReceiptsExist ==
    ~load.fails =>
        \A r \in mailed :
            \/ /\ receipt[r[1]] = r[2]
               /\ Uses("update_payment") \/ ReceiptVerifies(r[1])
            \/ \E w \in Workers : pc[w] = "commit_receipt" /\ job[w].number = r[1]

\* Numbering never gets stuck, payments that stand are receipted, and mailed
\* receipts are there to be verified (issue_from_payment, verify_receipt).
ReceiptsAreKept == NextReceiptNumberIsFree /\ PaymentsAreReceipted /\ MailedReceiptsExist
=============================================================================
