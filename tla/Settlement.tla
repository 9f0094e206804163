------------------------------ MODULE Settlement ------------------------------
(***************************************************************************)
(* Rent settlement: gateway checkouts, manual recordings and deletions of  *)
(* invoices, as requests served concurrently over one READ COMMITTED       *)
(* database (app/services/payment_gateway_service.py, payment_service.py,  *)
(* app/routers/invoices.py).                                               *)
(*                                                                         *)
(* A request is a worker with an ORM session.  It reads rows into the      *)
(* session, decides on those copies, and its commit writes back the        *)
(* columns it changed.  Two workers meet only in the database, at the row  *)
(* lock complete_checkout takes on the checkout.  Nothing locks the        *)
(* invoice between the read of its balance and the write of the new one.   *)
(*                                                                         *)
(* A payment row is abstracted to its effect: collected[i] is the total of *)
(* the payment rows written for invoice i, settlements[c] the number of    *)
(* them written for checkout c.                                            *)
(***************************************************************************)
EXTENDS Integers

CONSTANTS
    Workers,       \* requests that may be in flight at once
    Checkouts,     \* references of payment_checkouts rows
    Invoices,
    Total,         \* total_amount of each invoice
    Amounts,       \* amounts a payer or a landlord may ask for
    Provider,      \* payment_checkouts.provider of each reference
    EntryPoints,   \* the callers of complete_checkout the instance has
    MaxCollected,  \* bound: no manual recording beyond this total
    None           \* no row

ASSUME TotalAssumption == Total \in [Invoices -> Nat \ {0}]
ASSUME AmountsAssumption == Amounts \subseteq Nat \ {0}
ASSUME MaxCollectedAssumption == MaxCollected \in Nat
ASSUME NoneAssumption == None \notin Checkouts /\ None \notin Invoices

VARIABLES
    paid,          \* invoices.amount_paid
    balance,       \* invoices.balance_due
    invStatus,     \* invoices.status
    deleted,       \* invoices.is_deleted
    coStatus,      \* payment_checkouts.status, "none" before the row exists
    coInvoice,     \* payment_checkouts.invoice_id
    coAmount,      \* payment_checkouts.amount
    collected,     \* sum of payments.amount per invoice
    settlements,   \* number of payments rows per checkout
    receipts,      \* number of system_receipts rows per checkout
    asked,         \* checkouts the provider has been asked to collect
    notices,       \* verdicts the provider has sent; delivered in any order, any number of times
    pc,            \* where each worker's request stands
    job,           \* what each worker's session holds
    overlap        \* FALSE where a request is answered before the next one comes

invoiceVars  == <<paid, balance, invStatus, deleted>>
checkoutVars == <<coStatus, coInvoice, coAmount>>
paymentVars  == <<collected, settlements, receipts>>
providerVars == <<asked, notices>>
workerVars   == <<pc, job, overlap>>
vars == <<invoiceVars, checkoutVars, paymentVars, providerVars, workerVars>>

-----------------------------------------------------------------------------

InvoiceStatus  == {"sent", "partial", "paid", "cancelled"}
CheckoutStatus == {"none", "processing", "completed", "failed"}
Verdicts       == {"completed", "failed"}
Phases == {"idle", "initiate", "persist", "lock", "settle", "receipt",
           "manual", "delete"}

\* "unread": the session has not loaded the checkout yet.
Job == [checkout : Checkouts \cup {None},
        invoice  : Invoices \cup {None},
        amount   : Nat,
        verdict  : Verdicts,
        seen     : CheckoutStatus \cup {"unread"},
        paid     : Int,
        status   : InvoiceStatus]

Idle == [checkout |-> None, invoice |-> None, amount |-> 0,
         verdict |-> "completed", seen |-> "unread", paid |-> 0,
         status |-> "sent"]

TypeOK ==
    /\ paid \in [Invoices -> Int]
    /\ balance \in [Invoices -> Int]
    /\ invStatus \in [Invoices -> InvoiceStatus]
    /\ deleted \in [Invoices -> BOOLEAN]
    /\ coStatus \in [Checkouts -> CheckoutStatus]
    /\ coInvoice \in [Checkouts -> Invoices \cup {None}]
    /\ coAmount \in [Checkouts -> Nat]
    /\ collected \in [Invoices -> Nat]
    /\ settlements \in [Checkouts -> Nat]
    /\ receipts \in [Checkouts -> Nat]
    /\ asked \subseteq Checkouts
    /\ notices \subseteq Checkouts \X Verdicts
    /\ pc \in [Workers -> Phases]
    /\ job \in [Workers -> Job]
    /\ overlap \in BOOLEAN

Init ==
    /\ paid = [i \in Invoices |-> 0]
    /\ balance = Total
    /\ invStatus = [i \in Invoices |-> "sent"]
    /\ deleted = [i \in Invoices |-> FALSE]
    /\ coStatus = [c \in Checkouts |-> "none"]
    /\ coInvoice = [c \in Checkouts |-> None]
    /\ coAmount = [c \in Checkouts |-> 0]
    /\ collected = [i \in Invoices |-> 0]
    /\ settlements = [c \in Checkouts |-> 0]
    /\ receipts = [c \in Checkouts |-> 0]
    /\ asked = {}
    /\ notices = {}
    /\ pc = [w \in Workers |-> "idle"]
    /\ job = [w \in Workers |-> Idle]
    /\ overlap \in BOOLEAN

-----------------------------------------------------------------------------
(* Request plumbing.                                                       *)

Goto(w, phase, j) ==
    /\ pc' = [pc EXCEPT ![w] = phase]
    /\ job' = [job EXCEPT ![w] = j]
    /\ UNCHANGED overlap

\* The response is sent: the session closes and whatever it had not
\* committed is rolled back.
Respond(w) == Goto(w, "idle", Idle)

\* Mutant: a cancelled invoice still takes payments.
ClosedIfPaid(i) == invStatus[i] = "paid"

\* The invoice takes no further payment (the 409 of every payment path).
Closed(i) == invStatus[i] \in {"paid", "cancelled"}

\* The unit of work leaves a column out of its UPDATE when the value the
\* handler assigned equals the value the session had loaded.
WriteBack(assigned, loaded, current) ==
    IF assigned = loaded THEN current ELSE assigned

\* Mutant: the credit forgets what was paid before.
NewPaidForgetsEarlier(j) == j.amount

NewPaid(j) == j.paid + j.amount

NewStatus(due) == IF due <= 0 THEN "paid" ELSE "partial"

\* The effect of a payment of job[w].amount on its invoice, computed from
\* the copy of the invoice in w's session.
CreditInvoice(w) ==
    LET j == job[w]
        i == j.invoice
        due == Total[i] - NewPaid(j)
    IN  /\ paid' = [paid EXCEPT ![i] = NewPaid(j)]
        /\ balance' = [balance EXCEPT ![i] = due]
        /\ invStatus' = [invStatus EXCEPT
                            ![i] = WriteBack(NewStatus(due), j.status, @)]
        /\ collected' = [collected EXCEPT ![i] = @ + j.amount]
        /\ UNCHANGED deleted

-----------------------------------------------------------------------------
(* POST /payments/checkout/initiate.                                       *)

\* The tenant's invoice is read and checked; the new checkout row is flushed
\* as "pending", which no other session sees before the commit.
InitiateRead(w, c, i, amount) ==
    /\ pc[w] = "idle"
    /\ coStatus[c] = "none"
    /\ c \notin asked
    /\ \A v \in Workers : job[v].checkout # c
    /\ ~deleted[i]
    /\ ~Closed(i)
    /\ amount <= balance[i]
    /\ Goto(w, "initiate",
            [Idle EXCEPT !.checkout = c, !.invoice = i, !.amount = amount])
    /\ UNCHANGED <<invoiceVars, checkoutVars, paymentVars, providerVars>>

\* provider.initiate returns: the payer has been asked for the money.
ProviderAsks(w) ==
    /\ pc[w] = "initiate"
    /\ asked' = asked \cup {job[w].checkout}
    /\ Goto(w, "persist", job[w])
    /\ UNCHANGED <<invoiceVars, checkoutVars, paymentVars, notices>>

InitiateCommit(w) ==
    LET j == job[w] IN
    /\ pc[w] = "persist"
    /\ coStatus' = [coStatus EXCEPT ![j.checkout] = "processing"]
    /\ coInvoice' = [coInvoice EXCEPT ![j.checkout] = j.invoice]
    /\ coAmount' = [coAmount EXCEPT ![j.checkout] = j.amount]
    /\ Respond(w)
    /\ UNCHANGED <<invoiceVars, paymentVars, providerVars>>

-----------------------------------------------------------------------------
(* The payment provider, outside the program.                              *)

PayerApproves(c) ==
    /\ c \in asked
    /\ notices' = notices \cup {<<c, "completed">>}
    /\ UNCHANGED <<invoiceVars, checkoutVars, paymentVars, asked, workerVars>>

\* A decline may be followed by an approval on the same payment page.
PayerDeclines(c) ==
    /\ c \in asked
    /\ <<c, "completed">> \notin notices
    /\ notices' = notices \cup {<<c, "failed">>}
    /\ UNCHANGED <<invoiceVars, checkoutVars, paymentVars, asked, workerVars>>

-----------------------------------------------------------------------------
(* The callers of complete_checkout.                                       *)

\* handle_provider_webhook and try_settle_from_provider name three provider
\* classes their module never imports, so for those providers both raise
\* NameError before they reach a row.
ReadableProviders == {"mock"}

\* POST /payments/webhooks/{provider}: nothing is loaded before the lock.
\* A notice for a reference with no row is answered 404.
Webhook(w, c, verdict) ==
    /\ "webhook" \in EntryPoints
    /\ pc[w] = "idle"
    /\ <<c, verdict>> \in notices
    /\ Provider[c] \in ReadableProviders
    /\ coStatus[c] # "none"
    /\ Goto(w, "lock", [Idle EXCEPT !.checkout = c, !.verdict = verdict])
    /\ UNCHANGED <<invoiceVars, checkoutVars, paymentVars, providerVars>>

\* POST /payments/checkout/{reference}/simulate by the tenant: the access
\* check loads the checkout and keeps it in the session.
Simulate(w, c) ==
    /\ "simulate" \in EntryPoints
    /\ pc[w] = "idle"
    /\ coStatus[c] # "none"
    /\ Goto(w, "lock", [Idle EXCEPT !.checkout = c, !.seen = coStatus[c]])
    /\ UNCHANGED <<invoiceVars, checkoutVars, paymentVars, providerVars>>

\* POST /payments/checkout/{reference}/confirm-sui once the transfer is on
\* chain.  With a wallet address, link_wallet commits after the access check
\* and the commit expires the loaded checkout; without one it stays loaded.
ConfirmSui(w, c) ==
    /\ "confirm_sui" \in EntryPoints
    /\ pc[w] = "idle"
    /\ Provider[c] = "sui"
    /\ <<c, "completed">> \in notices
    /\ coStatus[c] \notin {"none", "completed"}
    /\ \E seen \in {coStatus[c], "unread"} :
          Goto(w, "lock", [Idle EXCEPT !.checkout = c, !.seen = seen])
    /\ UNCHANGED <<invoiceVars, checkoutVars, paymentVars, providerVars>>

-----------------------------------------------------------------------------
(* complete_checkout.                                                      *)

\* Mutant: the row is read without FOR UPDATE.
HoldsNoLock(w, c) == FALSE

\* SELECT ... FOR UPDATE: one worker at a time is past this point.
HoldsLock(w, c) == pc[w] = "settle" /\ job[w].checkout = c

\* Mutant: the status is not looked at again once the lock is granted.
SeenStatusAtArrival(w) ==
    IF job[w].seen = "unread" THEN "processing" ELSE job[w].seen

\* The locked row, as the session presents it: the query does not refresh an
\* object the session already holds.
SeenStatus(w) ==
    IF job[w].seen = "unread" THEN coStatus[job[w].checkout] ELSE job[w].seen

LockGranted(w) ==
    /\ pc[w] = "lock"
    /\ \A v \in Workers : ~HoldsLock(v, job[w].checkout)

AlreadyCompleted(w) ==
    /\ LockGranted(w)
    /\ SeenStatus(w) = "completed"
    /\ Respond(w)
    /\ UNCHANGED <<invoiceVars, checkoutVars, paymentVars, providerVars>>

MarkFailed(w) ==
    /\ LockGranted(w)
    /\ SeenStatus(w) # "completed"
    /\ job[w].verdict = "failed"
    /\ coStatus' = [coStatus EXCEPT ![job[w].checkout] = "failed"]
    /\ Respond(w)
    /\ UNCHANGED <<invoiceVars, coInvoice, coAmount, paymentVars, providerVars>>

\* Mutants: no comparison with the balance, and a strict one.
PayableIfOpen(i, amount) == ~Closed(i)
PayableBelowBalance(i, amount) == ~Closed(i) /\ amount < balance[i]

\* The guards of settle_invoice_payment, on the row as it is now.
Payable(i, amount) == ~Closed(i) /\ amount <= balance[i]

\* The invoice is read, without a lock, and passes the guards.
SettleRead(w) ==
    LET c == job[w].checkout
        i == coInvoice[c]
    IN  /\ LockGranted(w)
        /\ SeenStatus(w) # "completed"
        /\ job[w].verdict = "completed"
        /\ Payable(i, coAmount[c])
        /\ Goto(w, "settle", [job[w] EXCEPT !.invoice = i,
                                            !.amount = coAmount[c],
                                            !.paid = paid[i],
                                            !.status = invStatus[i]])
        /\ UNCHANGED <<invoiceVars, checkoutVars, paymentVars, providerVars>>

\* HTTPException out of settle_invoice_payment: the checkout keeps its status.
SettleRefused(w) ==
    LET c == job[w].checkout IN
    /\ LockGranted(w)
    /\ SeenStatus(w) # "completed"
    /\ job[w].verdict = "completed"
    /\ ~Payable(coInvoice[c], coAmount[c])
    /\ Respond(w)
    /\ UNCHANGED <<invoiceVars, checkoutVars, paymentVars, providerVars>>

\* Payment row, invoice columns and checkout row in one commit, which also
\* gives the lock back.
SettleCommit(w) ==
    LET c == job[w].checkout IN
    /\ pc[w] = "settle"
    /\ CreditInvoice(w)
    /\ settlements' = [settlements EXCEPT ![c] = @ + 1]
    /\ coStatus' = [coStatus EXCEPT ![c] = "completed"]
    /\ Goto(w, "receipt", job[w])
    /\ UNCHANGED <<coInvoice, coAmount, receipts, providerVars>>

\* The receipt is a second transaction; its failure is swallowed.
IssueReceipt(w) ==
    /\ pc[w] = "receipt"
    /\ receipts' = [receipts EXCEPT ![job[w].checkout] = @ + 1]
    /\ Respond(w)
    /\ UNCHANGED <<invoiceVars, checkoutVars, collected, settlements, providerVars>>

-----------------------------------------------------------------------------
(* The landlord's side: POST /invoices/{id}/payments and DELETE            *)
(* /invoices/{id}.                                                         *)

ManualRead(w, i, amount) ==
    /\ pc[w] = "idle"
    /\ ~deleted[i]
    /\ Payable(i, amount)
    /\ collected[i] + amount <= MaxCollected
    /\ Goto(w, "manual", [Idle EXCEPT !.invoice = i, !.amount = amount,
                                      !.paid = paid[i],
                                      !.status = invStatus[i]])
    /\ UNCHANGED <<invoiceVars, checkoutVars, paymentVars, providerVars>>

ManualCommit(w) ==
    /\ pc[w] = "manual"
    /\ CreditInvoice(w)
    /\ Respond(w)
    /\ UNCHANGED <<checkoutVars, settlements, receipts, providerVars>>

DeleteRead(w, i) ==
    /\ pc[w] = "idle"
    /\ invStatus[i] # "paid"
    /\ Goto(w, "delete",
            [Idle EXCEPT !.invoice = i, !.status = invStatus[i]])
    /\ UNCHANGED <<invoiceVars, checkoutVars, paymentVars, providerVars>>

DeleteCommit(w) ==
    LET j == job[w] IN
    /\ pc[w] = "delete"
    /\ deleted' = [deleted EXCEPT ![j.invoice] = TRUE]
    /\ invStatus' = [invStatus EXCEPT
                        ![j.invoice] = WriteBack("cancelled", j.status, @)]
    /\ Respond(w)
    /\ UNCHANGED <<paid, balance, checkoutVars, paymentVars, providerVars>>

-----------------------------------------------------------------------------

\* The process dies, the provider's call raises, or the client's transaction
\* is rolled back for any other reason.
Abort(w) ==
    /\ pc[w] # "idle"
    /\ Respond(w)
    /\ UNCHANGED <<invoiceVars, checkoutVars, paymentVars, providerVars>>

Request(w) ==
    /\ overlap \/ \A v \in Workers : pc[v] = "idle"
    /\ \/ \E c \in Checkouts, i \in Invoices, a \in Amounts :
             InitiateRead(w, c, i, a)
       \/ \E c \in Checkouts, v \in Verdicts : Webhook(w, c, v)
       \/ \E c \in Checkouts : Simulate(w, c)
       \/ \E c \in Checkouts : ConfirmSui(w, c)
       \/ \E i \in Invoices, a \in Amounts : ManualRead(w, i, a)
       \/ \E i \in Invoices : DeleteRead(w, i)

Complete(w) ==
    \/ AlreadyCompleted(w)
    \/ MarkFailed(w)
    \/ SettleRead(w)
    \/ SettleRefused(w)
    \/ SettleCommit(w)
    \/ IssueReceipt(w)

Proceed(w) ==
    \/ ProviderAsks(w)
    \/ InitiateCommit(w)
    \/ Complete(w)
    \/ ManualCommit(w)
    \/ DeleteCommit(w)

Next ==
    \/ \E w \in Workers : Request(w) \/ Proceed(w) \/ Abort(w)
    \/ \E c \in Checkouts : PayerApproves(c) \/ PayerDeclines(c)

Spec == Init /\ [][Next]_vars

\* The provider keeps redelivering an approval until it is answered, and no
\* request is cut off at the same point for ever.
DeliverApproval(c) == \E w \in Workers : Webhook(w, c, "completed")
ReadFor(c)   == \E w \in Workers : job[w].checkout = c /\ SettleRead(w)
CommitFor(c) == \E w \in Workers : job[w].checkout = c /\ SettleCommit(w)

Fairness ==
    /\ \A w \in Workers : WF_vars(Proceed(w))
    /\ \A c \in Checkouts : /\ SF_vars(DeliverApproval(c))
                            /\ SF_vars(ReadFor(c))
                            /\ SF_vars(CommitFor(c))

FairSpec == Spec /\ Fairness

-----------------------------------------------------------------------------
(* Safety.                                                                 *)

\* Two settlements that overwrite each other still write both money columns
\* from one copy of the row, and a copy admits no more than its own balance.
BooksBalance ==
    \A i \in Invoices :
        /\ paid[i] + balance[i] = Total[i]
        /\ 0 <= paid[i]
        /\ paid[i] <= Total[i]

\* An invoice is never credited with money no payment row accounts for.
CreditIsBacked == \A i \in Invoices : paid[i] <= collected[i]

\* An invoice is marked paid only when its payment rows cover its total, even
\* where a concurrent write has since put its balance back up.
PaidIsCollected ==
    \A i \in Invoices : invStatus[i] = "paid" => collected[i] >= Total[i]

\* A checkout is completed exactly when a payment row was written for it: no
\* interleaving of verdicts, retries and aborts separates the two.
CompletionHasPayment ==
    \A c \in Checkouts : coStatus[c] = "completed" <=> settlements[c] > 0

\* Whatever the interleaving, the money columns of an invoice agree and stay
\* within its total, they credit no more than its payment rows hold, it is
\* marked paid only when they cover it, and a checkout is completed exactly
\* when one of them is its own (settle_invoice_payment, record_payment,
\* complete_checkout).
BooksAreBacked ==
    BooksBalance /\ CreditIsBacked /\ PaidIsCollected /\ CompletionHasPayment

\* A receipt is only ever issued for a payment row that was committed.
ReceiptsHavePayments ==
    \A c \in Checkouts : receipts[c] <= settlements[c]

\* One checkout, one payment row.  The row lock gives this when every caller
\* of complete_checkout reaches the lock with nothing loaded.
SettledAtMostOnce == \A c \in Checkouts : settlements[c] <= 1

\* Every payment row is reflected in its invoice's amount_paid.
CollectedIsCredited == \A i \in Invoices : paid[i] = collected[i]

\* An invoice is marked paid exactly when nothing is due on it, and a deleted
\* invoice is cancelled.
StatusMatchesBooks ==
    \A i \in Invoices :
        /\ invStatus[i] = "paid" <=> balance[i] = 0
        /\ deleted[i] <=> invStatus[i] = "cancelled"

\* No receipt is issued twice for one payment row, however the requests
\* overlap; and when they do not, every payment row is credited and an
\* invoice's status says what its balance does (complete_checkout,
\* settle_invoice_payment).
BooksAreComplete ==
    /\ ReceiptsHavePayments
    /\ ~overlap => CollectedIsCredited /\ StatusMatchesBooks

\* A late "failed" notice never undoes a completed checkout.
CompletedIsFinal ==
    [][\A c \in Checkouts :
          coStatus[c] = "completed" => coStatus'[c] = "completed"]_vars

-----------------------------------------------------------------------------
(* Settlement as an implementation of InvoiceAccount.                      *)

\* What requests one at a time show; overlapping ones show an account that
\* nobody uses.
InSerial(value, unused) == IF overlap THEN unused ELSE value

\* An invoice's credit is its amount_paid, a checkout counts once it is
\* completed, and a deleted invoice is void.
Account == INSTANCE InvoiceAccount WITH
    credit <- InSerial(paid, [i \in Invoices |-> 0]),
    settled <- InSerial({c \in Checkouts : coStatus[c] = "completed"}, {}),
    voided <- InSerial({i \in Invoices : deleted[i]}, {})

\* When requests do not overlap, settlement is the account of InvoiceAccount:
\* every credit is one step within the balance, each checkout counts once,
\* and nothing is credited after a deletion (settle_invoice_payment,
\* record_payment, complete_checkout, delete_invoice).
ImplementsAccount == Account!Spec

-----------------------------------------------------------------------------
(* Liveness.                                                               *)

\* Once the payer has approved a checkout, the checkout is completed, unless
\* its invoice comes to owe less than the checkout asked for (docs/
\* PAYMENT_GATEWAY.md: "tenant approves on phone -> webhook or poll ->
\* invoice marked paid").
ApprovalSettles ==
    \A c \in Checkouts :
        (coStatus[c] # "none" /\ <<c, "completed">> \in notices)
            ~> \/ coStatus[c] = "completed"
               \/ /\ coStatus[c] # "none"
                  /\ \/ Closed(coInvoice[c])
                     \/ balance[coInvoice[c]] < coAmount[c]

=============================================================================
