-------------------------- MODULE Settlement_proofs --------------------------
(***************************************************************************)
(* Safety of Settlement for every number of workers, checkouts and         *)
(* invoices, every total and every provider.                               *)
(***************************************************************************)
EXTENDS Settlement, FiniteSetTheorems, TLAPS

-----------------------------------------------------------------------------
(* The inductive invariant.                                                *)

Initiating(w) == pc[w] \in {"initiate", "persist"}

\* What a session has loaded when its request stands at a phase.  A session
\* that will mark its checkout failed has loaded nothing before the lock, and
\* the copy of an invoice a session is about to write from was backed by
\* payment rows and leaves room for the amount, however old the copy is.
SessionOK(phase, j) ==
    /\ phase \in {"initiate", "persist", "lock", "settle", "receipt"}
          => j.checkout \in Checkouts
    /\ phase \in {"lock", "settle", "receipt"} => coStatus[j.checkout] # "none"
    /\ phase \in {"initiate", "persist", "settle", "manual", "delete"}
          => j.invoice \in Invoices
    /\ phase \in {"initiate", "persist", "settle", "manual"} => j.amount > 0
    /\ phase = "lock" /\ j.verdict = "failed" => j.seen = "unread"
    /\ phase \in {"settle", "manual"} =>
          /\ 0 <= j.paid
          /\ j.paid <= collected[j.invoice]
          /\ j.paid + j.amount <= Total[j.invoice]

Sessions == \A w \in Workers : SessionOK(pc[w], job[w])

\* A checkout row that exists names an invoice and an amount.
CheckoutRows ==
    \A c \in Checkouts :
        coStatus[c] # "none" => coInvoice[c] \in Invoices /\ coAmount[c] > 0

\* A reference is being created by one request only.
References ==
    \A w \in Workers :
        Initiating(w) =>
            /\ coStatus[job[w].checkout] = "none"
            /\ \A v \in Workers : job[v].checkout = job[w].checkout => v = w

Books == BooksBalance /\ CreditIsBacked /\ PaidIsCollected

IInv ==
    /\ TypeOK
    /\ Sessions
    /\ CheckoutRows
    /\ References
    /\ Books
    /\ CompletionHasPayment

USE TotalAssumption, AmountsAssumption, NoneAssumption

-----------------------------------------------------------------------------

\* A fresh worker satisfies the type of a session.
LEMMA IdleIsJob ==
    /\ Idle \in Job
    /\ Idle.checkout = None
    /\ Idle.verdict = "completed"
    /\ Idle.seen = "unread"
BY DEF Idle, Job, Verdicts, CheckoutStatus, InvoiceStatus

LEMMA InitHolds == Init => IInv
<1> SUFFICES ASSUME Init PROVE IInv
  OBVIOUS
<1>1. TypeOK
  BY IdleIsJob DEF Init, TypeOK, InvoiceStatus, CheckoutStatus, Phases
<1>2. Sessions /\ CheckoutRows /\ References
  BY DEF Init, Sessions, SessionOK, CheckoutRows, References, Initiating
<1>3. Books /\ CompletionHasPayment
  BY DEF Init, Books, BooksBalance, CreditIsBacked, PaidIsCollected,
         CompletionHasPayment
<1> QED
  BY <1>1, <1>2, <1>3 DEF IInv

-----------------------------------------------------------------------------
(* Steps that leave the database alone.                                    *)

\* A request that moves to another phase with a sound session disturbs no
\* other request, unless it takes a reference another one is creating.
LEMMA SessionMoves ==
    ASSUME IInv, NEW w \in Workers, NEW phase \in Phases, NEW j \in Job,
           Goto(w, phase, j),
           UNCHANGED <<invoiceVars, checkoutVars, paymentVars>>,
           asked' \subseteq Checkouts, UNCHANGED notices,
           SessionOK(phase, j),
           phase \in {"initiate", "persist"} =>
              /\ coStatus[j.checkout] = "none"
              /\ \A v \in Workers \ {w} : job[v].checkout # j.checkout,
           \/ phase \in {"initiate", "persist"}
           \/ j.checkout = None
           \/ coStatus[j.checkout] # "none"
    PROVE  IInv'
<1> USE DEF invoiceVars, checkoutVars, paymentVars
<1>0. TypeOK /\ pc \in [Workers -> Phases] /\ job \in [Workers -> Job]
  BY DEF IInv, TypeOK
<1>w. \A v \in Workers : /\ pc'[v] = IF v = w THEN phase ELSE pc[v]
                         /\ job'[v] = IF v = w THEN j ELSE job[v]
  BY <1>0 DEF Goto
<1>1. TypeOK'
  BY <1>0 DEF TypeOK, Goto
<1>2. Sessions'
  <2> SUFFICES ASSUME NEW v \in Workers PROVE SessionOK(pc[v], job[v])'
    BY DEF Sessions
  <2>1. SessionOK(pc[v], job[v])
    BY DEF IInv, Sessions
  <2> QED
    BY <1>w, <2>1 DEF SessionOK
<1>3. References'
  <2> SUFFICES ASSUME NEW u \in Workers, Initiating(u)',
                      NEW v \in Workers, job'[v].checkout = job'[u].checkout
               PROVE  coStatus'[job'[u].checkout] = "none" /\ v = u
    BY <1>w DEF References, Initiating
  <2>1. CASE u = w
    BY <1>w, <2>1 DEF Initiating
  <2>2. CASE u # w
    <3>1. /\ Initiating(u)
          /\ coStatus[job[u].checkout] = "none"
          /\ job[u].checkout \in Checkouts
      BY <1>w, <2>2 DEF IInv, References, Initiating, Sessions, SessionOK
    <3> QED
      BY <1>w, <2>2, <3>1 DEF IInv, References
  <2> QED
    BY <2>1, <2>2
<1>4. CheckoutRows' /\ Books' /\ CompletionHasPayment'
  BY DEF IInv, CheckoutRows, Books, BooksBalance, CreditIsBacked,
         PaidIsCollected, CompletionHasPayment
<1> QED
  BY <1>1, <1>2, <1>3, <1>4 DEF IInv

\* A response without a commit.
LEMMA ResponseSafe ==
    ASSUME IInv, NEW w \in Workers, Respond(w),
           UNCHANGED <<invoiceVars, checkoutVars, paymentVars, providerVars>>
    PROVE  IInv'
<1>1. SessionOK("idle", Idle)
  BY DEF SessionOK
<1> QED
  BY <1>1, IdleIsJob, SessionMoves
     DEF Respond, Phases, Idle, providerVars, IInv, TypeOK

LEMMA RequestSafe ==
    ASSUME IInv, NEW w \in Workers, Request(w) PROVE IInv'
<1> USE DEF providerVars
<1>t. TypeOK /\ CheckoutRows /\ Books
  BY DEF IInv
<1>1. ASSUME NEW c \in Checkouts, NEW i \in Invoices, NEW a \in Amounts,
             InitiateRead(w, c, i, a)
      PROVE  IInv'
  <2> DEFINE j == [Idle EXCEPT !.checkout = c, !.invoice = i, !.amount = a]
  <2>0. a \in Nat /\ a > 0
    OBVIOUS
  <2>1. j \in Job /\ j.checkout = c /\ j.invoice = i /\ j.amount = a
    BY <2>0, IdleIsJob DEF Job
  <2>2. SessionOK("initiate", j)
    BY <2>0, <2>1 DEF SessionOK
  <2>3. \A v \in Workers \ {w} : job[v].checkout # j.checkout
    BY <1>1, <2>1 DEF InitiateRead
  <2>4. /\ Goto(w, "initiate", j)
        /\ coStatus[j.checkout] = "none"
        /\ UNCHANGED <<invoiceVars, checkoutVars, paymentVars, asked, notices>>
    BY <1>1, <2>1 DEF InitiateRead
  <2>5. "initiate" \in Phases /\ asked' \subseteq Checkouts
    BY <1>t, <2>4 DEF Phases, TypeOK
  <2> HIDE DEF j
  <2> QED
    BY <2>1, <2>2, <2>3, <2>4, <2>5, SessionMoves
<1>2. ASSUME NEW c \in Checkouts, NEW v \in Verdicts, Webhook(w, c, v)
      PROVE  IInv'
  <2> DEFINE j == [Idle EXCEPT !.checkout = c, !.verdict = v]
  <2>1. j \in Job /\ j.checkout = c /\ SessionOK("lock", j)
    BY <1>2, IdleIsJob DEF Job, SessionOK, Webhook
  <2> QED
    BY <1>2, <1>t, <2>1, SessionMoves DEF Webhook, Phases, TypeOK
<1>3. ASSUME NEW c \in Checkouts, Simulate(w, c)
      PROVE  IInv'
  <2> DEFINE j == [Idle EXCEPT !.checkout = c, !.seen = coStatus[c]]
  <2>1. j \in Job /\ j.checkout = c /\ SessionOK("lock", j)
    BY <1>3, <1>t, IdleIsJob DEF Job, SessionOK, Simulate, TypeOK
  <2> QED
    BY <1>3, <1>t, <2>1, SessionMoves DEF Simulate, Phases, TypeOK
<1>4. ASSUME NEW c \in Checkouts, ConfirmSui(w, c)
      PROVE  IInv'
  <2>1. PICK seen \in {coStatus[c], "unread"} :
          Goto(w, "lock", [Idle EXCEPT !.checkout = c, !.seen = seen])
    BY <1>4 DEF ConfirmSui
  <2> DEFINE j == [Idle EXCEPT !.checkout = c, !.seen = seen]
  <2>2. j \in Job /\ j.checkout = c /\ SessionOK("lock", j)
    BY <1>4, <1>t, IdleIsJob DEF Job, SessionOK, ConfirmSui, TypeOK
  <2> QED
    BY <1>4, <1>t, <2>1, <2>2, SessionMoves DEF ConfirmSui, Phases, TypeOK
<1>5. ASSUME NEW i \in Invoices, NEW a \in Amounts, ManualRead(w, i, a)
      PROVE  IInv'
  <2> DEFINE j == [Idle EXCEPT !.invoice = i, !.amount = a,
                               !.paid = paid[i], !.status = invStatus[i]]
  <2>1. j \in Job /\ j.checkout = None
    BY <1>t, IdleIsJob DEF Job, TypeOK
  <2>2. SessionOK("manual", j)
    BY <1>5, <1>t, IdleIsJob DEF SessionOK, ManualRead, Payable, TypeOK, Books,
                      BooksBalance, CreditIsBacked
  <2> QED
    BY <1>5, <1>t, <2>1, <2>2, SessionMoves DEF ManualRead, Phases, TypeOK
<1>6. ASSUME NEW i \in Invoices, DeleteRead(w, i)
      PROVE  IInv'
  <2> DEFINE j == [Idle EXCEPT !.invoice = i, !.status = invStatus[i]]
  <2>1. j \in Job /\ j.checkout = None /\ SessionOK("delete", j)
    BY <1>t, IdleIsJob DEF Job, TypeOK, SessionOK
  <2> QED
    BY <1>6, <1>t, <2>1, SessionMoves DEF DeleteRead, Phases, TypeOK
<1> QED
  BY <1>1, <1>2, <1>3, <1>4, <1>5, <1>6 DEF Request

LEMMA ProviderAsksSafe ==
    ASSUME IInv, NEW w \in Workers, ProviderAsks(w) PROVE IInv'
<1>1. /\ TypeOK
      /\ job[w] \in Job
      /\ SessionOK("initiate", job[w])
      /\ coStatus[job[w].checkout] = "none"
      /\ \A v \in Workers \ {w} : job[v].checkout # job[w].checkout
  BY DEF IInv, TypeOK, Sessions, References, Initiating, ProviderAsks
<1>2. SessionOK("persist", job[w]) /\ asked' \subseteq Checkouts
  BY <1>1 DEF SessionOK, ProviderAsks, TypeOK
<1> QED
  BY <1>1, <1>2, SessionMoves DEF ProviderAsks, Phases

LEMMA SettleReadSafe ==
    ASSUME IInv, NEW w \in Workers, SettleRead(w) PROVE IInv'
<1> DEFINE c == job[w].checkout
           i == coInvoice[c]
           j == [job[w] EXCEPT !.invoice = i, !.amount = coAmount[c],
                               !.paid = paid[i], !.status = invStatus[i]]
<1>1. /\ TypeOK
      /\ job[w] \in Job
      /\ c \in Checkouts
      /\ coStatus[c] # "none"
      /\ i \in Invoices
      /\ coAmount[c] > 0
  BY DEF IInv, TypeOK, Sessions, SessionOK, CheckoutRows, SettleRead,
         LockGranted
<1>2. j \in Job /\ j.checkout = c
  BY <1>1 DEF Job, TypeOK
<1>3. SessionOK("settle", j)
  BY <1>1 DEF IInv, SessionOK, SettleRead, Payable, TypeOK, Job, Books,
              BooksBalance, CreditIsBacked
<1> QED
  BY <1>1, <1>2, <1>3, SessionMoves
     DEF SettleRead, Phases, TypeOK, providerVars

-----------------------------------------------------------------------------
(* Steps that write the database.                                          *)

\* What every step that ends a request leaves of the other requests.
LEMMA OthersKept ==
    ASSUME TypeOK, NEW w \in Workers, Respond(w)
    PROVE  /\ pc' \in [Workers -> Phases]
           /\ job' \in [Workers -> Job]
           /\ overlap' \in BOOLEAN
           /\ \A v \in Workers :
                 /\ pc'[v] = IF v = w THEN "idle" ELSE pc[v]
                 /\ job'[v] = IF v = w THEN Idle ELSE job[v]
BY IdleIsJob DEF TypeOK, Respond, Goto, Phases

LEMMA InitiateCommitSafe ==
    ASSUME IInv, NEW w \in Workers, InitiateCommit(w) PROVE IInv'
<1> DEFINE c == job[w].checkout
<1> USE DEF invoiceVars, paymentVars, providerVars
<1>0. /\ TypeOK
      /\ \A v \in Workers :
            /\ pc'[v] = IF v = w THEN "idle" ELSE pc[v]
            /\ job'[v] = IF v = w THEN Idle ELSE job[v]
  BY OthersKept DEF IInv, InitiateCommit
<1>1. /\ job[w] \in Job
      /\ c \in Checkouts
      /\ coStatus[c] = "none"
      /\ job[w].invoice \in Invoices
      /\ job[w].amount > 0
      /\ \A v \in Workers : job[v].checkout = c => v = w
  BY DEF IInv, TypeOK, Sessions, SessionOK, References, Initiating,
         InitiateCommit
<1>2. TypeOK'
  BY <1>0, <1>1, OthersKept DEF TypeOK, InitiateCommit, CheckoutStatus, Job
<1>3. Sessions'
  BY <1>0 DEF IInv, Sessions, SessionOK, InitiateCommit, TypeOK
<1>4. CheckoutRows'
  BY <1>0, <1>1 DEF IInv, TypeOK, CheckoutRows, InitiateCommit
<1>5. References'
  <2> SUFFICES ASSUME NEW u \in Workers, Initiating(u)'
               PROVE  /\ coStatus'[job'[u].checkout] = "none"
                      /\ \A v \in Workers :
                            job'[v].checkout = job'[u].checkout => v = u
    BY DEF References
  <2>1. u # w /\ Initiating(u)
    BY <1>0 DEF Initiating
  <2>2. /\ job[u].checkout \in Checkouts \ {c}
        /\ coStatus[job[u].checkout] = "none"
        /\ \A v \in Workers : job[v].checkout = job[u].checkout => v = u
    BY <1>1, <2>1 DEF IInv, References, Sessions, SessionOK, Initiating
  <2> QED
    BY <1>0, <2>1, <2>2, IdleIsJob DEF InitiateCommit, TypeOK
<1>6. Books'
  BY DEF IInv, Books, BooksBalance, CreditIsBacked, PaidIsCollected,
         InitiateCommit
<1>7. CompletionHasPayment'
  BY <1>0, <1>1 DEF IInv, TypeOK, CompletionHasPayment, InitiateCommit
<1> QED
  BY <1>2, <1>3, <1>4, <1>5, <1>6, <1>7 DEF IInv

LEMMA MarkFailedSafe ==
    ASSUME IInv, NEW w \in Workers, MarkFailed(w) PROVE IInv'
<1> DEFINE c == job[w].checkout
<1> USE DEF invoiceVars, paymentVars, providerVars
<1>0. /\ TypeOK
      /\ \A v \in Workers :
            /\ pc'[v] = IF v = w THEN "idle" ELSE pc[v]
            /\ job'[v] = IF v = w THEN Idle ELSE job[v]
  BY OthersKept DEF IInv, MarkFailed
\* Nothing was loaded before the lock: what the session sees is the row.
<1>1. c \in Checkouts /\ coStatus[c] \notin {"none", "completed"}
  BY DEF IInv, Sessions, SessionOK, MarkFailed, LockGranted, SeenStatus
<1>2. TypeOK'
  BY <1>0, OthersKept DEF TypeOK, MarkFailed, CheckoutStatus
<1>3. Sessions'
  BY <1>0 DEF IInv, Sessions, SessionOK, MarkFailed, TypeOK
<1>4. CheckoutRows'
  BY <1>0, <1>1 DEF IInv, TypeOK, CheckoutRows, MarkFailed
<1>5. References'
  BY <1>0, <1>1, IdleIsJob
     DEF IInv, References, Initiating, Sessions, SessionOK, MarkFailed, TypeOK
<1>6. Books'
  BY DEF IInv, Books, BooksBalance, CreditIsBacked, PaidIsCollected,
         MarkFailed
<1>7. CompletionHasPayment'
  BY <1>0, <1>1 DEF IInv, TypeOK, CompletionHasPayment, MarkFailed
<1> QED
  BY <1>2, <1>3, <1>4, <1>5, <1>6, <1>7 DEF IInv

\* A credit computed from a copy of the invoice, however old, keeps the books:
\* the copy was backed and left room for the amount.
LEMMA CreditSafe ==
    ASSUME TypeOK, Books, NEW w \in Workers, pc[w] \in {"settle", "manual"},
           SessionOK(pc[w], job[w]), CreditInvoice(w)
    PROVE  /\ paid' \in [Invoices -> Int]
           /\ balance' \in [Invoices -> Int]
           /\ invStatus' \in [Invoices -> InvoiceStatus]
           /\ collected' \in [Invoices -> Nat]
           /\ \A i \in Invoices : collected'[i] >= collected[i]
           /\ Books'
<1> DEFINE i == job[w].invoice
           newPaid == job[w].paid + job[w].amount
           newStatus == NewStatus(Total[i] - newPaid)
<1>1. /\ job[w] \in Job
      /\ i \in Invoices
      /\ Total[i] \in Nat
      /\ job[w].paid \in Int
      /\ job[w].amount \in Nat
      /\ 0 <= job[w].paid
      /\ job[w].paid <= collected[i]
      /\ newPaid <= Total[i]
  BY DEF TypeOK, SessionOK, Job
<1>2. /\ paid' = [paid EXCEPT ![i] = newPaid]
      /\ balance' = [balance EXCEPT ![i] = Total[i] - newPaid]
      /\ collected' = [collected EXCEPT ![i] = @ + job[w].amount]
  BY DEF CreditInvoice, NewPaid
<1>3. invStatus'[i] \in {newStatus, invStatus[i]}
  BY <1>1 DEF CreditInvoice, WriteBack, TypeOK, NewPaid
<1>4. \A k \in Invoices \ {i} : invStatus'[k] = invStatus[k]
  BY <1>1 DEF CreditInvoice, TypeOK
<1>5. invStatus' \in [Invoices -> InvoiceStatus]
  BY <1>1, <1>3, <1>4 DEF CreditInvoice, TypeOK, WriteBack, InvoiceStatus,
                            NewPaid, NewStatus
<1>6. /\ paid' \in [Invoices -> Int]
      /\ balance' \in [Invoices -> Int]
      /\ collected' \in [Invoices -> Nat]
  BY <1>1, <1>2 DEF TypeOK
<1>7. \A k \in Invoices : collected'[k] >= collected[k]
  BY <1>1, <1>2 DEF TypeOK
<1>8. BooksBalance'
  BY <1>1, <1>2 DEF TypeOK, Books, BooksBalance
<1>9. CreditIsBacked'
  BY <1>1, <1>2 DEF TypeOK, Books, CreditIsBacked
<1>10. PaidIsCollected'
  <2> SUFFICES ASSUME NEW k \in Invoices, invStatus'[k] = "paid"
               PROVE  collected'[k] >= Total[k]
    BY DEF PaidIsCollected
  <2>1. CASE invStatus[k] = "paid"
    BY <1>6, <1>7, <2>1 DEF Books, PaidIsCollected, TypeOK
  <2>2. CASE invStatus[k] # "paid"
    <3>1. k = i /\ newPaid >= Total[i]
      BY <1>1, <1>3, <1>4, <2>2 DEF NewStatus
    <3> QED
      BY <1>1, <1>2, <3>1 DEF TypeOK
  <2> QED
    BY <2>1, <2>2
<1> QED
  BY <1>5, <1>6, <1>7, <1>8, <1>9, <1>10 DEF Books

LEMMA SettleCommitSafe ==
    ASSUME IInv, NEW w \in Workers, SettleCommit(w) PROVE IInv'
<1> DEFINE c == job[w].checkout
<1>0. /\ TypeOK
      /\ \A v \in Workers : /\ pc'[v] = IF v = w THEN "receipt" ELSE pc[v]
                            /\ job'[v] = job[v]
  BY DEF IInv, TypeOK, SettleCommit, Goto
<1>1. c \in Checkouts /\ coStatus[c] # "none" /\ SessionOK("settle", job[w])
  BY DEF IInv, Sessions, SessionOK, SettleCommit
<1>2. /\ paid' \in [Invoices -> Int]
      /\ balance' \in [Invoices -> Int]
      /\ invStatus' \in [Invoices -> InvoiceStatus]
      /\ collected' \in [Invoices -> Nat]
      /\ \A i \in Invoices : collected'[i] >= collected[i]
      /\ Books'
  BY <1>0, <1>1, CreditSafe DEF IInv, SettleCommit
<1>3. TypeOK'
  BY <1>0, <1>1, <1>2
     DEF TypeOK, SettleCommit, CreditInvoice, Goto, CheckoutStatus, Phases,
         providerVars
<1>4. Sessions'
  <2> SUFFICES ASSUME NEW v \in Workers PROVE SessionOK(pc[v], job[v])'
    BY DEF Sessions
  <2>1. SessionOK(pc[v], job[v]) /\ job[v] \in Job
    BY DEF IInv, Sessions, TypeOK
  <2>2. CASE v = w
    BY <1>0, <1>1, <2>2 DEF SessionOK, SettleCommit, TypeOK
  <2>3. CASE v # w
    <3>1. coStatus'[job[v].checkout] # "none"
             \/ coStatus[job[v].checkout] = "none"
             \/ job[v].checkout \notin Checkouts
      BY <1>0, <1>1 DEF SettleCommit, TypeOK
    <3>2. job[v].invoice \in Invoices =>
             /\ collected[job[v].invoice] \in Nat
             /\ collected'[job[v].invoice] \in Nat
             /\ collected'[job[v].invoice] >= collected[job[v].invoice]
      BY <1>0, <1>2 DEF TypeOK
    <3> QED
      BY <1>0, <2>1, <2>3, <3>1, <3>2 DEF SessionOK, Job
  <2> QED
    BY <2>2, <2>3
<1>5. CheckoutRows'
  BY <1>0, <1>1 DEF IInv, TypeOK, CheckoutRows, SettleCommit
<1>6. References'
  <2> SUFFICES ASSUME NEW u \in Workers, Initiating(u)'
               PROVE  /\ coStatus'[job'[u].checkout] = "none"
                      /\ \A v \in Workers :
                            job'[v].checkout = job'[u].checkout => v = u
    BY DEF References
  <2>1. u # w /\ Initiating(u) /\ pc[w] = "settle"
    BY <1>0 DEF Initiating, SettleCommit
  <2>2. /\ coStatus[job[u].checkout] = "none"
        /\ \A v \in Workers : job[v].checkout = job[u].checkout => v = u
    BY <2>1 DEF IInv, References
  <2> QED
    BY <1>0, <1>1, <2>1, <2>2 DEF SettleCommit, TypeOK
<1>7. CompletionHasPayment'
  BY <1>0, <1>1 DEF IInv, TypeOK, CompletionHasPayment, SettleCommit
<1> QED
  BY <1>2, <1>3, <1>4, <1>5, <1>6, <1>7 DEF IInv

\* What an ended request leaves true when no checkout row was written.
LEMMA ResponseKeeps ==
    ASSUME IInv, NEW w \in Workers, Respond(w), UNCHANGED checkoutVars,
           UNCHANGED settlements, collected' \in [Invoices -> Nat],
           \A i \in Invoices : collected'[i] >= collected[i]
    PROVE  Sessions' /\ CheckoutRows' /\ References' /\ CompletionHasPayment'
<1> USE DEF checkoutVars
<1>0. /\ TypeOK
      /\ \A v \in Workers :
            /\ pc'[v] = IF v = w THEN "idle" ELSE pc[v]
            /\ job'[v] = IF v = w THEN Idle ELSE job[v]
  BY OthersKept DEF IInv
<1>1. Sessions'
  <2> SUFFICES ASSUME NEW v \in Workers PROVE SessionOK(pc[v], job[v])'
    BY DEF Sessions
  <2>1. SessionOK(pc[v], job[v]) /\ job[v] \in Job
    BY DEF IInv, Sessions, TypeOK
  <2>2. CASE v = w
    BY <1>0, <2>2 DEF SessionOK
  <2>3. CASE v # w
    <3>1. job[v].invoice \in Invoices =>
             /\ collected[job[v].invoice] \in Nat
             /\ collected'[job[v].invoice] \in Nat
             /\ collected'[job[v].invoice] >= collected[job[v].invoice]
      BY <1>0 DEF TypeOK
    <3> QED
      BY <1>0, <2>1, <2>3, <3>1 DEF SessionOK, Job
  <2> QED
    BY <2>2, <2>3
<1>2. References'
  BY <1>0, IdleIsJob
     DEF IInv, References, Initiating, Sessions, SessionOK, TypeOK
<1>3. CheckoutRows' /\ CompletionHasPayment'
  BY DEF IInv, CheckoutRows, CompletionHasPayment
<1> QED
  BY <1>1, <1>2, <1>3

LEMMA IssueReceiptSafe ==
    ASSUME IInv, NEW w \in Workers, IssueReceipt(w) PROVE IInv'
<1>1. /\ TypeOK
      /\ job[w].checkout \in Checkouts
      /\ \A i \in Invoices : collected[i] \in Int
  BY DEF IInv, TypeOK, Sessions, SessionOK, IssueReceipt
<1>2. TypeOK'
  BY <1>1, OthersKept
     DEF TypeOK, IssueReceipt, invoiceVars, checkoutVars, providerVars
<1>3. Sessions' /\ CheckoutRows' /\ References' /\ CompletionHasPayment'
  BY <1>1, <1>2, ResponseKeeps DEF IssueReceipt, TypeOK
<1>4. Books'
  BY DEF IInv, Books, BooksBalance, CreditIsBacked, PaidIsCollected,
         IssueReceipt, invoiceVars
<1> QED
  BY <1>2, <1>3, <1>4 DEF IInv

LEMMA ManualCommitSafe ==
    ASSUME IInv, NEW w \in Workers, ManualCommit(w) PROVE IInv'
<1>1. TypeOK /\ SessionOK(pc[w], job[w])
  BY DEF IInv, Sessions
<1>2. /\ paid' \in [Invoices -> Int]
      /\ balance' \in [Invoices -> Int]
      /\ invStatus' \in [Invoices -> InvoiceStatus]
      /\ collected' \in [Invoices -> Nat]
      /\ \A i \in Invoices : collected'[i] >= collected[i]
      /\ Books'
  BY <1>1, CreditSafe DEF IInv, ManualCommit
<1>3. TypeOK'
  BY <1>1, <1>2, OthersKept
     DEF TypeOK, ManualCommit, CreditInvoice, checkoutVars, providerVars
<1>4. Sessions' /\ CheckoutRows' /\ References' /\ CompletionHasPayment'
  BY <1>2, ResponseKeeps DEF ManualCommit
<1> QED
  BY <1>2, <1>3, <1>4 DEF IInv

LEMMA DeleteCommitSafe ==
    ASSUME IInv, NEW w \in Workers, DeleteCommit(w) PROVE IInv'
<1> USE DEF checkoutVars, paymentVars, providerVars
<1>1. TypeOK /\ job[w].invoice \in Invoices
  BY DEF IInv, Sessions, SessionOK, DeleteCommit
<1>2. TypeOK' /\ \A i \in Invoices : collected[i] \in Int
  BY <1>1, OthersKept DEF TypeOK, DeleteCommit, WriteBack, InvoiceStatus
<1>3. Sessions' /\ CheckoutRows' /\ References' /\ CompletionHasPayment'
  BY <1>1, <1>2, ResponseKeeps DEF DeleteCommit, TypeOK
<1>4. Books'
  BY <1>1 DEF IInv, TypeOK, Books, BooksBalance, CreditIsBacked,
              PaidIsCollected, DeleteCommit, WriteBack
<1> QED
  BY <1>2, <1>3, <1>4 DEF IInv

LEMMA ProviderSafe ==
    ASSUME IInv, NEW c \in Checkouts, PayerApproves(c) \/ PayerDeclines(c)
    PROVE  IInv'
<1> USE DEF invoiceVars, checkoutVars, paymentVars, workerVars
<1>1. TypeOK'
  BY DEF IInv, TypeOK, PayerApproves, PayerDeclines, Verdicts
<1>2. Sessions' /\ CheckoutRows' /\ References'
  BY DEF IInv, Sessions, SessionOK, CheckoutRows, References, Initiating,
         PayerApproves, PayerDeclines
<1>3. Books' /\ CompletionHasPayment'
  BY DEF IInv, Books, BooksBalance, CreditIsBacked, PaidIsCollected,
         CompletionHasPayment, PayerApproves, PayerDeclines
<1> QED
  BY <1>1, <1>2, <1>3 DEF IInv

-----------------------------------------------------------------------------
(* The theorems.                                                           *)

LEMMA StepSafe == IInv /\ [Next]_vars => IInv'
<1> SUFFICES ASSUME IInv, [Next]_vars PROVE IInv'
  OBVIOUS
<1>1. ASSUME NEW w \in Workers, Proceed(w) PROVE IInv'
  <2>1. ASSUME AlreadyCompleted(w) \/ SettleRefused(w) PROVE IInv'
    BY <2>1, ResponseSafe DEF AlreadyCompleted, SettleRefused
  <2> QED
    BY <1>1, <2>1, ProviderAsksSafe, InitiateCommitSafe, MarkFailedSafe,
       SettleReadSafe, SettleCommitSafe, IssueReceiptSafe, ManualCommitSafe,
       DeleteCommitSafe
       DEF Proceed, Complete
<1>2. ASSUME NEW w \in Workers, Abort(w) PROVE IInv'
  BY <1>2, ResponseSafe DEF Abort
<1>3. CASE UNCHANGED vars
  BY <1>3
     DEF vars, invoiceVars, checkoutVars, paymentVars, providerVars,
         workerVars, IInv, TypeOK, Sessions, SessionOK, CheckoutRows,
         References, Initiating, Books, BooksBalance, CreditIsBacked,
         PaidIsCollected, CompletionHasPayment
<1> QED
  BY <1>1, <1>2, <1>3, RequestSafe, ProviderSafe DEF Next

LEMMA InvariantHolds == Spec => []IInv
BY InitHolds, StepSafe, PTL DEF Spec

\* Every variable keeps its type, whatever requests the workers serve.
THEOREM TypeCorrect == Spec => []TypeOK
<1>1. IInv => TypeOK
  BY DEF IInv
<1> QED
  BY <1>1, InvariantHolds, PTL

\* For every number of concurrent requests, amount_paid and balance_due of an
\* invoice add up to its total and neither leaves 0 .. total_amount.
THEOREM BooksStayBalanced == Spec => []BooksBalance
<1>1. IInv => BooksBalance
  BY DEF IInv, Books
<1> QED
  BY <1>1, InvariantHolds, PTL

\* No interleaving credits an invoice with money that no payment row holds.
THEOREM CreditStaysBacked == Spec => []CreditIsBacked
<1>1. IInv => CreditIsBacked
  BY DEF IInv, Books
<1> QED
  BY <1>1, InvariantHolds, PTL

\* An invoice marked paid has been collected in full, even where lost updates
\* have left its balance wrong.
THEOREM PaidMeansCollected == Spec => []PaidIsCollected
<1>1. IInv => PaidIsCollected
  BY DEF IInv, Books
<1> QED
  BY <1>1, InvariantHolds, PTL

\* A checkout is completed exactly when a payment row was written for it.
THEOREM CompletionMeansPayment == Spec => []CompletionHasPayment
<1>1. IInv => CompletionHasPayment
  BY DEF IInv
<1> QED
  BY <1>1, InvariantHolds, PTL

\* The four together: the books are backed by payment rows, for any number of
\* workers, checkouts and invoices.
THEOREM BooksStayBacked == Spec => []BooksAreBacked
<1>1. BooksBalance /\ CreditIsBacked /\ PaidIsCollected /\ CompletionHasPayment
          <=> BooksAreBacked
  BY DEF BooksAreBacked
<1> QED
  BY <1>1, BooksStayBalanced, CreditStaysBacked, PaidMeansCollected,
     CompletionMeansPayment, PTL

\* No step takes a completed checkout back: a failed notice that arrives after
\* the completion is read under the row lock.
THEOREM CompletionIsFinal == Spec => CompletedIsFinal
<1> DEFINE Keeps == \A c \in Checkouts :
                       coStatus[c] = "completed" => coStatus'[c] = "completed"
<1>1. IInv /\ [Next]_vars => [Keeps]_vars
  <2> SUFFICES ASSUME IInv, Next PROVE Keeps
    BY DEF vars
  <2> USE DEF checkoutVars
  <2>1. ASSUME NEW w \in Workers, Request(w) PROVE Keeps
    BY <2>1
       DEF Request, InitiateRead, Webhook, Simulate, ConfirmSui, ManualRead,
           DeleteRead
  <2>2. ASSUME NEW w \in Workers, InitiateCommit(w) PROVE Keeps
    BY <2>2
       DEF IInv, References, Initiating, InitiateCommit, TypeOK
  <2>3. ASSUME NEW w \in Workers, MarkFailed(w) PROVE Keeps
    BY <2>3
       DEF IInv, Sessions, SessionOK, MarkFailed, LockGranted, SeenStatus,
           TypeOK
  <2>4. ASSUME NEW w \in Workers, SettleCommit(w) PROVE Keeps
    BY <2>4 DEF IInv, SettleCommit, TypeOK
  <2>5. ASSUME NEW w \in Workers,
               \/ ProviderAsks(w) \/ AlreadyCompleted(w) \/ SettleRead(w)
               \/ SettleRefused(w) \/ IssueReceipt(w) \/ ManualCommit(w)
               \/ DeleteCommit(w) \/ Abort(w)
        PROVE  Keeps
    BY <2>5
       DEF ProviderAsks, AlreadyCompleted, SettleRead, SettleRefused,
           IssueReceipt, ManualCommit, DeleteCommit, Abort
  <2>6. ASSUME NEW c \in Checkouts, PayerApproves(c) \/ PayerDeclines(c)
        PROVE  Keeps
    BY <2>6 DEF PayerApproves, PayerDeclines
  <2> QED
    BY <2>1, <2>2, <2>3, <2>4, <2>5, <2>6 DEF Next, Proceed, Complete
<1> QED
  BY <1>1, InvariantHolds, PTL DEF Spec, CompletedIsFinal

-----------------------------------------------------------------------------
(* One payment per checkout, when webhooks are the only callers.           *)

\* A session waiting for the lock has loaded nothing; at most one holds the
\* lock of a checkout, and no payment has been written for it.
LockInv ==
    /\ \A w \in Workers : pc[w] = "lock" => job[w].seen = "unread"
    /\ \A w \in Workers : pc[w] = "settle" =>
          /\ settlements[job[w].checkout] = 0
          /\ \A v \in Workers : HoldsLock(v, job[w].checkout) => v = w
    /\ SettledAtMostOnce

LEMMA LockStep ==
    ASSUME EntryPoints = {"webhook"}, IInv, LockInv, [Next]_vars
    PROVE  LockInv'
<1> USE DEF HoldsLock
<1>0. /\ TypeOK
      /\ pc \in [Workers -> Phases]
      /\ job \in [Workers -> Job]
      /\ \A w \in Workers :
            pc[w] = "settle" => job[w].checkout \in Checkouts
  BY DEF IInv, TypeOK, Sessions, SessionOK
\* A request that goes anywhere but to the lock or to the settlement.
<1>1. ASSUME NEW w \in Workers, NEW phase \in Phases \ {"lock", "settle"},
             NEW j, Goto(w, phase, j), settlements' = settlements
      PROVE  LockInv'
  <2>1. \A v \in Workers : /\ pc'[v] = IF v = w THEN phase ELSE pc[v]
                           /\ v # w => job'[v] = job[v]
    BY <1>0, <1>1 DEF Goto
  <2> QED
    BY <1>1, <2>1 DEF LockInv, SettledAtMostOnce
<1>2. ASSUME NEW w \in Workers, NEW c \in Checkouts, NEW verdict \in Verdicts,
             Webhook(w, c, verdict)
      PROVE  LockInv'
  <2> DEFINE j == [Idle EXCEPT !.checkout = c, !.verdict = verdict]
  <2>1. j.seen = "unread"
    BY IdleIsJob DEF Job
  <2>2. \A v \in Workers : /\ pc'[v] = IF v = w THEN "lock" ELSE pc[v]
                           /\ job'[v] = IF v = w THEN j ELSE job[v]
    BY <1>0, <1>2 DEF Webhook, Goto
  <2>3. settlements' = settlements
    BY <1>2 DEF Webhook, paymentVars
  <2> HIDE DEF j
  <2> QED
    BY <2>1, <2>2, <2>3 DEF LockInv, SettledAtMostOnce
<1>3. ASSUME NEW w \in Workers, SettleRead(w)
      PROVE  LockInv'
  <2> DEFINE c == job[w].checkout
  <2>1. \A v \in Workers : /\ pc'[v] = IF v = w THEN "settle" ELSE pc[v]
                           /\ job'[v].checkout = job[v].checkout
                           /\ v # w => job'[v] = job[v]
    BY <1>0, <1>3 DEF SettleRead, Goto, Job
  <2>2. \A v \in Workers : ~HoldsLock(v, c)
    BY <1>3 DEF SettleRead, LockGranted
  <2>3. c \in Checkouts /\ coStatus[c] # "completed"
    BY <1>3
       DEF IInv, Sessions, SessionOK, LockInv, SettleRead, LockGranted,
           SeenStatus
  <2>4. settlements[c] = 0
    BY <1>0, <2>3 DEF IInv, CompletionHasPayment, TypeOK
  <2>5. settlements' = settlements
    BY <1>3 DEF SettleRead, paymentVars
  <2> QED
    BY <2>1, <2>2, <2>4, <2>5 DEF LockInv, SettledAtMostOnce
<1>4. ASSUME NEW w \in Workers, SettleCommit(w)
      PROVE  LockInv'
  <2> DEFINE c == job[w].checkout
  <2>1. \A v \in Workers : /\ pc'[v] = IF v = w THEN "receipt" ELSE pc[v]
                           /\ job'[v] = job[v]
    BY <1>0, <1>4 DEF SettleCommit, Goto
  <2>2. c \in Checkouts /\ settlements[c] = 0
    BY <1>0, <1>4 DEF LockInv, SettleCommit
  <2>3. /\ settlements'[c] = 1
        /\ \A d \in Checkouts \ {c} : settlements'[d] = settlements[d]
    BY <1>0, <1>4, <2>2 DEF SettleCommit, TypeOK
  <2>4. \A v \in Workers : pc'[v] = "settle" => job[v].checkout # c
    BY <1>4, <2>1 DEF LockInv, SettleCommit
  <2> QED
    BY <1>0, <2>1, <2>2, <2>3, <2>4 DEF LockInv, SettledAtMostOnce
<1>5. ASSUME NEW w \in Workers, Request(w)
      PROVE  LockInv'
  <2>1. ASSUME NEW c \in Checkouts, Simulate(w, c) \/ ConfirmSui(w, c)
        PROVE  FALSE
    BY <2>1 DEF Simulate, ConfirmSui
  <2>2. ASSUME NEW c \in Checkouts, NEW i \in Invoices, NEW a \in Amounts,
               InitiateRead(w, c, i, a)
        PROVE  LockInv'
    BY <1>1, <2>2 DEF InitiateRead, Phases, paymentVars
  <2>3. ASSUME NEW i \in Invoices, NEW a \in Amounts, ManualRead(w, i, a)
        PROVE  LockInv'
    BY <1>1, <2>3 DEF ManualRead, Phases, paymentVars
  <2>4. ASSUME NEW i \in Invoices, DeleteRead(w, i)
        PROVE  LockInv'
    BY <1>1, <2>4 DEF DeleteRead, Phases, paymentVars
  <2> QED
    BY <1>2, <1>5, <2>1, <2>2, <2>3, <2>4 DEF Request
<1>6. ASSUME NEW w \in Workers,
             \/ ProviderAsks(w) \/ InitiateCommit(w) \/ AlreadyCompleted(w)
             \/ MarkFailed(w) \/ SettleRefused(w) \/ IssueReceipt(w)
             \/ ManualCommit(w) \/ DeleteCommit(w) \/ Abort(w)
      PROVE  LockInv'
  <2>1. ASSUME Respond(w), settlements' = settlements
        PROVE  LockInv'
    BY <1>1, <2>1 DEF Respond, Phases
  <2>2. ASSUME ProviderAsks(w) PROVE LockInv'
    BY <1>1, <2>2 DEF ProviderAsks, Phases, paymentVars
  <2> QED
    BY <1>6, <2>1, <2>2
       DEF InitiateCommit, AlreadyCompleted, MarkFailed, SettleRefused,
           IssueReceipt, ManualCommit, DeleteCommit, Abort, paymentVars
<1>7. ASSUME NEW c \in Checkouts, PayerApproves(c) \/ PayerDeclines(c)
      PROVE  LockInv'
  BY <1>7
     DEF PayerApproves, PayerDeclines, paymentVars, workerVars, LockInv,
         SettledAtMostOnce
<1>8. CASE UNCHANGED vars
  BY <1>8 DEF vars, paymentVars, workerVars, LockInv, SettledAtMostOnce
<1> QED
  BY <1>3, <1>4, <1>5, <1>6, <1>7, <1>8 DEF Next, Proceed, Complete

\* Where webhooks are the only callers of complete_checkout, the row lock
\* makes any number of deliveries of a notice, to any number of workers, write
\* one payment row per checkout.
THEOREM WebhooksSettleOnce ==
    ASSUME EntryPoints = {"webhook"}
    PROVE  Spec => []SettledAtMostOnce
<1>1. Init => LockInv
  BY DEF Init, LockInv, SettledAtMostOnce, HoldsLock
<1>2. IInv /\ LockInv /\ [Next]_vars => LockInv'
  BY LockStep
<1>3. LockInv => SettledAtMostOnce
  BY DEF LockInv
<1> QED
  BY <1>1, <1>2, <1>3, InvariantHolds, PTL DEF Spec

-----------------------------------------------------------------------------
(* Requests one at a time.                                                 *)

\* Requests do not overlap, and one at most is being served.
Alone ==
    /\ ~overlap
    /\ \A v, w \in Workers : pc[v] # "idle" /\ pc[w] # "idle" => v = w

\* The request that moves is the one being served, or the next.
Mover(w) == pc[w] # "idle" \/ \A v \in Workers : pc[v] = "idle"

\* What a session has read is still what is there.
Fresh(phase, j) ==
    /\ phase = "lock" => j.seen \in {"unread", coStatus[j.checkout]}
    /\ phase = "settle" => coStatus[j.checkout] # "completed"
    /\ phase \in {"settle", "manual"} =>
          /\ j.paid = paid[j.invoice] /\ j.status = invStatus[j.invoice]
          /\ ~Closed(j.invoice)
    /\ phase = "delete" =>
          j.status = invStatus[j.invoice] /\ invStatus[j.invoice] # "paid"

Current == Alone /\ \A w \in Workers : Fresh(pc[w], job[w])

SerialInv ==
    /\ IInv
    /\ Current
    /\ StatusMatchesBooks
    /\ CollectedIsCredited
    /\ SettledAtMostOnce

LEMMA SerialInit == Init /\ ~overlap => SerialInv
<1> SUFFICES ASSUME Init, ~overlap PROVE SerialInv
  OBVIOUS
<1>1. Current
  BY DEF Init, Current, Alone, Fresh
<1>2. ASSUME NEW i \in Invoices
      PROVE  /\ invStatus[i] = "paid" <=> balance[i] = 0
             /\ deleted[i] <=> invStatus[i] = "cancelled"
  <2>1. invStatus[i] = "sent" /\ balance[i] # 0
    BY DEF Init
  <2>2. ~deleted[i]
    BY DEF Init
  <2>3. QED
    BY <2>1, <2>2
<1>3. CollectedIsCredited /\ SettledAtMostOnce
  BY DEF Init, CollectedIsCredited, SettledAtMostOnce
<1>4. QED
  BY <1>1, <1>2, <1>3, InitHolds DEF SerialInv, StatusMatchesBooks

\* The worker that moves is the only one.
LEMMA OnlyOne ==
    ASSUME Alone, IInv, NEW w \in Workers, Mover(w), NEW phase, NEW j,
           Goto(w, phase, j), Fresh(phase, j)'
    PROVE  Current'
<1>1. /\ ~overlap'
      /\ pc'[w] = phase /\ job'[w] = j
      /\ \A v \in Workers \ {w} : pc[v] = "idle" /\ pc'[v] = "idle"
  BY DEF IInv, TypeOK, Goto, Alone, Mover
<1>2. Alone'
  BY <1>1 DEF Alone
<1>3. \A v \in Workers : Fresh(pc[v], job[v])'
  BY <1>1 DEF Fresh, Closed
<1>4. QED
  BY <1>2, <1>3 DEF Current

-----------------------------------------------------------------------------
(* Steps that change no invoice and complete no checkout.                  *)

Unseen == UNCHANGED <<paid, balance, invStatus, deleted, collected, settlements>>

LEMMA RequestFresh ==
    ASSUME SerialInv, NEW w \in Workers, Request(w)
    PROVE  Current' /\ Unseen /\ UNCHANGED coStatus
<1> USE DEF invoiceVars, checkoutVars, paymentVars, providerVars
<1>0. IInv /\ Alone /\ Mover(w) /\ Unseen /\ UNCHANGED coStatus
  BY DEF SerialInv, Current, Alone, Mover, Unseen, Request, InitiateRead, Webhook,
         Simulate, ConfirmSui, ManualRead, DeleteRead
<1>3. ASSUME NEW c \in Checkouts, NEW i \in Invoices, NEW a \in Amounts,
             InitiateRead(w, c, i, a)
      PROVE  Current'
  BY <1>0, <1>3, OnlyOne DEF InitiateRead, Fresh
<1>4. ASSUME NEW c \in Checkouts, NEW v \in Verdicts, Webhook(w, c, v)
      PROVE  Current'
  <2> DEFINE j == [Idle EXCEPT !.checkout = c, !.verdict = v]
  <2>1. j.seen = "unread"
    BY IdleIsJob DEF Job
  <2>2. Goto(w, "lock", j)
    BY <1>4 DEF Webhook
  <2> HIDE DEF j
  <2>3. QED
    BY <1>0, <2>1, <2>2, OnlyOne DEF Fresh
<1>5. ASSUME NEW c \in Checkouts, Simulate(w, c) \/ ConfirmSui(w, c)
      PROVE  Current'
  <2>1. PICK seen \in {coStatus[c], "unread"} :
            Goto(w, "lock", [Idle EXCEPT !.checkout = c, !.seen = seen])
    BY <1>5 DEF Simulate, ConfirmSui
  <2> DEFINE j == [Idle EXCEPT !.checkout = c, !.seen = seen]
  <2>2. j.seen = seen /\ j.checkout = c
    BY IdleIsJob DEF Job
  <2> HIDE DEF j
  <2>3. QED
    BY <1>0, <2>1, <2>2, OnlyOne DEF Fresh, j
<1>6. ASSUME NEW i \in Invoices, NEW a \in Amounts, ManualRead(w, i, a)
      PROVE  Current'
  <2> DEFINE j == [Idle EXCEPT !.invoice = i, !.amount = a, !.paid = paid[i],
                               !.status = invStatus[i]]
  <2>1. j.invoice = i /\ j.paid = paid[i] /\ j.status = invStatus[i]
    BY IdleIsJob DEF Job
  <2>2. Goto(w, "manual", j) /\ ~Closed(i)
    BY <1>6 DEF ManualRead, Payable
  <2> HIDE DEF j
  <2>3. QED
    BY <1>0, <2>1, <2>2, OnlyOne DEF Fresh, Closed, Unseen
<1>7. ASSUME NEW i \in Invoices, DeleteRead(w, i)
      PROVE  Current'
  <2> DEFINE j == [Idle EXCEPT !.invoice = i, !.status = invStatus[i]]
  <2>1. j.invoice = i /\ j.status = invStatus[i]
    BY IdleIsJob DEF Job
  <2>2. Goto(w, "delete", j) /\ invStatus[i] # "paid"
    BY <1>7 DEF DeleteRead
  <2> HIDE DEF j
  <2>3. QED
    BY <1>0, <2>1, <2>2, OnlyOne DEF Fresh, Unseen
<1>8. QED
  BY <1>0, <1>3, <1>4, <1>5, <1>6, <1>7 DEF Request

LEMMA ResponseFresh ==
    ASSUME Alone, IInv, NEW w \in Workers, pc[w] # "idle", Respond(w)
    PROVE  Current'
BY OnlyOne DEF Mover, Respond, Fresh

\* The other steps between a request and its commit, and the payer's.
LEMMA OtherStepsFresh ==
    ASSUME SerialInv, NEW w \in Workers,
           \/ ProviderAsks(w) \/ AlreadyCompleted(w) \/ SettleRead(w)
           \/ SettleRefused(w) \/ IssueReceipt(w) \/ Abort(w)
    PROVE  Current' /\ Unseen /\ UNCHANGED coStatus
<1> USE DEF invoiceVars, checkoutVars, paymentVars, providerVars
<1>0. IInv /\ Alone /\ pc[w] # "idle" /\ Mover(w) /\ Unseen /\ UNCHANGED coStatus
  BY DEF SerialInv, Current, Mover, Unseen, ProviderAsks, AlreadyCompleted,
         SettleRead, SettleRefused, IssueReceipt, LockGranted, Abort
<1>1. CASE Respond(w)
  BY <1>0, <1>1, ResponseFresh
<1>2. CASE ProviderAsks(w)
  BY <1>0, <1>2, OnlyOne DEF ProviderAsks, Fresh
<1>3. CASE SettleRead(w)
  <2> DEFINE c == job[w].checkout
             i == coInvoice[c]
             j == [job[w] EXCEPT !.invoice = i, !.amount = coAmount[c],
                                 !.paid = paid[i], !.status = invStatus[i]]
  <2>1. job[w] \in Job /\ Fresh(pc[w], job[w])
    BY DEF SerialInv, Current, IInv, TypeOK
  <2>2. j.checkout = c /\ j.invoice = i /\ j.paid = paid[i] /\ j.status = invStatus[i]
    BY <2>1 DEF Job
  <2>3. Goto(w, "settle", j) /\ ~Closed(i)
    BY <1>3 DEF SettleRead, Payable
  <2>4. coStatus[c] # "completed"
    BY <1>3, <2>1 DEF SettleRead, LockGranted, SeenStatus, Fresh
  <2> HIDE DEF j
  <2>5. QED
    BY <1>0, <2>2, <2>3, <2>4, OnlyOne DEF Fresh, Closed, Unseen
<1>4. QED
  BY <1>0, <1>1, <1>2, <1>3
     DEF AlreadyCompleted, SettleRefused, IssueReceipt, Abort

LEMMA PayerFresh ==
    ASSUME SerialInv, NEW c \in Checkouts, PayerApproves(c) \/ PayerDeclines(c)
    PROVE  Current' /\ Unseen /\ UNCHANGED coStatus
BY DEF SerialInv, Current, Alone, Unseen, Fresh, Closed, PayerApproves, PayerDeclines,
       invoiceVars, checkoutVars, paymentVars, workerVars

-----------------------------------------------------------------------------
(* Steps that do.                                                          *)

\* A commit credits the invoice with what is missing, or with a part of it.
LEMMA CreditCounts ==
    ASSUME SerialInv, ~overlap', NEW w \in Workers, pc[w] \in {"settle", "manual"},
           CreditInvoice(w)
    PROVE  /\ StatusMatchesBooks' /\ CollectedIsCredited'
           /\ job[w].invoice \in Invoices /\ Account!Credit(job[w].invoice)
<1> DEFINE j == job[w]
           i == j.invoice
<1>1. /\ TypeOK /\ Books /\ StatusMatchesBooks /\ CollectedIsCredited /\ ~overlap
      /\ i \in Invoices /\ j \in Job /\ j.amount > 0 /\ j.amount \in Nat
      /\ j.paid + j.amount <= Total[i]
      /\ j.paid = paid[i] /\ j.status = invStatus[i] /\ ~Closed(i)
  BY DEF SerialInv, Current, Alone, IInv, Sessions, SessionOK, Fresh, TypeOK, Job
<1>2. /\ paid[i] \in Int /\ balance[i] \in Int /\ Total[i] \in Nat \ {0}
      /\ paid[i] + balance[i] = Total[i] /\ 0 <= paid[i] /\ paid[i] <= Total[i]
  BY <1>1 DEF TypeOK, Books, BooksBalance
<1>3. /\ ~deleted[i] /\ balance[i] # 0
  BY <1>1 DEF StatusMatchesBooks, Closed
<1> DEFINE due == Total[i] - (paid[i] + j.amount)
<1>4. /\ paid' = [paid EXCEPT ![i] = paid[i] + j.amount]
      /\ balance' = [balance EXCEPT ![i] = due]
      /\ invStatus' = [invStatus EXCEPT ![i] = WriteBack(NewStatus(due), j.status, @)]
      /\ collected' = [collected EXCEPT ![i] = collected[i] + j.amount]
      /\ UNCHANGED deleted
  BY <1>1 DEF CreditInvoice, NewPaid
<1>5. /\ balance'[i] = due /\ invStatus'[i] = NewStatus(due)
      /\ \A k \in Invoices \ {i} : balance'[k] = balance[k] /\ invStatus'[k] = invStatus[k]
  BY <1>1, <1>4 DEF TypeOK, WriteBack
<1>6. due \in Int /\ 0 <= due
  BY <1>1, <1>2
<1>7. StatusMatchesBooks'
  <2>1. invStatus'[i] = "paid" <=> balance'[i] = 0
    BY <1>5, <1>6 DEF NewStatus
  <2>2. invStatus'[i] # "cancelled"
    BY <1>5 DEF NewStatus
  <2>3. \A k \in Invoices \ {i} : invStatus'[k] = "paid" <=> balance'[k] = 0
    BY <1>1, <1>5 DEF StatusMatchesBooks
  <2>4. \A k \in Invoices : deleted'[k] <=> invStatus'[k] = "cancelled"
    BY <1>1, <1>3, <1>4, <1>5, <2>2 DEF StatusMatchesBooks
  <2>5. QED
    BY <2>1, <2>3, <2>4 DEF StatusMatchesBooks
<1>8. j.amount \in 1 .. Total[i] - paid[i] /\ paid[i] < Total[i]
  BY <1>1, <1>2, <1>3
<1>9. Account!Open(i)
  BY <1>1, <1>3, <1>8 DEF Account!Open, InSerial
<1>10. CollectedIsCredited'
  BY <1>1, <1>4 DEF CollectedIsCredited, TypeOK
<1>11. QED
  BY <1>1, <1>4, <1>7, <1>8, <1>9, <1>10 DEF Account!Credit, InSerial

\* A checkout that is created or fails was not counted, and is not now.
LEMMA CheckoutCommits ==
    ASSUME SerialInv, NEW w \in Workers, InitiateCommit(w) \/ MarkFailed(w)
    PROVE  /\ Current'
           /\ Unseen
           /\ \A c \in Checkouts : coStatus'[c] = "completed" <=> coStatus[c] = "completed"
<1> DEFINE d == job[w].checkout
<1>1. IInv /\ TypeOK /\ Alone /\ Fresh(pc[w], job[w]) /\ pc[w] # "idle"
  BY DEF SerialInv, Current, IInv, InitiateCommit, MarkFailed, LockGranted
<1>2. Current' /\ Unseen
  BY <1>1, ResponseFresh DEF InitiateCommit, MarkFailed, Unseen, invoiceVars, paymentVars
<1>3. coStatus[d] # "completed"
  <2>1. CASE InitiateCommit(w)
    BY <1>1, <2>1 DEF IInv, References, Initiating, InitiateCommit
  <2>2. CASE MarkFailed(w)
    BY <1>1, <2>2 DEF MarkFailed, LockGranted, SeenStatus, Fresh
  <2>3. QED
    BY <2>1, <2>2
<1>4. \E status \in {"processing", "failed"} :
         coStatus' = [coStatus EXCEPT ![d] = status]
  BY DEF InitiateCommit, MarkFailed
<1>5. QED
  BY <1>1, <1>2, <1>3, <1>4 DEF TypeOK

LEMMA SettleCommits ==
    ASSUME SerialInv, NEW w \in Workers, SettleCommit(w)
    PROVE  /\ Current'
           /\ StatusMatchesBooks' /\ CollectedIsCredited' /\ SettledAtMostOnce'
           /\ \E c \in Checkouts, i \in Invoices : Account!Settle(c, i)
<1>1. /\ IInv /\ TypeOK /\ Alone /\ Mover(w) /\ Fresh(pc[w], job[w])
      /\ SettledAtMostOnce /\ CompletionHasPayment
      /\ job[w].checkout \in Checkouts
      /\ coStatus[job[w].checkout] # "completed"
  BY DEF SerialInv, Current, Mover, IInv, Sessions, SessionOK, SettleCommit, Fresh
<1>0. ~overlap /\ ~overlap'
  BY <1>1 DEF Alone, SettleCommit, Goto
<1>2. /\ StatusMatchesBooks' /\ CollectedIsCredited' /\ job[w].invoice \in Invoices
      /\ Account!Credit(job[w].invoice)
  BY <1>0, CreditCounts DEF SettleCommit
<1>3. PICK c \in Checkouts, i \in Invoices : c = job[w].checkout /\ i = job[w].invoice
  BY <1>1, <1>2
<1>4. Current'
  BY <1>1, OnlyOne DEF SettleCommit, Fresh
<1>5. /\ coStatus'[c] = "completed"
      /\ \A d \in Checkouts \ {c} : coStatus'[d] = coStatus[d]
  BY <1>1, <1>3 DEF SettleCommit, TypeOK
<1>6. Account!Settle(c, i)
  <2>1. Account!Credit(i)
    BY <1>2, <1>3 DEF Account!Credit, Account!Open
  <2>2. QED
    BY <1>0, <1>1, <1>3, <1>5, <2>1 DEF Account!Settle, InSerial
<1>7. SettledAtMostOnce'
  <2>1. settlements[c] = 0
    BY <1>1, <1>3 DEF CompletionHasPayment, TypeOK
  <2>2. QED
    BY <1>1, <1>3, <2>1 DEF SettleCommit, TypeOK, SettledAtMostOnce
<1>8. QED
  BY <1>2, <1>4, <1>6, <1>7

LEMMA ManualCommits ==
    ASSUME SerialInv, NEW w \in Workers, ManualCommit(w)
    PROVE  /\ Current'
           /\ StatusMatchesBooks' /\ CollectedIsCredited' /\ SettledAtMostOnce'
           /\ \E i \in Invoices : Account!RecordManually(i)
<1>0. /\ ~overlap /\ ~overlap' /\ SettledAtMostOnce /\ IInv /\ Alone
      /\ pc[w] # "idle"
  BY DEF SerialInv, Current, Alone, ManualCommit, Respond, Goto
<1>1. /\ StatusMatchesBooks' /\ CollectedIsCredited' /\ job[w].invoice \in Invoices
      /\ Account!Credit(job[w].invoice)
  BY <1>0, CreditCounts DEF ManualCommit
<1>2. Current' /\ SettledAtMostOnce'
  BY <1>0, ResponseFresh DEF ManualCommit, SettledAtMostOnce
<1>3. Account!RecordManually(job[w].invoice)
  BY <1>0, <1>1 DEF Account!RecordManually, ManualCommit, checkoutVars, InSerial
<1>4. QED
  BY <1>1, <1>2, <1>3

\* Deleting a deleted invoice again changes nothing.
LEMMA DeleteCommits ==
    ASSUME SerialInv, NEW w \in Workers, DeleteCommit(w)
    PROVE  /\ Current'
           /\ StatusMatchesBooks' /\ CollectedIsCredited' /\ SettledAtMostOnce'
           /\ (\E i \in Invoices : Account!Void(i)) \/ UNCHANGED Account!vars
<1>0. PICK i \in Invoices : i = job[w].invoice
  BY DEF SerialInv, IInv, Sessions, SessionOK, DeleteCommit
<1>1. /\ IInv /\ TypeOK /\ Books /\ StatusMatchesBooks /\ Alone /\ pc[w] # "idle"
      /\ job[w].status = invStatus[i] /\ invStatus[i] # "paid"
      /\ CollectedIsCredited /\ SettledAtMostOnce
  BY <1>0 DEF SerialInv, Current, IInv, DeleteCommit, Fresh
<1>2. Current' /\ CollectedIsCredited' /\ SettledAtMostOnce'
  BY <1>1, ResponseFresh
     DEF DeleteCommit, paymentVars, CollectedIsCredited, SettledAtMostOnce
<1>3. /\ deleted'[i] /\ invStatus'[i] = "cancelled"
      /\ \A k \in Invoices \ {i} :
            deleted'[k] = deleted[k] /\ invStatus'[k] = invStatus[k]
      /\ UNCHANGED <<paid, balance, coStatus>>
      /\ ~overlap /\ ~overlap'
  BY <1>0, <1>1 DEF DeleteCommit, WriteBack, TypeOK, checkoutVars, Alone, Respond, Goto
<1>4. balance[i] # 0
  BY <1>1 DEF StatusMatchesBooks
<1>5. StatusMatchesBooks'
  <2>1. \A k \in Invoices : invStatus'[k] = "paid" <=> balance'[k] = 0
    BY <1>1, <1>3, <1>4 DEF StatusMatchesBooks
  <2>2. \A k \in Invoices : deleted'[k] <=> invStatus'[k] = "cancelled"
    BY <1>1, <1>3 DEF StatusMatchesBooks
  <2>3. QED
    BY <2>1, <2>2 DEF StatusMatchesBooks
<1>6. ASSUME deleted[i] PROVE UNCHANGED Account!vars
  BY <1>3, <1>6 DEF Account!vars, InSerial
<1>7. ASSUME ~deleted[i] PROVE Account!Void(i)
  <2>1. paid[i] < Total[i]
    BY <1>1, <1>4 DEF Books, BooksBalance, TypeOK
  <2>2. QED
    BY <1>1, <1>3, <1>7, <2>1 DEF Account!Void, Account!Open, InSerial
<1>8. (\E k \in Invoices : Account!Void(k)) \/ UNCHANGED Account!vars
  BY <1>6, <1>7
<1>9. QED
  BY <1>2, <1>5, <1>8

-----------------------------------------------------------------------------
(* The refinement.                                                         *)

\* A step that neither credits, completes nor deletes is a stutter.
LEMMA UnseenStutters ==
    ASSUME SerialInv, IInv', Current', Unseen,
           \A c \in Checkouts : coStatus'[c] = "completed" <=> coStatus[c] = "completed"
    PROVE  SerialInv' /\ UNCHANGED Account!vars
BY DEF SerialInv, Current, Alone, Unseen, Account!vars, InSerial, StatusMatchesBooks,
       CollectedIsCredited, SettledAtMostOnce

LEMMA SerialStep ==
    ASSUME SerialInv, [Next]_vars
    PROVE  SerialInv' /\ [Account!Next]_(Account!vars)
<1>0. IInv'
  BY StepSafe DEF SerialInv
<1>1. ASSUME NEW w \in Workers, Request(w)
      PROVE  SerialInv' /\ [Account!Next]_(Account!vars)
  BY <1>0, <1>1, RequestFresh, UnseenStutters
<1>2. ASSUME NEW w \in Workers,
             \/ ProviderAsks(w) \/ AlreadyCompleted(w) \/ SettleRead(w)
             \/ SettleRefused(w) \/ IssueReceipt(w) \/ Abort(w)
      PROVE  SerialInv' /\ [Account!Next]_(Account!vars)
  BY <1>0, <1>2, OtherStepsFresh, UnseenStutters
<1>3. ASSUME NEW w \in Workers, InitiateCommit(w) \/ MarkFailed(w)
      PROVE  SerialInv' /\ [Account!Next]_(Account!vars)
  BY <1>0, <1>3, CheckoutCommits, UnseenStutters
<1>4. ASSUME NEW w \in Workers, SettleCommit(w) \/ ManualCommit(w) \/ DeleteCommit(w)
      PROVE  SerialInv' /\ [Account!Next]_(Account!vars)
  BY <1>0, <1>4, SettleCommits, ManualCommits, DeleteCommits DEF SerialInv, Account!Next
<1>5. ASSUME NEW c \in Checkouts, PayerApproves(c) \/ PayerDeclines(c)
      PROVE  SerialInv' /\ [Account!Next]_(Account!vars)
  BY <1>0, <1>5, PayerFresh, UnseenStutters
<1>6. CASE UNCHANGED vars
  <2>1. Current' /\ Unseen /\ UNCHANGED coStatus
    BY <1>6 DEF SerialInv, Current, Alone, Unseen, Fresh, Closed, vars, invoiceVars,
                checkoutVars, paymentVars, workerVars
  <2>2. QED
    BY <1>0, <2>1, UnseenStutters
<1>7. QED
  BY <1>1, <1>2, <1>3, <1>4, <1>5, <1>6 DEF Next, Proceed, Complete

\* Whether requests overlap does not change.
LEMMA OverlapKept == [Next]_vars => overlap' = overlap
<1> SUFFICES ASSUME [Next]_vars PROVE overlap' = overlap
  OBVIOUS
<1>1. ASSUME NEW w \in Workers, Request(w) PROVE overlap' = overlap
  BY <1>1 DEF Request, InitiateRead, Webhook, Simulate, ConfirmSui, ManualRead,
              DeleteRead, Goto
<1>2. ASSUME NEW w \in Workers, Proceed(w) \/ Abort(w) PROVE overlap' = overlap
  BY <1>2 DEF Proceed, Complete, ProviderAsks, InitiateCommit, AlreadyCompleted,
              MarkFailed, SettleRead, SettleRefused, SettleCommit, IssueReceipt,
              ManualCommit, DeleteCommit, Abort, Respond, Goto
<1>3. ASSUME NEW c \in Checkouts, PayerApproves(c) \/ PayerDeclines(c)
      PROVE  overlap' = overlap
  BY <1>3 DEF PayerApproves, PayerDeclines, workerVars
<1>4. CASE UNCHANGED vars
  BY <1>4 DEF vars, workerVars
<1>5. QED
  BY <1>1, <1>2, <1>3, <1>4 DEF Next

LEMMA SerialHolds == Spec => [](~overlap => SerialInv)
<1>1. Init => (~overlap => SerialInv)
  BY SerialInit
<1>2. (~overlap => SerialInv) /\ [Next]_vars => (~overlap => SerialInv)'
  BY OverlapKept, SerialStep
<1>3. QED
  BY <1>1, <1>2, PTL DEF Spec

\* Where requests are served one at a time, an invoice is marked paid exactly
\* when nothing is due on it and deleted exactly when it is cancelled: the
\* copies the settlement, the recording and the deletion decide on are current.
THEOREM SerialStatusMatchesBooks == Spec => [](~overlap => StatusMatchesBooks)
<1>1. (~overlap => SerialInv) => (~overlap => StatusMatchesBooks)
  BY DEF SerialInv
<1>2. QED
  BY SerialHolds, <1>1, PTL

\* Where requests are served one at a time, a checkout is settled once, from
\* whatever entry point and however often its verdict comes back: the status a
\* session has loaded is the one the lock finds (complete_checkout).
THEOREM SerialRequestsSettleOnce == Spec => [](~overlap => SettledAtMostOnce)
<1>1. (~overlap => SerialInv) => (~overlap => SettledAtMostOnce)
  BY DEF SerialInv
<1>2. QED
  BY SerialHolds, <1>1, PTL

\* Where requests are served one at a time, what the endpoints do to an
\* invoice is what an account does: it is credited up to its total, by each
\* checkout at most once whatever caller brings the verdict, and by nothing
\* once it is void (settle_invoice_payment, record_payment, complete_checkout,
\* delete_invoice).
THEOREM SerialSettlementIsAnAccount == Spec => ImplementsAccount
<1>1. Init => Account!Init
  BY DEF Init, Account!Init, InSerial
<1>2. (~overlap => SerialInv) /\ [Next]_vars => [Account!Next]_(Account!vars)
  <2>1. ASSUME overlap, [Next]_vars PROVE UNCHANGED Account!vars
    BY <2>1, OverlapKept DEF Account!vars, InSerial
  <2>2. QED
    BY <2>1, SerialStep
<1>3. QED
  BY SerialHolds, <1>1, <1>2, PTL DEF Spec, ImplementsAccount, Account!Spec

-----------------------------------------------------------------------------
(* Receipts.                                                               *)

\* Each request that is about to issue a receipt has written a payment row
\* that has none.
Receipting(c) == {w \in Workers : pc[w] = "receipt" /\ job[w].checkout = c}

ReceiptInv ==
    \A c \in Checkouts :
        /\ IsFiniteSet(Receipting(c))
        /\ receipts[c] + Cardinality(Receipting(c)) <= settlements[c]

\* A request that neither settles a checkout nor issues a receipt can only
\* give up issuing one.
LEMMA ReceiptingShrinks ==
    ASSUME ReceiptInv, TypeOK, UNCHANGED <<receipts, settlements>>,
           \A c \in Checkouts : Receipting(c)' \subseteq Receipting(c)
    PROVE  ReceiptInv'
<1> SUFFICES ASSUME NEW c \in Checkouts
             PROVE  /\ IsFiniteSet(Receipting(c)')
                    /\ receipts[c] + Cardinality(Receipting(c)') <= settlements[c]
  BY DEF ReceiptInv
<1>1. /\ IsFiniteSet(Receipting(c)')
      /\ Cardinality(Receipting(c)') <= Cardinality(Receipting(c))
  BY FS_Subset DEF ReceiptInv
<1>2. /\ Cardinality(Receipting(c)) \in Nat /\ Cardinality(Receipting(c)') \in Nat
      /\ receipts[c] \in Nat /\ settlements[c] \in Nat
      /\ receipts[c] + Cardinality(Receipting(c)) <= settlements[c]
  BY <1>1, FS_CardinalityType DEF ReceiptInv, TypeOK
<1>3. QED
  BY <1>1, <1>2

LEMMA ReceiptStep ==
    ASSUME IInv, ReceiptInv, [Next]_vars
    PROVE  ReceiptInv'
<1>0. TypeOK /\ pc \in [Workers -> Phases] /\ job \in [Workers -> Job]
  BY DEF IInv, TypeOK
<1>1. ASSUME NEW w \in Workers, NEW phase \in Phases \ {"receipt"}, NEW j,
             Goto(w, phase, j), UNCHANGED <<receipts, settlements>>
      PROVE  ReceiptInv'
  <2>1. \A c \in Checkouts : Receipting(c)' \subseteq Receipting(c)
    BY <1>0, <1>1 DEF Goto, Receipting
  <2>2. QED
    BY <1>0, <1>1, <2>1, ReceiptingShrinks
<1>2. ASSUME NEW w \in Workers, SettleCommit(w)
      PROVE  ReceiptInv'
  <2>1. PICK d \in Checkouts : d = job[w].checkout
    BY <1>2 DEF IInv, Sessions, SessionOK, SettleCommit
  <2>2. /\ \A c \in Checkouts \ {d} : Receipting(c)' = Receipting(c)
        /\ Receipting(d)' = Receipting(d) \cup {w}
    BY <1>0, <1>2, <2>1 DEF SettleCommit, Goto, Receipting
  <2>3. /\ settlements'[d] = settlements[d] + 1 /\ receipts' = receipts
        /\ \A c \in Checkouts \ {d} : settlements'[c] = settlements[c]
    BY <1>0, <1>2, <2>1 DEF SettleCommit, TypeOK
  <2>4. /\ IsFiniteSet(Receipting(d) \cup {w})
        /\ Cardinality(Receipting(d) \cup {w}) \in Nat
        /\ Cardinality(Receipting(d)) \in Nat
        /\ Cardinality(Receipting(d) \cup {w}) <= Cardinality(Receipting(d)) + 1
    <3>1. IsFiniteSet(Receipting(d)) /\ Cardinality(Receipting(d)) \in Nat
      BY FS_CardinalityType DEF ReceiptInv
    <3>2. /\ IsFiniteSet(Receipting(d) \cup {w})
          /\ Cardinality(Receipting(d) \cup {w}) =
                IF w \in Receipting(d) THEN Cardinality(Receipting(d))
                                       ELSE Cardinality(Receipting(d)) + 1
      BY <3>1, FS_AddElement, Zenon
    <3>3. Cardinality(Receipting(d) \cup {w}) \in Nat
      BY <3>2, FS_CardinalityType, Zenon
    <3>4. QED
      BY <3>1, <3>2, <3>3
  <2>5. /\ receipts[d] \in Nat /\ settlements[d] \in Nat
        /\ receipts[d] + Cardinality(Receipting(d)) <= settlements[d]
    BY <1>0 DEF ReceiptInv, TypeOK
  <2>6. receipts[d] + Cardinality(Receipting(d) \cup {w}) <= settlements[d] + 1
    BY <2>4, <2>5
  <2>7. QED
    BY <2>2, <2>3, <2>4, <2>6 DEF ReceiptInv
<1>3. ASSUME NEW w \in Workers, IssueReceipt(w)
      PROVE  ReceiptInv'
  <2>1. PICK d \in Checkouts : d = job[w].checkout
    BY <1>3 DEF IInv, Sessions, SessionOK, IssueReceipt
  <2>2. /\ \A c \in Checkouts \ {d} : Receipting(c)' = Receipting(c)
        /\ Receipting(d)' = Receipting(d) \ {w}
        /\ w \in Receipting(d)
    BY <1>0, <1>3, <2>1 DEF IssueReceipt, Respond, Goto, Receipting
  <2>3. /\ receipts'[d] = receipts[d] + 1 /\ settlements' = settlements
        /\ \A c \in Checkouts \ {d} : receipts'[c] = receipts[c]
    BY <1>0, <1>3, <2>1 DEF IssueReceipt, TypeOK
  <2>4. /\ IsFiniteSet(Receipting(d) \ {w})
        /\ Cardinality(Receipting(d)) \in Nat
        /\ Cardinality(Receipting(d) \ {w}) = Cardinality(Receipting(d)) - 1
    BY <2>2, FS_RemoveElement, FS_CardinalityType DEF ReceiptInv
  <2>5. /\ receipts[d] \in Nat /\ settlements[d] \in Nat
        /\ receipts[d] + Cardinality(Receipting(d)) <= settlements[d]
    BY <1>0 DEF ReceiptInv, TypeOK
  <2>6. receipts[d] + 1 + Cardinality(Receipting(d) \ {w}) <= settlements[d]
    BY <2>4, <2>5
  <2>7. QED
    BY <2>2, <2>3, <2>4, <2>6 DEF ReceiptInv
<1>4. ASSUME NEW w \in Workers, Request(w)
      PROVE  ReceiptInv'
  <2>1. \E phase \in Phases \ {"receipt"}, j \in {job'[w]} :
            Goto(w, phase, j) /\ UNCHANGED <<receipts, settlements>>
    BY <1>0, <1>4 DEF Request, InitiateRead, Webhook, Simulate, ConfirmSui, ManualRead,
                      DeleteRead, Goto, Phases, paymentVars
  <2>2. QED
    BY <1>1, <2>1
<1>5. ASSUME NEW w \in Workers,
             \/ ProviderAsks(w) \/ InitiateCommit(w) \/ AlreadyCompleted(w)
             \/ MarkFailed(w) \/ SettleRead(w) \/ SettleRefused(w)
             \/ ManualCommit(w) \/ DeleteCommit(w) \/ Abort(w)
      PROVE  ReceiptInv'
  <2>1. CASE Respond(w) /\ UNCHANGED <<receipts, settlements>>
    BY <1>1, <2>1 DEF Respond, Phases
  <2>2. CASE ProviderAsks(w)
    BY <1>1, <2>2 DEF ProviderAsks, Phases, paymentVars
  <2>3. CASE SettleRead(w)
    <3>1. \E j \in {job'[w]} : Goto(w, "settle", j)
      BY <1>0, <2>3 DEF SettleRead, Goto
    <3>2. QED
      BY <1>1, <2>3, <3>1 DEF SettleRead, Phases, paymentVars
  <2>4. QED
    BY <1>5, <2>1, <2>2, <2>3
       DEF InitiateCommit, AlreadyCompleted, MarkFailed, SettleRefused, ManualCommit,
           DeleteCommit, Abort, paymentVars
<1>6. ASSUME NEW c \in Checkouts, PayerApproves(c) \/ PayerDeclines(c)
      PROVE  ReceiptInv'
  BY <1>6 DEF PayerApproves, PayerDeclines, paymentVars, workerVars, ReceiptInv, Receipting
<1>7. CASE UNCHANGED vars
  BY <1>7 DEF vars, paymentVars, workerVars, ReceiptInv, Receipting
<1>8. QED
  BY <1>2, <1>3, <1>4, <1>5, <1>6, <1>7 DEF Next, Proceed, Complete

\* No interleaving of deliveries, lock waits and aborted requests issues more
\* receipts for a checkout than it has payment rows; and where requests do not
\* overlap, every payment row is credited to its invoice and the invoice's
\* status says what its balance does.
THEOREM BooksAreCompleteAlways == Spec => []BooksAreComplete
<1>1. Init => ReceiptInv
  <2> SUFFICES ASSUME Init, NEW c \in Checkouts
               PROVE  /\ IsFiniteSet(Receipting(c))
                      /\ receipts[c] + Cardinality(Receipting(c)) <= settlements[c]
    BY DEF ReceiptInv
  <2>1. Receipting(c) = {} /\ receipts[c] = 0 /\ settlements[c] = 0
    BY DEF Init, Receipting
  <2>2. QED
    BY <2>1, FS_EmptySet
<1>2. IInv /\ ReceiptInv /\ [Next]_vars => ReceiptInv'
  BY ReceiptStep
<1>3. IInv /\ ReceiptInv => ReceiptsHavePayments
  <2> SUFFICES ASSUME IInv, ReceiptInv, NEW c \in Checkouts
               PROVE  receipts[c] <= settlements[c]
    BY DEF ReceiptsHavePayments
  <2>1. /\ Cardinality(Receipting(c)) \in Nat /\ receipts[c] \in Nat
        /\ settlements[c] \in Nat
    BY FS_CardinalityType DEF ReceiptInv, IInv, TypeOK
  <2>2. QED
    BY <2>1 DEF ReceiptInv
<1>4. ReceiptsHavePayments /\ (~overlap => SerialInv) => BooksAreComplete
  BY DEF BooksAreComplete, SerialInv
<1>5. QED
  BY <1>1, <1>2, <1>3, <1>4, InvariantHolds, SerialHolds, PTL DEF Spec
=============================================================================
