------------------------------- MODULE SuiPay -------------------------------
(***************************************************************************)
(* Rent paid from a Sui wallet the platform or Privy holds                 *)
(* (app/services/payment_gateway_service.py, execute_platform_sui_checkout,*)
(* pay_privy_sui_checkout, submit_privy_sui_checkout and                   *)
(* confirm_sui_checkout), and the wallets of a payer                       *)
(* (app/services/blockchain/blockchain_service.py).  The transfer is made  *)
(* on the chain first and the checkout settled afterwards, in a session    *)
(* that has read the checkout before, if the invoice still takes its       *)
(* amount; what overlapping settlements do to an invoice is the subject of *)
(* Settlement.                                                             *)
(***************************************************************************)
EXTENDS Requests

CONSTANTS
    SuiCheckouts,   \* references of payment_checkouts rows of provider sui
    Payers,         \* users rows of tenants
    PayerOf,        \* the tenant each checkout is of
    Bills,          \* invoices rows
    BillOf,         \* the invoice each checkout is for
    AmountOf,       \* and its amount
    Owed,           \* what was due on each invoice when the checkouts were made
    MaxTransfers    \* bound: transfers on the chain

VARIABLES
    checkout,       \* payment_checkouts rows: status and provider_tx_id
    settled,        \* payments rows written for each
    balance,        \* what is due on each invoice; 0 of a cancelled one
    chain,          \* transfers to the treasury, by digest: what each is for
    wallets,        \* blockchain_wallets rows of each payer
    privy           \* payers with a privy_did

suiVars == <<checkout, settled, balance, chain, wallets, privy>>

-----------------------------------------------------------------------------

Addresses == {"platform", "privy", "external"}
Digests == 1 .. MaxTransfers

ASSUME SuiAssumption ==
    /\ MaxTransfers \in Nat
    /\ None \notin Addresses
    /\ PayerOf \in [SuiCheckouts -> Payers]
    /\ BillOf \in [SuiCheckouts -> Bills]
    /\ AmountOf \in [SuiCheckouts -> Nat \ {0}]
    /\ Owed \in [Bills -> Nat]
    /\ \A c \in SuiCheckouts : AmountOf[c] <= Owed[BillOf[c]]

CheckoutRow == [status : {"processing", "completed"}, digest : {0} \cup Digests]

SuiInit ==
    /\ checkout = [c \in SuiCheckouts |-> [status |-> "processing", digest |-> 0]]
    /\ settled = [c \in SuiCheckouts |-> 0]
    /\ balance = Owed
    /\ chain = <<>>
    /\ wallets = [u \in Payers |-> [a \in Addresses |-> "none"]]
    /\ privy \in SUBSET Payers

SuiTypeOK ==
    /\ checkout \in [SuiCheckouts -> CheckoutRow]
    /\ settled \in [SuiCheckouts -> Nat]
    /\ balance \in [Bills -> Nat]
    /\ chain \in Seq(SuiCheckouts)
    /\ wallets \in [Payers -> [Addresses -> {"none", "linked", "primary"}]]
    /\ privy \subseteq Payers

Primaries(u) == {a \in Addresses : wallets[u][a] = "primary"}

\* What a session knows of the checkout's status: nothing before it reads it,
\* and nothing again after a commit has expired its rows.
NotRead == "unread"
Payment(c) == [checkout |-> c, seen |-> NotRead, digest |-> 0, from |-> None,
               primaries |-> {}, then |-> "respond"]

\* Mutant: a status that was not read is taken for open.
StatusCached(j) == IF j.seen = NotRead THEN "processing" ELSE j.seen

\* The status a session finds in its copy of the row, reading it if need be.
StatusSeen(j) == IF j.seen = NotRead THEN checkout[j.checkout].status ELSE j.seen

-----------------------------------------------------------------------------
(* link_wallet: the address becomes the payer's primary one.               *)

\* Mutant: the wallets that were primary stay so.
UnsetNone(u) == {}

Unset(u) == Primaries(u)

Link(w, c, address, j) ==
    Goto(w, "link", [j EXCEPT !.from = address, !.primaries = Unset(PayerOf[c])])

LinkWallet(w) ==
    LET j == job[w]
        u == PayerOf[j.checkout]
    IN
    /\ pc[w] = "link"
    /\ wallets' = [wallets EXCEPT ![u] = [a \in Addresses |->
                     IF a = j.from THEN "primary"
                     ELSE IF a \in j.primaries THEN "linked" ELSE @[a]]]
    /\ IF j.then = "respond" THEN Respond(w)
       ELSE Goto(w, j.then, [j EXCEPT !.seen = NotRead])
    /\ UNCHANGED <<checkout, settled, balance, chain, privy>>

\* POST /blockchain/wallet/link.
LinkExternal(w, c) ==
    /\ Ready(w, "link_wallet")
    /\ Link(w, c, "external", Payment(c))
    /\ UNCHANGED suiVars

-----------------------------------------------------------------------------
(* Before the transfer.                                                    *)

\* A payer with a Privy session: the account is noted and the wallet linked,
\* if the request tells it, before the checkout is read.
PrivySession(w, c) ==
    /\ load.configured
    /\ privy' = privy \cup {PayerOf[c]}
    /\ \/ Link(w, c, "privy", [Payment(c) EXCEPT !.then = "read"])
       \/ Goto(w, "read", [Payment(c) EXCEPT !.from = "privy"])
    /\ UNCHANGED <<checkout, settled, balance, chain, wallets>>

\* pay_privy_sui_checkout: Privy tells the wallet and signs on the server.
PayPrivy(w, c) == Ready(w, "pay_privy") /\ PrivySession(w, c)

\* submit_privy_sui_checkout: the browser tells the wallet and has signed.
SubmitPrivy(w, c) == Ready(w, "submit_privy") /\ PrivySession(w, c)

ReadCheckout(w) ==
    LET j == job[w] IN
    /\ pc[w] = "read"
    /\ IF StatusSeen(j) = "completed" THEN Respond(w)
       ELSE Goto(w, "transfer", [j EXCEPT !.seen = StatusSeen(j)])
    /\ UNCHANGED suiVars

\* execute_platform_sui_checkout reads the checkout, makes a platform wallet
\* if the payer has none, and signs with Privy where it is configured.  For a
\* payer without a Privy account the name is_privy_configured is unbound and
\* the request fails there.
PayPlatform(w, c) ==
    LET j == [Payment(c) EXCEPT !.seen = checkout[c].status]
        u == PayerOf[c]
        named(a) == IF load.configured THEN "privy" ELSE a
    IN
    /\ Ready(w, "pay_platform")
    /\ checkout[c].status # "completed"
    /\ \/ /\ u \in privy
          /\ \E a \in Primaries(u) : Goto(w, "transfer", [j EXCEPT !.from = named(a)])
          /\ UNCHANGED wallets
       \/ /\ Primaries(u) = {}
          /\ wallets' = [wallets EXCEPT ![u]["platform"] = "primary"]
          /\ IF u \in privy
             THEN Goto(w, "transfer", [j EXCEPT !.from = named("platform"), !.seen = NotRead])
             ELSE UNCHANGED requests
    /\ UNCHANGED <<checkout, settled, balance, chain, privy>>

-----------------------------------------------------------------------------
(* The transfer and its confirmation.                                      *)

\* The node executes the transfer and answers, or the answer is lost, or the
\* wallet lacks the coin and nothing is done.
TransferSui(w) ==
    LET j == job[w] IN
    /\ pc[w] = "transfer"
    /\ \/ /\ Len(chain) < MaxTransfers
          /\ chain' = Append(chain, j.checkout)
          /\ \/ Goto(w, "confirm", [j EXCEPT !.digest = Len(chain) + 1])
             \/ load.lossy /\ Respond(w)
       \/ Respond(w) /\ UNCHANGED chain
    /\ UNCHANGED <<checkout, settled, balance, wallets, privy>>

\* POST .../confirm-sui: the payer gives a digest, of whatever transfer, and
\* may say which wallet it came from.
ConfirmByHand(w, c, d, address) ==
    /\ Ready(w, IF address = None THEN "confirm_bare" ELSE "confirm")
    /\ Goto(w, "confirm", [Payment(c) EXCEPT !.digest = d, !.from = address])
    /\ UNCHANGED suiVars

\* verify_sui_transfer: the node knows the transfer, and the treasury got at
\* least the amount of the checkout by it, whatever it was made for.
Covers(d, c) == d \in DOMAIN chain /\ AmountOf[chain[d]] >= AmountOf[c]

\* confirm_sui_checkout: a checkout seen completed is left alone; a transfer
\* that does not cover it is refused; a wallet that is named is linked.
VerifyTransfer(w) ==
    LET j == job[w]
        seen == [j EXCEPT !.seen = StatusSeen(j)]
    IN
    /\ pc[w] = "confirm"
    /\ IF seen.seen = "completed" \/ ~Covers(j.digest, j.checkout) THEN Respond(w)
       ELSE \/ load.lossy /\ Respond(w)
            \/ IF j.from = None THEN Goto(w, "settle", seen)
               ELSE Link(w, j.checkout, j.from, [seen EXCEPT !.then = "settle"])
    /\ UNCHANGED suiVars

\* settle_invoice_payment refuses an invoice that is paid or cancelled and
\* an amount that is more than is due on it.
Takes(c) == AmountOf[c] <= balance[BillOf[c]]

\* complete_checkout under the lock of the row: a copy that was expired is
\* read anew, one that was not keeps the status it has.  What the invoice
\* refuses is rolled back, and the checkout stays as it was.
SettleCheckout(w) ==
    LET j == job[w]
        c == j.checkout
    IN
    /\ pc[w] = "settle"
    /\ IF StatusSeen(j) = "completed" \/ ~Takes(c)
       THEN UNCHANGED <<checkout, settled, balance>>
       ELSE /\ checkout' = [checkout EXCEPT ![c] = [status |-> "completed", digest |-> j.digest]]
            /\ settled' = [settled EXCEPT ![c] = @ + 1]
            /\ balance' = [balance EXCEPT ![BillOf[c]] = @ - AmountOf[c]]
    /\ Respond(w)
    /\ UNCHANGED <<chain, wallets, privy>>

\* The invoice is paid another way, in part or whole, or cancelled.
PayElsewhere(b, left) ==
    /\ Served("pay_elsewhere")
    /\ left < balance[b]
    /\ balance' = [balance EXCEPT ![b] = left]
    /\ UNCHANGED <<requests, checkout, settled, chain, wallets, privy>>

SuiNext ==
    \/ \E w \in Workers, c \in SuiCheckouts :
          \/ LinkExternal(w, c)
          \/ PayPrivy(w, c)
          \/ SubmitPrivy(w, c)
          \/ PayPlatform(w, c)
          \/ \E d \in Digests, a \in Addresses \cup {None} : ConfirmByHand(w, c, d, a)
    \/ \E w \in Workers :
          \/ LinkWallet(w)
          \/ ReadCheckout(w)
          \/ TransferSui(w)
          \/ VerifyTransfer(w)
          \/ SettleCheckout(w)
          \/ Die(w) /\ UNCHANGED suiVars
    \/ \E b \in Bills : \E left \in 0 .. balance[b] : PayElsewhere(b, left)

-----------------------------------------------------------------------------

TransfersFor(c) == {d \in DOMAIN chain : chain[d] = c}

\* However requests overlap, die and lose answers, a checkout settles once,
\* if every confirmation names its wallet: linking it commits, and what
\* complete_checkout then reads under the lock is new.  It settles by a
\* transfer of its amount or more, which was made for it where digests are not
\* given by hand; one that is may settle several checkouts.
SuiSettlesOnce ==
    "confirm_bare" \notin load.uses =>
        \A c \in SuiCheckouts :
            /\ settled[c] = IF checkout[c].status = "completed" THEN 1 ELSE 0
            /\ checkout[c].status = "completed" =>
                  /\ Covers(checkout[c].digest, c)
                  /\ ~Uses("confirm") => checkout[c].digest \in TransfersFor(c)

\* A payment that can no longer be settled: less is due on the invoice.
TooLate(c) == checkout[c].status # "completed" /\ ~Takes(c)

\* With requests one at a time and a node that answers, what a payer has
\* transferred for a checkout is settled, unless the invoice was paid or
\* cancelled before it came in; and only then is a checkout paid for twice.
TransfersAreSettled ==
    ~load.overlap /\ ~load.fails /\ ~load.lossy =>
        \A c \in SuiCheckouts :
            /\ Cardinality(TransfersFor(c)) <= 1 \/ TooLate(c)
            /\ (\A w \in Workers : ~Busy(w)) /\ TransfersFor(c) # {} =>
                   checkout[c].status = "completed" \/ TooLate(c)

\* One request at a time, a payer has one primary wallet at most, and keeps
\* having one (link_wallet, ensure_platform_wallet).
OnePrimaryWallet ==
    [][~load.overlap =>
         \A u \in Payers :
             /\ Cardinality(Primaries(u)) <= 1
             /\ Primaries(u) # {} => Cardinality(Primaries(u)') = 1]_suiVars

\* One request at a time, what is paid is settled while the invoice takes it,
\* and wallets change without a payer losing the primary one
\* (pay_privy_sui_checkout, execute_platform_sui_checkout, link_wallet).
PaymentsAreSettled == []TransfersAreSettled /\ OnePrimaryWallet
=============================================================================
