---------------------------- MODULE Office_proofs ----------------------------
(***************************************************************************)
(* The parts of Office, which share nothing but the workers, for every     *)
(* number of workers and rows and every workload: payments in Sui, leases, *)
(* escrow holds and maintenance requests, the agent's records, listings,   *)
(* receipts, messages, tenant links and reminders.                         *)
(*                                                                         *)
(* Of payments in Sui: whatever overlaps, dies or is not answered, a       *)
(* checkout is settled once, by a transfer that covers it; and one request *)
(* at a time, what is paid is settled while the invoice takes it.          *)
(***************************************************************************)
EXTENDS OfficeInvariants, FiniteSetTheorems, SequenceTheorems, TLAPS

\* The chain after one more transfer.
LEMMA ChainGrows ==
    ASSUME chain \in Seq(SuiCheckouts), NEW c \in SuiCheckouts, chain' = Append(chain, c)
    PROVE  /\ chain' \in Seq(SuiCheckouts)
           /\ DOMAIN chain' = DOMAIN chain \cup {Len(chain) + 1}
           /\ chain'[Len(chain) + 1] = c /\ \A d \in DOMAIN chain : chain'[d] = chain[d]
OBVIOUS

USE SuiAssumption DEF Addresses, Digests

-----------------------------------------------------------------------------
(* Payments in Sui: sessions and the chain.                                *)

LEMMA SuiGotoMoves ==
    ASSUME SuiTyped, NEW w \in Workers, NEW p, NEW j, Goto(w, p, j)
    PROVE  SuiMoved(w) /\ pc'[w] = p /\ job'[w] = j
BY DEF SuiTyped, Goto, SuiMoved

LEMMA SuiRespondMoves ==
    ASSUME SuiTyped, NEW w \in Workers, Respond(w)
    PROVE  SuiMoved(w) /\ pc'[w] = "idle"
BY SuiGotoMoves DEF Respond

LEMMA SameChain ==
    ASSUME chain' = chain
    PROVE  Grows
BY DEF Grows, TransfersFor

LEMMA SuiUnchanged ==
    ASSUME SuiTyped, UNCHANGED suiVars
    PROVE  SuiRowsKeep
BY SameChain DEF SuiTyped, SuiTypeOK, suiVars, SuiRowsKeep

LEMMA CoversStays ==
    ASSUME SuiTypeOK, Grows, NEW d, NEW c \in SuiCheckouts, Covers(d, c)
    PROVE  Covers(d, c)'
<1>1. d \in DOMAIN chain /\ chain[d] \in SuiCheckouts
  BY DEF Covers, SuiTypeOK
<1>2. d \in TransfersFor(chain[d])
  BY <1>1 DEF TransfersFor
<1>3. d \in DOMAIN chain' /\ chain'[d] = chain[d]
  BY <1>1, <1>2 DEF Grows, TransfersFor
<1>4. QED
  BY <1>3 DEF Covers

LEMMA HandsStay ==
    ASSUME load' = load
    PROVE  ByHand' = ByHand
BY DEF ByHand, Uses

LEMMA SuiTypedMoves ==
    ASSUME SuiTyped, SuiRowsKeep, NEW w \in Workers, SuiMoved(w), SuiSessionOK(w)'
    PROVE  SuiTyped'
<1>1. ASSUME NEW v \in Workers, v # w
      PROVE  SuiSessionOK(v)'
  <2>1. pc'[v] = pc[v] /\ job'[v] = job[v] /\ SuiSessionOK(v)
    BY <1>1 DEF SuiMoved, SuiTyped
  <2>2. \A c \in SuiCheckouts : \A d \in DOMAIN chain :
          chain[d] = c => d \in DOMAIN chain' /\ chain'[d] = c
    BY DEF SuiRowsKeep, Grows, TransfersFor
  <2>3. job[v] \in Paid => job[v].checkout \in SuiCheckouts
    BY DEF Paid
  <2>4. Settling(v)' = Settling(v)
    BY <2>1 DEF Settling
  <2>5. Settling(v) \/ pc[v] = "confirm" => job[v] \in Paid
    BY <2>1 DEF Settling, SuiSessionOK
  <2>6. ASSUME Settling(v)
        PROVE  /\ job[v].digest \in DOMAIN chain'
               /\ AmountOf[chain'[job[v].digest]] >= AmountOf[job[v].checkout]
    <3> DEFINE d == job[v].digest
               c == job[v].checkout
    <3>1. Covers(d, c) /\ d \in DOMAIN chain /\ chain[d] \in SuiCheckouts
      BY <2>1, <2>6 DEF SuiSessionOK, Covers, SuiTyped, SuiTypeOK
    <3>2. d \in DOMAIN chain' /\ chain'[d] = chain[d]
      BY <2>2, <3>1
    <3>3. QED
      BY <3>1, <3>2 DEF Covers
  <2>7. ByHand' = ByHand
    BY HandsStay DEF SuiMoved
  <2>8. Settling(v)' => Covers(job[v].digest, job[v].checkout)'
    BY <2>1, <2>4, <2>6 DEF Covers
  <2>9. pc'[v] = "confirm" \/ Settling(v)' =>
            ByHand' \/ job'[v].digest \in {d \in DOMAIN chain' : chain'[d] = job'[v].checkout}
    BY <2>1, <2>2, <2>3, <2>4, <2>5, <2>7 DEF SuiSessionOK, TransfersFor
  <2>10. QED
    BY <2>1, <2>8, <2>9 DEF SuiSessionOK, TransfersFor, Covers
<1>2. QED
  BY <1>1 DEF SuiTyped, SuiRowsKeep, SuiMoved

\* The same for the second part, where rows of checkouts stay.
LEMMA NamesMove ==
    ASSUME \A v \in Workers : NamesItsWallet(v), NEW w \in Workers, SuiMoved(w), NamesItsWallet(w)'
    PROVE  \A v \in Workers : NamesItsWallet(v)'
BY DEF NamesItsWallet, SuiMoved

LEMMA SettledStays ==
    ASSUME SuiTypeOK, SettledOnce, Grows, UNCHANGED <<load, checkout, settled>>
    PROVE  SettledOnce'
<1>1. ASSUME NEW c \in SuiCheckouts
      PROVE  /\ settled'[c] = IF checkout'[c].status = "completed" THEN 1 ELSE 0
             /\ checkout'[c].status = "completed" =>
                   /\ Covers(checkout[c].digest, c)'
                   /\ ByHand' \/ checkout'[c].digest \in TransfersFor(c)'
  BY HandsStay, CoversStays DEF SettledOnce, Grows
<1>2. QED
  BY <1>1 DEF SettledOnce, TransfersFor, Covers

\* A step of one worker that settles nothing keeps the invariant if it leaves
\* its session in order.
LEMMA InvMoves ==
    ASSUME SuiInv, SuiRowsKeep, NEW w \in Workers, SuiMoved(w), SuiSessionOK(w)',
           UNCHANGED <<checkout, settled>>,
           "confirm_bare" \notin load.uses => NamesItsWallet(w)'
    PROVE  SuiInv'
<1>1. SuiTyped'
  BY SuiTypedMoves DEF SuiInv
<1>2. load' = load /\ Grows
  BY DEF SuiMoved, SuiRowsKeep
<1>3. ASSUME "confirm_bare" \notin load.uses
      PROVE  SettledOnce' /\ \A v \in Workers : NamesItsWallet(v)'
  BY <1>2, <1>3, SettledStays, NamesMove DEF SuiInv, SuiTyped
<1>4. QED
  BY <1>1, <1>2, <1>3 DEF SuiInv

\* A session that has answered holds nothing.
LEMMA SuiIdleOK ==
    ASSUME NEW w \in Workers, pc'[w] = "idle"
    PROVE  SuiSessionOK(w)' /\ NamesItsWallet(w)'
BY DEF SuiSessionOK, Settling, NamesItsWallet

\* A payment that starts.
LEMMA PaymentIsPaid ==
    ASSUME NEW c \in SuiCheckouts
    PROVE  Payment(c) \in Paid /\ Payment(c).checkout = c /\ Payment(c).then = "respond"
BY DEF Payment, Paid

\* link_wallet names an address and goes on as its caller says.
LEMMA Links ==
    ASSUME SuiInv, NEW w \in Workers, NEW c \in SuiCheckouts, NEW a \in Addresses,
           NEW j \in Paid, Link(w, c, a, j),
           j.then = "settle" =>
               /\ Covers(j.digest, j.checkout)
               /\ ByHand \/ j.digest \in TransfersFor(j.checkout),
           UNCHANGED chain
    PROVE  SuiMoved(w) /\ SuiSessionOK(w)' /\ NamesItsWallet(w)'
<1> DEFINE k == [j EXCEPT !.from = a, !.primaries = Unset(PayerOf[c])]
<1>1. SuiMoved(w) /\ pc'[w] = "link" /\ job'[w] = k
  BY SuiGotoMoves DEF Link, SuiInv
<1>2. Unset(PayerOf[c]) \subseteq Addresses
  BY DEF Unset, Primaries
<1>3. k \in Paid /\ k.from = a /\ k.then = j.then /\ k.digest = j.digest /\ k.checkout = j.checkout
  BY <1>2 DEF Paid
<1>4. ByHand' = ByHand
  BY <1>1, HandsStay DEF SuiMoved
<1>5. QED
  BY <1>1, <1>3, <1>4 DEF SuiSessionOK, Settling, NamesItsWallet, TransfersFor, Covers

-----------------------------------------------------------------------------
(* Payments in Sui: the steps.                                             *)

LEMMA OrderlyKeeps ==
    ASSUME SuiInv, NEW w \in Workers, Orderly(w)
    PROVE  SuiInv'
BY InvMoves DEF Orderly

LEMMA AnswersAreOrderly ==
    ASSUME SuiInv, NEW w \in Workers, Respond(w), SuiRowsKeep, UNCHANGED <<checkout, settled>>
    PROVE  Orderly(w)
BY SuiRespondMoves, SuiIdleOK DEF Orderly, SuiInv

LEMMA LinkWalletOrderly ==
    ASSUME SuiInv, NEW w \in Workers, LinkWallet(w)
    PROVE  Orderly(w)
<1> DEFINE j == job[w]
           u == PayerOf[j.checkout]
           k == [j EXCEPT !.seen = NotRead]
<1>1. j \in Paid /\ j.from # None /\ SuiTypeOK /\ SuiTyped
  BY DEF LinkWallet, SuiInv, SuiTyped, SuiSessionOK
<1>2. SuiRowsKeep /\ UNCHANGED <<checkout, settled>>
  <2>1. wallets' \in [Payers -> [Addresses -> {"none", "linked", "primary"}]]
    BY <1>1 DEF LinkWallet, SuiTypeOK, Paid
  <2>2. QED
    BY <1>1, <2>1, SameChain DEF LinkWallet, SuiTypeOK, SuiRowsKeep
<1>3. CASE j.then = "respond"
  BY <1>2, <1>3, AnswersAreOrderly DEF LinkWallet
<1>4. CASE j.then # "respond"
  <2>1. SuiMoved(w) /\ pc'[w] = j.then /\ job'[w] = k
    BY <1>1, <1>4, SuiGotoMoves DEF LinkWallet
  <2>2. /\ k \in Paid /\ k.from = j.from /\ k.seen = NotRead
        /\ k.digest = j.digest /\ k.checkout = j.checkout
    BY <1>1 DEF Paid, NotRead
  <2>3. j.then \in {"read", "settle"}
    BY <1>1, <1>4 DEF Paid
  <2>4. j.then = "settle" =>
            /\ Covers(k.digest, k.checkout)
            /\ ByHand \/ k.digest \in TransfersFor(k.checkout)
    BY <1>1, <2>2 DEF LinkWallet, SuiTyped, SuiSessionOK, Settling
  <2>5. SuiSessionOK(w)'
    BY <1>1, <2>1, <2>2, <2>3, <2>4, HandsStay
       DEF SuiSessionOK, Settling, TransfersFor, Covers, LinkWallet, SuiMoved
  <2>6. NamesItsWallet(w)'
    BY <2>1, <2>2, <2>3 DEF NamesItsWallet
  <2>7. QED
    BY <1>2, <2>1, <2>5, <2>6 DEF Orderly
<1>5. QED
  BY <1>3, <1>4

LEMMA LinkExternalOrderly ==
    ASSUME SuiInv, NEW w \in Workers, NEW c \in SuiCheckouts, LinkExternal(w, c)
    PROVE  Orderly(w)
<1>1. SuiRowsKeep /\ UNCHANGED <<checkout, settled, chain>>
  BY SuiUnchanged DEF LinkExternal, SuiInv, suiVars
<1>2. SuiMoved(w) /\ SuiSessionOK(w)' /\ NamesItsWallet(w)'
  BY <1>1, PaymentIsPaid, Links DEF LinkExternal
<1>3. QED
  BY <1>1, <1>2 DEF Orderly

LEMMA PrivySessionOrderly ==
    ASSUME SuiInv, NEW w \in Workers, NEW c \in SuiCheckouts, PrivySession(w, c)
    PROVE  Orderly(w)
<1>1. SuiRowsKeep /\ UNCHANGED <<checkout, settled, chain>>
  <2>1. privy' \subseteq Payers
    BY DEF PrivySession, SuiInv, SuiTyped, SuiTypeOK
  <2>2. QED
    BY <2>1, SameChain DEF PrivySession, SuiInv, SuiTyped, SuiTypeOK, SuiRowsKeep
<1>2. CASE Link(w, c, "privy", [Payment(c) EXCEPT !.then = "read"])
  <2> DEFINE k == [Payment(c) EXCEPT !.then = "read"]
  <2>1. k \in Paid /\ k.then = "read"
    BY DEF Payment, Paid
  <2>2. SuiMoved(w) /\ SuiSessionOK(w)' /\ NamesItsWallet(w)'
    BY <1>1, <1>2, <2>1, Links
  <2>3. QED
    BY <1>1, <2>2 DEF Orderly
<1>3. CASE Goto(w, "read", [Payment(c) EXCEPT !.from = "privy"])
  <2> DEFINE k == [Payment(c) EXCEPT !.from = "privy"]
  <2>1. k \in Paid /\ k.from # None
    BY DEF Payment, Paid
  <2>2. SuiMoved(w) /\ pc'[w] = "read" /\ job'[w] = k
    BY <1>3, SuiGotoMoves DEF SuiInv
  <2>3. QED
    BY <1>1, <2>1, <2>2 DEF Orderly, SuiSessionOK, Settling, NamesItsWallet
<1>4. QED
  BY <1>2, <1>3 DEF PrivySession

LEMMA ReadCheckoutOrderly ==
    ASSUME SuiInv, NEW w \in Workers, ReadCheckout(w)
    PROVE  Orderly(w)
<1> DEFINE j == job[w]
           k == [j EXCEPT !.seen = StatusSeen(j)]
<1>1. SuiRowsKeep /\ UNCHANGED <<checkout, settled, chain>>
  BY SuiUnchanged DEF ReadCheckout, SuiInv, suiVars
<1>2. CASE Respond(w)
  BY <1>1, <1>2, AnswersAreOrderly
<1>3. CASE Goto(w, "transfer", k)
  <2>1. j \in Paid /\ j.from # None /\ SuiTypeOK
    BY DEF ReadCheckout, SuiInv, SuiTyped, SuiSessionOK
  <2>2. StatusSeen(j) \in {NotRead, "processing", "completed"}
    BY <2>1 DEF StatusSeen, SuiTypeOK, CheckoutRow, Paid
  <2>3. k \in Paid /\ k.from # None
    BY <2>1, <2>2 DEF Paid
  <2>4. SuiMoved(w) /\ pc'[w] = "transfer" /\ job'[w] = k
    BY <1>3, SuiGotoMoves DEF SuiInv
  <2>5. QED
    BY <1>1, <2>3, <2>4 DEF Orderly, SuiSessionOK, Settling, NamesItsWallet
<1>4. QED
  BY <1>2, <1>3 DEF ReadCheckout

LEMMA PayPlatformOrderly ==
    ASSUME SuiInv, NEW w \in Workers, NEW c \in SuiCheckouts, PayPlatform(w, c)
    PROVE  Orderly(w)
<1> DEFINE j == [Payment(c) EXCEPT !.seen = checkout[c].status]
           u == PayerOf[c]
<1>1. SuiRowsKeep /\ UNCHANGED <<checkout, settled, chain>>
  <2> DEFINE Wallets == [Payers -> [Addresses -> {"none", "linked", "primary"}]]
  <2>1. wallets \in Wallets /\ u \in Payers
    BY DEF SuiInv, SuiTyped, SuiTypeOK
  <2>2. wallets' = wallets \/ wallets' = [wallets EXCEPT ![u]["platform"] = "primary"]
    BY DEF PayPlatform
  <2>3. [wallets EXCEPT ![u]["platform"] = "primary"] \in Wallets
    BY <2>1
  <2>4. wallets' \in Wallets
    BY <2>1, <2>2, <2>3
  <2>5. QED
    BY <2>4, SameChain DEF PayPlatform, SuiInv, SuiTyped, SuiTypeOK, SuiRowsKeep
<1>2. ASSUME NEW a \in Addresses, NEW s \in {NotRead, checkout[c].status},
             Goto(w, "transfer", [j EXCEPT !.from = a, !.seen = s])
      PROVE  Orderly(w)
  <2> DEFINE k == [j EXCEPT !.from = a, !.seen = s]
  <2>1. s \in {NotRead, "processing", "completed"}
    BY DEF SuiInv, SuiTyped, SuiTypeOK, CheckoutRow
  <2>2. k \in Paid /\ k.from # None
    BY <2>1 DEF Payment, Paid
  <2>3. SuiMoved(w) /\ pc'[w] = "transfer" /\ job'[w] = k
    BY <1>2, SuiGotoMoves DEF SuiInv
  <2>4. QED
    BY <1>1, <2>2, <2>3 DEF Orderly, SuiSessionOK, Settling, NamesItsWallet
<1>3. CASE UNCHANGED requests
  <2>1. pc'[w] = "idle" /\ SuiMoved(w)
    BY <1>3 DEF PayPlatform, Ready, Busy, requests, SuiMoved, SuiInv, SuiTyped
  <2>2. QED
    BY <1>1, <2>1, SuiIdleOK DEF Orderly
<1>4. CASE \E a \in Primaries(u) :
              Goto(w, "transfer", [j EXCEPT !.from = IF load.configured THEN "privy" ELSE a])
  <2>1. PICK a \in Addresses :
              Goto(w, "transfer", [j EXCEPT !.from = IF load.configured THEN "privy" ELSE a])
    BY <1>4 DEF Primaries
  <2> DEFINE b == IF load.configured THEN "privy" ELSE a
  <2>2. b \in Addresses
    OBVIOUS
  <2>3. [j EXCEPT !.from = b] = [j EXCEPT !.from = b, !.seen = checkout[c].status]
    BY DEF Payment
  <2>4. QED
    BY <1>2, <2>1, <2>2, <2>3
<1>5. CASE Goto(w, "transfer", [j EXCEPT !.from = IF load.configured THEN "privy" ELSE "platform",
                                         !.seen = NotRead])
  <2> DEFINE b == IF load.configured THEN "privy" ELSE "platform"
  <2>1. b \in Addresses
    OBVIOUS
  <2>2. QED
    BY <1>2, <1>5, <2>1
<1>6. QED
  BY <1>3, <1>4, <1>5 DEF PayPlatform

LEMMA TransferOrderly ==
    ASSUME SuiInv, NEW w \in Workers, TransferSui(w)
    PROVE  Orderly(w)
<1> DEFINE j == job[w]
           k == [j EXCEPT !.digest = Len(chain) + 1]
<1>1. j \in Paid /\ j.from # None /\ SuiTypeOK
  BY DEF TransferSui, SuiInv, SuiTyped, SuiSessionOK
<1>2. CASE chain' = chain
  <2>1. Respond(w) \/ (Len(chain) < MaxTransfers /\ chain' = Append(chain, j.checkout))
    BY DEF TransferSui
  <2>2. chain' # Append(chain, j.checkout)
    BY <1>1, <1>2 DEF SuiTypeOK, Paid
  <2>3. SuiRowsKeep
    BY <1>1, <1>2, SameChain DEF TransferSui, SuiTypeOK, SuiRowsKeep
  <2>4. QED
    BY <2>1, <2>2, <2>3, AnswersAreOrderly DEF TransferSui
<1>3. CASE Len(chain) < MaxTransfers /\ chain' = Append(chain, j.checkout)
  <2>1. SuiRowsKeep
    <3>1. /\ chain' \in Seq(SuiCheckouts) /\ DOMAIN chain \subseteq DOMAIN chain'
          /\ \A d \in DOMAIN chain : chain'[d] = chain[d]
      BY <1>1, <1>3, ChainGrows DEF SuiTypeOK, Paid
    <3>2. Grows
      BY <3>1 DEF Grows, TransfersFor
    <3>3. QED
      BY <1>1, <3>1, <3>2 DEF TransferSui, SuiTypeOK, SuiRowsKeep
  <2>2. CASE Respond(w)
    BY <2>1, <2>2, AnswersAreOrderly DEF TransferSui
  <2>3. CASE Goto(w, "confirm", k)
    <3>1. Len(chain) + 1 \in Digests
      BY <1>1, <1>3 DEF SuiTypeOK
    <3>2. k \in Paid /\ k.from # None /\ k.digest = Len(chain) + 1 /\ k.checkout = j.checkout
      BY <1>1, <3>1 DEF Paid
    <3>3. SuiMoved(w) /\ pc'[w] = "confirm" /\ job'[w] = k
      BY <2>3, SuiGotoMoves DEF SuiInv
    <3>4. Len(chain) + 1 \in DOMAIN chain' /\ chain'[Len(chain) + 1] = j.checkout
      BY <1>1, <1>3 DEF SuiTypeOK, Paid
    <3>5. job'[w].digest \in {d \in DOMAIN chain' : chain'[d] = job'[w].checkout}
      BY <3>2, <3>3, <3>4
    <3>6. SuiSessionOK(w)' /\ NamesItsWallet(w)'
      BY <3>2, <3>3, <3>5 DEF SuiSessionOK, Settling, NamesItsWallet, TransfersFor
    <3>7. QED
      BY <2>1, <3>3, <3>6 DEF Orderly, TransferSui
  <2>4. QED
    BY <1>1, <1>3, <2>2, <2>3 DEF TransferSui
<1>4. QED
  BY <1>2, <1>3 DEF TransferSui

LEMMA ConfirmByHandOrderly ==
    ASSUME SuiInv, NEW w \in Workers, NEW c \in SuiCheckouts, NEW d \in Digests,
           NEW a \in Addresses \cup {None}, ConfirmByHand(w, c, d, a)
    PROVE  Orderly(w)
<1> DEFINE k == [Payment(c) EXCEPT !.digest = d, !.from = a]
<1>1. SuiRowsKeep /\ UNCHANGED <<checkout, settled, chain>>
  BY SuiUnchanged DEF ConfirmByHand, SuiInv, suiVars
<1>2. k \in Paid /\ k.digest = d /\ k.from = a /\ k.checkout = c
  BY DEF Payment, Paid
<1>3. SuiMoved(w) /\ pc'[w] = "confirm" /\ job'[w] = k
  BY SuiGotoMoves DEF ConfirmByHand, SuiInv
<1>4. ByHand'
  <2>1. ByHand
    BY DEF ConfirmByHand, Ready, Served, ByHand
  <2>2. QED
    BY <1>3, <2>1, HandsStay DEF SuiMoved
<1>5. SuiSessionOK(w)'
  BY <1>2, <1>3, <1>4 DEF SuiSessionOK, Settling
<1>6. "confirm_bare" \notin load.uses => a # None
  BY DEF ConfirmByHand, Ready, Served, Uses
<1>7. QED
  BY <1>1, <1>2, <1>3, <1>5, <1>6 DEF Orderly, NamesItsWallet

LEMMA VerifyTransferOrderly ==
    ASSUME SuiInv, NEW w \in Workers, VerifyTransfer(w)
    PROVE  Orderly(w)
<1> DEFINE j == job[w]
           seen == [j EXCEPT !.seen = StatusSeen(j)]
           k == [seen EXCEPT !.then = "settle"]
<1>1. SuiRowsKeep /\ UNCHANGED <<checkout, settled, chain>>
  BY SuiUnchanged DEF VerifyTransfer, SuiInv, suiVars
<1>2. /\ j \in Paid /\ SuiTypeOK
      /\ ByHand \/ j.digest \in TransfersFor(j.checkout)
      /\ "confirm_bare" \notin load.uses => j.from # None
  BY DEF VerifyTransfer, SuiInv, SuiTyped, SuiSessionOK, NamesItsWallet
<1>3. StatusSeen(j) \in {NotRead, "processing", "completed"}
  BY <1>2 DEF StatusSeen, SuiTypeOK, CheckoutRow, Paid
<1>4. /\ seen \in Paid /\ seen.digest = j.digest /\ seen.checkout = j.checkout
      /\ k \in Paid /\ k.digest = j.digest /\ k.checkout = j.checkout /\ k.then = "settle"
  BY <1>2, <1>3 DEF Paid
<1>5. CASE Respond(w)
  BY <1>1, <1>5, AnswersAreOrderly
<1>6. CASE Covers(j.digest, j.checkout) /\ j.from = None /\ Goto(w, "settle", seen)
  <2>1. SuiMoved(w) /\ pc'[w] = "settle" /\ job'[w] = seen
    BY <1>6, SuiGotoMoves DEF SuiInv
  <2>2. SuiSessionOK(w)'
    BY <1>1, <1>2, <1>4, <1>6, <2>1, HandsStay
       DEF SuiSessionOK, Settling, TransfersFor, Covers, SuiMoved
  <2>3. QED
    BY <1>1, <1>2, <1>6, <2>1, <2>2 DEF Orderly
<1>7. CASE Covers(j.digest, j.checkout) /\ j.from # None /\ Link(w, j.checkout, j.from, k)
  <2>1. j.checkout \in SuiCheckouts /\ j.from \in Addresses
    BY <1>2, <1>7 DEF Paid
  <2>2. SuiMoved(w) /\ SuiSessionOK(w)' /\ NamesItsWallet(w)'
    BY <1>1, <1>2, <1>4, <1>7, <2>1, Links
  <2>3. QED
    BY <1>1, <2>2 DEF Orderly
<1>8. QED
  BY <1>5, <1>6, <1>7 DEF VerifyTransfer

LEMMA RowsOfSettling ==
    ASSUME SuiTypeOK, NEW c \in SuiCheckouts, NEW r \in CheckoutRow
    PROVE  /\ [checkout EXCEPT ![c] = r] \in [SuiCheckouts -> CheckoutRow]
           /\ [settled EXCEPT ![c] = @ + 1] \in [SuiCheckouts -> Nat]
           /\ Takes(c) => [balance EXCEPT ![BillOf[c]] = @ - AmountOf[c]] \in [Bills -> Nat]
<1>1. AmountOf[c] \in Nat /\ BillOf[c] \in Bills /\ balance \in [Bills -> Nat]
  BY DEF SuiTypeOK
<1>2. Takes(c) => balance[BillOf[c]] - AmountOf[c] \in Nat
  BY <1>1 DEF Takes
<1>3. Takes(c) => [balance EXCEPT ![BillOf[c]] = @ - AmountOf[c]] \in [Bills -> Nat]
  BY <1>1, <1>2
<1>4. QED
  BY <1>3 DEF SuiTypeOK

\* The step that settles: the copy it reads is new unless a confirmation
\* named no wallet, so it settles an open checkout, by a transfer that covers it.
LEMMA SettleKeeps ==
    ASSUME SuiInv, NEW w \in Workers, SettleCheckout(w)
    PROVE  SuiInv'
<1> DEFINE j == job[w]
           c == j.checkout
<1>1. /\ j \in Paid /\ c \in SuiCheckouts /\ Covers(j.digest, c) /\ SuiTypeOK /\ SuiTyped
      /\ ByHand \/ j.digest \in TransfersFor(c)
  BY DEF SettleCheckout, SuiInv, SuiTyped, SuiSessionOK, Settling, Paid
<1>2. SuiMoved(w) /\ pc'[w] = "idle" /\ chain' = chain /\ ByHand' = ByHand
  BY SuiRespondMoves, HandsStay DEF SettleCheckout, SuiInv, SuiMoved
<1>3. SuiRowsKeep
  <2>1. [status |-> "completed", digest |-> j.digest] \in CheckoutRow
    BY <1>1 DEF CheckoutRow, Paid
  <2>2. \/ checkout' = checkout /\ settled' = settled /\ balance' = balance
        \/ /\ checkout' = [checkout EXCEPT ![c] = [status |-> "completed", digest |-> j.digest]]
           /\ settled' = [settled EXCEPT ![c] = @ + 1]
           /\ Takes(c) /\ balance' = [balance EXCEPT ![BillOf[c]] = @ - AmountOf[c]]
    BY DEF SettleCheckout
  <2>3. /\ checkout' \in [SuiCheckouts -> CheckoutRow]
        /\ settled' \in [SuiCheckouts -> Nat] /\ balance' \in [Bills -> Nat]
    <3>1. /\ [checkout EXCEPT ![c] = [status |-> "completed", digest |-> j.digest]]
                \in [SuiCheckouts -> CheckoutRow]
          /\ [settled EXCEPT ![c] = @ + 1] \in [SuiCheckouts -> Nat]
          /\ Takes(c) => [balance EXCEPT ![BillOf[c]] = @ - AmountOf[c]] \in [Bills -> Nat]
      BY <1>1, <2>1, RowsOfSettling
    <3>2. /\ checkout \in [SuiCheckouts -> CheckoutRow] /\ settled \in [SuiCheckouts -> Nat]
          /\ balance \in [Bills -> Nat]
      BY <1>1 DEF SuiTypeOK
    <3>3. QED
      BY <2>2, <3>1, <3>2
  <2>4. QED
    BY <1>1, <1>2, <2>3, SameChain DEF SettleCheckout, SuiTypeOK, SuiRowsKeep
<1>4. CASE UNCHANGED <<checkout, settled>>
  BY <1>2, <1>3, <1>4, AnswersAreOrderly, OrderlyKeeps DEF SettleCheckout
<1>5. CASE /\ StatusSeen(j) # "completed"
           /\ checkout' = [checkout EXCEPT ![c] = [status |-> "completed", digest |-> j.digest]]
           /\ settled' = [settled EXCEPT ![c] = @ + 1]
  <2>1. SuiSessionOK(w)' /\ NamesItsWallet(w)'
    BY <1>2, SuiIdleOK
  <2>2. SuiTyped'
    BY <1>1, <1>2, <1>3, <2>1, SuiTypedMoves
  <2>3. ASSUME "confirm_bare" \notin load.uses
        PROVE  SettledOnce' /\ \A v \in Workers : NamesItsWallet(v)'
    <3>1. SettledOnce /\ j.seen = NotRead /\ \A v \in Workers : NamesItsWallet(v)
      BY <2>3 DEF SuiInv, NamesItsWallet, SettleCheckout
    <3>2. checkout[c].status # "completed" /\ settled[c] = 0
      BY <1>1, <1>5, <3>1 DEF StatusSeen, SettledOnce
    <3>3. /\ settled'[c] = 1 /\ checkout'[c].status = "completed"
          /\ checkout'[c].digest = j.digest
      BY <1>1, <1>5, <3>2 DEF SuiTypeOK
    <3>4. ASSUME NEW b \in SuiCheckouts
          PROVE  /\ settled'[b] = IF checkout'[b].status = "completed" THEN 1 ELSE 0
                 /\ checkout'[b].status = "completed" =>
                       /\ checkout'[b].digest \in DOMAIN chain'
                       /\ AmountOf[chain'[checkout'[b].digest]] >= AmountOf[b]
                       /\ ByHand' \/ checkout'[b].digest \in {d \in DOMAIN chain' : chain'[d] = b}
      <4>1. CASE b = c
        BY <1>1, <1>2, <3>3, <4>1 DEF TransfersFor, Covers
      <4>2. CASE b # c
        <5>1. checkout'[b] = checkout[b] /\ settled'[b] = settled[b]
          BY <1>1, <1>5, <4>2 DEF SuiTypeOK
        <5>2. QED
          BY <1>2, <3>1, <5>1 DEF SettledOnce, TransfersFor, Covers
      <4>3. QED
        BY <4>1, <4>2
    <3>5. SettledOnce'
      BY <3>4 DEF SettledOnce, TransfersFor, Covers
    <3>6. QED
      BY <1>2, <2>1, <3>1, <3>5, NamesMove
  <2>4. QED
    BY <1>2, <2>2, <2>3 DEF SuiInv, SuiMoved
<1>6. QED
  BY <1>4, <1>5 DEF SettleCheckout

LEMMA PaidElsewhere ==
    ASSUME SuiTypeOK, NEW b \in Bills, NEW left \in 0 .. balance[b], PayElsewhere(b, left)
    PROVE  SuiTypeOK' /\ DueFalls
<1>1. balance \in [Bills -> Nat] /\ left \in Nat /\ left <= balance[b]
  BY DEF SuiTypeOK
<1>2. balance' = [balance EXCEPT ![b] = left]
  BY DEF PayElsewhere
<1>3. balance' \in [Bills -> Nat] /\ DueFalls
  BY <1>1, <1>2 DEF DueFalls
<1>4. QED
  BY <1>3 DEF PayElsewhere, SuiTypeOK

LEMMA PaidElsewhereKeeps ==
    ASSUME SuiInv, NEW b \in Bills, NEW left \in 0 .. balance[b], PayElsewhere(b, left)
    PROVE  SuiInv'
<1>1. SuiTypeOK' /\ SuiTypeOK
  BY PaidElsewhere DEF SuiInv, SuiTyped
<1>2. UNCHANGED <<load, pc, job, checkout, settled, chain>>
  BY DEF PayElsewhere, requests
<1>3. SettledOnce => SettledOnce'
  BY <1>1, <1>2, SameChain, SettledStays
<1>4. SuiTyped'
  BY <1>1, <1>2, HandsStay DEF SuiInv, SuiTyped, SuiSessionOK, Settling, TransfersFor, Covers
<1>5. QED
  BY <1>2, <1>3, <1>4 DEF SuiInv, NamesItsWallet

LEMMA SuiStep ==
    ASSUME SuiInv, SuiNext
    PROVE  SuiInv'
<1>1. ASSUME NEW w \in Workers, NEW c \in SuiCheckouts,
             \/ LinkExternal(w, c) \/ PayPrivy(w, c) \/ SubmitPrivy(w, c) \/ PayPlatform(w, c)
             \/ \E d \in Digests, a \in Addresses \cup {None} : ConfirmByHand(w, c, d, a)
      PROVE  SuiInv'
  <2>1. Orderly(w)
    BY <1>1, LinkExternalOrderly, PrivySessionOrderly, PayPlatformOrderly,
       ConfirmByHandOrderly DEF PayPrivy, SubmitPrivy
  <2>2. QED
    BY <2>1, OrderlyKeeps
<1>2. ASSUME NEW w \in Workers,
             LinkWallet(w) \/ ReadCheckout(w) \/ TransferSui(w) \/ VerifyTransfer(w)
      PROVE  SuiInv'
  BY <1>2, LinkWalletOrderly, ReadCheckoutOrderly, TransferOrderly, VerifyTransferOrderly,
     OrderlyKeeps
<1>3. ASSUME NEW w \in Workers, Die(w) /\ UNCHANGED suiVars
      PROVE  SuiInv'
  <2>1. SuiRowsKeep /\ UNCHANGED <<checkout, settled>> /\ Respond(w)
    BY <1>3, SuiUnchanged DEF Die, SuiInv, suiVars
  <2>2. QED
    BY <2>1, AnswersAreOrderly, OrderlyKeeps
<1>4. ASSUME NEW b \in Bills, NEW left \in 0 .. balance[b], PayElsewhere(b, left)
      PROVE  SuiInv'
  BY <1>4, PaidElsewhereKeeps
<1>5. QED
  BY <1>1, <1>2, <1>3, <1>4, SettleKeeps DEF SuiNext

-----------------------------------------------------------------------------
(* Payments in Sui, one at a time: primary wallets, payments settled.      *)

LEMMA SuiAloneKeeps ==
    ASSUME NEW w \in Workers, SuiMoved(w), SuiOthersIdle(w), SuiAloneDoes(w)
    PROVE  SuiSerial'
<1>1. ASSUME NEW v \in Workers, v # w
      PROVE  pc'[v] = "idle"
  BY <1>1 DEF SuiMoved, SuiOthersIdle, Busy
<1>2. SuiAlone' /\ \A v \in Workers : LinkingAsRead(v)'
  BY <1>1 DEF SuiAlone, Busy, LinkingAsRead, SuiAloneDoes
<1>3. Answering' => Answering
  BY DEF Answering, SuiMoved
<1>4. ASSUME Answering PROVE TransfersAccounted' /\ \A v \in Workers : StatusAsRead(v)'
  BY <1>1, <1>4 DEF StatusAsRead, SuiAloneDoes
<1>5. QED
  BY <1>2, <1>3, <1>4 DEF SuiSerial, SuiAloneDoes

LEMMA SameWallets ==
    ASSUME OnePrimary, wallets' = wallets
    PROVE  OnePrimary' /\ PrimariesStay /\ \A u \in Payers : Primaries(u)' = Primaries(u)
BY DEF OnePrimary, PrimariesStay, Primaries

\* Where no transfer is made and none is left behind, they stay accounted for.
LEMMA SameTransfers ==
    ASSUME TransfersAccounted, NEW w \in Workers, SuiOthersIdle(w),
           UNCHANGED <<checkout, balance, chain>>,
           \A c \in SuiCheckouts :
               Paying(w, c) => checkout[c].status = "completed" \/ Paying(w, c)'
    PROVE  TransfersAccounted'
<1>1. \A v \in Workers, c \in SuiCheckouts : Paying(v, c) => v = w
  BY DEF SuiOthersIdle, Busy, Paying, Settling
<1>2. ASSUME NEW c \in SuiCheckouts
      PROVE  /\ (\A d, e \in TransfersFor(c)' : d = e) \/ TooLate(c)'
             /\ TransfersFor(c)' # {} =>
                   \/ checkout'[c].status = "completed" \/ TooLate(c)'
                   \/ \E v \in Workers : Paying(v, c)'
  <2>1. /\ TransfersFor(c)' = TransfersFor(c) /\ checkout'[c].status = checkout[c].status
        /\ TooLate(c)' = TooLate(c)
    BY DEF TransfersFor, TooLate, Takes
  <2>2. \/ checkout[c].status = "completed" \/ TooLate(c)
        \/ Paying(w, c) \/ TransfersFor(c) = {}
    BY <1>1 DEF TransfersAccounted
  <2>3. QED
    BY <2>1, <2>2 DEF TransfersAccounted
<1>3. QED
  BY <1>2 DEF TransfersAccounted, TransfersFor, TooLate, Takes, Paying, Settling

\* A session that holds no payment has none to lose.
LEMMA NotPaying ==
    ASSUME NEW w \in Workers, ~Busy(w) \/ pc[w] \in {"read", "transfer"}
    PROVE  \A c \in SuiCheckouts : ~Paying(w, c)
BY DEF Busy, Paying, Settling

\* A request that has answered, and left no payment.
LEMMA SuiAnswersAlone ==
    ASSUME OnePrimary, Answering => TransfersAccounted, NEW w \in Workers, SuiOthersIdle(w),
           pc'[w] = "idle", UNCHANGED <<wallets, checkout, balance, chain>>,
           Answering => \A c \in SuiCheckouts : Paying(w, c) => checkout[c].status = "completed"
    PROVE  SuiAloneDoes(w)
<1>1. LinkingAsRead(w)' /\ StatusAsRead(w)'
  BY DEF LinkingAsRead, StatusAsRead
<1>2. Answering => TransfersAccounted'
  BY SameTransfers
<1>3. QED
  BY <1>1, <1>2, SameWallets DEF SuiAloneDoes

\* The payer's wallets are as they were read: one is primary afterwards.
LEMMA LinkedPrimary ==
    ASSUME SuiTypeOK, OnePrimary, NEW u \in Payers, NEW from \in Addresses,
           wallets' = [wallets EXCEPT ![u] = [a \in Addresses |->
                         IF a = from THEN "primary"
                         ELSE IF a \in Primaries(u) THEN "linked" ELSE @[a]]]
    PROVE  OnePrimary' /\ PrimariesStay
<1>1. wallets'[u] = [a \in Addresses |->
                        IF a = from THEN "primary"
                        ELSE IF a \in Primaries(u) THEN "linked" ELSE wallets[u][a]]
  BY DEF SuiTypeOK
<1>2. \A a \in Addresses : wallets'[u][a] = "primary" <=> a = from
  <2>1. ASSUME NEW a \in Addresses, a # from PROVE wallets'[u][a] # "primary"
    BY <1>1, <2>1 DEF Primaries
  <2>2. wallets'[u][from] = "primary"
    BY <1>1
  <2>3. QED
    BY <2>1, <2>2
<1>3. \A v \in Payers : v # u => wallets'[v] = wallets[v]
  BY DEF SuiTypeOK
<1>4. from \in Primaries(u)'
  BY <1>2 DEF Primaries
<1>5. OnePrimary'
  BY <1>2, <1>3 DEF OnePrimary, Primaries
<1>6. PrimariesStay
  BY <1>3, <1>4 DEF PrimariesStay, Primaries
<1>7. QED
  BY <1>5, <1>6

LEMMA SuiAtWork ==
    ASSUME SuiCalm, NEW w \in Workers, Busy(w)
    PROVE  SuiOthersIdle(w)
BY DEF SuiCalm, SuiSerial, SuiAlone, SuiOthersIdle

LEMMA SuiArrives ==
    ASSUME SuiCalm, NEW w \in Workers, NEW handler, Ready(w, handler)
    PROVE  SuiOthersIdle(w) /\ ~Busy(w)
BY DEF SuiCalm, Ready, Served, SuiOthersIdle

LEMMA SuiCalmly ==
    ASSUME SuiCalm
    PROVE  /\ SuiTypeOK /\ SuiTyped /\ OnePrimary
           /\ \A w \in Workers : SuiSessionOK(w) /\ LinkingAsRead(w)
           /\ Answering => TransfersAccounted /\ \A w \in Workers : StatusAsRead(w)
BY DEF SuiCalm, SuiInv, SuiTyped, SuiSerial

\* A session that goes on without touching wallets.
LEMMA GoesOnAlone ==
    ASSUME SuiCalm, NEW w \in Workers, SuiOthersIdle(w), pc'[w] # "link",
           UNCHANGED <<wallets, checkout, balance, chain>>,
           Answering => StatusAsRead(w)',
           Answering => \A c \in SuiCheckouts :
               Paying(w, c) => checkout[c].status = "completed" \/ Paying(w, c)'
    PROVE  SuiAloneDoes(w)
<1>1. LinkingAsRead(w)'
  BY DEF LinkingAsRead
<1>2. Answering => TransfersAccounted'
  BY SuiCalmly, SameTransfers
<1>3. QED
  BY <1>1, <1>2, SuiCalmly, SameWallets DEF SuiAloneDoes

LEMMA AnswersCalmly ==
    ASSUME SuiCalm, NEW w \in Workers, SuiOthersIdle(w), Respond(w),
           UNCHANGED <<wallets, checkout, balance, chain>>,
           Answering => \A c \in SuiCheckouts : Paying(w, c) => checkout[c].status = "completed"
    PROVE  SuiAloneDoes(w)
BY SuiCalmly, SuiRespondMoves, SuiAnswersAlone

\* A session that is going to link a wallet reads which are primary.
LEMMA LinkReads ==
    ASSUME SuiCalm, NEW w \in Workers, SuiOthersIdle(w), NEW c \in SuiCheckouts,
           NEW a \in Addresses, NEW j \in Paid, j.checkout = c, Link(w, c, a, j),
           UNCHANGED <<wallets, checkout, balance, chain>>,
           Answering => \A b \in SuiCheckouts :
               Paying(w, b) =>
                   \/ checkout[b].status = "completed"
                   \/ j.then = "settle" /\ b = c /\ j.digest \in TransfersFor(c)
    PROVE  SuiAloneDoes(w)
<1> DEFINE k == [j EXCEPT !.from = a, !.primaries = Unset(PayerOf[c])]
<1>1. SuiMoved(w) /\ pc'[w] = "link" /\ job'[w] = k
  BY SuiCalmly, SuiGotoMoves DEF Link
<1>2. /\ k.then = j.then /\ k.checkout = c /\ k.digest = j.digest
      /\ k.primaries = Primaries(PayerOf[c])
  BY DEF Paid, Unset
<1>3. LinkingAsRead(w)'
  BY <1>1, <1>2 DEF LinkingAsRead, Primaries
<1>4. StatusAsRead(w)'
  BY <1>1 DEF StatusAsRead
<1>5. Answering => TransfersAccounted'
  <2>1. ASSUME NEW b \in SuiCheckouts, j.then = "settle", b = c, j.digest \in TransfersFor(c)
        PROVE  Paying(w, b)'
    BY <1>1, <1>2, <2>1 DEF Paying, Settling, TransfersFor
  <2>2. QED
    BY <2>1, SuiCalmly, SameTransfers
<1>6. QED
  BY <1>3, <1>4, <1>5, SuiCalmly, SameWallets DEF SuiAloneDoes

LEMMA LinkWalletAlone ==
    ASSUME SuiCalm, NEW w \in Workers, LinkWallet(w)
    PROVE  SuiOthersIdle(w) /\ SuiAloneDoes(w)
<1> DEFINE j == job[w]
           u == PayerOf[j.checkout]
           k == [j EXCEPT !.seen = NotRead]
<1>1. SuiOthersIdle(w)
  BY SuiAtWork DEF LinkWallet, Busy
<1>2. /\ j \in Paid /\ j.from \in Addresses /\ j.primaries = Primaries(u) /\ u \in Payers
      /\ SuiTypeOK /\ OnePrimary
  BY SuiCalmly DEF LinkWallet, SuiSessionOK, LinkingAsRead, Paid
<1>3. OnePrimary' /\ PrimariesStay
  <2>1. wallets' = [wallets EXCEPT ![u] = [a \in Addresses |->
                      IF a = j.from THEN "primary"
                      ELSE IF a \in Primaries(u) THEN "linked" ELSE @[a]]]
    BY <1>2 DEF LinkWallet
  <2>2. QED
    BY <1>2, <2>1, LinkedPrimary
<1>4. /\ k.then = j.then /\ k.checkout = j.checkout /\ k.digest = j.digest /\ k.seen = NotRead
      /\ j.then \in {"respond", "read", "settle"}
  BY <1>2 DEF Paid
<1>5. IF j.then = "respond" THEN pc'[w] = "idle" ELSE pc'[w] = j.then /\ job'[w] = k
  BY SuiCalmly, SuiRespondMoves, SuiGotoMoves DEF LinkWallet
<1>6. LinkingAsRead(w)' /\ StatusAsRead(w)'
  BY <1>4, <1>5 DEF LinkingAsRead, StatusAsRead
<1>7. \A c \in SuiCheckouts : Paying(w, c) => Paying(w, c)'
  BY <1>4, <1>5 DEF Paying, Settling, TransfersFor, LinkWallet
<1>8. Answering => TransfersAccounted'
  BY <1>1, <1>7, SuiCalmly, SameTransfers DEF LinkWallet
<1>9. QED
  BY <1>1, <1>3, <1>6, <1>8 DEF SuiAloneDoes

LEMMA LinkExternalAlone ==
    ASSUME SuiCalm, NEW w \in Workers, NEW c \in SuiCheckouts, LinkExternal(w, c)
    PROVE  SuiOthersIdle(w) /\ SuiAloneDoes(w)
<1>1. SuiOthersIdle(w) /\ ~Busy(w)
  BY SuiArrives DEF LinkExternal
<1>2. \A b \in SuiCheckouts : ~Paying(w, b)
  BY <1>1, NotPaying
<1>3. Link(w, c, "external", Payment(c)) /\ UNCHANGED <<wallets, checkout, balance, chain>>
  BY DEF LinkExternal, suiVars
<1>4. QED
  BY <1>1, <1>2, <1>3, PaymentIsPaid, LinkReads

LEMMA PrivySessionAlone ==
    ASSUME SuiCalm, NEW w \in Workers, NEW c \in SuiCheckouts, PrivySession(w, c),
           SuiOthersIdle(w), ~Busy(w)
    PROVE  SuiAloneDoes(w)
<1>1. \A b \in SuiCheckouts : ~Paying(w, b)
  BY NotPaying
<1>2. UNCHANGED <<wallets, checkout, balance, chain>>
  BY DEF PrivySession
<1>3. CASE Link(w, c, "privy", [Payment(c) EXCEPT !.then = "read"])
  <2> DEFINE k == [Payment(c) EXCEPT !.then = "read"]
  <2>1. k \in Paid /\ k.checkout = c
    BY DEF Payment, Paid
  <2>2. QED
    BY <1>1, <1>2, <1>3, <2>1, LinkReads
<1>4. CASE Goto(w, "read", [Payment(c) EXCEPT !.from = "privy"])
  <2> DEFINE k == [Payment(c) EXCEPT !.from = "privy"]
  <2>1. pc'[w] = "read" /\ job'[w] = k /\ k.seen = NotRead
    BY <1>4, SuiCalmly, SuiGotoMoves DEF Payment
  <2>2. StatusAsRead(w)'
    BY <2>1 DEF StatusAsRead
  <2>3. QED
    BY <1>1, <1>2, <2>1, <2>2, GoesOnAlone
<1>5. QED
  BY <1>3, <1>4 DEF PrivySession

LEMMA ReadCheckoutAlone ==
    ASSUME SuiCalm, NEW w \in Workers, ReadCheckout(w)
    PROVE  SuiOthersIdle(w) /\ SuiAloneDoes(w)
<1> DEFINE j == job[w]
           k == [j EXCEPT !.seen = StatusSeen(j)]
<1>1. SuiOthersIdle(w)
  BY SuiAtWork DEF ReadCheckout, Busy
<1>2. \A b \in SuiCheckouts : ~Paying(w, b)
  BY NotPaying DEF ReadCheckout
<1>3. UNCHANGED <<wallets, checkout, balance, chain>>
  BY DEF ReadCheckout, suiVars
<1>4. CASE Respond(w)
  BY <1>1, <1>2, <1>3, <1>4, AnswersCalmly
<1>5. CASE StatusSeen(j) # "completed" /\ Goto(w, "transfer", k)
  <2>1. pc'[w] = "transfer" /\ job'[w] = k
    BY <1>5, SuiCalmly, SuiGotoMoves
  <2>2. j \in Paid
    BY SuiCalmly DEF ReadCheckout, SuiSessionOK
  <2>3. k.seen = StatusSeen(j) /\ k.checkout = j.checkout
    BY <2>2 DEF Paid
  <2>4. Answering => StatusSeen(j) = checkout[j.checkout].status
    BY SuiCalmly DEF StatusAsRead, StatusSeen, ReadCheckout
  <2>5. Answering => StatusAsRead(w)'
    BY <1>3, <1>5, <2>1, <2>3, <2>4 DEF StatusAsRead
  <2>6. QED
    BY <1>1, <1>2, <1>3, <2>1, <2>5, GoesOnAlone
<1>6. QED
  BY <1>1, <1>4, <1>5 DEF ReadCheckout

LEMMA PayPlatformAlone ==
    ASSUME SuiCalm, NEW w \in Workers, NEW c \in SuiCheckouts, PayPlatform(w, c)
    PROVE  SuiOthersIdle(w) /\ SuiAloneDoes(w)
<1> DEFINE j == [Payment(c) EXCEPT !.seen = checkout[c].status]
           u == PayerOf[c]
<1>1. SuiOthersIdle(w) /\ ~Busy(w)
  BY SuiArrives DEF PayPlatform
<1>2. /\ \A b \in SuiCheckouts : ~Paying(w, b)
      /\ UNCHANGED <<checkout, balance, chain>> /\ checkout[c].status # "completed" /\ u \in Payers
  BY <1>1, NotPaying DEF PayPlatform
<1>3. OnePrimary' /\ PrimariesStay
  <2>1. CASE wallets' = wallets
    BY <2>1, SuiCalmly, SameWallets
  <2>2. CASE Primaries(u) = {} /\ wallets' = [wallets EXCEPT ![u]["platform"] = "primary"]
    <3>1. wallets \in [Payers -> [Addresses -> {"none", "linked", "primary"}]]
      BY SuiCalmly DEF SuiTypeOK
    <3>2. /\ \A a \in Addresses : wallets'[u][a] = "primary" <=> a = "platform"
          /\ \A v \in Payers : v # u => wallets'[v] = wallets[v]
      BY <1>2, <2>2, <3>1 DEF Primaries
    <3>3. OnePrimary'
      BY <3>2, SuiCalmly DEF OnePrimary, Primaries
    <3>4. PrimariesStay
      BY <2>2, <3>2 DEF PrimariesStay, Primaries
    <3>5. QED
      BY <3>3, <3>4
  <2>3. QED
    BY <2>1, <2>2 DEF PayPlatform
<1>4. ASSUME NEW a \in Addresses, NEW s \in {NotRead, checkout[c].status},
             Goto(w, "transfer", [j EXCEPT !.from = a, !.seen = s])
      PROVE  pc'[w] # "link" /\ StatusAsRead(w)'
  <2> DEFINE k == [j EXCEPT !.from = a, !.seen = s]
  <2>1. pc'[w] = "transfer" /\ job'[w] = k /\ k.checkout = c /\ k.seen = s
    BY <1>4, SuiCalmly, SuiGotoMoves DEF Payment
  <2>2. QED
    BY <1>2, <2>1 DEF StatusAsRead
<1>5. pc'[w] # "link" /\ StatusAsRead(w)'
  <2>1. CASE UNCHANGED requests
    BY <1>1, <2>1 DEF requests, Busy, StatusAsRead
  <2>2. CASE \E a \in Primaries(u) :
                Goto(w, "transfer", [j EXCEPT !.from = IF load.configured THEN "privy" ELSE a])
    <3>1. PICK a \in Addresses :
                Goto(w, "transfer", [j EXCEPT !.from = IF load.configured THEN "privy" ELSE a])
      BY <2>2 DEF Primaries
    <3> DEFINE b == IF load.configured THEN "privy" ELSE a
    <3>2. b \in Addresses
      OBVIOUS
    <3>3. [j EXCEPT !.from = b] = [j EXCEPT !.from = b, !.seen = checkout[c].status]
      BY DEF Payment
    <3>4. QED
      BY <1>4, <3>1, <3>2, <3>3
  <2>3. CASE Goto(w, "transfer", [j EXCEPT !.from = IF load.configured THEN "privy" ELSE "platform",
                                           !.seen = NotRead])
    <3> DEFINE b == IF load.configured THEN "privy" ELSE "platform"
    <3>1. b \in Addresses
      OBVIOUS
    <3>2. QED
      BY <1>4, <2>3, <3>1
  <2>4. QED
    BY <2>1, <2>2, <2>3 DEF PayPlatform
<1>6. Answering => TransfersAccounted'
  BY <1>1, <1>2, SuiCalmly, SameTransfers
<1>7. QED
  BY <1>1, <1>3, <1>5, <1>6 DEF SuiAloneDoes, LinkingAsRead

\* A transfer is the first for its checkout, unless it comes too late, and its
\* session goes on to confirm it.
LEMMA TransferAlone ==
    ASSUME SuiCalm, NEW w \in Workers, TransferSui(w)
    PROVE  SuiOthersIdle(w) /\ SuiAloneDoes(w)
<1> DEFINE j == job[w]
           c == j.checkout
           k == [j EXCEPT !.digest = Len(chain) + 1]
<1>1. SuiOthersIdle(w)
  BY SuiAtWork DEF TransferSui, Busy
<1>2. j \in Paid /\ SuiTypeOK /\ UNCHANGED <<wallets, checkout, balance>> /\ c \in SuiCheckouts
  BY SuiCalmly DEF TransferSui, SuiSessionOK, Paid
<1>3. \A b \in SuiCheckouts, v \in Workers : ~Paying(v, b)
  BY <1>1, NotPaying DEF TransferSui, SuiOthersIdle
<1>4. CASE Respond(w) /\ UNCHANGED chain
  BY <1>1, <1>2, <1>3, <1>4, AnswersCalmly
<1>5. CASE /\ Len(chain) < MaxTransfers /\ chain' = Append(chain, c)
           /\ Goto(w, "confirm", k) \/ (load.lossy /\ Respond(w))
  <2>1. ASSUME Answering
        PROVE  TransfersAccounted' /\ StatusAsRead(w)'
    <3>1. pc'[w] = "confirm" /\ job'[w] = k
      BY <1>5, <2>1, SuiCalmly, SuiGotoMoves DEF Answering
    <3>2. k.checkout = c /\ k.seen = j.seen /\ k.digest = Len(chain) + 1
      BY <1>2 DEF Paid
    <3>3. j.seen \in {NotRead, checkout[c].status} /\ checkout[c].status # "completed"
      BY <2>1, SuiCalmly DEF StatusAsRead, TransferSui
    <3>4. StatusAsRead(w)'
      BY <1>2, <3>1, <3>2, <3>3 DEF StatusAsRead
    <3>5. /\ DOMAIN chain' = DOMAIN chain \cup {Len(chain) + 1}
          /\ chain'[Len(chain) + 1] = c /\ \A d \in DOMAIN chain : chain'[d] = chain[d]
      BY <1>2, <1>5, ChainGrows DEF SuiTypeOK
    <3>6. \A b \in SuiCheckouts : b = c => Paying(w, b)'
      BY <3>1, <3>2, <3>5 DEF Paying, TransfersFor
    <3>7. TransfersFor(c) = {} \/ TooLate(c)
      BY <1>2, <1>3, <2>1, <3>3, SuiCalmly DEF TransfersAccounted
    <3>8. \A b \in SuiCheckouts : TooLate(b)' = TooLate(b)
      BY <1>2 DEF TooLate, Takes
    <3>9. ASSUME NEW b \in SuiCheckouts
          PROVE  /\ (\A d, e \in TransfersFor(b)' : d = e) \/ TooLate(b)'
                 /\ TransfersFor(b)' # {} =>
                       \/ checkout'[b].status = "completed" \/ TooLate(b)'
                       \/ \E v \in Workers : Paying(v, b)'
      <4>1. CASE b = c /\ TooLate(c)
        BY <3>8, <4>1
      <4>2. CASE b = c /\ TransfersFor(c) = {}
        <5>1. \A d \in DOMAIN chain' : chain'[d] = b => d = Len(chain) + 1
          BY <3>5, <4>2 DEF TransfersFor
        <5>2. QED
          BY <3>6, <4>2, <5>1 DEF TransfersFor
      <4>3. CASE b # c
        <5>1. TransfersFor(b)' = TransfersFor(b)
          BY <3>5, <4>3 DEF TransfersFor
        <5>2. QED
          BY <1>2, <1>3, <2>1, <3>8, <5>1, SuiCalmly DEF TransfersAccounted
      <4>4. QED
        BY <3>7, <4>1, <4>2, <4>3
    <3>10. QED
      BY <3>4, <3>9 DEF TransfersAccounted, TransfersFor, TooLate, Takes, Paying, Settling
  <2>2. pc'[w] # "link"
    BY <1>5, SuiCalmly, SuiGotoMoves, SuiRespondMoves
  <2>3. QED
    BY <1>1, <1>2, <2>1, <2>2, SuiCalmly, SameWallets DEF SuiAloneDoes, LinkingAsRead
<1>6. QED
  BY <1>1, <1>4, <1>5 DEF TransferSui

LEMMA ConfirmByHandAlone ==
    ASSUME SuiCalm, NEW w \in Workers, NEW c \in SuiCheckouts, NEW d \in Digests,
           NEW a \in Addresses \cup {None}, ConfirmByHand(w, c, d, a)
    PROVE  SuiOthersIdle(w) /\ SuiAloneDoes(w)
<1> DEFINE k == [Payment(c) EXCEPT !.digest = d, !.from = a]
<1>1. SuiOthersIdle(w) /\ ~Busy(w)
  BY SuiArrives DEF ConfirmByHand
<1>2. \A b \in SuiCheckouts : ~Paying(w, b)
  BY <1>1, NotPaying
<1>3. pc'[w] = "confirm" /\ job'[w] = k /\ k.seen = NotRead
  BY SuiCalmly, SuiGotoMoves DEF ConfirmByHand, Payment
<1>4. StatusAsRead(w)'
  BY <1>3 DEF StatusAsRead
<1>5. QED
  BY <1>1, <1>2, <1>3, <1>4, GoesOnAlone DEF ConfirmByHand, suiVars

LEMMA VerifyTransferAlone ==
    ASSUME SuiCalm, NEW w \in Workers, VerifyTransfer(w)
    PROVE  SuiOthersIdle(w) /\ SuiAloneDoes(w)
<1> DEFINE j == job[w]
           c == j.checkout
           seen == [j EXCEPT !.seen = StatusSeen(j)]
           k == [seen EXCEPT !.then = "settle"]
<1>1. SuiOthersIdle(w)
  BY SuiAtWork DEF VerifyTransfer, Busy
<1>2. /\ j \in Paid /\ c \in SuiCheckouts /\ SuiTypeOK
      /\ UNCHANGED <<wallets, checkout, balance, chain>>
  BY SuiCalmly DEF VerifyTransfer, SuiSessionOK, Paid, suiVars
<1>3. Answering => StatusSeen(j) = checkout[c].status
  BY SuiCalmly DEF StatusAsRead, StatusSeen, VerifyTransfer
<1>4. StatusSeen(j) \in {NotRead, "processing", "completed"}
  BY <1>2 DEF StatusSeen, SuiTypeOK, CheckoutRow, Paid
<1>5. /\ seen.checkout = c /\ seen.seen = StatusSeen(j) /\ seen \in Paid
      /\ seen.digest = j.digest /\ k.digest = j.digest
      /\ k \in Paid /\ k.checkout = c /\ k.then = "settle"
  BY <1>2, <1>4 DEF Paid
<1>6. \A b \in SuiCheckouts :
        Paying(w, b) => b = c /\ j.digest \in TransfersFor(c) /\ Covers(j.digest, c)
  <2>1. AmountOf[c] \in Nat
    BY <1>2
  <2>2. QED
    BY <2>1 DEF Paying, TransfersFor, Covers
<1>7. CASE Respond(w) /\ (StatusSeen(j) = "completed" \/ ~Covers(j.digest, c) \/ load.lossy)
  BY <1>1, <1>2, <1>3, <1>6, <1>7, AnswersCalmly DEF Answering
<1>8. CASE Goto(w, "settle", seen)
  <2>1. pc'[w] = "settle" /\ job'[w] = seen
    BY <1>8, SuiCalmly, SuiGotoMoves
  <2>2. Answering => StatusAsRead(w)'
    BY <1>2, <1>3, <1>5, <2>1 DEF StatusAsRead
  <2>3. \A b \in SuiCheckouts : Paying(w, b) => Paying(w, b)'
    BY <1>2, <1>5, <1>6, <2>1 DEF Paying, Settling, TransfersFor
  <2>4. QED
    BY <1>1, <1>2, <2>1, <2>2, <2>3, GoesOnAlone
<1>9. CASE j.from # None /\ Link(w, c, j.from, k)
  <2>1. PICK b \in SuiCheckouts, a \in Addresses, m \in Paid :
                b = c /\ m.checkout = b /\ m.then = "settle" /\ m.digest = j.digest /\ Link(w, b, a, m)
    <3>1. j.from \in Addresses
      BY <1>2, <1>9 DEF Paid
    <3>2. QED
      BY <1>2, <1>5, <1>9, <3>1
  <2>2. \A e \in SuiCheckouts :
            Paying(w, e) => m.then = "settle" /\ e = b /\ m.digest \in TransfersFor(b)
    BY <1>6, <2>1
  <2>3. QED
    BY <1>1, <1>2, <2>1, <2>2, LinkReads
<1>10. QED
  BY <1>1, <1>2, <1>5, <1>7, <1>8, <1>9 DEF VerifyTransfer

\* An invoice that does not take an amount never does again.
LEMMA TooLateStays ==
    ASSUME SuiTypeOK, SuiTypeOK', DueFalls, NEW c \in SuiCheckouts, TooLate(c),
           checkout'[c] = checkout[c]
    PROVE  TooLate(c)'
<1>1. /\ AmountOf[c] \in Nat /\ balance[BillOf[c]] \in Nat /\ balance'[BillOf[c]] \in Nat
      /\ balance'[BillOf[c]] <= balance[BillOf[c]]
  BY DEF SuiTypeOK, DueFalls
<1>2. ~(AmountOf[c] <= balance[BillOf[c]]) /\ checkout'[c].status # "completed"
  BY DEF TooLate, Takes
<1>3. ~(AmountOf[c] <= balance'[BillOf[c]])
  BY <1>1, <1>2
<1>4. QED
  BY <1>2, <1>3 DEF TooLate, Takes

\* What was paid is settled, if the invoice takes it.
LEMMA SettleAlone ==
    ASSUME SuiCalm, NEW w \in Workers, SettleCheckout(w)
    PROVE  SuiOthersIdle(w) /\ SuiAloneDoes(w)
<1> DEFINE j == job[w]
           c == j.checkout
<1>1. SuiOthersIdle(w)
  BY SuiAtWork DEF SettleCheckout, Busy
<1>2. j \in Paid /\ c \in SuiCheckouts /\ SuiTypeOK /\ UNCHANGED <<wallets, chain>>
  BY SuiCalmly DEF SettleCheckout, SuiSessionOK, Paid
<1>3. pc'[w] = "idle"
  BY SuiCalmly, SuiRespondMoves DEF SettleCheckout
<1>4. SuiTypeOK' /\ DueFalls
  <2>1. SuiTypeOK'
    BY SettleKeeps DEF SuiCalm, SuiInv, SuiTyped
  <2>2. AmountOf[c] \in Nat /\ balance \in [Bills -> Nat]
    BY <1>2 DEF SuiTypeOK
  <2>3. balance' = balance \/ balance' = [balance EXCEPT ![BillOf[c]] = @ - AmountOf[c]]
    BY DEF SettleCheckout
  <2>4. QED
    BY <2>1, <2>2, <2>3 DEF DueFalls
<1>5. ASSUME Answering
      PROVE  TransfersAccounted'
  <2>1. \A b \in SuiCheckouts :
            IF b = c THEN checkout'[b].status = "completed" \/ TooLate(b)'
            ELSE checkout'[b] = checkout[b]
    <3>1. StatusSeen(j) = checkout[c].status
      BY <1>5, SuiCalmly DEF StatusAsRead, StatusSeen, SettleCheckout
    <3>2. CASE StatusSeen(j) = "completed" \/ ~Takes(c)
      <4>1. checkout' = checkout /\ balance' = balance
        BY <3>2 DEF SettleCheckout
      <4>2. QED
        BY <3>1, <3>2, <4>1 DEF TooLate, Takes
    <3>3. CASE ~(StatusSeen(j) = "completed" \/ ~Takes(c))
      BY <1>2, <3>3 DEF SettleCheckout, SuiTypeOK
    <3>4. QED
      BY <3>2, <3>3
  <2>2. \A b \in SuiCheckouts, v \in Workers : Paying(v, b) => b = c
    BY <1>1 DEF Paying, Settling, SuiOthersIdle, Busy
  <2>3. ASSUME NEW b \in SuiCheckouts
        PROVE  /\ (\A d, e \in TransfersFor(b)' : d = e) \/ TooLate(b)'
               /\ TransfersFor(b)' # {} =>
                     \/ checkout'[b].status = "completed" \/ TooLate(b)'
                     \/ \E v \in Workers : Paying(v, b)'
    <3>1. TransfersFor(b)' = TransfersFor(b)
      BY <1>2 DEF TransfersFor
    <3>2. (\A d, e \in TransfersFor(b) : d = e) \/ TooLate(b)
      BY <1>5, SuiCalmly DEF TransfersAccounted
    <3>3. CASE b # c
      <4>1. TooLate(b) => TooLate(b)'
        BY <1>2, <1>4, <2>1, <3>3, TooLateStays
      <4>2. TransfersFor(b) # {} => checkout[b].status = "completed" \/ TooLate(b)
        BY <1>5, <2>2, <3>3, SuiCalmly DEF TransfersAccounted
      <4>3. QED
        BY <2>1, <3>1, <3>2, <3>3, <4>1, <4>2
    <3>4. CASE b = c
      <4>1. TooLate(c) => ~Takes(c)
        BY DEF TooLate
      <4>2. TooLate(b) => TooLate(b)'
        BY <3>4, <4>1 DEF SettleCheckout, TooLate, Takes
      <4>3. QED
        BY <2>1, <3>1, <3>2, <3>4, <4>2
    <3>5. QED
      BY <3>3, <3>4
  <2>4. QED
    BY <2>3 DEF TransfersAccounted, TransfersFor, TooLate, Takes, Paying, Settling
<1>6. LinkingAsRead(w)' /\ StatusAsRead(w)'
  BY <1>3 DEF LinkingAsRead, StatusAsRead
<1>7. QED
  BY <1>1, <1>2, <1>5, <1>6, SuiCalmly, SameWallets DEF SuiAloneDoes

\* Paying the invoice another way is no step of a session, and leaves wallets
\* and transfers as they are.
LEMMA PaidElsewhereAlone ==
    ASSUME SuiCalm, NEW b \in Bills, NEW left \in 0 .. balance[b], PayElsewhere(b, left)
    PROVE  SuiSerial' /\ PrimariesStay
<1>1. SuiTypeOK /\ SuiTypeOK' /\ DueFalls
  BY PaidElsewhere, SuiCalmly
<1>2. UNCHANGED <<load, pc, job, checkout, chain, wallets>>
  BY DEF PayElsewhere, requests
<1>3. \A u \in Payers : Primaries(u)' = Primaries(u)
  BY <1>2 DEF Primaries
<1>4. OnePrimary' /\ PrimariesStay
  BY <1>2, SuiCalmly, SameWallets
<1>5. SuiAlone' /\ \A w \in Workers : LinkingAsRead(w)'
  BY <1>2 DEF SuiCalm, SuiSerial, SuiAlone, Busy, LinkingAsRead, Primaries
<1>6. ASSUME Answering
      PROVE  TransfersAccounted' /\ \A w \in Workers : StatusAsRead(w)'
  <2>1. \A w \in Workers : StatusAsRead(w)'
    BY <1>2, <1>6, SuiCalmly DEF StatusAsRead
  <2>2. \A c \in SuiCheckouts : TooLate(c) => TooLate(c)'
    BY <1>1, <1>2, TooLateStays
  <2>3. ASSUME NEW c \in SuiCheckouts
        PROVE  /\ TransfersFor(c)' = TransfersFor(c)
               /\ \A w \in Workers : Paying(w, c)' = Paying(w, c)
    BY <1>2 DEF TransfersFor, Paying, Settling
  <2>4. ASSUME NEW c \in SuiCheckouts
        PROVE  /\ (\A d, e \in TransfersFor(c)' : d = e) \/ TooLate(c)'
               /\ TransfersFor(c)' # {} =>
                     \/ checkout'[c].status = "completed" \/ TooLate(c)'
                     \/ \E v \in Workers : Paying(v, c)'
    BY <1>2, <1>6, <2>2, <2>3, SuiCalmly DEF TransfersAccounted
  <2>5. QED
    BY <2>1, <2>4 DEF TransfersAccounted, TransfersFor, TooLate, Takes, Paying, Settling
<1>7. Answering' => Answering
  BY <1>2 DEF Answering
<1>8. QED
  BY <1>4, <1>5, <1>6, <1>7 DEF SuiSerial

LEMMA SuiNextAlone ==
    ASSUME SuiCalm, SuiNext
    PROVE  \/ \E w \in Workers : SuiMoved(w) /\ SuiOthersIdle(w) /\ SuiAloneDoes(w)
           \/ SuiSerial' /\ PrimariesStay
<1>1. ASSUME NEW w \in Workers, NEW c \in SuiCheckouts,
             \/ LinkExternal(w, c) \/ PayPrivy(w, c) \/ SubmitPrivy(w, c) \/ PayPlatform(w, c)
             \/ \E d \in Digests, a \in Addresses \cup {None} : ConfirmByHand(w, c, d, a)
      PROVE  SuiMoved(w) /\ SuiOthersIdle(w) /\ SuiAloneDoes(w)
  <2>1. SuiMoved(w)
    BY <1>1, LinkExternalOrderly, PrivySessionOrderly, PayPlatformOrderly,
       ConfirmByHandOrderly DEF PayPrivy, SubmitPrivy, Orderly, SuiCalm
  <2>2. ASSUME PayPrivy(w, c) \/ SubmitPrivy(w, c)
        PROVE  SuiOthersIdle(w) /\ SuiAloneDoes(w)
    BY <2>2, SuiArrives, PrivySessionAlone DEF PayPrivy, SubmitPrivy
  <2>3. QED
    BY <1>1, <2>1, <2>2, LinkExternalAlone, PayPlatformAlone, ConfirmByHandAlone
<1>2. ASSUME NEW w \in Workers,
             LinkWallet(w) \/ ReadCheckout(w) \/ TransferSui(w) \/ VerifyTransfer(w)
      PROVE  SuiMoved(w) /\ SuiOthersIdle(w) /\ SuiAloneDoes(w)
  <2>1. SuiMoved(w)
    BY <1>2, LinkWalletOrderly, ReadCheckoutOrderly, TransferOrderly, VerifyTransferOrderly
       DEF Orderly, SuiCalm
  <2>2. QED
    BY <1>2, <2>1, LinkWalletAlone, ReadCheckoutAlone, TransferAlone, VerifyTransferAlone
<1>3. ASSUME NEW w \in Workers, SettleCheckout(w)
      PROVE  SuiMoved(w) /\ SuiOthersIdle(w) /\ SuiAloneDoes(w)
  BY <1>3, SuiCalmly, SuiRespondMoves, SettleAlone DEF SettleCheckout
<1>4. ASSUME NEW w \in Workers, Die(w) /\ UNCHANGED suiVars
      PROVE  SuiMoved(w) /\ SuiOthersIdle(w) /\ SuiAloneDoes(w)
  <2>1. SuiOthersIdle(w) /\ SuiMoved(w) /\ ~Answering
    BY <1>4, SuiAtWork, SuiCalmly, SuiRespondMoves DEF Die, Answering
  <2>2. QED
    BY <1>4, <2>1, AnswersCalmly DEF Die, suiVars
<1>5. ASSUME NEW b \in Bills, NEW left \in 0 .. balance[b], PayElsewhere(b, left)
      PROVE  SuiSerial' /\ PrimariesStay
  BY <1>5, PaidElsewhereAlone
<1>6. QED
  BY <1>1, <1>2, <1>3, <1>4, <1>5 DEF SuiNext

LEMMA SuiSerialStep ==
    ASSUME SuiInv, SuiSerial, SuiNext, UNCHANGED load
    PROVE  SuiSerial' /\ (~load.overlap => PrimariesStay)
<1>1. CASE ~load.overlap
  <2>1. \/ \E w \in Workers : SuiMoved(w) /\ SuiOthersIdle(w) /\ SuiAloneDoes(w)
        \/ SuiSerial' /\ PrimariesStay
    BY <1>1, SuiNextAlone DEF SuiCalm
  <2>2. QED
    BY <2>1, SuiAloneKeeps DEF SuiAloneDoes
<1>2. QED
  BY <1>1 DEF SuiSerial

-----------------------------------------------------------------------------
(* Payments in Sui as part of the office: at rest while others work.       *)

LEMMA InitIsOrderly == Init => SuiOfficeInv
<1>1. SuiInit => SuiTypeOK /\ SettledOnce
  BY DEF SuiInit, SuiTypeOK, SettledOnce, CheckoutRow
<1>2. RequestsInit => /\ DOMAIN pc = Workers /\ DOMAIN job = Workers
                      /\ \A w \in Workers : SuiSessionOK(w) /\ NamesItsWallet(w)
  BY DEF RequestsInit, SuiSessionOK, Settling, NamesItsWallet
<1>3. QED
  BY <1>1, <1>2 DEF Init, SuiOfficeInv, SuiInv, SuiTyped

LEMMA RowsRest ==
    ASSUME SuiTypeOK, SettledOnce, load' = load, UNCHANGED suiVars
    PROVE  SuiTypeOK' /\ SettledOnce'
BY SameChain, SettledStays DEF SuiTypeOK, suiVars

LEMMA SuiOfficeStep == SuiOfficeInv /\ [Next]_vars => SuiOfficeInv'
<1>1. ASSUME SuiOfficeInv, Next
      PROVE  SuiOfficeInv'
  <2>1. CASE load.part = "sui"
    BY <1>1, <2>1, SuiStep DEF Next, SuiOfficeInv
  <2>2. CASE load.part # "sui"
    BY <1>1, <2>2, RowsRest DEF Next, Except, SuiOfficeInv
  <2>3. QED
    BY <2>1, <2>2
<1>2. ASSUME SuiOfficeInv, UNCHANGED vars
      PROVE  SuiOfficeInv'
  <2>1. UNCHANGED suiVars /\ load' = load /\ pc' = pc /\ job' = job
    BY <1>2 DEF vars, requests
  <2>2. CASE load.part = "sui"
    <3>1. SettledOnce => SettledOnce'
      BY <1>2, <2>1, <2>2, SameChain, SettledStays DEF SuiOfficeInv, SuiInv, SuiTyped, suiVars
    <3>2. SuiTyped'
      BY <1>2, <2>1, <2>2, HandsStay
         DEF SuiOfficeInv, SuiInv, SuiTyped, SuiSessionOK, Settling, TransfersFor, Covers,
             SuiTypeOK, suiVars
    <3>3. QED
      BY <1>2, <2>1, <2>2, <3>1, <3>2 DEF SuiOfficeInv, SuiInv, NamesItsWallet
  <2>3. CASE load.part # "sui"
    BY <1>2, <2>1, <2>3, RowsRest DEF SuiOfficeInv
  <2>4. QED
    BY <2>2, <2>3
<1>3. QED
  BY <1>1, <1>2

LEMMA SuiOfficeInvariant == Spec => []SuiOfficeInv
BY InitIsOrderly, SuiOfficeStep, PTL DEF Spec

LEMMA InitIsPaid == Init => SuiPaidInv
<1> SUFFICES ASSUME Init PROVE SuiPaidInv
  OBVIOUS
<1>1. chain = <<>> /\ \A u \in Payers : Primaries(u) = {}
  BY DEF Init, SuiInit, Primaries
<1>2. \A c \in SuiCheckouts : TransfersFor(c) = {}
  BY <1>1 DEF TransfersFor
<1>3. \A w \in Workers : pc[w] = "idle"
  BY DEF Init, RequestsInit
<1>4. SuiSerial
  BY <1>1, <1>2, <1>3
     DEF SuiSerial, SuiAlone, Busy, OnePrimary, LinkingAsRead, TransfersAccounted, StatusAsRead
<1>5. QED
  BY <1>1, <1>4, InitIsOrderly DEF SuiPaidInv, SuiOfficeInv

LEMMA SuiSerialRests ==
    ASSUME SuiSerial, UNCHANGED <<load, pc, job>>, UNCHANGED suiVars
    PROVE  SuiSerial'
<1>1. \A u \in Payers : Primaries(u)' = Primaries(u)
  BY DEF Primaries, suiVars
<1>2. \A c \in SuiCheckouts : TransfersFor(c)' = TransfersFor(c)
  BY DEF TransfersFor, suiVars
<1>3. OnePrimary => OnePrimary'
  BY <1>1 DEF OnePrimary
<1>4. (\A w \in Workers : LinkingAsRead(w)) => \A w \in Workers : LinkingAsRead(w)'
  BY DEF LinkingAsRead, Primaries, suiVars
<1>5. TransfersAccounted => TransfersAccounted'
  BY <1>2 DEF TransfersAccounted, Paying, Settling, TooLate, Takes, suiVars
<1>6. QED
  BY <1>3, <1>4, <1>5 DEF SuiSerial, SuiAlone, Busy, Answering, StatusAsRead, suiVars

LEMMA SuiPaidStep ==
    ASSUME SuiOfficeInv, SuiPaidInv, [Next]_vars
    PROVE  /\ SuiPaidInv'
           /\ UNCHANGED suiVars \/ (SuiSerial /\ SuiSerial' /\ (~load.overlap => PrimariesStay))
<1>1. SuiOfficeInv'
  BY SuiOfficeStep
<1>2. CASE UNCHANGED vars
  <2>1. UNCHANGED suiVars /\ UNCHANGED <<load, pc, job>>
    BY <1>2 DEF vars, requests
  <2>2. SuiSerial => SuiSerial'
    BY <2>1, SuiSerialRests
  <2>3. chain' = chain
    BY <2>1 DEF suiVars
  <2>4. QED
    BY <1>1, <2>1, <2>2, <2>3 DEF SuiPaidInv, SuiOfficeInv
<1>3. CASE Next /\ load.part = "sui"
  <2>1. SuiNext /\ UNCHANGED load /\ SuiInv /\ SuiSerial
    BY <1>3 DEF Next, SuiPaidInv
  <2>2. SuiSerial' /\ (~load.overlap => PrimariesStay)
    BY <2>1, SuiSerialStep
  <2>3. QED
    BY <1>1, <1>3, <2>1, <2>2 DEF SuiPaidInv, SuiOfficeInv
<1>4. CASE Next /\ load.part # "sui"
  BY <1>4 DEF Next, Except, SuiPaidInv, suiVars
<1>5. QED
  BY <1>2, <1>3, <1>4

LEMMA SuiPaidInvariant == Spec => [](SuiOfficeInv /\ SuiPaidInv)
<1>1. SuiOfficeInv /\ SuiPaidInv /\ [Next]_vars => (SuiOfficeInv /\ SuiPaidInv)'
  BY SuiOfficeStep, SuiPaidStep
<1>2. QED
  BY <1>1, InitIsOrderly, InitIsPaid, PTL DEF Spec

LEMMA OneOrNone ==
    ASSUME NEW S, \A a, b \in S : a = b
    PROVE  Cardinality(S) <= 1 /\ (S # {} => Cardinality(S) = 1)
<1>1. CASE S = {}
  BY <1>1, FS_EmptySet
<1>2. CASE S # {}
  <2>1. PICK a \in S : S = {a}
    BY <1>2
  <2>2. Cardinality({a}) = 1
    BY FS_Singleton, Zenon
  <2>3. QED
    BY <2>1, <2>2
<1>3. QED
  BY <1>1, <1>2

-----------------------------------------------------------------------------

\* Checkouts, payments, transfers and wallets keep their types, in whatever
\* part of the platform requests are served.
THEOREM SuiTypeCorrect == Spec => []SuiTypeOK
<1>1. SuiOfficeInv => SuiTypeOK
  BY DEF SuiOfficeInv, SuiInv, SuiTyped
<1>2. QED
  BY <1>1, SuiOfficeInvariant, PTL

\* If every confirmation names its wallet, a checkout is settled once and by
\* a transfer of its amount or more to the treasury, its own where no digest is
\* given by hand, however many requests pay and confirm it at once, die, or
\* get no answer from the node (confirm_sui_checkout, complete_checkout).
THEOREM CheckoutsSettleOnce == Spec => []SuiSettlesOnce
<1>1. SuiOfficeInv => SuiSettlesOnce
  BY DEF SuiOfficeInv, SuiInv, SettledOnce, SuiSettlesOnce, ByHand, Uses
<1>2. QED
  BY <1>1, SuiOfficeInvariant, PTL

\* One request at a time, a payer has one primary wallet at most and keeps it
\* or changes it for another, and if none dies and the node always answers, a
\* checkout is paid for once and what is paid is settled, unless the invoice
\* was paid another way or cancelled before (pay_privy_sui_checkout,
\* execute_platform_sui_checkout, settle_invoice_payment, link_wallet).
THEOREM PaymentsAlwaysSettled == Spec => PaymentsAreSettled
<1>1. SuiPaidInv => TransfersAreSettled
  <2> SUFFICES ASSUME SuiPaidInv, ~load.overlap, ~load.fails, ~load.lossy,
                      NEW c \in SuiCheckouts
               PROVE  /\ Cardinality(TransfersFor(c)) <= 1 \/ TooLate(c)
                      /\ (\A w \in Workers : ~Busy(w)) /\ TransfersFor(c) # {} =>
                             checkout[c].status = "completed" \/ TooLate(c)
    BY DEF TransfersAreSettled
  <2>1. CASE load.part = "sui"
    <3>1. TransfersAccounted
      BY <2>1 DEF SuiPaidInv, SuiSerial, Answering
    <3>2. Cardinality(TransfersFor(c)) <= 1 \/ TooLate(c)
      BY <3>1, OneOrNone DEF TransfersAccounted
    <3>3. QED
      BY <3>1, <3>2 DEF TransfersAccounted, Paying, Settling, Busy
  <2>2. CASE load.part # "sui"
    <3>1. TransfersFor(c) = {}
      BY <2>2 DEF SuiPaidInv, TransfersFor
    <3>2. QED
      BY <3>1, FS_EmptySet
  <2>3. QED
    BY <2>1, <2>2
<1>2. SuiOfficeInv /\ SuiPaidInv /\ [Next]_vars =>
          [~load.overlap =>
             \A u \in Payers :
                 /\ Cardinality(Primaries(u)) <= 1
                 /\ Primaries(u) # {} => Cardinality(Primaries(u)') = 1]_suiVars
  <2> SUFFICES ASSUME SuiSerial, SuiSerial', ~load.overlap, load' = load, PrimariesStay,
                      NEW u \in Payers
               PROVE  /\ Cardinality(Primaries(u)) <= 1
                      /\ Primaries(u) # {} => Cardinality(Primaries(u)') = 1
    BY SuiPaidStep DEF Next, vars, requests
  <2>1. /\ \A a, b \in Primaries(u) : a = b
        /\ \A a, b \in Primaries(u)' : a = b
    BY DEF SuiSerial, OnePrimary
  <2>2. Cardinality(Primaries(u)) <= 1
    BY <2>1, OneOrNone
  <2>3. Primaries(u)' # {} => Cardinality(Primaries(u)') = 1
    BY <2>1, OneOrNone
  <2>4. QED
    BY <2>2, <2>3 DEF PrimariesStay
<1>3. QED
  BY <1>1, <1>2, SuiPaidInvariant, PTL DEF Spec, PaymentsAreSettled, OnePrimaryWallet

-----------------------------------------------------------------------------

HIDE SuiAssumption DEF Addresses, Digests

USE UpkeepAssumption

-----------------------------------------------------------------------------
(* Upkeep: sessions and rows.                                              *)

LEMMA UpkeepGotoMoves ==
    ASSUME UpkeepTyped, NEW w \in Workers, NEW p, NEW j, Goto(w, p, j)
    PROVE  UpkeepMoved(w) /\ pc'[w] = p /\ job'[w] = j
BY DEF UpkeepTyped, Goto, UpkeepMoved

LEMMA UpkeepRespondMoves ==
    ASSUME UpkeepTyped, NEW w \in Workers, Respond(w)
    PROVE  UpkeepMoved(w) /\ pc'[w] = "idle"
BY UpkeepGotoMoves DEF Respond

LEMMA DieMoves ==
    ASSUME UpkeepTyped, NEW w \in Workers, Die(w)
    PROVE  UpkeepMoved(w) /\ pc'[w] = "idle" /\ Busy(w) /\ load.fails
BY UpkeepRespondMoves DEF Die

\* Deleting units changes what leases say of their unit, and nothing else.
LEMMA DetachedRows ==
    ASSUME contract \in [Contracts -> ContractRow \cup {NoContract}], NEW units
    PROVE  /\ Detached(units) \in [Contracts -> ContractRow \cup {NoContract}]
           /\ \A c \in Contracts :
                 /\ Detached(units)[c].status = contract[c].status
                 /\ Detached(units)[c].terms = contract[c].terms
                 /\ Detached(units)[c].proof = contract[c].proof
                 /\ Drawn(c) => Detached(units)[c] # NoContract
<1>1. \A r \in ContractRow \cup {NoContract} :
        LET s == [r EXCEPT !.unit = IF @ \in units THEN None ELSE @]
        IN  /\ s \in ContractRow \cup {NoContract}
            /\ s.status = r.status /\ s.terms = r.terms /\ s.proof = r.proof
            /\ r # NoContract => s # NoContract
  <2>1. TAKE r \in ContractRow \cup {NoContract}
  <2> DEFINE s == [r EXCEPT !.unit = IF @ \in units THEN None ELSE @]
  <2>2. CASE r \in ContractRow
    BY <2>2 DEF ContractRow, NoContract
  <2>3. CASE r = NoContract
    <3>1. s = NoContract
      BY <2>3 DEF NoContract
    <3>2. QED
      BY <2>3, <3>1
  <2>4. QED
    BY <2>2, <2>3
<1>2. \A c \in Contracts :
        /\ Detached(units)[c] \in ContractRow \cup {NoContract}
        /\ Detached(units)[c].status = contract[c].status
        /\ Detached(units)[c].terms = contract[c].terms
        /\ Detached(units)[c].proof = contract[c].proof
        /\ Drawn(c) => Detached(units)[c] # NoContract
  <2>1. TAKE c \in Contracts
  <2>2. Detached(units)[c]
          = [contract[c] EXCEPT !.unit = IF @ \in units THEN None ELSE @]
    BY DEF Detached
  <2>3. contract[c] \in ContractRow \cup {NoContract}
    OBVIOUS
  <2>4. QED
    BY <1>1, <2>2, <2>3 DEF Drawn
<1>3. Detached(units) = [c \in Contracts |-> Detached(units)[c]]
  BY DEF Detached
<1>4. QED
  BY <1>2, <1>3

\* A ticket that is written keeps its unit and who reported it.
LEMMA WrittenTicket ==
    ASSUME NEW r \in TicketRow, NEW seen,
           NEW set \in [status : TicketStatus, resolved : 0 .. MaxDay]
    PROVE  LET s == Written(r, seen, set)
           IN  /\ s \in TicketRow
               /\ s.unit = r.unit
               /\ s.status = IF set.status # seen.status THEN set.status ELSE r.status
               /\ s.resolved = IF set.resolved # seen.resolved THEN set.resolved ELSE r.resolved
<1>1. DOMAIN r = {"unit", "by", "status", "resolved"} /\ DOMAIN set = {"status", "resolved"}
  BY DEF TicketRow
<1>2. Written(r, seen, set) =
        [unit |-> r.unit, by |-> r.by,
         status |-> IF set.status # seen.status THEN set.status ELSE r.status,
         resolved |-> IF set.resolved # seen.resolved THEN set.resolved ELSE r.resolved]
  BY <1>1 DEF Written
<1>3. QED
  BY <1>2 DEF TicketRow

LEMMA DrawnRows ==
    ASSUME UpkeepTypeOK
    PROVE  \A c \in Contracts :
              /\ Drawn(c) => contract[c] \in ContractRow
              /\ contract[c].status = "active" => Drawn(c)
BY DEF UpkeepTypeOK, Drawn, NoContract

LEMMA FiledRows ==
    ASSUME UpkeepTypeOK
    PROVE  \A k \in Tickets : Filed(k) => ticket[k] \in TicketRow
BY DEF UpkeepTypeOK, Filed

-----------------------------------------------------------------------------
(* Upkeep: types, and one request at a time.                               *)

LEMMA UpkeepUnchanged ==
    ASSUME UpkeepTyped, UNCHANGED upkeepVars
    PROVE  UpkeepRowsKeep
BY DEF UpkeepTyped, UpkeepTypeOK, upkeepVars, UpkeepRowsKeep, ContractsKeep, Drawn

\* A step of a worker keeps the types if it leaves its session in order.
LEMMA UpkeepTypedMoves ==
    ASSUME UpkeepTyped, UpkeepRowsKeep, NEW w \in Workers, UpkeepMoved(w), UpkeepSessionOK(w)'
    PROVE  UpkeepTyped'
<1>1. \A v \in Workers : UpkeepSessionOK(v)'
  <2>1. TAKE v \in Workers
  <2>2. CASE v # w
    BY <2>2 DEF UpkeepTyped, UpkeepSessionOK, UpkeepMoved, UpkeepRowsKeep, ContractsKeep, Drawn
  <2>3. QED
    BY <2>2
<1>2. QED
  BY <1>1 DEF UpkeepTyped, UpkeepTypeOK, UpkeepRowsKeep, ContractsKeep, UpkeepMoved

LEMMA TypedStays ==
    ASSUME UpkeepTyped, UpkeepRowsKeep, UNCHANGED requests
    PROVE  UpkeepTyped'
BY DEF UpkeepTyped, UpkeepTypeOK, UpkeepRowsKeep, ContractsKeep, requests, UpkeepSessionOK, Drawn

\* A session that has answered holds nothing.
LEMMA UpkeepIdleOK ==
    ASSUME NEW w \in Workers, pc'[w] = "idle"
    PROVE  UpkeepSessionOK(w)'
BY DEF UpkeepSessionOK

LEMMA TypedStep ==
    ASSUME UpkeepTyped, UpkeepNext
    PROVE  UpkeepTyped'
<1> USE DrawnRows, FiledRows, UpkeepUnchanged, UpkeepTypedMoves, TypedStays, UpkeepIdleOK
<1>0. UpkeepTypeOK
  BY DEF UpkeepTyped
<1>1. ASSUME NEW w \in Workers, NEW c \in Contracts, NEW u \in Premises, NEW t \in Terms,
             CreateContract(w, c, u, t)
      PROVE  UpkeepTyped'
  <2>1. UpkeepMoved(w) /\ pc'[w] = "payload" /\ job'[w] = [contract |-> c]
    BY <1>1, UpkeepGotoMoves DEF CreateContract
  <2>2. contract' = [contract EXCEPT ![c] =
                       [status |-> "active", unit |-> u, terms |-> t, proof |-> None]]
    BY <1>1 DEF CreateContract
  <2>3. contract'[c].status = "active" /\ contract'[c] \in ContractRow
    BY <1>0, <2>2 DEF UpkeepTypeOK, ContractRow
  <2>4. UpkeepRowsKeep
    BY <1>0, <1>1, <2>2, <2>3
       DEF CreateContract, UpkeepRowsKeep, ContractsKeep, UpkeepTypeOK, NoContract, Drawn
  <2>5. UpkeepSessionOK(w)'
    BY <2>1, <2>3 DEF UpkeepSessionOK, Drawn, NoContract
  <2>6. QED
    BY <2>1, <2>4, <2>5
<1>2. ASSUME NEW w \in Workers, NEW c \in Contracts, EscrowRead(w, c)
      PROVE  UpkeepTyped'
  <2>1. /\ UpkeepMoved(w) /\ pc'[w] = "escrow"
        /\ job'[w] = [contract |-> c, terms |-> contract[c].terms]
    BY <1>2, UpkeepGotoMoves DEF EscrowRead
  <2>2. contract[c] \in ContractRow
    BY <1>0, <1>2 DEF EscrowRead
  <2>3. UpkeepSessionOK(w)'
    BY <2>1, <2>2 DEF UpkeepSessionOK, ContractRow
  <2>4. QED
    BY <1>2, <2>1, <2>3 DEF EscrowRead
<1>3. ASSUME NEW c \in Contracts, TerminateContract(c)
      PROVE  UpkeepTyped'
  <2>1. contract[c] \in ContractRow
    BY <1>0, <1>3 DEF TerminateContract
  <2>2. [contract[c] EXCEPT !.status = "terminated"] \in ContractRow
    BY <2>1 DEF ContractRow
  <2>3. [contract[c] EXCEPT !.status = "terminated"] # NoContract
    BY <2>1 DEF ContractRow, NoContract
  <2>4. UpkeepRowsKeep
    BY <1>0, <1>3, <2>2, <2>3 DEF TerminateContract, UpkeepRowsKeep, ContractsKeep, UpkeepTypeOK, Drawn
  <2>5. QED
    BY <1>3, <2>4 DEF TerminateContract
<1>4. ASSUME NEW c \in Contracts, NEW t \in Terms, UpdateContract(c, t)
      PROVE  UpkeepTyped'
  <2>1. contract[c] \in ContractRow
    BY <1>0, <1>4 DEF UpdateContract
  <2>2. [contract[c] EXCEPT !.terms = t] \in ContractRow
    BY <2>1 DEF ContractRow
  <2>3. [contract[c] EXCEPT !.terms = t] # NoContract
    BY <1>4, <2>1 DEF ContractRow, NoContract, UpdateContract
  <2>4. UpkeepRowsKeep
    BY <1>0, <1>4, <2>2, <2>3 DEF UpdateContract, UpkeepRowsKeep, ContractsKeep, UpkeepTypeOK, Drawn
  <2>5. QED
    BY <1>4, <2>4 DEF UpdateContract
<1>5. ASSUME NEW w \in Workers, NEW k \in Tickets, NEW by \in {"tenant", "landlord"},
             NEW u \in Premises, Report(w, k, by, u)
      PROVE  UpkeepTyped'
  <2>1. /\ UpkeepMoved(w) /\ pc'[w] = "report"
        /\ job'[w] = [ticket |-> k, by |-> by, unit |-> u]
    BY <1>5, UpkeepGotoMoves DEF Report
  <2>2. UpkeepSessionOK(w)'
    BY <2>1 DEF UpkeepSessionOK
  <2>3. QED
    BY <1>5, <2>1, <2>2 DEF Report
<1>6. ASSUME NEW w \in Workers, NEW k \in Tickets, NEW s \in TicketStatus, UpdateTicket(w, k, s)
      PROVE  UpkeepTyped'
  <2>1. /\ UpkeepMoved(w) /\ pc'[w] = "update_ticket"
        /\ job'[w] = [ticket |-> k, seen |-> ticket[k],
                      set |-> [status |-> s, resolved |-> ResolvedOn(ticket[k], s)]]
    BY <1>6, UpkeepGotoMoves DEF UpdateTicket
  <2>2. ticket[k] \in TicketRow /\ now \in 0 .. MaxDay
    BY <1>0, <1>6 DEF UpdateTicket, UpkeepTypeOK
  <2>3. ResolvedOn(ticket[k], s) \in 0 .. MaxDay
    BY <2>2 DEF ResolvedOn, TicketRow
  <2>4. UpkeepSessionOK(w)'
    BY <2>1, <2>2, <2>3 DEF UpkeepSessionOK
  <2>5. QED
    BY <1>6, <2>1, <2>4 DEF UpdateTicket
<1>7. ASSUME NEW k \in Tickets, DeleteTicket(k)
      PROVE  UpkeepTyped'
  <2>1. UpkeepRowsKeep
    BY <1>0, <1>7 DEF DeleteTicket, UpkeepRowsKeep, ContractsKeep, UpkeepTypeOK, Drawn
  <2>2. QED
    BY <1>7, <2>1 DEF DeleteTicket
<1>8. ASSUME NEW u \in Premises, DeleteUnit(u)
      PROVE  UpkeepTyped'
  <2>1. UpkeepRowsKeep
    BY <1>0, <1>8, DetachedRows DEF DeleteUnit, UpkeepRowsKeep, ContractsKeep, UpkeepTypeOK
  <2>2. QED
    BY <1>8, <2>1 DEF DeleteUnit
<1>9. ASSUME NEW w \in Workers, BuildPayload(w)
      PROVE  UpkeepTyped'
  <2>1. /\ UpkeepMoved(w) /\ pc'[w] = "anchor"
        /\ job'[w] = [contract |-> job[w].contract, terms |-> contract[job[w].contract].terms]
    BY <1>9, UpkeepGotoMoves DEF BuildPayload
  <2>2. /\ job[w].contract \in Contracts /\ Drawn(job[w].contract)
        /\ contract[job[w].contract] \in ContractRow
    BY <1>0, <1>9 DEF BuildPayload, UpkeepTyped, UpkeepSessionOK
  <2>3. contract' = contract
    BY <1>9 DEF BuildPayload, upkeepVars
  <2>4. UpkeepSessionOK(w)'
    BY <2>1, <2>2, <2>3 DEF UpkeepSessionOK, ContractRow, Drawn
  <2>5. QED
    BY <1>9, <2>1, <2>4 DEF BuildPayload
<1>10. ASSUME NEW w \in Workers, AnchorContract(w)
       PROVE  UpkeepTyped'
  <2>1. UpkeepMoved(w) /\ pc'[w] = "idle"
    BY <1>10, UpkeepRespondMoves DEF AnchorContract
  <2>2. /\ job[w].contract \in Contracts /\ job[w].terms \in Terms
        /\ contract[job[w].contract] \in ContractRow
    BY <1>0, <1>10 DEF AnchorContract, UpkeepTyped, UpkeepSessionOK
  <2> DEFINE r == [contract[job[w].contract] EXCEPT !.proof = job[w].terms]
  <2>3. r \in ContractRow /\ r # NoContract
    BY <2>2 DEF ContractRow, NoContract
  <2>4. UpkeepRowsKeep
    BY <1>0, <1>10, <2>2, <2>3 DEF AnchorContract, UpkeepRowsKeep, ContractsKeep, UpkeepTypeOK, Drawn
  <2>5. QED
    BY <2>1, <2>4
<1>11. ASSUME NEW w \in Workers, EscrowCommit(w)
       PROVE  UpkeepTyped'
  <2>1. UpkeepMoved(w) /\ pc'[w] = "idle"
    BY <1>11, UpkeepRespondMoves DEF EscrowCommit
  <2>2. job[w] \in [contract : Contracts, terms : Terms]
    BY <1>11 DEF EscrowCommit, UpkeepTyped, UpkeepSessionOK
  <2>3. UpkeepRowsKeep
    BY <1>0, <1>11, <2>2 DEF EscrowCommit, UpkeepRowsKeep, ContractsKeep, UpkeepTypeOK, Drawn
  <2>4. QED
    BY <2>1, <2>3
<1>12. ASSUME NEW w \in Workers, CommitReport(w)
       PROVE  UpkeepTyped'
  <2>1. UpkeepMoved(w) /\ pc'[w] = "idle"
    BY <1>12, UpkeepRespondMoves DEF CommitReport
  <2>2. job[w] \in [ticket : Tickets, by : {"tenant", "landlord"}, unit : Premises]
    BY <1>12 DEF CommitReport, UpkeepTyped, UpkeepSessionOK
  <2> DEFINE r == [unit |-> job[w].unit, by |-> job[w].by, status |-> "open", resolved |-> 0]
  <2>3. r \in TicketRow
    BY <2>2 DEF TicketRow, TicketStatus
  <2>4. UpkeepRowsKeep
    BY <1>0, <1>12, <2>2, <2>3 DEF CommitReport, UpkeepRowsKeep, ContractsKeep, UpkeepTypeOK, Drawn
  <2>5. QED
    BY <2>1, <2>4
<1>13. ASSUME NEW w \in Workers, CommitTicket(w)
       PROVE  UpkeepTyped'
  <2>1. UpkeepMoved(w) /\ pc'[w] = "idle"
    BY <1>13, UpkeepRespondMoves DEF CommitTicket
  <2>2. /\ job[w].ticket \in Tickets
        /\ job[w].set \in [status : TicketStatus, resolved : 0 .. MaxDay]
    BY <1>13 DEF CommitTicket, UpkeepTyped, UpkeepSessionOK
  <2>3. Filed(job[w].ticket) =>
           Written(ticket[job[w].ticket], job[w].seen, job[w].set) \in TicketRow
    BY <1>0, <2>2, WrittenTicket
  <2>4. UpkeepRowsKeep
    BY <1>0, <1>13, <2>2, <2>3 DEF CommitTicket, UpkeepRowsKeep, ContractsKeep, UpkeepTypeOK, Drawn
  <2>5. QED
    BY <2>1, <2>4
<1>14. ASSUME NEW w \in Workers, DeletePremises(w)
       PROVE  UpkeepTyped'
  <2>1. UpkeepMoved(w) /\ pc'[w] = "delete_premises"
    BY <1>14, UpkeepGotoMoves DEF DeletePremises
  <2>2. UpkeepSessionOK(w)'
    BY <2>1 DEF UpkeepSessionOK
  <2>3. QED
    BY <1>14, <2>1, <2>2 DEF DeletePremises
<1>15. ASSUME NEW w \in Workers, CommitPremises(w)
       PROVE  UpkeepTyped'
  <2>1. UpkeepMoved(w) /\ pc'[w] = "idle"
    BY <1>15, UpkeepRespondMoves DEF CommitPremises
  <2>2. UpkeepRowsKeep
    BY <1>0, <1>15, DetachedRows
       DEF CommitPremises, UpkeepRowsKeep, ContractsKeep, UpkeepTypeOK, Drawn
  <2>3. QED
    BY <2>1, <2>2
<1>16. ASSUME NEW w \in Workers, Die(w), UNCHANGED upkeepVars
       PROVE  UpkeepTyped'
  BY <1>16, DieMoves
<1>17. ASSUME TimePasses
       PROVE  UpkeepTyped'
  <2>1. UpkeepRowsKeep
    BY <1>0, <1>17 DEF TimePasses, UpkeepRowsKeep, ContractsKeep, UpkeepTypeOK, Drawn
  <2>2. QED
    BY <1>17, <2>1 DEF TimePasses
<1>18. QED
  BY <1>1, <1>2, <1>3, <1>4, <1>5, <1>6, <1>7, <1>8, <1>9, <1>10, <1>11, <1>12, <1>13,
     <1>14, <1>15, <1>16, <1>17 DEF UpkeepNext

LEMMA Shape ==
    ASSUME UpkeepTyped, UpkeepNext
    PROVE  /\ load' = load
           /\ \/ UNCHANGED requests
              \/ \E w \in Workers : UpkeepMoved(w) /\ (Busy(w) \/ Waits)
<1> USE UpkeepGotoMoves, UpkeepRespondMoves DEF Waits
<1>1. ASSUME NEW w \in Workers, NEW p, NEW j, Goto(w, p, j)
      PROVE  UpkeepMoved(w) /\ load' = load
  BY <1>1 DEF Goto
<1>2. ASSUME NEW w \in Workers, Respond(w)
      PROVE  UpkeepMoved(w) /\ load' = load
  BY <1>2 DEF Respond, Goto
<1>3. ASSUME NEW w \in Workers, NEW c \in Contracts,
             \/ \E u \in Premises, t \in Terms : CreateContract(w, c, u, t)
             \/ EscrowRead(w, c)
      PROVE  UpkeepMoved(w) /\ Waits /\ load' = load
  BY <1>1, <1>3 DEF CreateContract, EscrowRead, Ready, Served
<1>4. ASSUME NEW w \in Workers, NEW k \in Tickets,
             \/ \E by \in {"tenant", "landlord"}, u \in Premises : Report(w, k, by, u)
             \/ \E s \in TicketStatus : UpdateTicket(w, k, s)
      PROVE  UpkeepMoved(w) /\ Waits /\ load' = load
  BY <1>1, <1>4 DEF Report, UpdateTicket, Ready, Served
<1>5. ASSUME NEW w \in Workers, DeletePremises(w)
      PROVE  UpkeepMoved(w) /\ Waits /\ load' = load
  BY <1>1, <1>5 DEF DeletePremises, Ready, Served
<1>6. ASSUME NEW w \in Workers,
             \/ BuildPayload(w) \/ AnchorContract(w) \/ EscrowCommit(w) \/ CommitReport(w)
             \/ CommitTicket(w) \/ CommitPremises(w) \/ Die(w)
      PROVE  UpkeepMoved(w) /\ Busy(w) /\ load' = load
  BY <1>1, <1>2, <1>6
     DEF BuildPayload, AnchorContract, EscrowCommit, CommitReport, CommitTicket,
         CommitPremises, Die, Busy
<1>7. ASSUME \/ \E c \in Contracts : TerminateContract(c) \/ \E t \in Terms : UpdateContract(c, t)
             \/ \E k \in Tickets : DeleteTicket(k)
             \/ \E u \in Premises : DeleteUnit(u)
             \/ TimePasses
      PROVE  UNCHANGED requests /\ load' = load
  BY <1>7 DEF TerminateContract, UpdateContract, DeleteTicket, DeleteUnit, TimePasses, requests
<1>8. QED
  BY <1>3, <1>4, <1>5, <1>6, <1>7 DEF UpkeepNext

LEMMA AloneStep ==
    ASSUME UpkeepTyped, UpkeepAlone, UpkeepNext
    PROVE  UpkeepAlone'
<1>1. CASE UNCHANGED requests
  BY <1>1 DEF UpkeepAlone, Busy, requests
<1>2. ASSUME NEW w \in Workers, UpkeepMoved(w), Busy(w) \/ Waits
      PROVE  UpkeepAlone'
  BY <1>2 DEF UpkeepAlone, Busy, UpkeepMoved, Waits
<1>3. QED
  BY <1>1, <1>2, Shape

-----------------------------------------------------------------------------
(* Upkeep: the anchoring follows the lease.                                *)

\* Whoever is going to anchor is still going to.
LEMMA AnchoredKeeps ==
    ASSUME Anchored, load' = load, NoneAppears,
           UNCHANGED requests \/ \E w \in Workers : UpkeepMoved(w) /\ pc[w] \notin {"payload", "anchor"}
    PROVE  Anchored'
BY DEF Anchored, NoneAppears, UpkeepMoved, requests

LEMMA AnchoredStep ==
    ASSUME UpkeepTyped, Anchored, UpkeepNext
    PROVE  Anchored'
<1> USE AnchoredKeeps
<1>0. UpkeepTypeOK /\ load' = load
  BY Shape DEF UpkeepTyped
<1>1. ASSUME UNCHANGED contract
      PROVE  NoneAppears
  BY <1>1 DEF NoneAppears
<1>2. ASSUME NEW w \in Workers, NEW c \in Contracts, NEW u \in Premises, NEW t \in Terms,
             CreateContract(w, c, u, t)
      PROVE  Anchored'
  <2>1. /\ UpkeepMoved(w) /\ pc'[w] = "payload" /\ job'[w].contract = c
        /\ pc[w] = "idle"
        /\ \A d \in Contracts : d # c => contract'[d] = contract[d]
    BY <1>2, UpkeepGotoMoves DEF CreateContract, Ready, Busy
  <2>2. QED
    BY <1>0, <2>1 DEF Anchored, UpkeepMoved
<1>3. ASSUME NEW c \in Contracts, TerminateContract(c)
      PROVE  Anchored'
  <2>1. NoneAppears
    BY <1>0, <1>3, DrawnRows DEF TerminateContract, NoneAppears, UpkeepTypeOK, ContractRow
  <2>2. QED
    BY <1>0, <1>3, <2>1 DEF TerminateContract
<1>4. ASSUME NEW c \in Contracts, NEW t \in Terms, UpdateContract(c, t)
      PROVE  Anchored'
  <2>1. NoneAppears
    BY <1>0, <1>4, DrawnRows DEF UpdateContract, NoneAppears, UpkeepTypeOK, ContractRow
  <2>2. QED
    BY <1>0, <1>4, <2>1 DEF UpdateContract
<1>5. ASSUME NEW u \in Premises, DeleteUnit(u)
      PROVE  Anchored'
  <2>1. NoneAppears
    BY <1>0, <1>5, DetachedRows DEF DeleteUnit, NoneAppears, UpkeepTypeOK
  <2>2. QED
    BY <1>0, <1>5, <2>1 DEF DeleteUnit
<1>6. ASSUME NEW w \in Workers, BuildPayload(w)
      PROVE  Anchored'
  <2>1. /\ UpkeepMoved(w) /\ pc[w] = "payload" /\ pc'[w] = "anchor"
        /\ job'[w].contract = job[w].contract /\ contract' = contract
    BY <1>6, UpkeepGotoMoves DEF BuildPayload, upkeepVars
  <2>2. QED
    BY <1>0, <2>1 DEF Anchored, UpkeepMoved
<1>7. ASSUME NEW w \in Workers, AnchorContract(w)
      PROVE  Anchored'
  <2>1. /\ UpkeepMoved(w) /\ pc[w] = "anchor"
        /\ job[w].contract \in Contracts /\ job[w].terms \in Terms
        /\ contract[job[w].contract] \in ContractRow
    BY <1>0, <1>7, UpkeepRespondMoves, DrawnRows DEF AnchorContract, UpkeepTyped, UpkeepSessionOK
  <2>2. /\ contract'[job[w].contract].proof # None
        /\ \A d \in Contracts : d # job[w].contract => contract'[d] = contract[d]
    BY <1>0, <1>7, <2>1 DEF AnchorContract, UpkeepTypeOK, ContractRow
  <2>3. QED
    BY <1>0, <2>1, <2>2 DEF Anchored, UpkeepMoved
<1>8. ASSUME NEW w \in Workers, CommitPremises(w)
      PROVE  Anchored'
  <2>1. NoneAppears
    BY <1>0, <1>8, DetachedRows DEF CommitPremises, NoneAppears, UpkeepTypeOK
  <2>2. UpkeepMoved(w) /\ pc[w] = "delete_premises"
    BY <1>8, UpkeepRespondMoves DEF CommitPremises
  <2>3. QED
    BY <1>0, <2>1, <2>2
<1>9. ASSUME NEW w \in Workers, Die(w), UNCHANGED upkeepVars
      PROVE  Anchored'
  BY <1>0, <1>9 DEF Die, Anchored
<1>10. ASSUME NEW w \in Workers,
              \/ \E c \in Contracts : EscrowRead(w, c)
              \/ \E k \in Tickets :
                    \/ \E by \in {"tenant", "landlord"}, u \in Premises : Report(w, k, by, u)
                    \/ \E s \in TicketStatus : UpdateTicket(w, k, s)
              \/ DeletePremises(w)
       PROVE  Anchored'
  <2>1. contract' = contract /\ UpkeepMoved(w) /\ pc[w] = "idle"
    BY <1>10, UpkeepGotoMoves
       DEF EscrowRead, Report, UpdateTicket, DeletePremises, Ready, Busy, upkeepVars
  <2>2. QED
    BY <1>0, <1>1, <2>1
<1>11. ASSUME NEW w \in Workers, EscrowCommit(w) \/ CommitReport(w) \/ CommitTicket(w)
       PROVE  Anchored'
  <2>1. contract' = contract /\ UpkeepMoved(w) /\ pc[w] \in {"escrow", "report", "update_ticket"}
    BY <1>11, UpkeepRespondMoves DEF EscrowCommit, CommitReport, CommitTicket
  <2>2. QED
    BY <1>0, <1>1, <2>1
<1>12. ASSUME TimePasses \/ \E k \in Tickets : DeleteTicket(k)
       PROVE  Anchored'
  <2>1. contract' = contract /\ UNCHANGED requests
    BY <1>12 DEF TimePasses, DeleteTicket
  <2>2. QED
    BY <1>0, <1>1, <2>1
<1>13. QED
  BY <1>2, <1>3, <1>4, <1>5, <1>6, <1>7, <1>8, <1>9, <1>10, <1>11, <1>12 DEF UpkeepNext

-----------------------------------------------------------------------------
(* Upkeep: a deposit is held once.                                         *)

\* Whoever moves where requests do not overlap, the others are idle.
LEMMA OthersIdle ==
    ASSUME UpkeepAlone, ~load.overlap, NEW w \in Workers, UpkeepMoved(w), Busy(w) \/ Waits
    PROVE  \A v \in Workers : v # w => ~Busy(v) /\ pc'[v] = "idle"
BY DEF UpkeepAlone, Waits, Busy, UpkeepMoved

\* Steps that make no hold.
LEMMA HoldsKeep ==
    ASSUME HoldsDiffer, load' = load, holds' = holds,
           \/ UNCHANGED requests
           \/ \E w \in Workers : UpkeepMoved(w) /\ pc'[w] # "escrow"
    PROVE  HoldsDiffer'
BY DEF HoldsDiffer, UpkeepMoved, requests

LEMMA HoldsStep ==
    ASSUME UpkeepTyped, UpkeepAlone, HoldsDiffer, UpkeepNext
    PROVE  HoldsDiffer'
<1> USE HoldsKeep
<1>0. UpkeepTypeOK /\ load' = load
  BY Shape DEF UpkeepTyped
<1>1. ASSUME NEW w \in Workers, NEW c \in Contracts, EscrowRead(w, c)
      PROVE  HoldsDiffer'
  <2>1. UpkeepMoved(w) /\ Waits /\ job'[w].contract = c /\ holds' = holds
    BY <1>1, UpkeepGotoMoves DEF EscrowRead, Ready, Served, Waits, upkeepVars
  <2>2. \A h \in DOMAIN holds : holds[h].contract # c
    BY <1>1 DEF EscrowRead, HoldsOf
  <2>3. QED
    BY <1>0, <2>1, <2>2, OthersIdle DEF HoldsDiffer
<1>2. ASSUME NEW w \in Workers, EscrowCommit(w)
      PROVE  HoldsDiffer'
  <2>1. UpkeepMoved(w) /\ Busy(w) /\ pc[w] = "escrow" /\ pc'[w] = "idle"
    BY <1>2, UpkeepRespondMoves DEF EscrowCommit, Busy
  <2>2. /\ DOMAIN holds' = DOMAIN holds \cup {Len(holds) + 1}
        /\ Len(holds) + 1 \notin DOMAIN holds
        /\ holds'[Len(holds) + 1] = job[w]
        /\ \A h \in DOMAIN holds : holds'[h] = holds[h]
    BY <1>0, <1>2 DEF EscrowCommit, UpkeepTypeOK
  <2>3. QED
    BY <1>0, <2>1, <2>2, OthersIdle DEF HoldsDiffer
<1>3. ASSUME NEW w \in Workers,
             \/ \E c \in Contracts, u \in Premises, t \in Terms : CreateContract(w, c, u, t)
             \/ \E k \in Tickets :
                   \/ \E by \in {"tenant", "landlord"}, u \in Premises : Report(w, k, by, u)
                   \/ \E s \in TicketStatus : UpdateTicket(w, k, s)
             \/ BuildPayload(w) \/ DeletePremises(w)
      PROVE  HoldsDiffer'
  <2> DEFINE Reaches(p) == UpkeepMoved(w) /\ holds' = holds /\ pc'[w] = p
  <2>1. ASSUME NEW c, NEW u, NEW t, CreateContract(w, c, u, t)
        PROVE  Reaches("payload")
    BY <2>1, UpkeepGotoMoves DEF CreateContract
  <2>2. ASSUME NEW k, NEW by, NEW u, Report(w, k, by, u)
        PROVE  Reaches("report")
    BY <2>2, UpkeepGotoMoves DEF Report, upkeepVars
  <2>3. ASSUME NEW k, NEW s, UpdateTicket(w, k, s)
        PROVE  Reaches("update_ticket")
    BY <2>3, UpkeepGotoMoves DEF UpdateTicket, upkeepVars
  <2>4. BuildPayload(w) => Reaches("anchor")
    BY UpkeepGotoMoves DEF BuildPayload, upkeepVars
  <2>5. DeletePremises(w) => Reaches("delete_premises")
    BY UpkeepGotoMoves DEF DeletePremises, upkeepVars
  <2>6. UpkeepMoved(w) /\ holds' = holds /\ pc'[w] # "escrow"
    BY <1>3, <2>1, <2>2, <2>3, <2>4, <2>5
  <2>7. QED
    BY <1>0, <2>6
<1>4. ASSUME NEW w \in Workers,
             \/ AnchorContract(w) \/ CommitReport(w) \/ CommitTicket(w) \/ CommitPremises(w)
             \/ Die(w) /\ UNCHANGED upkeepVars
      PROVE  HoldsDiffer'
  <2>1. UpkeepMoved(w) /\ pc'[w] = "idle" /\ holds' = holds
    BY <1>4, UpkeepRespondMoves
       DEF AnchorContract, CommitReport, CommitTicket, CommitPremises, Die, upkeepVars
  <2>2. QED
    BY <1>0, <2>1
<1>5. ASSUME \/ \E c \in Contracts : TerminateContract(c) \/ \E t \in Terms : UpdateContract(c, t)
             \/ \E k \in Tickets : DeleteTicket(k)
             \/ \E u \in Premises : DeleteUnit(u)
             \/ TimePasses
      PROVE  HoldsDiffer'
  BY <1>0, <1>5 DEF TerminateContract, UpdateContract, DeleteTicket, DeleteUnit, TimePasses
<1>6. QED
  BY <1>1, <1>2, <1>3, <1>4, <1>5 DEF UpkeepNext

-----------------------------------------------------------------------------
(* Upkeep: a request has its unit.                                         *)

LEMMA UnitsStep ==
    ASSUME UpkeepTyped, TicketsHaveUnits, UpkeepNext
    PROVE  TicketsHaveUnits'
<1> USE FiledRows
<1>0. UpkeepTypeOK
  BY DEF UpkeepTyped
<1>1. ASSUME UNCHANGED <<premises, ticket>>
      PROVE  TicketsHaveUnits'
  BY <1>1 DEF TicketsHaveUnits, Filed
<1>2. ASSUME NEW w \in Workers, CommitReport(w)
      PROVE  TicketsHaveUnits'
  BY <1>0, <1>2 DEF CommitReport, TicketsHaveUnits, Filed, UpkeepTypeOK
<1>3. ASSUME NEW w \in Workers, CommitTicket(w)
      PROVE  TicketsHaveUnits'
  <2>1. /\ job[w].ticket \in Tickets
        /\ job[w].set \in [status : TicketStatus, resolved : 0 .. MaxDay]
    BY <1>3 DEF CommitTicket, UpkeepTyped, UpkeepSessionOK
  <2>2. Filed(job[w].ticket) =>
           Written(ticket[job[w].ticket], job[w].seen, job[w].set).unit
              = ticket[job[w].ticket].unit
    BY <1>0, <2>1, WrittenTicket
  <2>3. QED
    BY <1>0, <1>3, <2>1, <2>2 DEF CommitTicket, TicketsHaveUnits, Filed, UpkeepTypeOK
<1>4. ASSUME NEW k \in Tickets, DeleteTicket(k)
      PROVE  TicketsHaveUnits'
  BY <1>0, <1>4 DEF DeleteTicket, TicketsHaveUnits, Filed, UpkeepTypeOK
<1>5. ASSUME NEW u \in Premises, DeleteUnit(u)
      PROVE  TicketsHaveUnits'
  BY <1>0, <1>5 DEF DeleteUnit, TicketsHaveUnits, TicketsOf, Filed
<1>6. ASSUME NEW w \in Workers, CommitPremises(w)
      PROVE  TicketsHaveUnits'
  BY <1>0, <1>6 DEF CommitPremises, TicketsHaveUnits, TicketsOf, Filed, UpkeepTypeOK
<1>7. ASSUME NEW w \in Workers, NEW c \in Contracts,
             \/ \E u \in Premises, t \in Terms : CreateContract(w, c, u, t)
             \/ EscrowRead(w, c)
      PROVE  UNCHANGED <<premises, ticket>>
  BY <1>7 DEF CreateContract, EscrowRead, upkeepVars
<1>8. ASSUME NEW w \in Workers,
             \/ \E k \in Tickets :
                   \/ \E by \in {"tenant", "landlord"}, u \in Premises : Report(w, k, by, u)
                   \/ \E s \in TicketStatus : UpdateTicket(w, k, s)
             \/ BuildPayload(w) \/ AnchorContract(w) \/ EscrowCommit(w) \/ DeletePremises(w)
             \/ Die(w) /\ UNCHANGED upkeepVars
      PROVE  UNCHANGED <<premises, ticket>>
  BY <1>8
     DEF Report, UpdateTicket, BuildPayload, AnchorContract, EscrowCommit, DeletePremises,
         upkeepVars
<1>9. ASSUME NEW c \in Contracts,
             TerminateContract(c) \/ \E t \in Terms : UpdateContract(c, t)
      PROVE  UNCHANGED <<premises, ticket>>
  BY <1>9 DEF TerminateContract, UpdateContract
<1>10. ASSUME TimePasses
       PROVE  UNCHANGED <<premises, ticket>>
  BY <1>10 DEF TimePasses
<1>11. QED
  BY <1>1, <1>2, <1>3, <1>4, <1>5, <1>6, <1>7, <1>8, <1>9, <1>10 DEF UpkeepNext

-----------------------------------------------------------------------------
(* Upkeep: what a request tells of itself.                                 *)

LEMMA StoryParts == Story <=> (~load.overlap => DatedTickets /\ \A w \in Workers : Reads(w))
BY DEF Story, DatedTickets, Reads

\* The other sessions are idle, so what they read does not matter.
LEMMA StoryMoves ==
    ASSUME UpkeepAlone, load' = load, NEW w \in Workers, UpkeepMoved(w), Busy(w) \/ Waits,
           ~load.overlap => DatedTickets' /\ Reads(w)'
    PROVE  Story'
<1>1. ASSUME ~load.overlap, NEW v \in Workers, v # w
      PROVE  Reads(v)'
  BY <1>1, OthersIdle DEF Reads
<1>2. QED
  BY <1>1, StoryParts DEF Story, DatedTickets, Reads

\* A step of no worker waits for all of them.
LEMMA StoryStays ==
    ASSUME load' = load, UNCHANGED requests, Waits, ~load.overlap => DatedTickets'
    PROVE  Story'
BY DEF Story, DatedTickets, requests, Waits, Busy

\* A request written over another goes on with its story when its own row does.
LEMMA RowTold ==
    ASSUME UpkeepTypeOK, ~load.overlap => DatedTickets,
           NEW k \in Tickets, NEW r, ticket' = [ticket EXCEPT ![k] = r],
           ~load.overlap =>
              /\ ~Filed(k) /\ r # NoTicket /\ r.by = "tenant" => ActiveOf(r.unit) # {}
              /\ ticket[k].resolved # 0 /\ r # NoTicket => r.resolved = ticket[k].resolved
              /\ r.status = "resolved" => r.resolved # 0
    PROVE  TicketStory /\ (~load.overlap => DatedTickets')
<1>1. ticket'[k] = r /\ \A n \in Tickets : n # k => ticket'[n] = ticket[n]
  BY DEF UpkeepTypeOK
<1>2. ASSUME ~load.overlap, NEW n \in Tickets
      PROVE  /\ ~Filed(n) /\ Filed(n)' /\ ticket'[n].by = "tenant" =>
                    ActiveOf(ticket'[n].unit) # {}
             /\ ticket[n].resolved # 0 /\ Filed(n)' => ticket'[n].resolved = ticket[n].resolved
             /\ ticket'[n].status = "resolved" => ticket'[n].resolved # 0
  <2>1. CASE n = k
    BY <1>1, <1>2, <2>1 DEF Filed
  <2>2. CASE n # k
    <3>1. ticket'[n] = ticket[n]
      BY <1>1, <1>2, <2>2
    <3>2. ticket[n].status = "resolved" => ticket[n].resolved # 0
      BY <1>2 DEF DatedTickets
    <3>3. QED
      BY <3>1, <3>2 DEF Filed
  <2>3. QED
    BY <2>1, <2>2
<1>3. QED
  BY <1>2 DEF TicketStory, DatedTickets

LEMMA StoryStep ==
    ASSUME UpkeepTyped, UpkeepAlone, Story, UpkeepNext
    PROVE  Story' /\ TicketStory
<1> USE StoryParts DEF Waits
<1>0. UpkeepTypeOK /\ load' = load
  BY Shape DEF UpkeepTyped
<1>dated. ~load.overlap => DatedTickets
  BY DEF Story
<1>1. ASSUME UNCHANGED ticket
      PROVE  TicketStory /\ (~load.overlap => DatedTickets')
  BY <1>1 DEF TicketStory, DatedTickets, Filed
<1>2. ASSUME NEW w \in Workers, UpkeepMoved(w), pc'[w] \notin {"update_ticket", "report"}
      PROVE  Reads(w)'
  BY <1>2 DEF Reads
<1>3. ASSUME NEW w \in Workers, NEW c \in Contracts, NEW u \in Premises, NEW t \in Terms,
             CreateContract(w, c, u, t)
      PROVE  Story' /\ TicketStory
  <2>1. UpkeepMoved(w) /\ pc'[w] = "payload" /\ Waits /\ UNCHANGED ticket
    BY <1>3, UpkeepGotoMoves DEF CreateContract, Ready, Served
  <2>2. QED
    BY <1>0, <1>1, <1>2, <2>1, StoryMoves
<1>4. ASSUME NEW w \in Workers, NEW c \in Contracts, EscrowRead(w, c)
      PROVE  Story' /\ TicketStory
  <2>1. UpkeepMoved(w) /\ pc'[w] = "escrow" /\ Waits /\ UNCHANGED ticket
    BY <1>4, UpkeepGotoMoves DEF EscrowRead, Ready, Served, upkeepVars
  <2>2. QED
    BY <1>0, <1>1, <1>2, <2>1, StoryMoves
<1>5. ASSUME NEW c \in Contracts, TerminateContract(c) \/ \E t \in Terms : UpdateContract(c, t)
      PROVE  Story' /\ TicketStory
  <2>1. UNCHANGED requests /\ Waits /\ UNCHANGED ticket
    BY <1>5 DEF TerminateContract, UpdateContract, Served
  <2>2. QED
    BY <1>0, <1>1, <2>1, StoryStays
<1>6. ASSUME NEW w \in Workers, NEW k \in Tickets, NEW by \in {"tenant", "landlord"},
             NEW u \in Premises, Report(w, k, by, u)
      PROVE  Story' /\ TicketStory
  <2>1. /\ UpkeepMoved(w) /\ pc'[w] = "report" /\ Waits /\ UNCHANGED <<ticket, contract>>
        /\ job'[w].unit = u /\ job'[w].by = by
    BY <1>6, UpkeepGotoMoves DEF Report, Ready, Served, upkeepVars
  <2>2. by = "tenant" => ActiveOf(u) # {}
    BY <1>6 DEF Report, LivesIn
  <2>3. Reads(w)'
    BY <2>1, <2>2 DEF Reads, ActiveOf
  <2>4. QED
    BY <1>0, <1>1, <2>1, <2>3, StoryMoves
<1>7. ASSUME NEW w \in Workers, NEW k \in Tickets, NEW s \in TicketStatus, UpdateTicket(w, k, s)
      PROVE  Story' /\ TicketStory
  <2>1. /\ UpkeepMoved(w) /\ pc'[w] = "update_ticket" /\ Waits /\ UNCHANGED ticket
        /\ job'[w] = [ticket |-> k, seen |-> ticket[k],
                      set |-> [status |-> s, resolved |-> ResolvedOn(ticket[k], s)]]
    BY <1>7, UpkeepGotoMoves DEF UpdateTicket, Ready, Served, upkeepVars
  <2>2. /\ ticket[k].resolved # 0 => ResolvedOn(ticket[k], s) = ticket[k].resolved
        /\ s = "resolved" => ResolvedOn(ticket[k], s) # 0
    BY <1>0 DEF ResolvedOn, UpkeepTypeOK
  <2>3. Reads(w)'
    BY <2>1, <2>2 DEF Reads
  <2>4. QED
    BY <1>0, <1>1, <2>1, <2>3, StoryMoves
<1>8. ASSUME NEW k \in Tickets, DeleteTicket(k)
      PROVE  Story' /\ TicketStory
  <2>1. ticket' = [ticket EXCEPT ![k] = NoTicket] /\ UNCHANGED requests /\ Waits
    BY <1>8 DEF DeleteTicket, Served
  <2>2. TicketStory /\ (~load.overlap => DatedTickets')
    BY <1>0, <1>dated, <2>1, RowTold DEF NoTicket
  <2>3. QED
    BY <1>0, <2>1, <2>2, StoryStays
<1>9. ASSUME NEW u \in Premises, DeleteUnit(u)
      PROVE  Story' /\ TicketStory
  <2>1. UNCHANGED requests /\ Waits /\ UNCHANGED ticket
    BY <1>9 DEF DeleteUnit, Served
  <2>2. QED
    BY <1>0, <1>1, <2>1, StoryStays
<1>10. ASSUME NEW w \in Workers, BuildPayload(w)
       PROVE  Story' /\ TicketStory
  <2>1. UpkeepMoved(w) /\ pc'[w] = "anchor" /\ Busy(w) /\ UNCHANGED ticket
    BY <1>10, UpkeepGotoMoves DEF BuildPayload, Busy, upkeepVars
  <2>2. QED
    BY <1>0, <1>1, <1>2, <2>1, StoryMoves
<1>11. ASSUME NEW w \in Workers, AnchorContract(w) \/ EscrowCommit(w)
       PROVE  Story' /\ TicketStory
  <2>1. UpkeepMoved(w) /\ pc'[w] = "idle" /\ Busy(w) /\ UNCHANGED ticket
    BY <1>11, UpkeepRespondMoves DEF AnchorContract, EscrowCommit, Busy
  <2>2. QED
    BY <1>0, <1>1, <1>2, <2>1, StoryMoves
<1>12. ASSUME NEW w \in Workers, CommitReport(w)
       PROVE  Story' /\ TicketStory
  <2>1. UpkeepMoved(w) /\ pc[w] = "report" /\ pc'[w] = "idle" /\ Busy(w)
    BY <1>12, UpkeepRespondMoves DEF CommitReport, Busy
  <2>2. job[w].ticket \in Tickets
    BY <2>1 DEF UpkeepTyped, UpkeepSessionOK
  <2>3. \/ UNCHANGED ticket
        \/ /\ ~Filed(job[w].ticket)
           /\ ticket' = [ticket EXCEPT ![job[w].ticket] =
                [unit |-> job[w].unit, by |-> job[w].by, status |-> "open", resolved |-> 0]]
    BY <1>12 DEF CommitReport
  <2>4. ~load.overlap /\ job[w].by = "tenant" => ActiveOf(job[w].unit) # {}
    BY <2>1 DEF Reads
  <2>5. ASSUME ~Filed(job[w].ticket),
               ticket' = [ticket EXCEPT ![job[w].ticket] =
                 [unit |-> job[w].unit, by |-> job[w].by, status |-> "open", resolved |-> 0]]
        PROVE  TicketStory /\ (~load.overlap => DatedTickets')
    <3> DEFINE r == [unit |-> job[w].unit, by |-> job[w].by, status |-> "open", resolved |-> 0]
    <3>1. r.unit = job[w].unit /\ r.by = job[w].by /\ r.status # "resolved"
      OBVIOUS
    <3>2. ticket[job[w].ticket].resolved = 0
      BY <2>5 DEF Filed, NoTicket
    <3>3. ticket' = [ticket EXCEPT ![job[w].ticket] = r]
      BY <2>5
    <3> HIDE DEF r
    <3>4. QED
      BY <1>0, <1>dated, <2>2, <2>4, <3>1, <3>2, <3>3, RowTold
  <2>6. QED
    BY <1>0, <1>1, <1>2, <2>1, <2>3, <2>5, StoryMoves
<1>13. ASSUME NEW w \in Workers, CommitTicket(w)
       PROVE  Story' /\ TicketStory
  <2> DEFINE k == job[w].ticket
             r == Written(ticket[k], job[w].seen, job[w].set)
  <2>1. UpkeepMoved(w) /\ pc[w] = "update_ticket" /\ pc'[w] = "idle" /\ Busy(w)
    BY <1>13, UpkeepRespondMoves DEF CommitTicket, Busy
  <2>2. k \in Tickets /\ job[w].set \in [status : TicketStatus, resolved : 0 .. MaxDay]
    BY <2>1 DEF UpkeepTyped, UpkeepSessionOK
  <2>3. \/ UNCHANGED ticket
        \/ Filed(k) /\ ticket' = [ticket EXCEPT ![k] = r]
    BY <1>13 DEF CommitTicket
  <2>4. ASSUME ~load.overlap, Filed(k)
        PROVE  /\ ticket[k].resolved # 0 => r.resolved = ticket[k].resolved
               /\ r.status = "resolved" => r.resolved # 0
    <3>1. /\ job[w].seen = ticket[k]
          /\ job[w].seen.resolved # 0 => job[w].set.resolved = job[w].seen.resolved
          /\ job[w].set.status = "resolved" => job[w].set.resolved # 0
      BY <2>1, <2>4 DEF Reads
    <3>2. /\ r.status = IF job[w].set.status # ticket[k].status
                        THEN job[w].set.status ELSE ticket[k].status
          /\ r.resolved = IF job[w].set.resolved # ticket[k].resolved
                          THEN job[w].set.resolved ELSE ticket[k].resolved
      BY <1>0, <2>2, <2>4, <3>1, FiledRows, WrittenTicket
    <3>3. QED
      BY <3>1, <3>2
  <2>5. TicketStory /\ (~load.overlap => DatedTickets')
    <3> HIDE DEF k, r
    <3>1. QED
      BY <1>0, <1>1, <1>dated, <2>2, <2>3, <2>4, RowTold
  <2>6. QED
    BY <1>0, <1>2, <2>1, <2>5, StoryMoves
<1>14. ASSUME NEW w \in Workers, DeletePremises(w)
       PROVE  Story' /\ TicketStory
  <2>1. UpkeepMoved(w) /\ pc'[w] = "delete_premises" /\ Waits /\ UNCHANGED ticket
    BY <1>14, UpkeepGotoMoves DEF DeletePremises, Ready, Served, upkeepVars
  <2>2. QED
    BY <1>0, <1>1, <1>2, <2>1, StoryMoves
<1>15. ASSUME NEW w \in Workers, CommitPremises(w)
       PROVE  Story' /\ TicketStory
  <2>1. UpkeepMoved(w) /\ pc'[w] = "idle" /\ Busy(w)
    BY <1>15, UpkeepRespondMoves DEF CommitPremises, Busy
  <2>2. \/ UNCHANGED ticket
        \/ ticket' = [k \in Tickets |-> IF k \in job[w].gone THEN NoTicket ELSE ticket[k]]
    BY <1>15 DEF CommitPremises
  <2>3. ASSUME ticket' = [k \in Tickets |-> IF k \in job[w].gone THEN NoTicket ELSE ticket[k]]
        PROVE  TicketStory /\ (~load.overlap => DatedTickets')
    <3>1. \A k \in Tickets : ticket'[k] = ticket[k] \/ ticket'[k] = NoTicket
      BY <2>3
    <3>2. QED
      BY <1>dated, <3>1 DEF TicketStory, DatedTickets, Filed, NoTicket
  <2>4. QED
    BY <1>0, <1>1, <1>2, <2>1, <2>2, <2>3, StoryMoves
<1>16. ASSUME NEW w \in Workers, Die(w), UNCHANGED upkeepVars
       PROVE  Story' /\ TicketStory
  <2>1. UpkeepMoved(w) /\ pc'[w] = "idle" /\ Busy(w) /\ UNCHANGED ticket
    BY <1>16, DieMoves DEF upkeepVars
  <2>2. QED
    BY <1>0, <1>1, <1>2, <2>1, StoryMoves
<1>17. ASSUME TimePasses
       PROVE  Story' /\ TicketStory
  <2>1. UNCHANGED requests /\ Waits /\ UNCHANGED ticket
    BY <1>17 DEF TimePasses, Served
  <2>2. QED
    BY <1>0, <1>1, <2>1, StoryStays
<1>18. QED
  BY <1>3, <1>4, <1>5, <1>6, <1>7, <1>8, <1>9, <1>10, <1>11, <1>12, <1>13, <1>14, <1>15,
     <1>16, <1>17 DEF UpkeepNext

-----------------------------------------------------------------------------
(* Upkeep as part of the office.                                           *)

LEMMA StartsUpkeep ==
    ASSUME RequestsInit, UpkeepInit
    PROVE  UpkeepInv
<1>1. \A w \in Workers : ~Busy(w) /\ pc[w] = "idle"
  BY DEF RequestsInit, Busy
<1>2. DOMAIN pc = Workers /\ DOMAIN job = Workers
  BY DEF RequestsInit
<1>3. UpkeepTypeOK
  BY DEF UpkeepInit, UpkeepTypeOK
<1>4. UpkeepTyped
  BY <1>1, <1>2, <1>3 DEF UpkeepTyped, UpkeepSessionOK
<1>5. UpkeepAlone
  BY <1>1 DEF UpkeepAlone
<1>6. Anchored
  BY DEF UpkeepInit, Anchored, NoContract
<1>7. HoldsDiffer
  BY <1>1 DEF UpkeepInit, HoldsDiffer
<1>8. TicketsHaveUnits
  BY DEF UpkeepInit, TicketsHaveUnits, Filed
<1>9. Story
  BY <1>1 DEF UpkeepInit, Story, NoTicket
<1>10. QED
  BY <1>4, <1>5, <1>6, <1>7, <1>8, <1>9 DEF UpkeepInv

LEMMA UpkeepOfficeStep ==
    ASSUME UpkeepOfficeInv, [Next]_vars
    PROVE  UpkeepOfficeInv' /\ [TicketStory]_upkeepVars
<1>1. CASE Next /\ load.part = "upkeep"
  <2>1. UpkeepNext /\ load' = load /\ UpkeepInv
    BY <1>1 DEF Next, UpkeepOfficeInv
  <2>2. UpkeepInv' /\ TicketStory
    BY <2>1, TypedStep, AloneStep, AnchoredStep, HoldsStep, UnitsStep, StoryStep DEF UpkeepInv
  <2>3. QED
    BY <1>1, <2>1, <2>2 DEF UpkeepOfficeInv
<1>2. CASE Next /\ load.part # "upkeep"
  <2>1. UNCHANGED upkeepVars /\ load' = load
    BY <1>2 DEF Next, Except
  <2>2. QED
    BY <1>2, <2>1 DEF UpkeepOfficeInv, UpkeepInit, upkeepVars
<1>3. CASE UNCHANGED vars
  <2>1. UNCHANGED <<load, pc, job, premises, contract, holds, ticket, now>>
    BY <1>3 DEF vars, requests, upkeepVars
  <2>2. UpkeepOfficeInv' = UpkeepOfficeInv
    BY <2>1
       DEF UpkeepOfficeInv, UpkeepInv, UpkeepInit, UpkeepTyped, UpkeepTypeOK, UpkeepSessionOK, UpkeepAlone, Busy, Anchored,
           HoldsDiffer, TicketsHaveUnits, Story, Filed, Drawn, ActiveOf
  <2>3. QED
    BY <2>1, <2>2 DEF upkeepVars
<1>4. QED
  BY <1>1, <1>2, <1>3

LEMMA UpkeepOfficeInvariant == Spec => []UpkeepOfficeInv
<1>1. Init => UpkeepOfficeInv
  BY StartsUpkeep DEF Init, UpkeepOfficeInv
<1>2. UpkeepOfficeInv /\ [Next]_vars => UpkeepOfficeInv'
  BY UpkeepOfficeStep
<1>3. QED
  BY <1>1, <1>2, PTL DEF Spec

\* Units, leases, holds, tickets and the day keep their types, whatever the
\* handlers in use and however their requests overlap.
THEOREM UpkeepTypeCorrect == Spec => []UpkeepTypeOK
<1>1. UpkeepOfficeInv => UpkeepTypeOK
  <2>1. UpkeepInit => UpkeepTypeOK
    BY DEF UpkeepInit, UpkeepTypeOK
  <2>2. QED
    BY <2>1 DEF UpkeepOfficeInv, UpkeepInv, UpkeepTyped
<1>2. QED
  BY <1>1, UpkeepOfficeInvariant, PTL

\* A deleted unit leaves no maintenance request behind, though delete_property
\* looks for them one step before it deletes, and requests overlap.
THEOREM TicketsStayWithUnits == Spec => []TicketsHaveUnits
<1>1. UpkeepOfficeInv => TicketsHaveUnits
  <2>1. UpkeepInit => TicketsHaveUnits
    BY DEF UpkeepInit, TicketsHaveUnits, Filed
  <2>2. QED
    BY <2>1 DEF UpkeepOfficeInv, UpkeepInv
<1>2. QED
  BY <1>1, UpkeepOfficeInvariant, PTL

\* Where no request dies between its two commits, every active lease verifies
\* as soon as nobody is anchoring it (create_lease, verify_contract).
THEOREM ContractsAlwaysVerify == Spec => []ContractsVerify
<1>1. UpkeepOfficeInv => ContractsVerify
  <2>1. UpkeepInit => ContractsVerify
    BY DEF UpkeepInit, ContractsVerify, ContractVerifies, NoContract
  <2>2. UpkeepInv => ContractsVerify
    BY DEF UpkeepInv, Anchored, ContractsVerify, ContractVerifies
  <2>3. QED
    BY <2>1, <2>2 DEF UpkeepOfficeInv
<1>2. QED
  BY <1>1, UpkeepOfficeInvariant, PTL

\* Where requests do not overlap, no lease has two open holds.
THEOREM DepositsAreHeldOnce == Spec => []OneOpenHold
<1>1. ASSUME UpkeepTypeOK, HoldsDiffer
      PROVE  OneOpenHold
  <2> SUFFICES ASSUME ~load.overlap, NEW c \in Contracts
               PROVE  Cardinality({h \in DOMAIN holds : holds[h].contract = c}) <= 1
    BY DEF OneOpenHold
  <2> DEFINE S == {h \in DOMAIN holds : holds[h].contract = c}
  <2>1. \A h, i \in S : h = i
    BY <1>1 DEF HoldsDiffer
  <2>2. CASE S = {}
    BY <2>2, FS_EmptySet
  <2>3. ASSUME NEW h \in S
        PROVE  Cardinality(S) <= 1
    <3>1. S = {h}
      BY <2>1, <2>3
    <3>2. QED
      BY <3>1, FS_Singleton
  <2>4. QED
    BY <2>2, <2>3
<1>2. ASSUME UpkeepInit
      PROVE  OneOpenHold
  <2>1. \A c : {h \in DOMAIN holds : holds[h].contract = c} = {}
    BY <1>2 DEF UpkeepInit
  <2>2. QED
    BY <2>1, FS_EmptySet DEF OneOpenHold
<1>3. UpkeepOfficeInv => OneOpenHold
  BY <1>1, <1>2 DEF UpkeepOfficeInv, UpkeepInv, UpkeepTyped
<1>4. QED
  BY <1>3, UpkeepOfficeInvariant, PTL

\* Where requests do not overlap, a tenant reports what is wrong in a unit he
\* has a lease of, and the first resolution keeps its date.
THEOREM StoriesAreKept == Spec => TicketsKeepTheirStory
<1>1. UpkeepOfficeInv /\ [Next]_vars => [TicketStory]_upkeepVars
  BY UpkeepOfficeStep
<1>2. QED
  BY <1>1, UpkeepOfficeInvariant, PTL DEF Spec, TicketsKeepTheirStory

\* Both: for any number of workers, units and requests, what tenants reported
\* outlives neither its unit nor its history.
THEOREM TicketsAlwaysKept == Spec => TicketsAreKept
BY TicketsStayWithUnits, StoriesAreKept, PTL DEF TicketsAreKept

-----------------------------------------------------------------------------

HIDE UpkeepAssumption

-----------------------------------------------------------------------------
(* Workers, whatever part they serve.                                      *)

LEMMA GotoMoves ==
    ASSUME Frame, Alone, NEW w \in Workers, NEW p, NEW j, Goto(w, p, j),
           Busy(w) \/ load.overlap \/ \A v \in Workers : ~Busy(v)
    PROVE  Moved(w) /\ pc'[w] = p /\ job'[w] = j
BY DEF Frame, Alone, Goto, Moved

LEMMA RespondMoves ==
    ASSUME Frame, Alone, NEW w \in Workers, Respond(w), Busy(w)
    PROVE  Moved(w) /\ pc'[w] = "idle"
BY GotoMoves DEF Respond

\* The request that moves is the only one where they do not overlap.
LEMMA MovedAlone ==
    ASSUME NEW w \in Workers, Moved(w)
    PROVE  Alone'
BY DEF Moved, Alone, Busy

LEMMA ServedIsStill ==
    ASSUME Frame, UNCHANGED requests, NEW handler, Served(handler)
    PROVE  Still
BY DEF Frame, requests, Served, Still

LEMMA StillAlone ==
    ASSUME Still
    PROVE  Alone'
BY DEF Still, Alone, Busy

-----------------------------------------------------------------------------
(* The agent's records.                                                    *)

LEMMA CrmMoves ==
    ASSUME CrmInv, NEW w \in Workers, Moved(w), CrmTypeOK', CrmRowsKept, RecordsHold',
           CrmSession(w)', Accruing(w)'
    PROVE  CrmInv'
<1>1. ASSUME NEW v \in Workers, v # w PROVE CrmSession(v)' /\ Accruing(v)'
  <2>1. pc'[v] = pc[v] /\ job'[v] = job[v] /\ CrmSession(v)
    BY <1>1 DEF Moved, CrmInv
  <2>2. CrmSession(v)'
    BY <2>1 DEF CrmSession, CrmRowsKept
  <2>3. Accruing(v)'
    BY <1>1, <2>1 DEF Moved, Accruing, Busy
  <2>4. QED
    BY <2>2, <2>3
<1>2. QED
  BY <1>1, MovedAlone DEF CrmInv, Moved

LEMMA CrmStands ==
    ASSUME CrmInv, Still, CrmTypeOK', CrmRowsKept, RecordsHold'
    PROVE  CrmInv'
<1>1. ASSUME NEW v \in Workers PROVE CrmSession(v)' /\ Accruing(v)'
  <2>1. pc'[v] = pc[v] /\ job'[v] = job[v] /\ CrmSession(v)
    BY DEF Still, CrmInv
  <2>2. CrmSession(v)'
    BY <2>1 DEF CrmSession, CrmRowsKept
  <2>3. Accruing(v)'
    BY <2>1 DEF Still, Accruing, Busy
  <2>4. QED
    BY <2>2, <2>3
<1>2. QED
  BY <1>1, StillAlone DEF CrmInv, Still

\* Rows of the agent are records, or gone.
LEMMA CrmRowShapes ==
    /\ \A r \in DealRow \cup {Gone} : r.row => r \in DealRow
    /\ \A r \in CommissionRow \cup {Gone} : r.row => r \in CommissionRow
    /\ \A r \in ClientRow \cup {Gone} : r.row => r \in ClientRow
    /\ \A r \in ViewingRow \cup {Gone} : r.row => r \in ViewingRow
    /\ \A r \in DealRow \cup CommissionRow \cup ClientRow \cup ViewingRow : r.row /\ r # Gone
    /\ ~Gone.row
<1>1. DOMAIN Gone = {"row"} /\ ~Gone.row
  BY DEF Gone
<1>2. QED
  BY <1>1 DEF DealRow, CommissionRow, ClientRow, ViewingRow

-----------------------------------------------------------------------------
(* Its steps.                                                              *)

LEMMA CreateLeadKeeps ==
    ASSUME CrmInv, NEW l \in Leads, NEW s \in Stages,
           CreateLead(l, s) \/ UpdateLead(l, s)
    PROVE  CrmInv'
<1>1. Still
  BY ServedIsStill DEF CreateLead, UpdateLead, CrmInv
<1>2. CrmTypeOK' /\ CrmRowsKept
  BY DEF CreateLead, UpdateLead, CrmInv, CrmTypeOK, CrmRowsKept
<1>3. \A m : LeadExists(m) /\ m \in LeadOrNone => LeadExists(m)'
  BY StageAssumption DEF CreateLead, UpdateLead, CrmInv, CrmTypeOK, LeadExists, LeadOrNone
<1>4. OutcomesAreDated' /\ OneCommissionPerWin'
  BY <1>1 DEF CreateLead, UpdateLead, CrmInv, RecordsHold, OutcomesAreDated,
              OneCommissionPerWin, Still
<1>5. LeadsOfRecordsExist'
  <2>1. /\ \A c \in Clients : client[c].row => client[c].lead \in LeadOrNone
        /\ \A v \in Viewings : viewing[v].row => viewing[v].lead \in LeadOrNone
        /\ \A d \in Deals : deal[d].row => deal[d].lead \in LeadOrNone
    BY CrmRowShapes DEF CrmInv, CrmTypeOK, ClientRow, ViewingRow, DealRow
  <2>2. UNCHANGED <<client, viewing, deal>> /\ LeadsOfRecordsExist
    BY DEF CreateLead, UpdateLead, CrmInv, RecordsHold
  <2>3. QED
    BY <1>3, <2>1, <2>2 DEF LeadsOfRecordsExist
<1>6. QED
  BY <1>1, <1>2, <1>4, <1>5, CrmStands DEF RecordsHold

LEMMA RowsNameALead ==
    NamesALead(ClientRow) /\ NamesALead(ViewingRow) /\ NamesALead(DealRow)
<1>1. ASSUME NEW r \in ClientRow PROVE [r EXCEPT !.lead = None] \in ClientRow
  BY DEF ClientRow, LeadOrNone
<1>2. ASSUME NEW r \in ViewingRow PROVE [r EXCEPT !.lead = None] \in ViewingRow
  BY DEF ViewingRow, LeadOrNone
<1>3. ASSUME NEW r \in DealRow PROVE [r EXCEPT !.lead = None] \in DealRow
  BY DEF DealRow, LeadOrNone
<1>4. \A r \in ClientRow \cup ViewingRow \cup DealRow : {"row", "lead"} \subseteq DOMAIN r
  BY DEF ClientRow, ViewingRow, DealRow
<1>5. QED
  BY <1>1, <1>2, <1>3, <1>4, CrmRowShapes DEF NamesALead

LEMMA UnnamedRows ==
    ASSUME NEW S, NEW R, NamesALead(R), NEW table \in [S -> R \cup {Gone}], NEW l
    PROVE  /\ Unnamed(table, l) \in [S -> R \cup {Gone}]
           /\ \A r \in S : StruckRow(table[r], Unnamed(table, l)[r], l)
<1>1. ASSUME NEW r \in S
      PROVE  /\ Unnamed(table, l)[r] \in R \cup {Gone}
             /\ StruckRow(table[r], Unnamed(table, l)[r], l)
  <2>1. Unnamed(table, l)[r] = IF table[r].row /\ table[r].lead = l
                               THEN [table[r] EXCEPT !.lead = None] ELSE table[r]
    BY DEF Unnamed
  <2>2. CASE table[r] = Gone
    <3>1. Unnamed(table, l)[r] = Gone
      BY <2>1, <2>2, CrmRowShapes
    <3>2. QED
      BY <2>2, <3>1, CrmRowShapes DEF StruckRow
  <2>3. CASE table[r] \in R
    BY <2>1, <2>3 DEF NamesALead, StruckRow
  <2>4. QED
    BY <2>2, <2>3
<1>2. Unnamed(table, l) \in [S -> R \cup {Gone}]
  BY <1>1 DEF Unnamed
<1>3. QED
  BY <1>1, <1>2

LEMMA DeleteLeadKeeps ==
    ASSUME CrmInv, NEW l \in Leads, DeleteLead(l)
    PROVE  CrmInv'
<1>1. Still
  BY ServedIsStill DEF DeleteLead, CrmInv
<1>2. /\ client \in [Clients -> ClientRow \cup {Gone}]
      /\ viewing \in [Viewings -> ViewingRow \cup {Gone}]
      /\ deal \in [Deals -> DealRow \cup {Gone}]
  BY DEF CrmInv, CrmTypeOK
<1>3. /\ client' = Unnamed(client, l)
      /\ viewing' = Unnamed(viewing, l)
      /\ deal' = Unnamed(deal, l)
      /\ commission' = commission
      /\ lead' = [lead EXCEPT ![l] = None]
  BY DEF DeleteLead
<1>4. /\ client' \in [Clients -> ClientRow \cup {Gone}]
      /\ \A c \in Clients : StruckRow(client[c], client'[c], l)
  BY <1>2, <1>3, UnnamedRows, RowsNameALead
<1>5. /\ viewing' \in [Viewings -> ViewingRow \cup {Gone}]
      /\ \A v \in Viewings : StruckRow(viewing[v], viewing'[v], l)
  BY <1>2, <1>3, UnnamedRows, RowsNameALead
<1>6. /\ deal' \in [Deals -> DealRow \cup {Gone}]
      /\ \A d \in Deals : StruckRow(deal[d], deal'[d], l)
  BY <1>2, <1>3, UnnamedRows, RowsNameALead
<1>7. \A d \in Deals : deal[d] # Gone \/ deal[d].row =>
         /\ deal'[d] # Gone
         /\ deal'[d].status = deal[d].status /\ deal'[d].closed = deal[d].closed
  <2>1. \A d \in Deals : deal[d] # Gone \/ deal[d].row =>
           deal[d] # Gone /\ {"status", "closed"} \subseteq DOMAIN deal[d]
    BY <1>2, CrmRowShapes DEF DealRow
  <2>2. QED
    BY <1>6, <2>1 DEF StruckRow
<1>8. CrmTypeOK' /\ CrmRowsKept
  BY <1>3, <1>4, <1>5, <1>6, <1>7 DEF CrmInv, CrmTypeOK, CrmRowsKept
<1>9. OutcomesAreDated'
  BY <1>3, <1>6, <1>7 DEF CrmInv, RecordsHold, OutcomesAreDated, StruckRow
<1>10. OneCommissionPerWin'
  BY <1>1, <1>3 DEF CrmInv, RecordsHold, OneCommissionPerWin, Still
<1>11. LeadsOfRecordsExist'
  <2>1. LeadsOfRecordsExist
    BY DEF CrmInv, RecordsHold
  <2>2. \A m \in LeadOrNone : m # l /\ LeadExists(m) => m = None \/ lead'[m] # None
    BY <1>3 DEF LeadExists, LeadOrNone, CrmInv, CrmTypeOK
  <2>3. /\ \A c \in Clients : client[c].row => client[c].lead \in LeadOrNone
        /\ \A v \in Viewings : viewing[v].row => viewing[v].lead \in LeadOrNone
        /\ \A d \in Deals : deal[d].row => deal[d].lead \in LeadOrNone
    BY <1>2, CrmRowShapes DEF ClientRow, ViewingRow, DealRow
  <2>4. \A c \in Clients : client'[c].row => client'[c].lead = None \/ lead'[client'[c].lead] # None
    BY <1>4, <2>1, <2>2, <2>3 DEF LeadsOfRecordsExist, StruckRow
  <2>5. \A v \in Viewings : viewing'[v].row => viewing'[v].lead = None \/ lead'[viewing'[v].lead] # None
    BY <1>5, <2>1, <2>2, <2>3 DEF LeadsOfRecordsExist, StruckRow
  <2>6. \A d \in Deals : deal'[d].row => deal'[d].lead = None \/ lead'[deal'[d].lead] # None
    BY <1>6, <2>1, <2>2, <2>3 DEF LeadsOfRecordsExist, StruckRow
  <2>7. QED
    BY <2>4, <2>5, <2>6 DEF LeadsOfRecordsExist, LeadExists
<1>12. QED
  BY <1>1, <1>8, <1>9, <1>10, <1>11, CrmStands DEF RecordsHold

LEMMA CreateClientKeeps ==
    ASSUME CrmInv, NEW c \in Clients, NEW l \in LeadOrNone, CreateClient(c, l)
    PROVE  CrmInv'
<1>1. Still
  BY ServedIsStill DEF CreateClient, CrmInv
<1>2. CrmTypeOK'
  BY DEF CreateClient, CrmInv, CrmTypeOK, ClientRow
<1>3. \A b \in Clients : b # c => client'[b] = client[b]
  BY DEF CreateClient, CrmInv, CrmTypeOK
<1>4. client'[c].lead = l /\ LeadExists(l)
  BY DEF CreateClient, CrmInv, CrmTypeOK
<1>5. UNCHANGED <<lead, viewing, deal, commission>> /\ load' = load
  BY <1>1 DEF CreateClient, Still
<1>6. RecordsHold'
  BY <1>3, <1>4, <1>5 DEF CrmInv, RecordsHold, OutcomesAreDated, OneCommissionPerWin,
                          LeadsOfRecordsExist, LeadExists
<1>7. CrmRowsKept
  BY <1>5 DEF CrmRowsKept
<1>8. QED
  BY <1>1, <1>2, <1>6, <1>7, CrmStands

LEMMA ScheduleKeeps ==
    ASSUME CrmInv, NEW v \in Viewings,
           \/ \E l \in LeadOrNone : CreateSchedule(v, l)
           \/ \E s \in {"scheduled", "completed", "cancelled"} : UpdateSchedule(v, s)
    PROVE  CrmInv'
<1>1. Still
  BY ServedIsStill DEF CreateSchedule, UpdateSchedule, CrmInv
<1>2. \A u \in Viewings : u # v => viewing'[u] = viewing[u]
  BY DEF CreateSchedule, UpdateSchedule, CrmInv, CrmTypeOK
<1>3. /\ viewing' \in [Viewings -> ViewingRow \cup {Gone}]
      /\ viewing'[v].lead = None \/ lead[viewing'[v].lead] # None
  <2>1. ASSUME NEW l \in LeadOrNone, CreateSchedule(v, l)
        PROVE  /\ viewing' \in [Viewings -> ViewingRow \cup {Gone}]
               /\ viewing'[v].lead = None \/ lead[viewing'[v].lead] # None
    BY <2>1 DEF CreateSchedule, CrmInv, CrmTypeOK, ViewingRow, LeadExists
  <2>2. ASSUME NEW s \in {"scheduled", "completed", "cancelled"}, UpdateSchedule(v, s)
        PROVE  /\ viewing' \in [Viewings -> ViewingRow \cup {Gone}]
               /\ viewing'[v].lead = None \/ lead[viewing'[v].lead] # None
    <3>1. viewing[v] \in ViewingRow /\ viewing[v].row
      BY <2>2, CrmRowShapes DEF UpdateSchedule, CrmInv, CrmTypeOK
    <3>2. [viewing[v] EXCEPT !.status = s] \in ViewingRow
      BY <3>1 DEF ViewingRow
    <3>3. [viewing[v] EXCEPT !.status = s].lead = viewing[v].lead
      BY <3>1 DEF ViewingRow
    <3>4. viewing' = [viewing EXCEPT ![v] = [viewing[v] EXCEPT !.status = s]]
      BY <2>2 DEF UpdateSchedule
    <3>5. viewing' \in [Viewings -> ViewingRow \cup {Gone}]
          /\ viewing'[v].lead = viewing[v].lead
      BY <3>2, <3>3, <3>4 DEF CrmInv, CrmTypeOK
    <3>6. LeadExists(viewing[v].lead)
      BY <3>1 DEF CrmInv, RecordsHold, LeadsOfRecordsExist
    <3>7. QED
      BY <3>5, <3>6 DEF LeadExists
  <2>3. QED
    BY <2>1, <2>2
<1>4. UNCHANGED <<lead, client, deal, commission>> /\ load' = load
  BY <1>1 DEF CreateSchedule, UpdateSchedule, Still
<1>5. CrmTypeOK' /\ CrmRowsKept
  BY <1>3, <1>4 DEF CrmInv, CrmTypeOK, CrmRowsKept
<1>6. RecordsHold'
  BY <1>2, <1>3, <1>4 DEF CrmInv, RecordsHold, OutcomesAreDated, OneCommissionPerWin,
                          LeadsOfRecordsExist, LeadExists
<1>7. QED
  BY <1>1, <1>5, <1>6, CrmStands

LEMMA CreateDealKeeps ==
    ASSUME CrmInv, NEW d \in Deals, NEW l \in LeadOrNone, NEW f \in Fees, CreateDeal(d, l, f)
    PROVE  CrmInv'
<1>1. Still
  BY ServedIsStill DEF CreateDeal, CrmInv
<1>2. /\ deal' = [deal EXCEPT ![d] = [row |-> TRUE, status |-> "open", fee |-> f, lead |-> l,
                                      closed |-> FALSE]]
      /\ deal[d] = Gone
      /\ deal \in [Deals -> DealRow \cup {Gone}]
  BY CrmRowShapes DEF CreateDeal, CrmInv, CrmTypeOK
<1>3. CrmTypeOK'
  <2>1. [row |-> TRUE, status |-> "open", fee |-> f, lead |-> l, closed |-> FALSE] \in DealRow
    BY DEF DealRow, DealStatuses
  <2>2. deal' \in [Deals -> DealRow \cup {Gone}]
    BY <1>2, <2>1
  <2>3. QED
    BY <2>2 DEF CreateDeal, CrmInv, CrmTypeOK
<1>4. \A b \in Deals : b # d => deal'[b] = deal[b]
  BY <1>2
<1>5. deal'[d].lead = l /\ LeadExists(l) /\ deal'[d].status = "open"
  BY <1>2 DEF CreateDeal
<1>6. UNCHANGED <<lead, viewing, client, commission>> /\ load' = load
  BY <1>1 DEF CreateDeal, Still
<1>7. RecordsHold'
  BY <1>4, <1>5, <1>6 DEF CrmInv, RecordsHold, OutcomesAreDated, OneCommissionPerWin,
                          LeadsOfRecordsExist, LeadExists
<1>8. CrmRowsKept
  BY <1>2, <1>4, <1>6 DEF CrmRowsKept
<1>9. QED
  BY <1>1, <1>3, <1>7, <1>8, CrmStands

LEMMA CreateCommissionKeeps ==
    ASSUME CrmInv, NEW c \in Commissions, NEW d \in Deals \cup {None}, NEW f \in Fees,
           NEW s \in CommissionStatuses, CreateCommission(c, d, f, s)
    PROVE  CrmInv'
<1> DEFINE new == [row |-> TRUE, deal |-> d, amount |-> f, status |-> s,
                   paid |-> (s = "paid"), won |-> FALSE]
<1>1. Still
  BY ServedIsStill DEF CreateCommission, CrmInv
<1>2. /\ commission' = [commission EXCEPT ![c] = new]
      /\ commission[c] = Gone
      /\ commission \in [Commissions -> CommissionRow \cup {Gone}]
      /\ new \in CommissionRow
  BY CrmRowShapes DEF CreateCommission, CrmInv, CrmTypeOK, CommissionRow
<1>3. UNCHANGED <<lead, viewing, client, deal>> /\ load' = load
  BY <1>1 DEF CreateCommission, Still
<1>4. CrmTypeOK'
  BY <1>2, <1>3 DEF CrmInv, CrmTypeOK
<1>5. \A b \in Commissions : b # c => commission'[b] = commission[b]
  BY <1>2
<1>6. commission'[c].won = FALSE /\ (commission'[c].status = "paid" => commission'[c].paid)
  BY <1>2
<1>7. OutcomesAreDated' /\ LeadsOfRecordsExist'
  BY <1>3, <1>5, <1>6 DEF CrmInv, RecordsHold, OutcomesAreDated, LeadsOfRecordsExist,
                          LeadExists
<1>8. OneCommissionPerWin'
  BY <1>3, <1>5, <1>6 DEF CrmInv, RecordsHold, OneCommissionPerWin
<1>9. CrmRowsKept
  BY <1>2, <1>3, <1>5 DEF CrmRowsKept
<1>10. QED
  BY <1>1, <1>4, <1>7, <1>8, <1>9, CrmStands DEF RecordsHold

\* Where requests overlap nothing, a session that reads knows all there is.
LEMMA ReadDealKeeps ==
    ASSUME CrmInv, NEW w \in Workers, NEW d \in Deals, NEW s \in DealStatuses, NEW f \in Fees,
           ReadDeal(w, d, s, f)
    PROVE  CrmInv'
<1> DEFINE j == [deal |-> d, seen |-> deal[d],
                 set |-> [status |-> s, fee |-> f, closed |-> deal[d].closed \/ Closes(s)],
                 accrue |-> s = "won" /\ deal[d].fee > 0 /\ ~Commissioned(d)]
<1>1. Moved(w) /\ pc'[w] = "save_deal" /\ job'[w] = j
  BY GotoMoves DEF ReadDeal, Ready, Served, CrmInv, Busy
<1>2. UNCHANGED crmVars /\ load' = load
  BY <1>1 DEF ReadDeal, Moved
<1>3. deal[d] \in DealRow /\ deal[d] # Gone /\ deal[d].row
  BY CrmRowShapes DEF ReadDeal, CrmInv, CrmTypeOK
<1>4. CrmTypeOK' /\ CrmRowsKept /\ RecordsHold'
  BY <1>2 DEF crmVars, CrmInv, CrmTypeOK, CrmRowsKept, RecordsHold, OutcomesAreDated,
              OneCommissionPerWin, LeadsOfRecordsExist, LeadExists
<1>5. CrmSession(w)'
  <2>1. j.set \in DealSet
    <3>1. deal[d].closed \in BOOLEAN
      BY <1>3 DEF DealRow
    <3>2. QED
      BY <3>1 DEF DealSet, Closes
  <2>2. deal[d].status # "open" => deal[d].closed
    BY <1>3 DEF CrmInv, RecordsHold, OutcomesAreDated
  <2>3. deal' = deal
    BY <1>2 DEF crmVars
  <2>4. j.deal = d /\ j.seen = deal[d] /\ j.set.status = s
        /\ (j.set.closed <=> deal[d].closed \/ Closes(s))
    OBVIOUS
  <2>5. QED
    BY <1>1, <1>3, <2>1, <2>2, <2>3, <2>4 DEF CrmSession
<1>6. Accruing(w)'
  <2>1. j.deal = d /\ (j.accrue => ~Commissioned(d))
    OBVIOUS
  <2>2. commission' = commission
    BY <1>2 DEF crmVars
  <2>3. QED
    BY <1>1, <2>1, <2>2 DEF Accruing, Commissioned
<1>7. QED
  BY <1>1, <1>4, <1>5, <1>6, CrmMoves

LEMMA ReadCommissionKeeps ==
    ASSUME CrmInv, NEW w \in Workers, NEW c \in Commissions, NEW s \in CommissionStatuses,
           ReadCommission(w, c, s)
    PROVE  CrmInv'
<1> DEFINE j == [commission |-> c, seen |-> commission[c],
                 set |-> [status |-> s, paid |-> commission[c].paid \/ s = "paid"]]
<1>1. Moved(w) /\ pc'[w] = "save_commission" /\ job'[w] = j
  BY GotoMoves DEF ReadCommission, Ready, Served, CrmInv, Busy
<1>2. UNCHANGED crmVars /\ load' = load
  BY <1>1 DEF ReadCommission, Moved
<1>3. commission[c] \in CommissionRow /\ commission[c] # Gone /\ commission[c].row
  BY CrmRowShapes DEF ReadCommission, CrmInv, CrmTypeOK
<1>4. CrmTypeOK' /\ CrmRowsKept /\ RecordsHold'
  BY <1>2 DEF crmVars, CrmInv, CrmTypeOK, CrmRowsKept, RecordsHold, OutcomesAreDated,
              OneCommissionPerWin, LeadsOfRecordsExist, LeadExists
<1>5. CrmSession(w)'
  <2>1. j.set \in CommissionSet
    <3>1. commission[c].paid \in BOOLEAN
      BY <1>3 DEF CommissionRow
    <3>2. QED
      BY <3>1 DEF CommissionSet
  <2>2. commission[c].status = "paid" => commission[c].paid
    BY <1>3 DEF CrmInv, RecordsHold, OutcomesAreDated
  <2>3. commission' = commission
    BY <1>2 DEF crmVars
  <2>4. j.commission = c /\ j.seen = commission[c] /\ j.set.status = s
        /\ (j.set.paid <=> commission[c].paid \/ s = "paid")
    OBVIOUS
  <2>5. QED
    BY <1>1, <1>3, <2>1, <2>2, <2>3, <2>4 DEF CrmSession
<1>6. Accruing(w)'
  BY <1>1 DEF Accruing
<1>7. QED
  BY <1>1, <1>4, <1>5, <1>6, CrmMoves

\* A session whose request ends holds nothing.
LEMMA CrmIdle ==
    ASSUME NEW w \in Workers, pc'[w] = "idle"
    PROVE  CrmSession(w)' /\ Accruing(w)'
BY DEF CrmSession, Accruing

\* A deal is written: the outcome and its date go together, whatever the row
\* has become since it was read.
LEMMA DealWritten ==
    ASSUME CrmInv, NEW w \in Workers, pc[w] = "save_deal"
    PROVE  LET j == job[w]
               r == deal[j.deal]
               n == Written(r, j.seen, j.set)
           IN /\ j.deal \in Deals /\ r \in DealRow /\ n \in DealRow
              /\ n.lead = r.lead
              /\ r.closed => n.closed
              /\ n.status # "open" => n.closed
<1> DEFINE j == job[w]
           r == deal[j.deal]
           n == Written(r, j.seen, j.set)
           st == IF j.set.status # j.seen.status THEN j.set.status ELSE r.status
           fe == IF j.set.fee # j.seen.fee THEN j.set.fee ELSE r.fee
           cl == IF j.set.closed # j.seen.closed THEN j.set.closed ELSE r.closed
<1>1. /\ j.deal \in Deals /\ r # Gone
      /\ j.seen \in DealRow /\ j.set \in DealSet
      /\ j.seen.status # "open" => j.seen.closed
      /\ j.seen.closed => r.closed
      /\ j.set.closed <=> j.seen.closed \/ Closes(j.set.status)
  BY DEF CrmInv, CrmSession
<1>2. r \in DealRow /\ r.row
  BY <1>1, CrmRowShapes DEF CrmInv, CrmTypeOK
<1>3. r.status # "open" => r.closed
  BY <1>1, <1>2 DEF CrmInv, RecordsHold, OutcomesAreDated
<1>4. DOMAIN r = {"row", "status", "fee", "lead", "closed"}
      /\ DOMAIN j.set = {"status", "fee", "closed"}
  BY <1>1, <1>2 DEF DealRow, DealSet
<1>5. n = [row |-> r.row, status |-> st, fee |-> fe, lead |-> r.lead, closed |-> cl]
  BY <1>4 DEF Written
<1>6. /\ j.set.status \in DealStatuses /\ j.set.fee \in Fees /\ j.set.closed \in BOOLEAN
      /\ j.seen.closed \in BOOLEAN
  BY <1>1 DEF DealSet, DealRow
<1>7. /\ r.row = TRUE /\ r.status \in DealStatuses /\ r.fee \in Fees /\ r.lead \in LeadOrNone
      /\ r.closed \in BOOLEAN
  BY <1>2 DEF DealRow
<1>8. n \in DealRow /\ n.lead = r.lead
  <2>1. st \in DealStatuses /\ fe \in Fees /\ cl \in BOOLEAN
    BY <1>6, <1>7
  <2> HIDE DEF j, r, n, st, fe, cl
  <2>2. n = [row |-> TRUE, status |-> st, fee |-> fe, lead |-> r.lead, closed |-> cl]
    BY <1>5, <1>7
  <2>3. QED
    BY <1>7, <2>1, <2>2 DEF DealRow
<1>9. r.closed => n.closed
  BY <1>1, <1>5, <1>6, <1>7
<1>10. n.status # "open" => n.closed
  BY <1>1, <1>3, <1>5, <1>6, <1>7 DEF Closes, DealStatuses
<1>11. QED
  BY <1>1, <1>2, <1>8, <1>9, <1>10

LEMMA CommissionWritten ==
    ASSUME CrmInv, NEW w \in Workers, pc[w] = "save_commission"
    PROVE  LET j == job[w]
               r == commission[j.commission]
               n == Written(r, j.seen, j.set)
           IN /\ j.commission \in Commissions /\ r \in CommissionRow /\ n \in CommissionRow
              /\ n.deal = r.deal /\ n.won = r.won
              /\ r.paid => n.paid
              /\ n.status = "paid" => n.paid
<1> DEFINE j == job[w]
           r == commission[j.commission]
           n == Written(r, j.seen, j.set)
           st == IF j.set.status # j.seen.status THEN j.set.status ELSE r.status
           pd == IF j.set.paid # j.seen.paid THEN j.set.paid ELSE r.paid
<1>1. /\ j.commission \in Commissions /\ r # Gone
      /\ j.seen \in CommissionRow /\ j.set \in CommissionSet
      /\ j.seen.status = "paid" => j.seen.paid
      /\ j.seen.paid => r.paid
      /\ j.set.paid <=> j.seen.paid \/ j.set.status = "paid"
  BY DEF CrmInv, CrmSession
<1>2. r \in CommissionRow /\ r.row
  BY <1>1, CrmRowShapes DEF CrmInv, CrmTypeOK
<1>3. r.status = "paid" => r.paid
  BY <1>1, <1>2 DEF CrmInv, RecordsHold, OutcomesAreDated
<1>4. DOMAIN r = {"row", "deal", "amount", "status", "paid", "won"}
      /\ DOMAIN j.set = {"status", "paid"}
  BY <1>1, <1>2 DEF CommissionRow, CommissionSet
<1>5. n = [row |-> r.row, deal |-> r.deal, amount |-> r.amount, status |-> st,
           paid |-> pd, won |-> r.won]
  BY <1>4 DEF Written
<1>6. j.set.status \in CommissionStatuses /\ j.set.paid \in BOOLEAN /\ j.seen.paid \in BOOLEAN
  BY <1>1 DEF CommissionSet, CommissionRow
<1>7. /\ r.row = TRUE /\ r.deal \in Deals \cup {None} /\ r.amount \in Fees
      /\ r.status \in CommissionStatuses /\ r.paid \in BOOLEAN /\ r.won \in BOOLEAN
  BY <1>2 DEF CommissionRow
<1>8. n \in CommissionRow /\ n.deal = r.deal /\ n.won = r.won
  <2>1. st \in CommissionStatuses /\ pd \in BOOLEAN
    BY <1>6, <1>7
  <2> HIDE DEF j, r, n, st, pd
  <2>2. n = [row |-> TRUE, deal |-> r.deal, amount |-> r.amount, status |-> st,
             paid |-> pd, won |-> r.won]
    BY <1>5, <1>7
  <2>3. QED
    BY <1>7, <2>1, <2>2 DEF CommissionRow
<1>9. r.paid => n.paid
  BY <1>1, <1>5, <1>6, <1>7
<1>10. n.status = "paid" => n.paid
  BY <1>1, <1>3, <1>5, <1>6, <1>7
<1>11. QED
  BY <1>1, <1>2, <1>8, <1>9, <1>10

LEMMA SaveDealKeeps ==
    ASSUME CrmInv, NEW w \in Workers, SaveDeal(w)
    PROVE  CrmInv'
<1> DEFINE j == job[w]
           n == Written(deal[j.deal], j.seen, j.set)
<1>1. /\ j.deal \in Deals /\ deal[j.deal] \in DealRow /\ n \in DealRow
      /\ n.lead = deal[j.deal].lead
      /\ deal[j.deal].closed => n.closed
      /\ n.status # "open" => n.closed
  BY DealWritten DEF SaveDeal
<1>2. deal' = [deal EXCEPT ![j.deal] = n]
  BY DEF SaveDeal
<1> HIDE DEF n
<1>3. Moved(w) /\ pc'[w] = "idle" /\ UNCHANGED <<lead, client, viewing>> /\ load' = load
  BY RespondMoves DEF SaveDeal, CrmInv, Busy, Moved
<1>4. /\ deal' \in [Deals -> DealRow \cup {Gone}]
      /\ deal'[j.deal] = n
      /\ \A d \in Deals : d # j.deal => deal'[d] = deal[d]
  BY <1>1, <1>2 DEF CrmInv, CrmTypeOK
<1>5. n # Gone /\ deal[j.deal].row
  BY <1>1, CrmRowShapes
<1>6. /\ commission' \in [Commissions -> CommissionRow \cup {Gone}]
      /\ \A c \in Commissions : commission[c] # Gone => commission'[c] = commission[c]
      /\ \A c \in Commissions : commission'[c] # commission[c] =>
            /\ commission'[c].status = "accrued" /\ commission'[c].deal = j.deal
            /\ Accruing(w) /\ ~load.overlap => ~Commissioned(j.deal)
      /\ \A b, c \in Commissions :
            commission'[b] # commission[b] /\ commission'[c] # commission[c] => b = c
  <2>1. CASE j.accrue
    <3> DEFINE new == [row |-> TRUE, deal |-> j.deal, amount |-> j.seen.fee,
                       status |-> "accrued", paid |-> FALSE, won |-> TRUE]
    <3>1. PICK c \in Commissions : ~commission[c].row /\ commission' = [commission EXCEPT ![c] = new]
      BY <2>1 DEF SaveDeal, Accrued
    <3>2. j.seen.fee \in Fees
      <4>1. j.seen \in DealRow
        BY DEF SaveDeal, CrmInv, CrmSession
      <4>2. QED
        BY <4>1 DEF DealRow
    <3>3. new \in CommissionRow
      BY <1>1, <3>2 DEF CommissionRow, CommissionStatuses
    <3>4. commission \in [Commissions -> CommissionRow \cup {Gone}] /\ commission[c] = Gone
      BY <3>1, CrmRowShapes DEF CrmInv, CrmTypeOK
    <3>5. Accruing(w) /\ ~load.overlap => ~Commissioned(j.deal)
      BY <2>1 DEF Accruing, SaveDeal
    <3>6. new.status = "accrued" /\ new.deal = j.deal
      OBVIOUS
    <3> HIDE DEF new
    <3>7. QED
      BY <3>1, <3>3, <3>4, <3>5, <3>6
  <2>2. CASE ~j.accrue
    BY <2>2 DEF SaveDeal, CrmInv, CrmTypeOK
  <2>3. QED
    BY <2>1, <2>2
<1>7. CrmTypeOK' /\ CrmRowsKept
  BY <1>1, <1>3, <1>4, <1>5, <1>6 DEF CrmInv, CrmTypeOK, CrmRowsKept
<1>8. OutcomesAreDated'
  BY <1>1, <1>4, <1>6 DEF CrmInv, RecordsHold, OutcomesAreDated
<1>9. OneCommissionPerWin'
  <2>1. Accruing(w) /\ OneCommissionPerWin
    BY DEF CrmInv, RecordsHold
  <2>2. SUFFICES ASSUME ~load.overlap, NEW c \in Commissions, NEW b \in Commissions,
                        commission'[c].row, commission'[b].row,
                        commission'[c].won, commission'[b].won,
                        commission'[c].deal = commission'[b].deal
                 PROVE  c = b
    BY <1>3 DEF OneCommissionPerWin
  <2>3. CASE commission'[c] = commission[c] /\ commission'[b] = commission[b]
    BY <2>1, <2>2, <2>3 DEF OneCommissionPerWin
  <2>4. CASE commission'[c] # commission[c] /\ commission'[b] = commission[b]
    BY <1>6, <2>1, <2>2, <2>4 DEF Commissioned
  <2>5. CASE commission'[b] # commission[b] /\ commission'[c] = commission[c]
    BY <1>6, <2>1, <2>2, <2>5 DEF Commissioned
  <2>6. QED
    BY <1>6, <2>3, <2>4, <2>5
<1>10. LeadsOfRecordsExist'
  BY <1>1, <1>3, <1>4, <1>5 DEF CrmInv, RecordsHold, LeadsOfRecordsExist, LeadExists
<1>11. QED
  BY <1>3, <1>7, <1>8, <1>9, <1>10, CrmIdle, CrmMoves DEF RecordsHold

LEMMA SaveCommissionKeeps ==
    ASSUME CrmInv, NEW w \in Workers, SaveCommission(w)
    PROVE  CrmInv'
<1> DEFINE j == job[w]
           k == j.commission
           n == Written(commission[k], j.seen, j.set)
<1>1. /\ k \in Commissions /\ commission[k] \in CommissionRow /\ n \in CommissionRow
      /\ n.deal = commission[k].deal /\ n.won = commission[k].won
      /\ commission[k].paid => n.paid
      /\ n.status = "paid" => n.paid
  BY CommissionWritten DEF SaveCommission
<1>2. commission' = [commission EXCEPT ![k] = n]
  BY DEF SaveCommission
<1> HIDE DEF n
<1>3. /\ Moved(w) /\ pc'[w] = "idle" /\ load' = load
      /\ UNCHANGED <<lead, client, viewing, deal>>
  BY RespondMoves DEF SaveCommission, CrmInv, Busy, Moved
<1>4. /\ commission' \in [Commissions -> CommissionRow \cup {Gone}]
      /\ commission'[k] = n
      /\ \A c \in Commissions : c # k => commission'[c] = commission[c]
  BY <1>1, <1>2 DEF CrmInv, CrmTypeOK
<1>5. n # Gone /\ commission[k].row
  BY <1>1, CrmRowShapes
<1>6. CrmTypeOK' /\ CrmRowsKept
  BY <1>1, <1>3, <1>4, <1>5 DEF CrmInv, CrmTypeOK, CrmRowsKept
<1>7. OutcomesAreDated' /\ LeadsOfRecordsExist'
  BY <1>1, <1>3, <1>4 DEF CrmInv, RecordsHold, OutcomesAreDated, LeadsOfRecordsExist,
                          LeadExists
<1>8. OneCommissionPerWin'
  <2>1. \A c \in Commissions : commission'[c].row =>
           /\ commission[c].row
           /\ commission'[c].deal = commission[c].deal /\ commission'[c].won = commission[c].won
    BY <1>1, <1>4, <1>5
  <2>2. OneCommissionPerWin
    BY DEF CrmInv, RecordsHold
  <2>3. QED
    BY <1>3, <2>1, <2>2 DEF OneCommissionPerWin
<1>9. QED
  BY <1>3, <1>6, <1>7, <1>8, CrmIdle, CrmMoves DEF RecordsHold

LEMMA CrmDieKeeps ==
    ASSUME CrmInv, NEW w \in Workers, Die(w), UNCHANGED crmVars
    PROVE  CrmInv'
<1>1. Moved(w) /\ pc'[w] = "idle" /\ load' = load
  BY RespondMoves DEF Die, CrmInv, Moved
<1>2. CrmTypeOK' /\ CrmRowsKept /\ RecordsHold'
  BY <1>1 DEF crmVars, CrmInv, CrmTypeOK, CrmRowsKept, RecordsHold, OutcomesAreDated,
              OneCommissionPerWin, LeadsOfRecordsExist, LeadExists
<1>3. QED
  BY <1>1, <1>2, CrmIdle, CrmMoves

LEMMA CrmNextKeeps ==
    ASSUME CrmInv, CrmNext
    PROVE  CrmInv'
BY CreateLeadKeeps, DeleteLeadKeeps, CreateClientKeeps, ScheduleKeeps, CreateDealKeeps,
   ReadDealKeeps, ReadCommissionKeeps, SaveDealKeeps, SaveCommissionKeeps, CrmDieKeeps,
   CreateCommissionKeeps
   DEF CrmNext

LEMMA CrmSame ==
    ASSUME CrmInv, UNCHANGED <<requests, crmVars>>
    PROVE  CrmInv'
<1>1. UNCHANGED <<load, pc, job, lead, client, viewing, deal, commission>>
  BY DEF requests, crmVars
<1>2. Frame' /\ Alone' /\ CrmTypeOK' /\ RecordsHold'
  BY <1>1 DEF CrmInv, Frame, Alone, Busy, CrmTypeOK, RecordsHold, OutcomesAreDated,
              OneCommissionPerWin, LeadsOfRecordsExist, LeadExists
<1>3. ASSUME NEW w \in Workers PROVE CrmSession(w)' /\ Accruing(w)'
  BY <1>1 DEF CrmInv, CrmSession, Accruing, Commissioned
<1>4. QED
  BY <1>2, <1>3 DEF CrmInv

LEMMA CrmInitially ==
    ASSUME CrmInit
    PROVE  CrmTypeOK /\ RecordsHold
<1>1. CrmTypeOK
  BY DEF CrmInit, CrmTypeOK
<1>2. RecordsHold
  BY CrmRowShapes DEF CrmInit, RecordsHold, OutcomesAreDated, OneCommissionPerWin,
                      LeadsOfRecordsExist
<1>3. QED
  BY <1>1, <1>2

LEMMA CrmStarts ==
    ASSUME RequestsInit, CrmInit
    PROVE  CrmPart
<1>1. /\ Frame /\ \A w \in Workers : pc[w] = "idle"
  BY DEF RequestsInit, Frame
<1>2. Alone /\ \A w \in Workers : CrmSession(w) /\ Accruing(w)
  BY <1>1 DEF Alone, Busy, CrmSession, Accruing
<1>3. QED
  BY <1>1, <1>2, CrmInitially DEF CrmPart, CrmInv

LEMMA CrmStep ==
    ASSUME CrmPart, [Next]_vars
    PROVE  CrmPart'
<1>1. CASE Next /\ load.part = "crm"
  <2>1. CrmNext /\ load' = load
    BY <1>1 DEF Next
  <2>2. QED
    BY <1>1, <2>1, CrmNextKeeps DEF CrmPart
<1>2. CASE Next /\ load.part # "crm"
  <2>1. UNCHANGED crmVars /\ load' = load
    BY <1>2 DEF Next, Except
  <2>2. QED
    BY <1>2, <2>1 DEF CrmPart, CrmInit, crmVars
<1>3. CASE UNCHANGED vars
  <2>1. UNCHANGED <<requests, crmVars>> /\ load' = load
    BY <1>3 DEF vars, requests
  <2>2. QED
    BY <2>1, CrmSame DEF CrmPart, CrmInit, crmVars
<1>4. QED
  BY <1>1, <1>2, <1>3

LEMMA CrmInvariant == Spec => []CrmPart
<1>1. Init => CrmPart
  BY CrmStarts DEF Init
<1>2. QED
  BY <1>1, CrmStep, PTL DEF Spec

\* A commission accrues for a deal that has none.
LEMMA AccruesAlone ==
    ASSUME CrmInv, CrmNext, ~load.overlap, NEW c \in Commissions,
           ~commission[c].row, commission'[c].row, commission'[c].won
    PROVE  ~Commissioned(commission'[c].deal)
<1>1. commission \in [Commissions -> CommissionRow \cup {Gone}]
  BY DEF CrmInv, CrmTypeOK
<1>2. commission' # commission
  OBVIOUS
<1>3. ASSUME NEW w \in Workers, SaveDeal(w)
      PROVE  ~Commissioned(commission'[c].deal)
  <2> DEFINE j == job[w]
             new == [row |-> TRUE, deal |-> j.deal, amount |-> j.seen.fee,
                     status |-> "accrued", paid |-> FALSE, won |-> TRUE]
  <2>1. j.accrue
    BY <1>2, <1>3 DEF SaveDeal
  <2>2. PICK b \in Commissions : ~commission[b].row /\ commission' = [commission EXCEPT ![b] = new]
    BY <1>3, <2>1 DEF SaveDeal, Accrued
  <2>3. b = c /\ commission'[c].deal = j.deal
    BY <1>1, <2>2
  <2>4. ~Commissioned(j.deal)
    BY <1>3, <2>1 DEF CrmInv, Accruing, SaveDeal
  <2>5. QED
    BY <2>3, <2>4 DEF Commissioned
<1>4. ASSUME NEW w \in Workers, SaveCommission(w)
      PROVE  FALSE
  <2>1. job[w].commission \in Commissions /\ commission[job[w].commission].row
    BY <1>4, CrmRowShapes, <1>1 DEF SaveCommission, CrmInv, CrmSession
  <2>2. commission' = [commission EXCEPT ![job[w].commission] =
                         Written(@, job[w].seen, job[w].set)]
    BY <1>4 DEF SaveCommission
  <2>3. c # job[w].commission
    BY <2>1
  <2>4. QED
    BY <1>1, <2>1, <2>2, <2>3
<1>5. ASSUME NEW b \in Commissions, NEW d \in Deals \cup {None}, NEW f \in Fees \ {0},
             NEW s \in CommissionStatuses, CreateCommission(b, d, f, s)
      PROVE  FALSE
  <2> DEFINE new == [row |-> TRUE, deal |-> d, amount |-> f, status |-> s,
                     paid |-> s = "paid", won |-> FALSE]
  <2>1. commission' = [commission EXCEPT ![b] = new] /\ new.won = FALSE
    BY <1>5 DEF CreateCommission
  <2>2. QED
    BY <1>1, <2>1
<1>6. QED
  BY <1>2, <1>3, <1>4, <1>5
     DEF CrmNext, CreateLead, UpdateLead, DeleteLead, CreateClient, CreateSchedule, CreateDeal,
         ReadDeal, ReadCommission, UpdateSchedule, crmVars

\* The outcomes of the agent's deals are dated, whatever updates overlap and
\* die, and nothing names a lead that is gone; one request at a time, a deal
\* accrues a commission only while it has none, so a win is paid once
\* (update_deal, update_commission, delete_lead).
THEOREM AgentsRecordsAlwaysHold == Spec => AgentsRecordsHold
<1>1. CrmPart => RecordsHold
  BY CrmInitially DEF CrmPart, CrmInv
<1>2. CrmPart /\ [Next]_vars =>
          [~load.overlap =>
             \A c \in Commissions :
                 ~commission[c].row /\ commission'[c].row /\ commission'[c].won =>
                     \A b \in Commissions :
                         commission[b].row => commission[b].deal # commission'[c].deal]_crmVars
  <2> SUFFICES ASSUME CrmPart, [Next]_vars, ~load.overlap, crmVars' # crmVars,
                      NEW c \in Commissions,
                      ~commission[c].row, commission'[c].row, commission'[c].won
               PROVE  ~Commissioned(commission'[c].deal)
    BY DEF Commissioned
  <2>1. Next /\ load.part = "crm"
    BY DEF Next, Except, vars
  <2>2. CrmInv /\ CrmNext
    BY <2>1 DEF CrmPart, Next
  <2>3. QED
    BY <2>2, AccruesAlone
<1>3. QED
  BY <1>1, <1>2, CrmInvariant, PTL DEF Spec, AgentsRecordsHold, AccruesOnlyFirst

-----------------------------------------------------------------------------
(* Listings.                                                               *)

LEMMA ListingRowShapes ==
    /\ \A r \in ListingRow : r.row = TRUE /\ r.token \in Draw /\ r # NoListing /\ r # DeletedListing
    /\ ~NoListing.row /\ ~DeletedListing.row /\ NoListing # DeletedListing
    /\ \A r \in ListingRow \cup {NoListing, DeletedListing} : r.row => r \in ListingRow
<1>1. DOMAIN NoListing = {"row", "was"} /\ NoListing.row = FALSE /\ NoListing.was = FALSE
  BY DEF NoListing
<1>2. DOMAIN DeletedListing = {"row", "was"} /\ DeletedListing.row = FALSE
      /\ DeletedListing.was = TRUE
  BY DEF DeletedListing
<1>3. \A r \in ListingRow : r.row = TRUE /\ r.token \in Draw
  BY DEF ListingRow
<1>4. QED
  BY <1>1, <1>2, <1>3

LEMMA ListMoves ==
    ASSUME ListInv, NEW w \in Workers, Moved(w), OneRowIsWritten(w), ListSession(w)', RulesAnew(w)
    PROVE  ListInv'
<1>1. /\ drawn \in Nat /\ drawn' \in Nat /\ drawn <= drawn'
      /\ \A e \in Estates : Listed(e) => listing[e].token \in Nat /\ listing[e] \in ListingRow
      /\ \A e \in Estates : listing'[e].row => listing'[e].token \in Nat
  <2>1. \A e \in Estates : listing[e] \in ListingRow \cup {NoListing, DeletedListing}
    BY DEF ListInv, ListingsTypeOK
  <2>2. \A e \in Estates : listing'[e] \in ListingRow \cup {NoListing, DeletedListing}
    BY DEF ListInv, ListingsTypeOK, OneRowIsWritten
  <2>3. Draw \subseteq Nat
    BY DrawnAssumption DEF Draw
  <2>4. drawn \in Draw /\ drawn' \in Draw /\ drawn <= drawn'
    BY DEF ListInv, ListingsTypeOK, OneRowIsWritten
  <2>5. QED
    BY <2>1, <2>2, <2>3, <2>4, ListingRowShapes DEF Listed
<1>2. ListingsTypeOK'
  BY DEF ListInv, ListingsTypeOK, OneRowIsWritten
<1>3. /\ \A e \in Estates : listing'[e] = listing[e] \/ WrittenRow(w, e)
      /\ \A e, f \in Estates : listing'[e] # listing[e] /\ listing'[f] # listing[f] => e = f
      /\ \A e \in Estates : listing[e] # NoListing => listing'[e] # NoListing
      /\ \A e \in Estates : listing[e] = DeletedListing => listing'[e] = DeletedListing
  <2>1. CASE UNCHANGED listing
    BY <2>1
  <2>2. ASSUME NEW e \in Estates, NEW r \in ListingRow \cup {DeletedListing},
               listing' = [listing EXCEPT ![e] = r], WrittenRow(w, e),
               listing[e] = DeletedListing => r = DeletedListing
        PROVE  <1>3
    <3>1. r # NoListing
      BY ListingRowShapes
    <3>2. \A f \in Estates : listing'[f] = IF f = e THEN r ELSE listing[f]
      BY <2>2 DEF ListInv, ListingsTypeOK
    <3>3. QED
      BY <2>2, <3>1, <3>2
  <2>3. QED
    BY <2>1, <2>2 DEF OneRowIsWritten
<1>4. RowsHaveLinks'
  <2>1. ASSUME NEW e \in Estates, listing'[e].row
        PROVE  listing'[e].token <= drawn' /\ (listing'[e].identity # NoIdentity => listing'[e].token # 0)
    BY <1>1, <1>3, <2>1 DEF ListInv, RowsHaveLinks, WrittenRow, Listed
  <2>2. ASSUME NEW e \in Estates, NEW f \in Estates, e # f, listing'[e].row, listing'[f].row,
               listing'[e].token # 0, listing'[f] = listing[f]
        PROVE  listing'[e].token # listing'[f].token
    <3>1. Listed(f) /\ listing[f].token <= drawn
      BY <2>2 DEF ListInv, RowsHaveLinks, Listed
    <3>2. CASE listing'[e] = listing[e]
      BY <2>2, <3>2 DEF ListInv, RowsHaveLinks, Listed
    <3>3. CASE WrittenRow(w, e)
      <4>1. CASE Listed(e) /\ listing'[e].token = listing[e].token
        BY <2>2, <3>1, <4>1 DEF ListInv, RowsHaveLinks
      <4>2. CASE listing'[e].token > drawn
        BY <1>1, <2>2, <3>1, <4>2
      <4>3. CASE Rules(w) /\ listing'[e].token = Ruling(w)
        BY <2>2, <3>1, <4>3 DEF ListInv, RulingsAreNew
      <4>4. QED
        BY <2>2, <3>3, <4>1, <4>2, <4>3 DEF WrittenRow
    <3>4. QED
      BY <1>3, <3>2, <3>3
  <2>3. ASSUME NEW e \in Estates, NEW f \in Estates, e # f, listing'[e].row, listing'[f].row,
               listing'[e].token # 0
        PROVE  listing'[e].token # listing'[f].token
    <3>1. CASE listing'[f] = listing[f]
      BY <2>2, <2>3, <3>1
    <3>2. CASE listing'[e] = listing[e] /\ listing'[f].token # 0
      BY <2>2, <2>3, <3>2
    <3>3. QED
      BY <1>3, <2>3, <3>1, <3>2
  <2>4. QED
    BY <2>1, <2>3 DEF RowsHaveLinks, Listed
<1>5. ASSUME NEW v \in Workers, v # w
      PROVE  /\ pc'[v] = pc[v] /\ job'[v] = job[v]
             /\ ListSession(v)'
             /\ Rules(v)' = Rules(v)
             /\ Rules(v) => /\ Ruling(v) # 0 /\ Ruling(v) <= drawn'
                            /\ \A e \in Estates : listing'[e].row => listing'[e].token # Ruling(v)
  <2>1. pc'[v] = pc[v] /\ job'[v] = job[v]
    BY <1>5 DEF Moved
  <2>2. ListSession(v)'
    <3>1. ListSession(v)
      BY DEF ListInv
    <3>2. \A e \in Estates : listing'[e].row /\ listing[e] # NoListing =>
             Listed(e) /\ (listing[e].token # 0 => listing'[e].token # 0)
      <4>1. ASSUME NEW e \in Estates, listing'[e].row, listing[e] # NoListing
            PROVE  Listed(e) /\ (listing[e].token # 0 => listing'[e].token # 0)
        <5>1. listing[e] # DeletedListing
          BY <1>3, <4>1, ListingRowShapes
        <5>2. Listed(e)
          BY <4>1, <5>1, ListingRowShapes DEF Listed, ListInv, ListingsTypeOK
        <5>3. QED
          BY <1>3, <4>1, <5>2 DEF WrittenRow
      <4>2. QED
        BY <4>1
    <3>3. ASSUME pc[v] \in Working
          PROVE  \A e \in job[v].ids : /\ listing'[e] # NoListing
                                       /\ listing'[e].row /\ job[v].seen.token # 0 =>
                                            listing'[e].token # 0
      <4>1. job[v].ids = {} \/ \E e \in Estates : job[v].ids = {e}
        BY <3>1, <3>3 DEF ListSession
      <4>2. \A e \in job[v].ids : e \in Estates /\ listing[e] # NoListing
                                  /\ (Listed(e) /\ job[v].seen.token # 0 => listing[e].token # 0)
        BY <3>1, <3>3, <4>1 DEF ListSession
      <4>3. QED
        BY <1>3, <3>2, <4>2
    <3>4. QED
      BY <2>1, <3>1, <3>3 DEF ListSession, Listed
  <2>3. Rules(v)' = Rules(v)
    BY <2>1 DEF Rules
  <2>4. ASSUME Rules(v)
        PROVE  /\ Ruling(v) # 0 /\ Ruling(v) <= drawn'
               /\ \A e \in Estates : listing'[e].row => listing'[e].token # Ruling(v)
    <3>1. /\ Ruling(v) # 0 /\ Ruling(v) <= drawn
          /\ \A e \in Estates : Listed(e) => listing[e].token # Ruling(v)
          /\ Rules(w) => Ruling(v) # Ruling(w)
      BY <1>5, <2>4 DEF ListInv, RulingsAreNew
    <3>2. Ruling(v) \in Nat
      <4>1. \A s \in [gov : Decisions, active : BOOLEAN, token : Draw, packet : Packet] :
               Edit(s).set.token \in Draw
        BY DEF Edit
      <4>2. Draw \subseteq Nat
        BY DrawnAssumption DEF Draw
      <4>3. QED
        BY <2>4, <4>1, <4>2 DEF Rules, Ruling, RuledAfters
    <3>3. ASSUME NEW e \in Estates, listing'[e].row PROVE listing'[e].token # Ruling(v)
      <4>1. CASE listing'[e] = listing[e]
        BY <3>1, <3>3, <4>1 DEF Listed
      <4>2. CASE WrittenRow(w, e)
        BY <1>1, <3>1, <3>2, <3>3, <4>2 DEF WrittenRow
      <4>3. QED
        BY <1>3, <4>1, <4>2
    <3>4. QED
      BY <1>1, <3>1, <3>2, <3>3
  <2>5. QED
    BY <2>1, <2>2, <2>3, <2>4
<1>6. RulingsAreNew'
  <2>1. ASSUME Rules(w)'
        PROVE  /\ Ruling(w)' # 0 /\ Ruling(w)' <= drawn'
               /\ \A e \in Estates : listing'[e].row => listing'[e].token # Ruling(w)'
               /\ \A v \in Workers : Rules(v) /\ v # w => Ruling(v) # Ruling(w)'
    <3>1. Ruling(w)' > drawn /\ Ruling(w)' <= drawn' /\ UNCHANGED listing
      BY <2>1 DEF RulesAnew
    <3>2. Ruling(w)' \in Nat
      <4>1. \A s \in [gov : Decisions, active : BOOLEAN, token : Draw, packet : Packet] :
               Edit(s).set.token \in Draw
        BY DEF Edit
      <4>2. Draw \subseteq Nat
        BY DrawnAssumption DEF Draw
      <4>3. QED
        BY <2>1, <4>1, <4>2 DEF Rules, Ruling, RuledAfters
    <3>3. \A e \in Estates : Listed(e) => listing[e].token <= drawn
      BY DEF ListInv, RowsHaveLinks
    <3>4. \A v \in Workers : Rules(v) => Ruling(v) <= drawn
      BY DEF ListInv, RulingsAreNew
    <3>5. QED
      BY <1>1, <3>1, <3>2, <3>3, <3>4 DEF Listed
  <2>2. \A v \in Workers : v # w => Ruling(v)' = Ruling(v)
    BY <1>5 DEF Ruling
  <2>3. ASSUME NEW v \in Workers, Rules(v)'
        PROVE  /\ Ruling(v)' # 0 /\ Ruling(v)' <= drawn'
               /\ \A e \in Estates : listing'[e].row => listing'[e].token # Ruling(v)'
    BY <1>5, <2>1, <2>2, <2>3
  <2>4. ASSUME NEW u \in Workers, NEW v \in Workers, u # v, Rules(u)', Rules(v)'
        PROVE  Ruling(u)' # Ruling(v)'
    <3>1. CASE u # w /\ v # w
      <4>1. Rules(u) /\ Rules(v)
        BY <1>5, <2>4, <3>1
      <4>2. Ruling(u) # Ruling(v)
        BY <2>4, <4>1 DEF ListInv, RulingsAreNew
      <4>3. QED
        BY <2>2, <3>1, <4>2
    <3>2. CASE u = w
      BY <1>5, <2>1, <2>2, <2>4, <3>2
    <3>3. CASE v = w
      BY <1>5, <2>1, <2>2, <2>4, <3>3
    <3>4. QED
      BY <3>1, <3>2, <3>3
  <2>5. QED
    BY <2>3, <2>4 DEF RulingsAreNew, Listed
<1>7. Frame' /\ Alone' /\ \A v \in Workers : ListSession(v)'
  BY <1>5, MovedAlone DEF Moved
<1>8. QED
  BY <1>2, <1>4, <1>6, <1>7 DEF ListInv

LEMMA ListGoes ==
    ASSUME ListInv, NEW w \in Workers, Moved(w), UNCHANGED <<listing, drawn>>, wallet' \subseteq Owners,
           ListSession(w)', ~Rules(w)'
    PROVE  ListInv'
<1>1. drawn' \in Draw /\ drawn <= drawn'
  BY DrawnAssumption DEF ListInv, ListingsTypeOK, Draw
<1>2. OneRowIsWritten(w) /\ RulesAnew(w)
  BY <1>1 DEF OneRowIsWritten, RulesAnew
<1>3. QED
  BY <1>2, ListMoves

\* A session that has answered, or is not about to write, rules nothing.
LEMMA ListIdle ==
    ASSUME NEW w \in Workers, pc'[w] = "idle"
    PROVE  ListSession(w)' /\ ~Rules(w)'
BY DEF ListSession, Rules, Working

LEMMA Afters ==
    /\ Nothing \in PlainAfters /\ Delete \in PlainAfters
    /\ \A l \in Locations : Edit([loc |-> l]) \in PlainAfters
    /\ \A b \in BOOLEAN : Edit([active |-> b]) \in PlainAfters
    /\ \A t \in PlainAfters : t \notin RuledAfters
    /\ \A t \in PlainAfters : \/ t = Nothing \/ t = Delete
                              \/ \E l \in Locations : t = Edit([loc |-> l])
                              \/ \E b \in BOOLEAN : t = Edit([active |-> b])
    /\ \A t \in RuledAfters : t.do = "edit" /\ t.set \in
          [gov : Decisions, active : BOOLEAN, token : Draw, packet : Packet]
<1> DEFINE E(s) == Edit(s)
<1>1. \A s \in [loc : Locations] : DOMAIN s = {"loc"} /\ s.loc \in Locations /\ s = [loc |-> s.loc]
  OBVIOUS
<1>2. \A s \in [active : BOOLEAN] :
         DOMAIN s = {"active"} /\ s.active \in BOOLEAN /\ s = [active |-> s.active]
  OBVIOUS
<1>3. \A s \in [gov : Decisions, active : BOOLEAN, token : Draw, packet : Packet] :
         DOMAIN s = {"gov", "active", "token", "packet"}
  OBVIOUS
<1>4. \A s : DOMAIN Edit(s) = {"do", "set"} /\ Edit(s).set = s /\ Edit(s).do = "edit"
  BY DEF Edit
<1>5. DOMAIN Nothing = {"do"} /\ DOMAIN Delete = {"do"}
  BY DEF Nothing, Delete
<1>6. Nothing \in PlainAfters /\ Delete \in PlainAfters
  BY DEF PlainAfters
<1>7. \A l \in Locations : Edit([loc |-> l]) \in PlainAfters
  <2>1. \A l \in Locations : [loc |-> l] \in [loc : Locations]
    OBVIOUS
  <2>2. QED
    BY <2>1 DEF PlainAfters
<1>8. \A b \in BOOLEAN : Edit([active |-> b]) \in PlainAfters
  <2>1. \A b \in BOOLEAN : [active |-> b] \in [active : BOOLEAN]
    OBVIOUS
  <2>2. QED
    BY <2>1 DEF PlainAfters
<1>9. \A t \in PlainAfters : t \notin RuledAfters
  <2>1. ASSUME NEW t \in PlainAfters, t \in RuledAfters PROVE FALSE
    <3>1. PICK s \in [gov : Decisions, active : BOOLEAN, token : Draw, packet : Packet] : t = Edit(s)
      BY <2>1 DEF RuledAfters
    <3>2. t \notin {Nothing, Delete}
      BY <1>4, <1>5, <3>1
    <3>3. PICK r \in [loc : Locations] \cup [active : BOOLEAN] : t = Edit(r)
      BY <3>2 DEF PlainAfters
    <3>4. r = s
      BY <1>4, <3>1, <3>3
    <3>5. QED
      BY <1>1, <1>2, <1>3, <3>4
  <2>2. QED
    BY <2>1
<1>10. \A t \in PlainAfters : \/ t = Nothing \/ t = Delete
                              \/ \E l \in Locations : t = Edit([loc |-> l])
                              \/ \E b \in BOOLEAN : t = Edit([active |-> b])
  BY <1>1, <1>2 DEF PlainAfters
<1>11. \A t \in RuledAfters : t.do = "edit" /\ t.set \in
          [gov : Decisions, active : BOOLEAN, token : Draw, packet : Packet]
  BY <1>4 DEF RuledAfters
<1>12. QED
  BY <1>6, <1>7, <1>8, <1>9, <1>10, <1>11

LEMMA ListingWritten ==
    ASSUME NEW r \in ListingRow, NEW seen, NEW set, SetFits(set)
    PROVE  /\ Written(r, seen, set) \in ListingRow
           /\ \A f \in ListFields : Written(r, seen, set)[f] =
                IF f \in DOMAIN set /\ set[f] # seen[f] THEN set[f] ELSE r[f]
<1> DEFINE n == Written(r, seen, set)
<1>1. DOMAIN r = ListFields
  BY DEF ListingRow, ListFields
<1>2. /\ r.row = TRUE /\ r.owner \in Owners /\ r.loc \in Locations /\ r.active \in BOOLEAN
      /\ r.gov \in Decisions \cup {"pending"} /\ r.identity \in Identity /\ r.token \in Draw
      /\ r.packet \in Packet
  BY DEF ListingRow
<1>3. \A f \in ListFields : n[f] = IF f \in DOMAIN set /\ set[f] # seen[f] THEN set[f] ELSE r[f]
  BY <1>1 DEF Written
<1>4. n = [f \in ListFields |-> n[f]]
  BY <1>1 DEF Written
<1> HIDE DEF n
<1>5. /\ n.row = TRUE /\ n.owner \in Owners /\ n.loc \in Locations /\ n.active \in BOOLEAN
      /\ n.gov \in Decisions \cup {"pending"} /\ n.identity \in Identity /\ n.token \in Draw
      /\ n.packet \in Packet
  BY <1>2, <1>3 DEF ListFields, SetFits
<1>6. n = [row |-> n.row, owner |-> n.owner, loc |-> n.loc, active |-> n.active, gov |-> n.gov,
           identity |-> n.identity, token |-> n.token, packet |-> n.packet]
  BY <1>4 DEF ListFields
<1>7. n \in ListingRow
  BY <1>5, <1>6 DEF ListingRow
<1>8. QED
  BY <1>3, <1>7 DEF n

\* A session holds the row it has just read.
LEMMA ReadListing ==
    ASSUME ListInv, NEW w \in Workers, NEW e \in Estates, NEW then, Listed(e),
           job'[w] = Work({e}, listing[e], then), UNCHANGED listing,
           then \in PlainAfters \/ (pc'[w] = "then" /\ then \in RuledAfters)
    PROVE  ListSession(w)' /\ listing[e] \in ListingRow
<1>1. listing[e] \in ListingRow
  BY ListingRowShapes DEF ListInv, ListingsTypeOK, Listed
<1>2. job'[w].ids = {e} /\ job'[w].seen = listing[e] /\ job'[w].then = then
  BY DEF Work
<1>3. listing[e].identity # NoIdentity => listing[e].token # 0
  BY DEF ListInv, RowsHaveLinks
<1>4. listing[e] # NoListing
  BY <1>1, ListingRowShapes
<1>5. QED
  BY <1>1, <1>2, <1>3, <1>4 DEF ListSession, Listed

LEMMA PlainRulesNot ==
    ASSUME NEW w \in Workers, pc'[w] # "then" \/ job'[w].then \in PlainAfters
    PROVE  ~Rules(w)'
BY Afters DEF Rules

LEMMA ReadyMoves ==
    ASSUME Frame, Alone, NEW w \in Workers, NEW h, NEW p, NEW j, Ready(w, h), Goto(w, p, j)
    PROVE  Moved(w) /\ pc'[w] = p /\ job'[w] = j
BY GotoMoves DEF Ready, Served

LEMMA NewListingIsARow ==
    ASSUME NEW o \in Owners, NEW l \in Locations
    PROVE  /\ NewListing(o, l) \in ListingRow
           /\ NewListing(o, l).identity = NoIdentity /\ NewListing(o, l).token = 0
           /\ NewListing(o, l).packet.decision = NewListing(o, l).gov
           /\ NewListing(o, l).loc = l /\ NewListing(o, l).owner = o
<1>1. 0 \in Draw /\ NoIdentity \in Identity /\ NoPacket \in Packet
  BY DrawnAssumption DEF Draw, Identity, Packet
<1>2. NewListing(o, l) \in ListingRow
  BY <1>1 DEF NewListing, ListingRow
<1>3. QED
  BY <1>2 DEF NewListing, NoPacket

LEMMA CreatePropertyKeeps ==
    ASSUME ListInv, NEW w \in Workers, NEW o \in Owners, NEW l \in Locations, CreateProperty(w, o, l)
    PROVE  /\ ListInv' /\ Moved(w) /\ UNCHANGED listing
           /\ pc'[w] = "anchor" /\ job'[w] = Work({}, NewListing(o, l), Nothing)
<1>1. /\ Moved(w) /\ pc'[w] = "anchor" /\ job'[w] = Work({}, NewListing(o, l), Nothing)
      /\ UNCHANGED <<listing, wallet, drawn>>
  BY ReadyMoves DEF CreateProperty, ListInv, listingVars
<1>2. /\ job'[w].ids = {} /\ job'[w].seen = NewListing(o, l) /\ job'[w].then = Nothing
  BY <1>1 DEF Work
<1>3. ListSession(w)'
  BY <1>1, <1>2, NewListingIsARow, Afters DEF ListSession
<1>4. ~Rules(w)'
  BY <1>1, PlainRulesNot
<1>5. QED
  BY <1>1, <1>3, <1>4, ListGoes DEF ListInv, ListingsTypeOK

LEMMA GetPropertyKeeps ==
    ASSUME ListInv, NEW w \in Workers, NEW h, NEW e \in Estates, NEW then \in PlainAfters,
           GetProperty(w, h, e, then)
    PROVE  /\ ListInv' /\ Moved(w) /\ UNCHANGED listing
           /\ pc'[w] = IF Unregistered(listing[e]) THEN "anchor" ELSE "then"
           /\ job'[w] = Work({e}, listing[e], then) /\ Listed(e)
<1>1. /\ Moved(w) /\ pc'[w] = (IF Unregistered(listing[e]) THEN "anchor" ELSE "then")
      /\ job'[w] = Work({e}, listing[e], then) /\ Listed(e)
      /\ UNCHANGED <<listing, wallet, drawn>>
  BY ReadyMoves DEF GetProperty, ListInv, listingVars
<1>2. ListSession(w)'
  BY <1>1, ReadListing
<1>3. ~Rules(w)'
  BY <1>1, PlainRulesNot DEF Work
<1>4. QED
  BY <1>1, <1>2, <1>3, ListGoes DEF ListInv, ListingsTypeOK

LEMMA RestorePropertyKeeps ==
    ASSUME ListInv, NEW w \in Workers, NEW e \in Estates, RestoreProperty(w, e)
    PROVE  /\ ListInv' /\ Moved(w) /\ UNCHANGED listing
           /\ pc'[w] = "then" /\ Listed(e)
           /\ job'[w] = Work({e}, listing[e], Edit([active |-> TRUE]))
<1>1. /\ Moved(w) /\ pc'[w] = "then"
      /\ job'[w] = Work({e}, listing[e], Edit([active |-> TRUE])) /\ Listed(e)
      /\ UNCHANGED <<listing, wallet, drawn>>
  BY ReadyMoves DEF RestoreProperty, ListInv, listingVars
<1>2. ListSession(w)'
  BY <1>1, ReadListing, Afters
<1>3. ~Rules(w)'
  <2>1. Edit([active |-> TRUE]) \in PlainAfters
    BY Afters
  <2>2. job'[w].then = Edit([active |-> TRUE])
    BY <1>1 DEF Work
  <2>3. QED
    BY <2>1, <2>2, PlainRulesNot
<1>4. QED
  BY <1>1, <1>2, <1>3, ListGoes DEF ListInv, ListingsTypeOK

LEMMA KccaDecideKeeps ==
    ASSUME ListInv, NEW w \in Workers, NEW e \in Estates, NEW d \in Decisions, KccaDecide(w, e, d)
    PROVE  LET set == [gov |-> d, active |-> ActiveAfter(listing[e], d),
                       token |-> Ensured(listing[e].token), packet |-> PacketOf(listing[e], d)]
           IN /\ ListInv' /\ Moved(w) /\ UNCHANGED listing
              /\ pc'[w] = "then" /\ Listed(e)
              /\ job'[w] = Work({e}, listing[e], Edit(set)) /\ Edit(set) \in RuledAfters
<1> DEFINE r == listing[e]
           set == [gov |-> d, active |-> ActiveAfter(r, d), token |-> Ensured(r.token),
                   packet |-> PacketOf(r, d)]
<1>1. /\ Moved(w) /\ pc'[w] = "then" /\ job'[w] = Work({e}, r, Edit(set)) /\ Listed(e)
      /\ UNCHANGED <<listing, wallet>> /\ drawn' = drawn + 1 /\ drawn < MaxDrawn
  BY ReadyMoves DEF KccaDecide, ListInv
<1>2. r \in ListingRow
  BY <1>1, ListingRowShapes DEF ListInv, ListingsTypeOK, Listed
<1>3. drawn \in Nat /\ drawn + 1 \in Draw /\ r.token \in Draw /\ Draw \subseteq Nat
  BY <1>1, <1>2, DrawnAssumption, ListingRowShapes DEF ListInv, ListingsTypeOK, Draw
<1>4. ActiveAfter(r, d) \in BOOLEAN
  <2>1. r.active \in BOOLEAN
    BY <1>2 DEF ListingRow
  <2>2. QED
    BY <2>1 DEF ActiveAfter
<1>5. PacketOf(r, d) \in Packet
  BY <1>3 DEF PacketOf, Packet
<1>6. Ensured(r.token) \in Draw /\ Ensured(r.token) = IF r.token = 0 THEN drawn + 1 ELSE r.token
  BY <1>3 DEF Ensured
<1>7. set \in [gov : Decisions, active : BOOLEAN, token : Draw, packet : Packet]
  BY <1>4, <1>5, <1>6
<1>8. Edit(set) \in RuledAfters
  BY <1>7 DEF RuledAfters
<1>9. ListSession(w)'
  BY <1>1, <1>8, ReadListing
<1>10. Ruling(w)' = Ensured(r.token) /\ job'[w].seen = r
  BY <1>1 DEF Ruling, Work, Edit
<1>11. RulesAnew(w)
  BY <1>1, <1>3, <1>6, <1>10 DEF RulesAnew, Rules, Ruling
<1>12. OneRowIsWritten(w)
  BY <1>1, <1>3 DEF OneRowIsWritten, ListInv, ListingsTypeOK
<1>13. ListInv'
  BY <1>1, <1>9, <1>11, <1>12, ListMoves
<1>14. QED
  BY <1>1, <1>8, <1>13

\* What a session that works on a row knows.
LEMMA Worked ==
    ASSUME ListInv, NEW w \in Workers, pc[w] \in Working
    PROVE  /\ ListSession(w)
           /\ \A e \in job[w].ids : e \in Estates /\ listing[e] # NoListing /\ job[w].ids = {e}
<1>1. ListSession(w)
  BY DEF ListInv
<1>2. QED
  BY <1>1 DEF ListSession

\* It goes on with the same work.
LEMMA WorkGoesOn ==
    ASSUME ListInv, NEW w \in Workers, NEW p, pc[w] \in Working, Goto(w, p, job[w]),
           p \in Working \ {"then"}, pc[w] # "then", UNCHANGED <<listing, drawn>>,
           wallet' \subseteq Owners,
           job[w].ids = {} => p \in {"anchor", "wallet", "mint"}
    PROVE  ListInv' /\ Moved(w) /\ pc'[w] = p /\ job'[w] = job[w]
<1>1. Moved(w) /\ pc'[w] = p /\ job'[w] = job[w]
  BY GotoMoves DEF ListInv, Working, Busy
<1>2. ListSession(w)'
  BY <1>1, Worked DEF ListSession, Listed
<1>3. ~Rules(w)'
  BY <1>1, PlainRulesNot
<1>4. QED
  BY <1>1, <1>2, <1>3, ListGoes

LEMMA WorkEnds ==
    ASSUME ListInv, NEW w \in Workers, Respond(w), Busy(w), UNCHANGED <<listing, drawn>>,
           wallet' \subseteq Owners
    PROVE  ListInv' /\ Moved(w) /\ pc'[w] = "idle"
BY RespondMoves, ListIdle, ListGoes DEF ListInv

LEMMA UnanchoredKeeps ==
    ASSUME ListInv, NEW w \in Workers, pc[w] \in {"anchor", "wallet"}, Unanchored(w),
           UNCHANGED listingVars
    PROVE  /\ ListInv' /\ Moved(w) /\ UNCHANGED listing
           /\ \/ pc'[w] = "idle"
              \/ pc'[w] = "reload" /\ job'[w] = job[w] /\ job[w].ids # {} /\ job[w].then # Nothing
<1>1. wallet' \subseteq Owners /\ UNCHANGED <<listing, drawn>> /\ pc[w] \in Working /\ Busy(w)
  BY DEF listingVars, ListInv, ListingsTypeOK, Working, Busy
<1>2. CASE job[w].ids = {} \/ job[w].then = Nothing
  BY <1>1, <1>2, WorkEnds DEF Unanchored
<1>3. CASE ~(job[w].ids = {} \/ job[w].then = Nothing)
  BY <1>1, <1>3, WorkGoesOn DEF Unanchored, Working
<1>4. QED
  BY <1>2, <1>3

LEMMA AnchorListingKeeps ==
    ASSUME ListInv, NEW w \in Workers, AnchorListing(w)
    PROVE  /\ ListInv' /\ Moved(w) /\ UNCHANGED listing
           /\ \/ pc'[w] = "idle"
              \/ pc'[w] = "reload" /\ job'[w] = job[w] /\ job[w].ids # {} /\ job[w].then # Nothing
              \/ /\ pc'[w] \in {"mint", "wallet"} /\ job'[w] = job[w]
                 /\ ~Duplicate(job[w].seen.loc, job[w].ids)
<1>1. wallet' \subseteq Owners /\ UNCHANGED <<listing, drawn>> /\ pc[w] = "anchor"
      /\ pc[w] \in Working /\ UNCHANGED listingVars
  BY DEF AnchorListing, listingVars, ListInv, ListingsTypeOK, Working
<1>2. CASE Duplicate(job[w].seen.loc, job[w].ids)
  BY <1>1, <1>2, UnanchoredKeeps DEF AnchorListing
<1>3. CASE ~Duplicate(job[w].seen.loc, job[w].ids)
  <2> DEFINE p == IF job[w].seen.owner \in wallet THEN "mint" ELSE "wallet"
  <2>1. Goto(w, p, job[w]) /\ p \in {"mint", "wallet"}
    BY <1>3 DEF AnchorListing
  <2> HIDE DEF p
  <2>2. ListInv' /\ Moved(w) /\ pc'[w] = p /\ job'[w] = job[w]
    BY <1>1, <2>1, WorkGoesOn DEF Working
  <2>3. QED
    BY <1>1, <1>3, <2>1, <2>2
<1>4. QED
  BY <1>2, <1>3

LEMMA EnsureWalletKeeps ==
    ASSUME ListInv, NEW w \in Workers, EnsureWallet(w)
    PROVE  LET j == job[w] IN
           /\ ListInv' /\ Moved(w) /\ pc[w] = "wallet"
           /\ \/ pc'[w] = "idle" /\ UNCHANGED listing
              \/ pc'[w] = "reload" /\ job'[w] = j /\ j.ids # {} /\ UNCHANGED listing
                 /\ j.then # Nothing
              \/ \E e \in Estates :
                    /\ pc'[w] = "expired" /\ job'[w] = Work({e}, j.seen, j.then)
                    /\ \/ j.ids = {} /\ listing[e] = NoListing /\ listing' = [listing EXCEPT ![e] = j.seen]
                       \/ j.ids = {e} /\ UNCHANGED listing
<1> DEFINE j == job[w]
<1>1. pc[w] = "wallet" /\ pc[w] \in Working /\ Busy(w)
  BY DEF EnsureWallet, Working, Busy
<1>2. CASE j.seen.owner \in wallet
  BY <1>1, <1>2, UnanchoredKeeps DEF EnsureWallet
<1>3. CASE j.seen.owner \notin wallet
  <2>1. PICK e \in Estates :
           /\ IF j.ids = {} THEN Inserted(j.seen, e) ELSE e \in j.ids /\ UNCHANGED listing
           /\ Goto(w, "expired", Work({e}, j.seen, j.then))
    BY <1>3 DEF EnsureWallet
  <2>2. wallet' = wallet \cup {j.seen.owner} /\ drawn' = drawn
    BY <1>3 DEF EnsureWallet
  <2>3. Moved(w) /\ pc'[w] = "expired" /\ job'[w] = Work({e}, j.seen, j.then)
    BY <1>1, <2>1, GotoMoves DEF ListInv
  <2>4. ListSession(w) /\ j.seen \in ListingRow
    BY <1>1, Worked DEF ListSession
  <2>5. wallet' \subseteq Owners
    BY <2>2, <2>4 DEF ListInv, ListingsTypeOK, ListingRow
  <2>6. \/ j.ids = {} /\ listing[e] = NoListing /\ listing' = [listing EXCEPT ![e] = j.seen]
        \/ j.ids = {e} /\ UNCHANGED listing
    BY <1>1, <2>1, Worked DEF Inserted
  <2>7. OneRowIsWritten(w)
    <3>1. drawn' \in Draw /\ drawn <= drawn'
      BY <2>2, DrawnAssumption DEF ListInv, ListingsTypeOK, Draw
    <3>2. CASE j.ids = {} /\ listing[e] = NoListing /\ listing' = [listing EXCEPT ![e] = j.seen]
      <4>1. listing'[e] = j.seen
        BY <3>2 DEF ListInv, ListingsTypeOK
      <4>2. j.seen.token = 0 /\ j.seen.identity = NoIdentity
        <5>1. PICK o \in Owners, l \in Locations : j.seen = NewListing(o, l)
          BY <1>1, <2>4, <3>2 DEF ListSession
        <5>2. QED
          BY <5>1, NewListingIsARow
      <4>3. ~Listed(e) /\ 0 <= drawn'
        BY <3>1, <3>2, ListingRowShapes, DrawnAssumption DEF Listed, Draw
      <4>4. WrittenRow(w, e)
        BY <2>4, <4>1, <4>2, <4>3 DEF WrittenRow
      <4>5. QED
        BY <2>4, <2>5, <3>1, <3>2, <4>4, ListingRowShapes DEF OneRowIsWritten
    <3>3. CASE UNCHANGED listing
      BY <2>5, <3>1, <3>3 DEF OneRowIsWritten
    <3>4. QED
      BY <2>6, <3>2, <3>3
  <2>8. ListSession(w)'
    <3>1. job'[w].ids = {e} /\ job'[w].seen = j.seen /\ job'[w].then = j.then
      BY <2>3 DEF Work
    <3>2. listing'[e] # NoListing /\ (listing'[e].row /\ j.seen.token # 0 => listing'[e].token # 0)
      <4>1. CASE j.ids = {} /\ listing' = [listing EXCEPT ![e] = j.seen]
        <5>1. listing'[e] = j.seen
          BY <4>1 DEF ListInv, ListingsTypeOK
        <5>2. QED
          BY <2>4, <5>1, ListingRowShapes
      <4>2. CASE j.ids = {e} /\ UNCHANGED listing
        BY <1>1, <2>4, <4>2 DEF ListSession, Listed
      <4>3. QED
        BY <2>6, <4>1, <4>2
    <3>3. j.then \in PlainAfters
      BY <1>1, <2>4 DEF ListSession
    <3>4. QED
      BY <1>1, <2>3, <2>4, <3>1, <3>2, <3>3 DEF ListSession, Listed
  <2>9. RulesAnew(w)
    BY <2>3, PlainRulesNot DEF RulesAnew
  <2>10. ListInv'
    BY <2>3, <2>7, <2>8, <2>9, ListMoves
  <2>11. QED
    BY <1>1, <2>3, <2>6, <2>10
<1>4. QED
  BY <1>2, <1>3

LEMMA ReloadKeeps ==
    ASSUME ListInv, NEW w \in Workers, Reload(w)
    PROVE  LET j == job[w] IN
           /\ ListInv' /\ Moved(w) /\ UNCHANGED listing /\ pc[w] \in {"expired", "reload"}
           /\ \/ pc'[w] = "idle"
              \/ \E e \in j.ids : /\ Listed(e) /\ j.ids = {e} /\ e \in Estates
                                  /\ pc'[w] = IF pc[w] = "expired" THEN "mint" ELSE "then"
                                  /\ job'[w] = Work({e}, listing[e], j.then)
<1> DEFINE j == job[w]
           p == IF pc[w] = "expired" THEN "mint" ELSE "then"
<1>1. /\ pc[w] \in {"expired", "reload"} /\ pc[w] \in Working /\ Busy(w)
      /\ UNCHANGED <<listing, drawn>> /\ wallet' \subseteq Owners
  BY DEF Reload, Working, Busy, listingVars, ListInv, ListingsTypeOK
<1>2. PICK e \in j.ids : IF ~Listed(e) THEN Respond(w) ELSE Goto(w, p, Work({e}, listing[e], j.then))
  BY DEF Reload
<1>3. e \in Estates /\ j.ids = {e} /\ ListSession(w)
  BY <1>1, Worked
<1>4. CASE ~Listed(e)
  BY <1>1, <1>2, <1>4, WorkEnds
<1>5. CASE Listed(e)
  <2>1. Goto(w, p, Work({e}, listing[e], j.then))
    BY <1>2, <1>5
  <2>2. Moved(w) /\ pc'[w] = p /\ job'[w] = Work({e}, listing[e], j.then)
    BY <1>1, <2>1, GotoMoves DEF ListInv
  <2>3. j.then \in PlainAfters
    BY <1>1, <1>3 DEF ListSession
  <2>4. ListSession(w)'
    BY <1>1, <1>3, <1>5, <2>2, <2>3, ReadListing
  <2>5. ~Rules(w)'
    BY <2>2, <2>3, PlainRulesNot DEF Work
  <2>6. QED
    BY <1>1, <1>3, <1>5, <2>2, <2>4, <2>5, ListGoes
<1>6. QED
  BY <1>4, <1>5

\* The row that is registered as it was read, and its new token.
LEMMA RegisteredRow ==
    ASSUME NEW r \in ListingRow, NEW id \in Identity, drawn \in Nat, drawn + 1 \in Draw
    PROVE  LET n == Registered(r, id) IN
           /\ n \in ListingRow /\ SetFits(n) /\ DOMAIN n = ListFields
           /\ n.identity = id /\ n.token = (IF r.token = 0 THEN drawn + 1 ELSE r.token)
           /\ \A f \in ListFields \ {"identity", "token"} : n[f] = r[f]
<1> DEFINE n == Registered(r, id)
           t == Ensured(r.token)
<1>1. r.token \in Draw /\ Draw \subseteq Nat
  BY ListingRowShapes, DrawnAssumption DEF Draw
<1>2. t \in Draw /\ t = IF r.token = 0 THEN drawn + 1 ELSE r.token
  BY <1>1 DEF Ensured
<1>3. n = [r EXCEPT !.identity = id, !.token = t]
  BY DEF Registered
<1> HIDE DEF n, t
<1>4. /\ r.owner \in Owners /\ r.loc \in Locations /\ r.active \in BOOLEAN
      /\ r.gov \in Decisions \cup {"pending"} /\ r.packet \in Packet /\ r.row = TRUE
      /\ DOMAIN r = ListFields
  BY DEF ListingRow, ListFields
<1>5. n \in ListingRow
  BY <1>2, <1>3 DEF ListingRow
<1>6. /\ DOMAIN n = ListFields /\ n.identity = id /\ n.token = t
      /\ \A f \in ListFields \ {"identity", "token"} : n[f] = r[f]
  BY <1>3, <1>4 DEF ListFields
<1>7. SetFits(n)
  BY <1>5 DEF SetFits, ListingRow
<1>8. QED
  BY <1>2, <1>5, <1>6, <1>7 DEF n

LEMMA MintIdentityKeeps ==
    ASSUME ListInv, NEW w \in Workers, NEW stored \in BOOLEAN, MintIdentity(w, stored)
    PROVE  LET j == job[w]
               id == IF stored THEN ManifestHash(drawn + 1) ELSE LocationHash(j.seen.loc)
           IN /\ ListInv' /\ Moved(w) /\ pc[w] = "mint" /\ Mints(w, id)
              /\ pc'[w] = "idle" \/ (pc'[w] = "reload" /\ job'[w] = j /\ j.ids # {})
<1> DEFINE j == job[w]
           id == IF stored THEN ManifestHash(drawn + 1) ELSE LocationHash(j.seen.loc)
           row == Registered(j.seen, id)
           left == IF j.then = Nothing THEN Respond(w) ELSE Goto(w, "reload", j)
<1>1. /\ pc[w] = "mint" /\ pc[w] \in Working /\ Busy(w) /\ ListSession(w)
      /\ drawn' = drawn + 1 /\ drawn < MaxDrawn /\ wallet' = wallet
      /\ IF j.ids = {}
         THEN (\E e \in Estates : Inserted(row, e)) /\ Respond(w)
         ELSE \E e \in j.ids :
                IF Listed(e)
                THEN listing' = [listing EXCEPT ![e] = Written(@, j.seen, row)] /\ left
                ELSE UNCHANGED listing /\ Respond(w)
  <2>1. pc[w] = "mint"
    BY DEF MintIdentity
  <2>2. pc[w] \in Working /\ Busy(w)
    BY <2>1 DEF Working, Busy
  <2>3. QED
    BY <2>1, <2>2, Worked DEF MintIdentity
<1> HIDE DEF row
<1>2. /\ j.seen \in ListingRow /\ j.then \in PlainAfters /\ wallet' \subseteq Owners
      /\ drawn \in Nat /\ drawn' \in Draw /\ drawn <= drawn' /\ drawn' > drawn
      /\ Draw \subseteq Nat /\ drawn + 1 \in Draw
  BY <1>1, DrawnAssumption DEF ListSession, ListInv, ListingsTypeOK, Draw
<1>3. id \in Identity
  <2>1. j.seen.loc \in Locations
    BY <1>2 DEF ListingRow
  <2>2. QED
    BY <1>2, <2>1 DEF Identity
<1> HIDE DEF id
<1>4. /\ row \in ListingRow /\ SetFits(row) /\ DOMAIN row = ListFields
      /\ row.token = (IF j.seen.token = 0 THEN drawn + 1 ELSE j.seen.token)
      /\ j.seen.token \in Nat
      /\ row.row = TRUE
  BY <1>2, <1>3, RegisteredRow, ListingRowShapes DEF row
<1>5. ~Rules(w) /\ listing \in [Estates -> ListingRow \cup {NoListing, DeletedListing}]
  BY <1>1 DEF Rules, ListInv, ListingsTypeOK
<1>6. CASE j.ids = {}
  <2>1. PICK e \in Estates : listing[e] = NoListing /\ listing' = [listing EXCEPT ![e] = row]
    BY <1>1, <1>6 DEF Inserted
  <2>2. Moved(w) /\ pc'[w] = "idle"
    BY <1>1, <1>6, RespondMoves DEF ListInv
  <2>3. j.seen.token = 0
    BY <1>1, <1>6, NewListingIsARow DEF ListSession
  <2>4. WrittenRow(w, e)
    <3>1. listing'[e] = row /\ ~Listed(e)
      BY <1>5, <2>1, ListingRowShapes DEF Listed
    <3>2. QED
      BY <1>1, <1>2, <1>4, <2>3, <3>1 DEF WrittenRow
  <2>5. OneRowIsWritten(w)
    BY <1>2, <1>4, <2>1, <2>4, ListingRowShapes DEF OneRowIsWritten
  <2>6. ListInv'
    BY <2>2, <2>5, ListIdle, ListMoves DEF RulesAnew
  <2>7. Mints(w, id)
    BY <1>6, <2>1, <2>2 DEF Mints, row
  <2>8. QED
    BY <1>1, <2>2, <2>6, <2>7 DEF id
<1>7. CASE j.ids # {}
  <2>1. PICK e \in j.ids :
          IF Listed(e)
          THEN listing' = [listing EXCEPT ![e] = Written(@, j.seen, row)] /\ left
          ELSE UNCHANGED listing /\ Respond(w)
    BY <1>1, <1>7
  <2>2. e \in Estates /\ j.ids = {e}
    BY <1>1, Worked
  <2>3. CASE ~Listed(e)
    <3>1. Moved(w) /\ pc'[w] = "idle" /\ UNCHANGED listing
      BY <1>1, <2>1, <2>3, RespondMoves DEF ListInv
    <3>2. OneRowIsWritten(w)
      BY <1>2, <3>1 DEF OneRowIsWritten
    <3>3. ListInv'
      BY <3>1, <3>2, ListIdle, ListMoves DEF RulesAnew
    <3>4. QED
      BY <1>1, <3>1, <3>3 DEF Mints, id
  <2>4. CASE Listed(e)
    <3> DEFINE n == Written(listing[e], j.seen, row)
    <3>1. listing' = [listing EXCEPT ![e] = n] /\ left
      BY <2>1, <2>4
    <3>2. listing[e] \in ListingRow /\ listing[e].token \in Nat
      BY <1>2, <1>5, <2>2, <2>4, ListingRowShapes DEF Listed
    <3>3. n \in ListingRow /\ n.token = IF row.token # j.seen.token THEN row.token ELSE listing[e].token
      BY <1>4, <3>2, ListingWritten DEF ListFields
    <3> HIDE DEF n
    <3>4. j.seen.token # 0 => listing[e].token # 0
      BY <1>1, <2>2, <2>4 DEF ListSession
    <3>5. listing'[e] = n
      BY <1>5, <2>2, <3>1
    <3>6. listing[e].token <= drawn
      BY <2>2, <2>4 DEF ListInv, RowsHaveLinks
    <3>7. WrittenRow(w, e)
      BY <1>1, <1>2, <1>4, <2>4, <3>2, <3>3, <3>4, <3>5, <3>6 DEF WrittenRow
    <3>8. listing[e] # DeletedListing
      BY <2>4, ListingRowShapes DEF Listed
    <3>9. OneRowIsWritten(w)
      BY <1>2, <2>2, <3>1, <3>3, <3>7, <3>8 DEF OneRowIsWritten
    <3>10. Mints(w, id)
      BY <2>2, <2>4, <3>1 DEF Mints, row, n
    <3>11. CASE j.then = Nothing
      <4>1. Moved(w) /\ pc'[w] = "idle"
        BY <1>1, <3>1, <3>11, RespondMoves DEF ListInv
      <4>2. ListInv'
        BY <3>9, <4>1, ListIdle, ListMoves DEF RulesAnew
      <4>3. QED
        BY <1>1, <3>10, <4>1, <4>2 DEF id
    <3>12. CASE j.then # Nothing
      <4>1. Moved(w) /\ pc'[w] = "reload" /\ job'[w] = j
        BY <1>1, <3>1, <3>12, GotoMoves DEF ListInv
      <4>2. n # NoListing /\ (j.seen.token # 0 => n.token # 0)
        BY <1>4, <3>3, <3>4, ListingRowShapes
      <4>3. ListSession(w)'
        BY <1>1, <1>2, <2>2, <3>5, <4>1, <4>2 DEF ListSession, Listed
      <4>4. ListInv'
        BY <3>9, <4>1, <4>3, PlainRulesNot, ListMoves DEF RulesAnew
      <4>5. QED
        BY <1>1, <1>7, <3>10, <4>1, <4>4 DEF id
    <3>13. QED
      BY <3>11, <3>12
  <2>5. QED
    BY <2>3, <2>4
<1>8. QED
  BY <1>6, <1>7

LEMMA StoreListingKeeps ==
    ASSUME ListInv, NEW w \in Workers, StoreListing(w)
    PROVE  ListInv' /\ Moved(w) /\ pc[w] = "then" /\ pc'[w] = "idle" /\ Stores(w)
<1> DEFINE j == job[w]
<1>1. /\ pc[w] = "then" /\ pc[w] \in Working /\ Busy(w)
      /\ Moved(w) /\ pc'[w] = "idle" /\ UNCHANGED <<wallet, drawn>>
  BY RespondMoves DEF StoreListing, Working, Busy, ListInv
<1>2. ListSession(w) /\ j.ids # {}
  BY <1>1, Worked DEF ListSession
<1>3. PICK e \in j.ids : listing' = [listing EXCEPT ![e] =
                                        IF j.then.do = "nothing" \/ ~Listed(e) THEN @
                                        ELSE IF j.then.do = "delete" THEN DeletedListing
                                        ELSE Written(@, j.seen, j.then.set)]
  BY DEF StoreListing
<1>4. e \in Estates /\ j.ids = {e}
  BY <1>1, Worked
<1>5. /\ listing \in [Estates -> ListingRow \cup {NoListing, DeletedListing}]
      /\ drawn' \in Draw /\ drawn <= drawn' /\ wallet' \subseteq Owners /\ drawn' = drawn
      /\ drawn \in Nat /\ Draw \subseteq Nat
  BY <1>1, DrawnAssumption DEF ListInv, ListingsTypeOK, Draw
<1>6. \/ j.then = Nothing \/ j.then = Delete
      \/ \E l \in Locations : j.then = Edit([loc |-> l])
      \/ \E b \in BOOLEAN : j.then = Edit([active |-> b])
      \/ j.then \in RuledAfters
  BY <1>1, <1>2, Afters DEF ListSession
<1>7. ASSUME OneRowIsWritten(w) PROVE ListInv'
  BY <1>1, <1>7, ListIdle, ListMoves DEF RulesAnew
<1>8. CASE j.then = Nothing \/ ~Listed(e)
  <2>1. UNCHANGED listing
    BY <1>3, <1>4, <1>5, <1>8 DEF Nothing
  <2>2. QED
    BY <1>1, <1>5, <1>7, <2>1 DEF OneRowIsWritten, Stores
<1>9. CASE j.then = Delete /\ Listed(e)
  <2>1. listing' = [listing EXCEPT ![e] = DeletedListing]
    BY <1>3, <1>9 DEF Delete
  <2>2. WrittenRow(w, e)
    BY <1>4, <1>5, <2>1, ListingRowShapes DEF WrittenRow
  <2>3. OneRowIsWritten(w)
    BY <1>4, <1>5, <2>1, <2>2 DEF OneRowIsWritten
  <2>4. QED
    BY <1>1, <1>4, <1>7, <1>9, <2>1, <2>3 DEF Stores
<1>10. ASSUME j.then.do = "edit", Listed(e), SetFits(j.then.set),
              \/ j.then \in RuledAfters
              \/ \E l \in Locations : j.then = Edit([loc |-> l])
              \/ \E b \in BOOLEAN : j.then = Edit([active |-> b]),
              "identity" \notin DOMAIN j.then.set,
              "token" \in DOMAIN j.then.set => j.then \in RuledAfters
       PROVE  ListInv' /\ Stores(w)
  <2> DEFINE n == Written(listing[e], j.seen, j.then.set)
  <2>1. listing' = [listing EXCEPT ![e] = n]
    BY <1>3, <1>10
  <2>2. listing[e] \in ListingRow
    BY <1>4, <1>5, <1>10, ListingRowShapes DEF Listed
  <2>3. /\ n \in ListingRow /\ n.identity = listing[e].identity
        /\ n.token = IF "token" \in DOMAIN j.then.set /\ j.then.set.token # j.seen.token
                     THEN j.then.set.token ELSE listing[e].token
    BY <1>10, <2>2, ListingWritten DEF ListFields
  <2> HIDE DEF n
  <2>4. /\ listing[e].token <= drawn
        /\ listing[e].identity # NoIdentity => listing[e].token # 0
    BY <1>4, <1>10 DEF ListInv, RowsHaveLinks
  <2>5. n.token = listing[e].token \/ (Rules(w) /\ n.token = Ruling(w))
    BY <1>1, <1>10, <2>3 DEF Rules, Ruling
  <2>6. Rules(w) => Ruling(w) # 0 /\ Ruling(w) <= drawn
    BY DEF ListInv, RulingsAreNew
  <2>7. listing'[e] = n
    BY <1>4, <1>5, <2>1
  <2>8. WrittenRow(w, e)
    BY <1>5, <1>10, <2>3, <2>4, <2>5, <2>6, <2>7 DEF WrittenRow
  <2>9. listing[e] # DeletedListing
    BY <2>2, ListingRowShapes
  <2>10. OneRowIsWritten(w)
    BY <1>4, <1>5, <2>1, <2>3, <2>8, <2>9 DEF OneRowIsWritten
  <2>11. Stores(w)
    BY <1>4, <1>10, <2>1 DEF Stores, n
  <2>12. QED
    BY <1>7, <2>10, <2>11
<1>11. ASSUME NEW l \in Locations, j.then = Edit([loc |-> l]), Listed(e)
       PROVE  ListInv' /\ Stores(w)
  <2>1. /\ j.then.do = "edit" /\ DOMAIN j.then.set = {"loc"} /\ j.then.set.loc = l
    BY <1>11 DEF Edit
  <2>2. SetFits(j.then.set)
    BY <2>1 DEF SetFits
  <2>3. QED
    BY <1>10, <1>11, <2>1, <2>2
<1>12. ASSUME NEW b \in BOOLEAN, j.then = Edit([active |-> b]), Listed(e)
       PROVE  ListInv' /\ Stores(w)
  <2>1. /\ j.then.do = "edit" /\ DOMAIN j.then.set = {"active"} /\ j.then.set.active = b
    BY <1>12 DEF Edit
  <2>2. SetFits(j.then.set)
    BY <2>1 DEF SetFits
  <2>3. QED
    BY <1>10, <1>12, <2>1, <2>2
<1>13. ASSUME j.then \in RuledAfters, Listed(e)
       PROVE  ListInv' /\ Stores(w)
  <2>1. /\ j.then.do = "edit"
        /\ j.then.set \in [gov : Decisions, active : BOOLEAN, token : Draw, packet : Packet]
    BY <1>13, Afters
  <2>2. DOMAIN j.then.set = {"gov", "active", "token", "packet"} /\ SetFits(j.then.set)
    BY <2>1 DEF SetFits
  <2>3. QED
    BY <1>10, <1>13, <2>1, <2>2
<1>14. QED
  BY <1>1, <1>6, <1>8, <1>9, <1>11, <1>12, <1>13

LEMMA ListDieKeeps ==
    ASSUME ListInv, NEW w \in Workers, Die(w), UNCHANGED listingVars
    PROVE  ListInv' /\ Moved(w) /\ UNCHANGED listing /\ pc'[w] = "idle"
BY WorkEnds DEF Die, listingVars, ListInv, ListingsTypeOK

LEMMA ListingsNextKeeps ==
    ASSUME ListInv, ListingsNext
    PROVE  ListInv'
BY CreatePropertyKeeps, GetPropertyKeeps, RestorePropertyKeeps, KccaDecideKeeps,
   AnchorListingKeeps, EnsureWalletKeeps, ReloadKeeps, MintIdentityKeeps, StoreListingKeeps,
   ListDieKeeps, Afters
   DEF ListingsNext, UpdateProperty, ArchiveProperty, DeleteProperty

-----------------------------------------------------------------------------
(* Listings, one request at a time.                                        *)

LEMMA SameListing ==
    ASSUME Packets, UNCHANGED listing
    PROVE  Packets' /\ Keeps
BY DEF Packets, Keeps, Listed

LEMMA CreatesAlone ==
    ASSUME ListInv, Packets, NEW w \in Workers, NEW o \in Owners, NEW l \in Locations,
           CreateProperty(w, o, l)
    PROVE  AloneDoes(w)
<1>1. pc'[w] = "anchor" /\ job'[w] = Work({}, NewListing(o, l), Nothing) /\ UNCHANGED listing
  BY CreatePropertyKeeps
<1>2. job'[w].ids = {} /\ job'[w].then \notin RuledAfters /\ job'[w].seen.identity = NoIdentity
  BY <1>1, NewListingIsARow, Afters DEF Work
<1>3. SerialSession(w)'
  BY <1>1, <1>2 DEF SerialSession
<1>4. QED
  BY <1>1, <1>3, SameListing DEF AloneDoes

\* A session that has read a row, to go on with it.
LEMMA ReadsAlone ==
    ASSUME Packets, NEW w \in Workers, NEW e \in Estates, NEW then, Listed(e),
           UNCHANGED listing, job'[w] = Work({e}, listing[e], then),
           pc'[w] = "then" \/ listing[e].identity = NoIdentity,
           then \in RuledAfters => /\ then.set.packet.decision = then.set.gov
                                   /\ listing[e].token # 0 => then.set.token = listing[e].token
    PROVE  AloneDoes(w)
<1>1. job'[w].ids = {e} /\ job'[w].seen = listing[e] /\ job'[w].then = then
  BY DEF Work
<1>2. SerialSession(w)'
  BY <1>1 DEF SerialSession, Listed
<1>3. QED
  BY <1>2, SameListing DEF AloneDoes

LEMMA GetsAlone ==
    ASSUME ListInv, Packets, NEW w \in Workers, NEW h, NEW e \in Estates,
           NEW then \in PlainAfters, GetProperty(w, h, e, then)
    PROVE  AloneDoes(w)
<1>1. /\ UNCHANGED listing /\ Listed(e) /\ job'[w] = Work({e}, listing[e], then)
      /\ pc'[w] = IF Unregistered(listing[e]) THEN "anchor" ELSE "then"
  BY GetPropertyKeeps
<1>2. then \notin RuledAfters
  BY Afters
<1>3. pc'[w] = "then" \/ listing[e].identity = NoIdentity
  BY <1>1 DEF Unregistered
<1>4. QED
  BY <1>1, <1>2, <1>3, ReadsAlone

LEMMA RestoresAlone ==
    ASSUME ListInv, Packets, NEW w \in Workers, NEW e \in Estates, RestoreProperty(w, e)
    PROVE  AloneDoes(w)
BY RestorePropertyKeeps, ReadsAlone, Afters

LEMMA DecidesAlone ==
    ASSUME ListInv, Packets, NEW w \in Workers, NEW e \in Estates, NEW d \in Decisions,
           KccaDecide(w, e, d)
    PROVE  AloneDoes(w)
<1> DEFINE set == [gov |-> d, active |-> ActiveAfter(listing[e], d),
                   token |-> Ensured(listing[e].token), packet |-> PacketOf(listing[e], d)]
<1>1. /\ UNCHANGED listing /\ pc'[w] = "then" /\ Listed(e)
      /\ job'[w] = Work({e}, listing[e], Edit(set))
  BY KccaDecideKeeps
<1>2. /\ Edit(set).set.packet.decision = Edit(set).set.gov
      /\ listing[e].token # 0 => Edit(set).set.token = listing[e].token
  BY DEF Edit, PacketOf, Ensured
<1>3. QED
  BY <1>1, <1>2, ReadsAlone

\* A session that has answered is of no concern.
LEMMA AnsweredAlone ==
    ASSUME NEW w \in Workers, pc'[w] = "idle", Packets', Keeps
    PROVE  AloneDoes(w)
BY DEF AloneDoes, SerialSession, Working

LEMMA AnchorsAlone ==
    ASSUME ListInv, Packets, NEW w \in Workers, SerialSession(w), AnchorListing(w)
    PROVE  AloneDoes(w)
<1>1. /\ pc[w] = "anchor" /\ UNCHANGED listing
      /\ pc'[w] = "idle" \/ (pc'[w] \in {"reload", "mint", "wallet"} /\ job'[w] = job[w])
  BY AnchorListingKeeps DEF AnchorListing
<1>2. SerialSession(w)'
  BY <1>1 DEF SerialSession, Working, Listed
<1>3. QED
  BY <1>1, <1>2, SameListing DEF AloneDoes

LEMMA ReloadsAlone ==
    ASSUME ListInv, Packets, NEW w \in Workers, SerialSession(w), Reload(w)
    PROVE  AloneDoes(w)
<1> DEFINE j == job[w]
<1>1. /\ UNCHANGED listing /\ pc[w] \in {"expired", "reload"}
      /\ \/ pc'[w] = "idle"
         \/ \E e \in j.ids : /\ Listed(e) /\ e \in Estates
                             /\ pc'[w] = IF pc[w] = "expired" THEN "mint" ELSE "then"
                             /\ job'[w] = Work({e}, listing[e], j.then)
  BY ReloadKeeps
<1>2. CASE pc'[w] = "idle"
  BY <1>1, <1>2, SameListing, AnsweredAlone
<1>3. ASSUME NEW e \in j.ids, Listed(e), e \in Estates,
             pc'[w] = IF pc[w] = "expired" THEN "mint" ELSE "then",
             job'[w] = Work({e}, listing[e], j.then)
      PROVE  AloneDoes(w)
  <2>1. pc[w] = "expired" => listing[e].identity = NoIdentity
    BY <1>3 DEF SerialSession, Working
  <2>2. j.then \in PlainAfters
    BY <1>1, Worked DEF ListSession, Working
  <2>3. j.then \notin RuledAfters
    BY <2>2, Afters
  <2>4. pc'[w] = "then" \/ listing[e].identity = NoIdentity
    BY <1>1, <1>3, <2>1
  <2>5. QED
    BY <1>1, <1>3, <2>3, <2>4, ReadsAlone
<1>4. QED
  BY <1>1, <1>2, <1>3

LEMMA WalletsAlone ==
    ASSUME ListInv, Packets, NEW w \in Workers, SerialSession(w), EnsureWallet(w)
    PROVE  AloneDoes(w)
<1> DEFINE j == job[w]
<1>1. pc[w] = "wallet" /\ pc[w] \in Working
      /\ \/ pc'[w] = "idle" /\ UNCHANGED listing
         \/ pc'[w] = "reload" /\ job'[w] = j /\ UNCHANGED listing
         \/ \E e \in Estates :
               /\ pc'[w] = "expired" /\ job'[w] = Work({e}, j.seen, j.then)
               /\ \/ j.ids = {} /\ listing[e] = NoListing /\ listing' = [listing EXCEPT ![e] = j.seen]
                  \/ j.ids = {e} /\ UNCHANGED listing
  BY EnsureWalletKeeps DEF Working
<1>2. j.seen.identity = NoIdentity /\ j.seen \in ListingRow /\ j.then \notin RuledAfters
      /\ ListSession(w)
  BY <1>1, Worked, Afters DEF SerialSession, ListSession
<1>3. CASE pc'[w] = "idle" /\ UNCHANGED listing
  BY <1>3, SameListing, AnsweredAlone
<1>4. CASE pc'[w] = "reload" /\ job'[w] = j /\ UNCHANGED listing
  <2>1. SerialSession(w)'
    BY <1>1, <1>4 DEF SerialSession, Listed
  <2>2. QED
    BY <1>4, <2>1, SameListing DEF AloneDoes
<1>5. ASSUME NEW e \in Estates, pc'[w] = "expired", job'[w] = Work({e}, j.seen, j.then),
             \/ j.ids = {} /\ listing[e] = NoListing /\ listing' = [listing EXCEPT ![e] = j.seen]
             \/ j.ids = {e} /\ UNCHANGED listing
      PROVE  AloneDoes(w)
  <2>1. job'[w].ids = {e} /\ job'[w].seen = j.seen /\ job'[w].then = j.then
    BY <1>5 DEF Work
  <2>2. CASE j.ids = {} /\ listing[e] = NoListing /\ listing' = [listing EXCEPT ![e] = j.seen]
    <3>1. \A f \in Estates : listing'[f] = IF f = e THEN j.seen ELSE listing[f]
      BY <2>2 DEF ListInv, ListingsTypeOK
    <3>2. j.seen.packet.decision = j.seen.gov
      BY <1>1, <1>2, <2>2, NewListingIsARow DEF ListSession
    <3>3. Packets' /\ Keeps
      BY <2>2, <3>1, <3>2, ListingRowShapes DEF Packets, Keeps, Listed
    <3>4. SerialSession(w)'
      BY <1>2, <1>5, <2>1, <3>1, ListingRowShapes DEF SerialSession, Listed
    <3>5. QED
      BY <3>3, <3>4 DEF AloneDoes
  <2>3. CASE j.ids = {e} /\ UNCHANGED listing
    <3>1. Listed(e) /\ j.seen = listing[e]
      BY <1>1, <2>3 DEF SerialSession
    <3>2. SerialSession(w)'
      BY <1>2, <1>5, <2>1, <2>3, <3>1 DEF SerialSession, Listed
    <3>3. QED
      BY <2>3, <3>2, SameListing DEF AloneDoes
  <2>4. QED
    BY <1>5, <2>2, <2>3
<1>6. QED
  BY <1>1, <1>3, <1>4, <1>5

LEMMA MintsAlone ==
    ASSUME ListInv, Packets, NEW w \in Workers, SerialSession(w), NEW stored \in BOOLEAN,
           MintIdentity(w, stored)
    PROVE  AloneDoes(w)
<1> DEFINE j == job[w]
           id == IF stored THEN ManifestHash(drawn + 1) ELSE LocationHash(j.seen.loc)
           row == Registered(j.seen, id)
<1>1. /\ pc[w] = "mint" /\ pc[w] \in Working /\ Mints(w, id)
      /\ pc'[w] = "idle" \/ (pc'[w] = "reload" /\ job'[w] = j /\ j.ids # {})
  BY MintIdentityKeeps DEF Working
<1>2. ListSession(w) /\ j.seen.identity = NoIdentity /\ j.seen \in ListingRow
      /\ j.then \notin RuledAfters
  BY <1>1, Worked, Afters DEF SerialSession, ListSession
<1>3. drawn \in Nat /\ drawn + 1 \in Draw
  BY DrawnAssumption DEF MintIdentity, ListInv, ListingsTypeOK, Draw
<1>4. id \in Identity
  <2>1. j.seen.loc \in Locations
    BY <1>2 DEF ListingRow
  <2>2. QED
    BY <1>3, <2>1 DEF Identity
<1> HIDE DEF id
<1>5. /\ row \in ListingRow /\ SetFits(row) /\ DOMAIN row = ListFields
      /\ row.token = (IF j.seen.token = 0 THEN drawn + 1 ELSE j.seen.token)
      /\ \A f \in ListFields \ {"identity", "token"} : row[f] = j.seen[f]
  BY <1>2, <1>3, <1>4, RegisteredRow
<1> HIDE DEF row
<1>6. CASE UNCHANGED listing /\ pc'[w] = "idle"
  BY <1>6, SameListing, AnsweredAlone
<1>7. ASSUME NEW e \in Estates, j.ids = {}, listing[e] = NoListing, pc'[w] = "idle",
             listing' = [listing EXCEPT ![e] = row]
      PROVE  AloneDoes(w)
  <2>1. \A f \in Estates : listing'[f] = IF f = e THEN row ELSE listing[f]
    BY <1>7 DEF ListInv, ListingsTypeOK
  <2>2. row.packet.decision = row.gov
    <3>1. row.packet = j.seen.packet /\ row.gov = j.seen.gov
      BY <1>5 DEF ListFields
    <3>2. j.seen.packet.decision = j.seen.gov
      BY <1>1, <1>2, <1>7, NewListingIsARow DEF ListSession
    <3>3. QED
      BY <3>1, <3>2
  <2>3. Packets' /\ Keeps
    BY <1>7, <2>1, <2>2, ListingRowShapes DEF Packets, Keeps, Listed
  <2>4. QED
    BY <1>7, <2>3, AnsweredAlone
<1>8. ASSUME NEW e \in Estates, j.ids = {e}, Listed(e),
             listing' = [listing EXCEPT ![e] = Written(listing[e], j.seen, row)]
      PROVE  AloneDoes(w)
  <2> DEFINE n == Written(listing[e], j.seen, row)
  <2>1. \A f \in Estates : listing'[f] = IF f = e THEN n ELSE listing[f]
    BY <1>8 DEF ListInv, ListingsTypeOK
  <2>2. listing[e] = j.seen
    BY <1>1, <1>8 DEF SerialSession
  <2>3. /\ n \in ListingRow
        /\ n.packet = listing[e].packet /\ n.gov = listing[e].gov
        /\ n.token = IF row.token # j.seen.token THEN row.token ELSE listing[e].token
    BY <1>2, <1>5, <2>2, ListingWritten DEF ListFields
  <2> HIDE DEF n
  <2>4. Packets' /\ Keeps
    <3>1. n.packet.decision = n.gov
      BY <1>8, <2>3 DEF Packets
    <3>2. listing[e].token # 0 => n.token = listing[e].token
      BY <1>5, <2>2, <2>3
    <3>3. QED
      BY <1>2, <2>1, <2>2, <3>1, <3>2 DEF Packets, Keeps, Listed
  <2>5. CASE pc'[w] = "idle"
    BY <2>4, <2>5, AnsweredAlone
  <2>6. CASE pc'[w] = "reload" /\ job'[w] = j
    <3>1. listing'[e].row
      BY <2>1, <2>3, ListingRowShapes
    <3>2. SerialSession(w)'
      BY <1>2, <1>8, <2>6, <3>1 DEF SerialSession, Listed
    <3>3. QED
      BY <2>4, <3>2 DEF AloneDoes
  <2>7. QED
    BY <1>1, <2>5, <2>6
<1>9. QED
  BY <1>1, <1>6, <1>7, <1>8 DEF Mints, row

LEMMA StoresAlone ==
    ASSUME ListInv, Packets, NEW w \in Workers, SerialSession(w), StoreListing(w)
    PROVE  AloneDoes(w)
<1> DEFINE j == job[w]
<1>1. pc[w] = "then" /\ pc[w] \in Working /\ pc'[w] = "idle" /\ Stores(w)
  BY StoreListingKeeps DEF Working
<1>2. SUFFICES Packets' /\ Keeps
  BY <1>1, AnsweredAlone
<1>3. CASE UNCHANGED listing
  BY <1>3, SameListing
<1>4. ASSUME NEW e \in Estates, j.ids = {e}, Listed(e),
             listing' = [listing EXCEPT ![e] = DeletedListing]
      PROVE  Packets' /\ Keeps
  <2>1. \A f \in Estates : listing'[f] = IF f = e THEN DeletedListing ELSE listing[f]
    BY <1>4 DEF ListInv, ListingsTypeOK
  <2>2. QED
    BY <2>1, ListingRowShapes DEF Packets, Keeps, Listed
<1>5. ASSUME NEW e \in Estates, j.ids = {e}, Listed(e), SetFits(j.then.set),
             listing' = [listing EXCEPT ![e] = Written(listing[e], j.seen, j.then.set)],
             \/ j.then \in RuledAfters
             \/ \E l \in Locations : j.then = Edit([loc |-> l])
             \/ \E b \in BOOLEAN : j.then = Edit([active |-> b])
      PROVE  Packets' /\ Keeps
  <2> DEFINE n == Written(listing[e], j.seen, j.then.set)
             s == j.then.set
  <2>1. \A f \in Estates : listing'[f] = IF f = e THEN n ELSE listing[f]
    BY <1>5 DEF ListInv, ListingsTypeOK
  <2>2. listing[e] = j.seen /\ listing[e] \in ListingRow
    <3>1. listing[e] = j.seen
      BY <1>1, <1>5 DEF SerialSession
    <3>2. listing[e] \in ListingRow
      BY <1>5, ListingRowShapes DEF ListInv, ListingsTypeOK, Listed
    <3>3. QED
      BY <3>1, <3>2
  <2>3. \A f \in ListFields : n[f] = IF f \in DOMAIN s THEN s[f] ELSE listing[e][f]
    <3>1. \A f \in ListFields : n[f] = IF f \in DOMAIN s /\ s[f] # j.seen[f] THEN s[f] ELSE listing[e][f]
      BY <1>5, <2>2, ListingWritten
    <3>2. QED
      BY <2>2, <3>1
  <2> HIDE DEF n
  <2>4. CASE j.then \in RuledAfters
    <3>1. DOMAIN s = {"gov", "active", "token", "packet"}
      BY <2>4, Afters
    <3>2. n.gov = s.gov /\ n.packet = s.packet /\ n.token = s.token
          /\ n.identity = listing[e].identity
      BY <2>3, <3>1 DEF ListFields
    <3>3. s.packet.decision = s.gov /\ (j.seen.token # 0 => s.token = j.seen.token)
      BY <1>1, <2>4 DEF SerialSession
    <3>4. QED
      BY <2>1, <2>2, <3>2, <3>3 DEF Packets, Keeps, Listed
  <2>5. CASE {"gov", "packet", "token", "identity"} \cap DOMAIN s = {}
    <3>1. /\ n.gov = listing[e].gov /\ n.packet = listing[e].packet
          /\ n.token = listing[e].token /\ n.identity = listing[e].identity
      BY <2>3, <2>5 DEF ListFields
    <3>2. QED
      BY <1>5, <2>1, <3>1 DEF Packets, Keeps, Listed
  <2>6. ASSUME NEW l \in Locations, j.then = Edit([loc |-> l]) PROVE DOMAIN s = {"loc"}
    BY <2>6 DEF Edit
  <2>7. ASSUME NEW b \in BOOLEAN, j.then = Edit([active |-> b]) PROVE DOMAIN s = {"active"}
    BY <2>7 DEF Edit
  <2>8. QED
    BY <1>5, <2>4, <2>5, <2>6, <2>7
<1>6. QED
  BY <1>1, <1>3, <1>4, <1>5 DEF Stores

LEMMA DiesAlone ==
    ASSUME ListInv, Packets, NEW w \in Workers, Die(w), UNCHANGED listingVars
    PROVE  AloneDoes(w)
BY ListDieKeeps, SameListing, AnsweredAlone

\* Some worker makes every step.
LEMMA ListingsNextMoves ==
    ASSUME ListInv, ListingsNext, Packets, \A w \in Workers : SerialSession(w)
    PROVE  \E w \in Workers : Moved(w) /\ AloneDoes(w)
<1>1. ASSUME NEW w \in Workers, NEW o \in Owners, NEW l \in Locations, CreateProperty(w, o, l)
      PROVE  Moved(w) /\ AloneDoes(w)
  BY <1>1, CreatePropertyKeeps, CreatesAlone
<1>2. ASSUME NEW w \in Workers, NEW e \in Estates,
             \/ GetProperty(w, "get_property", e, Nothing)
             \/ \E l \in Locations : UpdateProperty(w, e, l)
             \/ ArchiveProperty(w, e)
             \/ DeleteProperty(w, e)
      PROVE  Moved(w) /\ AloneDoes(w)
  <2>1. \E h, then : then \in PlainAfters /\ GetProperty(w, h, e, then)
    BY <1>2, Afters DEF UpdateProperty, ArchiveProperty, DeleteProperty
  <2>2. QED
    BY <2>1, GetPropertyKeeps, GetsAlone
<1>3. ASSUME NEW w \in Workers, NEW e \in Estates, RestoreProperty(w, e)
      PROVE  Moved(w) /\ AloneDoes(w)
  BY <1>3, RestorePropertyKeeps, RestoresAlone
<1>4. ASSUME NEW w \in Workers, NEW e \in Estates, NEW d \in Decisions, KccaDecide(w, e, d)
      PROVE  Moved(w) /\ AloneDoes(w)
  BY <1>4, KccaDecideKeeps, DecidesAlone
<1>5. ASSUME NEW w \in Workers,
             \/ AnchorListing(w) \/ EnsureWallet(w) \/ Reload(w) \/ StoreListing(w)
             \/ \E stored \in BOOLEAN : MintIdentity(w, stored)
             \/ Die(w) /\ UNCHANGED listingVars
      PROVE  Moved(w) /\ AloneDoes(w)
  BY <1>5, AnchorListingKeeps, AnchorsAlone, EnsureWalletKeeps, WalletsAlone, ReloadKeeps,
     ReloadsAlone, StoreListingKeeps, StoresAlone, MintIdentityKeeps, MintsAlone, ListDieKeeps,
     DiesAlone
<1>6. QED
  BY <1>1, <1>2, <1>3, <1>4, <1>5 DEF ListingsNext

LEMMA SerialStep ==
    ASSUME ListInv, SerialInv, ListingsNext, UNCHANGED load
    PROVE  SerialInv' /\ (~load.overlap => Keeps)
<1>1. SUFFICES ASSUME ~load.overlap
               PROVE  Packets' /\ Keeps /\ \A v \in Workers : SerialSession(v)'
  BY DEF SerialInv
<1>2. PICK w \in Workers : Moved(w) /\ AloneDoes(w)
  BY <1>1, ListingsNextMoves DEF SerialInv
<1>3. ASSUME NEW v \in Workers, v # w PROVE SerialSession(v)'
  BY <1>1, <1>2, <1>3 DEF Moved, Busy, SerialSession, Working
<1>4. QED
  BY <1>2, <1>3 DEF AloneDoes

-----------------------------------------------------------------------------
(* Listings where none becomes active again.                               *)

LEMMA LastingAfters ==
    ASSUME NEW t \in Lasting
    PROVE  /\ t \in PlainAfters
           /\ t.do = "edit" => ActivatesNone(t.set)
<1>1. t = Nothing \/ t = Delete \/ t = Edit([active |-> FALSE])
      \/ \E l \in Locations : t = Edit([loc |-> l])
  BY DEF Lasting
<1>2. CASE t = Nothing \/ t = Delete
  <2>1. t.do # "edit"
    BY <1>2 DEF Nothing, Delete
  <2>2. QED
    BY <1>2, <2>1, Afters
<1>3. CASE t = Edit([active |-> FALSE])
  <2>1. t.set = [active |-> FALSE]
    BY <1>3 DEF Edit
  <2>2. DOMAIN t.set = {"active"} /\ t.set.active = FALSE
    BY <2>1
  <2>3. QED
    BY <1>3, <2>2, Afters DEF ActivatesNone
<1>4. ASSUME NEW l \in Locations, t = Edit([loc |-> l])
      PROVE  t \in PlainAfters /\ ActivatesNone(t.set)
  <2>1. t.set = [loc |-> l]
    BY <1>4 DEF Edit
  <2>2. DOMAIN t.set = {"loc"}
    BY <2>1
  <2>3. QED
    BY <1>4, <2>2, Afters DEF ActivatesNone
<1>5. QED
  BY <1>1, <1>2, <1>3, <1>4

LEMMA DrawnGrows ==
    ASSUME ListInv, ListInv', ListingsNext
    PROVE  Grown
<1>1. drawn \in Nat /\ drawn' \in Nat
  BY DrawnAssumption DEF ListInv, ListingsTypeOK, Draw
<1>2. ASSUME NEW w \in Workers
      PROVE  /\ \A o \in Owners, l \in Locations : CreateProperty(w, o, l) => drawn' = drawn
             /\ \A h, e, then : GetProperty(w, h, e, then) => drawn' = drawn
             /\ \A e \in Estates : RestoreProperty(w, e) => drawn' = drawn
             /\ AnchorListing(w) \/ Reload(w) => drawn' = drawn
  BY DEF CreateProperty, GetProperty, RestoreProperty, AnchorListing, Reload, listingVars
<1>3. ASSUME NEW w \in Workers
      PROVE  /\ \A e \in Estates, d \in Decisions : KccaDecide(w, e, d) => drawn' = drawn + 1
             /\ \A stored \in BOOLEAN : MintIdentity(w, stored) => drawn' = drawn + 1
  BY DEF KccaDecide, MintIdentity
<1>4. ASSUME NEW w \in Workers, EnsureWallet(w) \/ StoreListing(w)
      PROVE  drawn' = drawn
  BY <1>4 DEF EnsureWallet, StoreListing, listingVars
<1>5. drawn' = drawn \/ drawn' = drawn + 1
  BY <1>2, <1>3, <1>4 DEF ListingsNext, UpdateProperty, ArchiveProperty, DeleteProperty, listingVars
<1>6. QED
  BY <1>1, <1>5 DEF Grown

LEMMA StillDrawn ==
    ASSUME Grown, NEW identity, DrawnManifest(identity, drawn)
    PROVE  DrawnManifest(identity, drawn')
<1>1. Draw \subseteq Nat
  BY DrawnAssumption DEF Draw
<1>2. QED
  BY <1>1 DEF Grown, DrawnManifest

LEMMA SameRefusing ==
    ASSUME RefusingRows, Grown, UNCHANGED listing
    PROVE  RefusingRows'
<1>1. ASSUME NEW e \in Estates, listing'[e].row
      PROVE  DrawnManifest(listing'[e].identity, drawn')
  BY <1>1, StillDrawn DEF RefusingRows, Listed
<1>2. \A e, f \in Estates : ~SameIdentity(e, f)'
  BY DEF RefusingRows, SameIdentity, Listed, Unregistered
<1>3. QED
  BY <1>1, <1>2 DEF RefusingRows, Listed

LEMMA HashesDiffer ==
    /\ \A l : LocationHash(l) # NoIdentity
    /\ \A k : ManifestHash(k) # NoIdentity
    /\ \A k, l : ManifestHash(k) # LocationHash(l)
    /\ \A k, m : ManifestHash(k) = ManifestHash(m) => k = m
BY DEF LocationHash, ManifestHash, NoIdentity

\* One row is written: it is not registered, not active, or stands alone.
LEMMA RefusingRowsKept ==
    ASSUME RefusingRows, Grown, NEW e \in Estates, NEW n,
           \A f \in Estates : listing'[f] = IF f = e THEN n ELSE listing[f],
           n.row => /\ DrawnManifest(n.identity, drawn')
                    /\ n.identity = NoIdentity \/ ~n.active \/ StandsAlone(e, n.identity)
    PROVE  RefusingRows'
<1>1. ASSUME NEW f \in Estates, listing'[f].row
      PROVE  DrawnManifest(listing'[f].identity, drawn')
  <2>1. CASE f = e
    BY <1>1, <2>1
  <2>2. CASE f # e
    BY <1>1, <2>2, StillDrawn DEF RefusingRows, Listed
  <2>3. QED
    BY <2>1, <2>2
<1>2. ASSUME NEW f \in Estates, NEW g \in Estates, f # g, listing'[f].row, listing'[g].row,
             listing'[f].active, listing'[g].active, listing'[f].identity # NoIdentity,
             listing'[f].identity = listing'[g].identity
      PROVE  FALSE
  <2>1. CASE f # e /\ g # e
    BY <1>2, <2>1 DEF RefusingRows, SameIdentity, Listed, Unregistered
  <2>2. CASE f = e \/ g = e
    BY <1>2, <2>2 DEF StandsAlone, Listed
  <2>3. QED
    BY <2>1, <2>2
<1>3. QED
  BY <1>1, <1>2 DEF RefusingRows, SameIdentity, Listed, Unregistered

LEMMA AnsweredRefuses ==
    ASSUME NEW w \in Workers, pc'[w] = "idle", RefusingRows'
    PROVE  RefusesAlone(w)
BY DEF RefusesAlone, RefusingSession, Working

LEMMA WorksOnRefuse ==
    ASSUME RefusingRows, Grown, NEW w \in Workers, UNCHANGED listing, job'[w].then \in Lasting,
           pc'[w] \in {"wallet", "expired", "mint"} => ~Duplicate(job'[w].seen.loc, job'[w].ids)
    PROVE  RefusesAlone(w)
BY SameRefusing DEF RefusesAlone, RefusingSession, Duplicate, Listed

LEMMA WalletsRefuse ==
    ASSUME ListInv, RefusingRows, Grown, NEW w \in Workers, RefusingSession(w), SerialSession(w),
           EnsureWallet(w)
    PROVE  RefusesAlone(w)
<1> DEFINE j == job[w]
<1>1. pc[w] = "wallet" /\ pc[w] \in Working
      /\ \/ pc'[w] = "idle" /\ UNCHANGED listing
         \/ pc'[w] = "reload" /\ job'[w] = j /\ UNCHANGED listing
         \/ \E e \in Estates :
               /\ pc'[w] = "expired" /\ job'[w] = Work({e}, j.seen, j.then)
               /\ \/ j.ids = {} /\ listing[e] = NoListing /\ listing' = [listing EXCEPT ![e] = j.seen]
                  \/ j.ids = {e} /\ UNCHANGED listing
  BY EnsureWalletKeeps DEF Working
<1>2. /\ ~Duplicate(j.seen.loc, j.ids) /\ j.then \in Lasting
      /\ j.seen.identity = NoIdentity
  BY <1>1 DEF RefusingSession, SerialSession
<1>3. CASE pc'[w] = "idle" /\ UNCHANGED listing
  BY <1>3, SameRefusing, AnsweredRefuses
<1>4. CASE pc'[w] = "reload" /\ job'[w] = j /\ UNCHANGED listing
  BY <1>2, <1>4, WorksOnRefuse
<1>5. ASSUME NEW e \in Estates, pc'[w] = "expired", job'[w] = Work({e}, j.seen, j.then),
             \/ j.ids = {} /\ listing[e] = NoListing /\ listing' = [listing EXCEPT ![e] = j.seen]
             \/ j.ids = {e} /\ UNCHANGED listing
      PROVE  RefusesAlone(w)
  <2>1. job'[w].ids = {e} /\ job'[w].seen = j.seen /\ job'[w].then = j.then
    BY <1>5 DEF Work
  <2>2. CASE j.ids = {e} /\ UNCHANGED listing
    BY <1>2, <2>1, <2>2, WorksOnRefuse
  <2>3. CASE j.ids = {} /\ listing[e] = NoListing /\ listing' = [listing EXCEPT ![e] = j.seen]
    <3>1. \A f \in Estates : listing'[f] = IF f = e THEN j.seen ELSE listing[f]
      BY <2>3 DEF ListInv, ListingsTypeOK
    <3>2. RefusingRows'
      <4>1. DrawnManifest(j.seen.identity, drawn')
        BY <1>2, HashesDiffer DEF DrawnManifest
      <4>2. QED
        BY <1>2, <3>1, <4>1, RefusingRowsKept
    <3>3. ~(\E f \in Estates \ {e} : listing'[f].row /\ listing'[f].active
                                      /\ listing'[f].identity = LocationHash(j.seen.loc))
      BY <1>2, <2>3, <3>1 DEF Duplicate, Listed
    <3>4. QED
      BY <1>2, <2>1, <3>2, <3>3 DEF RefusesAlone, RefusingSession, Duplicate, Listed
  <2>4. QED
    BY <1>5, <2>2, <2>3
<1>6. QED
  BY <1>1, <1>3, <1>4, <1>5

LEMMA MintsRefuse ==
    ASSUME ListInv, RefusingRows, Grown, NEW w \in Workers, RefusingSession(w), SerialSession(w),
           NEW stored \in BOOLEAN, MintIdentity(w, stored)
    PROVE  RefusesAlone(w)
<1> DEFINE j == job[w]
           id == IF stored THEN ManifestHash(drawn + 1) ELSE LocationHash(j.seen.loc)
           row == Registered(j.seen, id)
<1>1. /\ pc[w] = "mint" /\ pc[w] \in Working /\ Mints(w, id)
      /\ pc'[w] = "idle" \/ (pc'[w] = "reload" /\ job'[w] = j /\ j.ids # {})
  BY MintIdentityKeeps DEF Working
<1>2. ListSession(w) /\ j.seen.identity = NoIdentity /\ j.seen \in ListingRow
      /\ ~Duplicate(j.seen.loc, j.ids) /\ j.then \in Lasting
  BY <1>1, Worked DEF SerialSession, ListSession, RefusingSession
<1>3. drawn \in Nat /\ drawn + 1 \in Draw /\ drawn' = drawn + 1 /\ Draw \subseteq Nat
  BY DrawnAssumption DEF MintIdentity, ListInv, ListingsTypeOK, Draw
<1>4. id \in Identity
  <2>1. j.seen.loc \in Locations
    BY <1>2 DEF ListingRow
  <2>2. QED
    BY <1>3, <2>1 DEF Identity
<1>5. /\ id # NoIdentity /\ DrawnManifest(id, drawn')
      /\ \A e \in Estates : j.ids = {} \/ j.ids = {e} => StandsAlone(e, id)
  <2>1. id # NoIdentity /\ DrawnManifest(id, drawn')
    BY <1>3, HashesDiffer DEF DrawnManifest
  <2>2. ASSUME NEW e \in Estates, j.ids = {} \/ j.ids = {e}, NEW f \in Estates \ {e},
               Listed(f), listing[f].active, listing[f].identity = id
        PROVE  FALSE
    <3>1. CASE stored
      <4>1. DrawnManifest(ManifestHash(drawn + 1), drawn)
        BY <2>2, <3>1 DEF RefusingRows
      <4>2. QED
        BY <1>3, <4>1 DEF DrawnManifest
    <3>2. CASE ~stored
      BY <1>2, <2>2, <3>2 DEF Duplicate
    <3>3. QED
      BY <3>1, <3>2
  <2>3. QED
    BY <2>1, <2>2 DEF StandsAlone
<1> HIDE DEF id
<1>6. /\ row \in ListingRow /\ SetFits(row) /\ DOMAIN row = ListFields
      /\ row.identity = id
      /\ \A f \in ListFields \ {"identity", "token"} : row[f] = j.seen[f]
  BY <1>2, <1>3, <1>4, RegisteredRow
<1> HIDE DEF row
<1>7. RefusingRows'
  <2>1. CASE UNCHANGED listing
    BY <2>1, SameRefusing
  <2>2. ASSUME NEW e \in Estates, j.ids = {}, listing' = [listing EXCEPT ![e] = row]
        PROVE  RefusingRows'
    <3>1. \A f \in Estates : listing'[f] = IF f = e THEN row ELSE listing[f]
      BY <2>2 DEF ListInv, ListingsTypeOK
    <3>2. QED
      BY <1>5, <1>6, <2>2, <3>1, RefusingRowsKept
  <2>3. ASSUME NEW e \in Estates, j.ids = {e}, Listed(e),
               listing' = [listing EXCEPT ![e] = Written(listing[e], j.seen, row)]
        PROVE  RefusingRows'
    <3> DEFINE n == Written(listing[e], j.seen, row)
    <3>1. \A f \in Estates : listing'[f] = IF f = e THEN n ELSE listing[f]
      BY <2>3 DEF ListInv, ListingsTypeOK
    <3>2. listing[e] = j.seen
      BY <1>1, <2>3 DEF SerialSession
    <3>3. n.identity = id
      BY <1>2, <1>5, <1>6, <3>2, ListingWritten DEF ListFields
    <3> HIDE DEF n
    <3>4. QED
      BY <1>5, <2>3, <3>1, <3>3, RefusingRowsKept
  <2>4. QED
    BY <1>1, <2>1, <2>2, <2>3 DEF Mints, row
<1>8. RefusingSession(w)'
  BY <1>1, <1>2 DEF RefusingSession, Working
<1>9. QED
  BY <1>7, <1>8 DEF RefusesAlone

LEMMA StoresRefuse ==
    ASSUME ListInv, RefusingRows, Grown, NEW w \in Workers, RefusingSession(w), SerialSession(w),
           StoreListing(w)
    PROVE  RefusesAlone(w)
<1> DEFINE j == job[w]
<1>1. pc[w] = "then" /\ pc[w] \in Working /\ pc'[w] = "idle" /\ Stores(w)
  BY StoreListingKeeps DEF Working
<1>2. SUFFICES RefusingRows'
  BY <1>1, AnsweredRefuses
<1>3. j.then \in Lasting
  BY <1>1 DEF RefusingSession
<1>4. CASE UNCHANGED listing
  BY <1>4, SameRefusing
<1>5. ASSUME NEW e \in Estates, listing' = [listing EXCEPT ![e] = DeletedListing]
      PROVE  RefusingRows'
  <2>1. \A f \in Estates : listing'[f] = IF f = e THEN DeletedListing ELSE listing[f]
    BY <1>5 DEF ListInv, ListingsTypeOK
  <2>2. QED
    BY <2>1, ListingRowShapes, RefusingRowsKept
<1>6. ASSUME NEW e \in Estates, j.ids = {e}, Listed(e), SetFits(j.then.set), j.then.do = "edit",
             listing' = [listing EXCEPT ![e] = Written(listing[e], j.seen, j.then.set)]
      PROVE  RefusingRows'
  <2> DEFINE n == Written(listing[e], j.seen, j.then.set)
             s == j.then.set
  <2>1. \A f \in Estates : listing'[f] = IF f = e THEN n ELSE listing[f]
    BY <1>6 DEF ListInv, ListingsTypeOK
  <2>2. listing[e] = j.seen /\ listing[e] \in ListingRow
    <3>1. listing[e] = j.seen
      BY <1>1, <1>6 DEF SerialSession
    <3>2. listing[e] \in ListingRow
      BY <1>6, ListingRowShapes DEF ListInv, ListingsTypeOK, Listed
    <3>3. QED
      BY <3>1, <3>2
  <2>3. \A f \in ListFields : n[f] = IF f \in DOMAIN s /\ s[f] # j.seen[f] THEN s[f] ELSE listing[e][f]
    BY <1>6, <2>2, ListingWritten
  <2> HIDE DEF n
  <2>4. ActivatesNone(s)
    BY <1>3, <1>6, LastingAfters
  <2>5. n.identity = listing[e].identity /\ (n.active => listing[e].active)
    BY <2>2, <2>3, <2>4 DEF ListFields, ActivatesNone
  <2>6. DrawnManifest(n.identity, drawn')
    BY <1>6, <2>5, StillDrawn DEF RefusingRows
  <2>7. n.identity = NoIdentity \/ ~n.active \/ StandsAlone(e, n.identity)
    BY <1>6, <2>5 DEF RefusingRows, SameIdentity, StandsAlone, Listed, Unregistered
  <2>8. QED
    BY <2>1, <2>6, <2>7, RefusingRowsKept
<1>7. QED
  BY <1>1, <1>4, <1>5, <1>6 DEF Stores

LEMMA ReloadsRefuse ==
    ASSUME ListInv, RefusingRows, Grown, NEW w \in Workers, RefusingSession(w), SerialSession(w), Reload(w)
    PROVE  RefusesAlone(w)
<1> DEFINE j == job[w]
<1>1. /\ UNCHANGED listing /\ pc[w] \in {"expired", "reload"} /\ pc[w] \in Working
      /\ \/ pc'[w] = "idle"
         \/ \E e \in j.ids : /\ Listed(e) /\ j.ids = {e} /\ e \in Estates
                             /\ pc'[w] = IF pc[w] = "expired" THEN "mint" ELSE "then"
                             /\ job'[w] = Work({e}, listing[e], j.then)
  BY ReloadKeeps DEF Working
<1>2. CASE pc'[w] = "idle"
  BY <1>1, <1>2, SameRefusing, AnsweredRefuses
<1>3. ASSUME NEW e \in j.ids, j.ids = {e}, pc'[w] = IF pc[w] = "expired" THEN "mint" ELSE "then",
             job'[w] = Work({e}, listing[e], j.then)
      PROVE  RefusesAlone(w)
  <2>1. job'[w].ids = j.ids /\ job'[w].seen = listing[e] /\ job'[w].then = j.then
    BY <1>3 DEF Work
  <2>2. pc[w] = "expired" => ~Duplicate(j.seen.loc, j.ids) /\ j.seen = listing[e]
    BY <1>1, <1>3 DEF RefusingSession, SerialSession
  <2>3. j.then \in Lasting
    BY <1>1 DEF RefusingSession
  <2>4. QED
    BY <1>1, <1>3, <2>1, <2>2, <2>3, WorksOnRefuse
<1>4. QED
  BY <1>1, <1>2, <1>3

\* Some worker makes every step.
LEMMA ListingsNextRefuses ==
    ASSUME ListInv, ListingsNext, Refusing, RefusingRows, Grown,
           \A w \in Workers : SerialSession(w) /\ RefusingSession(w)
    PROVE  \E w \in Workers : Moved(w) /\ RefusesAlone(w)
<1>1. ASSUME NEW h, Uses(h) PROVE h \notin {"restore_property", "kcca_decide"}
  BY <1>1 DEF Uses, Refusing
<1>2. ASSUME NEW w \in Workers, NEW o \in Owners, NEW l \in Locations, CreateProperty(w, o, l)
      PROVE  Moved(w) /\ RefusesAlone(w)
  <2>1. /\ Moved(w) /\ UNCHANGED listing
        /\ pc'[w] = "anchor" /\ job'[w] = Work({}, NewListing(o, l), Nothing)
    BY <1>2, CreatePropertyKeeps
  <2>2. job'[w].then = Nothing /\ Nothing \in Lasting
    BY <2>1 DEF Work, Lasting
  <2>3. QED
    BY <2>1, <2>2, WorksOnRefuse
<1>3. ASSUME NEW w \in Workers, NEW e \in Estates, NEW h,
             NEW then \in Lasting, GetProperty(w, h, e, then)
      PROVE  Moved(w) /\ RefusesAlone(w)
  <2>1. then \in PlainAfters
    BY LastingAfters
  <2>2. /\ Moved(w) /\ UNCHANGED listing /\ job'[w] = Work({e}, listing[e], then)
        /\ pc'[w] = IF Unregistered(listing[e]) THEN "anchor" ELSE "then"
    BY <1>3, <2>1, GetPropertyKeeps
  <2>3. job'[w].then = then
    BY <2>2 DEF Work
  <2>4. QED
    BY <2>2, <2>3, WorksOnRefuse
<1>4. ASSUME NEW w \in Workers, NEW e \in Estates,
             \/ GetProperty(w, "get_property", e, Nothing)
             \/ \E l \in Locations : UpdateProperty(w, e, l)
             \/ ArchiveProperty(w, e)
             \/ DeleteProperty(w, e)
      PROVE  Moved(w) /\ RefusesAlone(w)
  BY <1>3, <1>4 DEF UpdateProperty, ArchiveProperty, DeleteProperty, Lasting
<1>5. ASSUME NEW w \in Workers, NEW e \in Estates
      PROVE  ~RestoreProperty(w, e) /\ \A d \in Decisions : ~KccaDecide(w, e, d)
  BY <1>1 DEF RestoreProperty, KccaDecide, Ready, Served
<1>6. ASSUME NEW w \in Workers, AnchorListing(w)
      PROVE  Moved(w) /\ RefusesAlone(w)
  <2>1. /\ Moved(w) /\ UNCHANGED listing /\ pc[w] \in Working
        /\ \/ pc'[w] = "idle"
           \/ pc'[w] = "reload" /\ job'[w] = job[w]
           \/ /\ pc'[w] \in {"mint", "wallet"} /\ job'[w] = job[w]
              /\ ~Duplicate(job[w].seen.loc, job[w].ids)
    BY <1>6, AnchorListingKeeps DEF AnchorListing, Working
  <2>2. job[w].then \in Lasting
    BY <2>1 DEF RefusingSession
  <2>3. CASE pc'[w] = "idle"
    BY <2>1, <2>3, SameRefusing, AnsweredRefuses
  <2>4. CASE pc'[w] # "idle"
    BY <2>1, <2>2, <2>4, WorksOnRefuse
  <2>5. QED
    BY <2>3, <2>4
<1>7. ASSUME NEW w \in Workers, Die(w), UNCHANGED listingVars
      PROVE  Moved(w) /\ RefusesAlone(w)
  BY <1>7, ListDieKeeps, SameRefusing, AnsweredRefuses
<1>8. ASSUME NEW w \in Workers, NEW stored \in BOOLEAN, MintIdentity(w, stored)
      PROVE  Moved(w) /\ RefusesAlone(w)
  BY <1>8, MintIdentityKeeps, MintsRefuse
<1>9. ASSUME NEW w \in Workers, EnsureWallet(w) \/ Reload(w) \/ StoreListing(w)
      PROVE  Moved(w) /\ RefusesAlone(w)
  BY <1>9, EnsureWalletKeeps, WalletsRefuse, ReloadKeeps, ReloadsRefuse, StoreListingKeeps,
     StoresRefuse
<1>10. QED
  BY <1>2, <1>4, <1>5, <1>6, <1>7, <1>8, <1>9 DEF ListingsNext

LEMMA RefusingStep ==
    ASSUME ListInv, SerialInv, RefusingInv, ListingsNext, UNCHANGED load
    PROVE  RefusingInv'
<1>1. SUFFICES ASSUME Refusing
               PROVE  RefusingRows' /\ \A v \in Workers : RefusingSession(v)'
  BY DEF RefusingInv, Refusing
<1>2. PICK w \in Workers : Moved(w) /\ RefusesAlone(w)
  BY <1>1, ListingsNextKeeps, DrawnGrows, ListingsNextRefuses DEF RefusingInv, SerialInv, Refusing
<1>3. ASSUME NEW v \in Workers, v # w PROVE RefusingSession(v)'
  BY <1>1, <1>2, <1>3 DEF Moved, Busy, RefusingSession, Working, Refusing
<1>4. QED
  BY <1>2, <1>3 DEF RefusesAlone

LEMMA ListSame ==
    ASSUME ListPart, UNCHANGED <<requests, listingVars>>
    PROVE  ListPart'
<1>1. UNCHANGED <<load, pc, job, listing, wallet, drawn>>
  BY DEF requests, listingVars
<1>2. CASE load.part = "listings"
  <2>1. Frame' /\ Alone' /\ ListingsTypeOK' /\ RowsHaveLinks'
    BY <1>1, <1>2 DEF ListPart, ListInv, Frame, Alone, Busy, ListingsTypeOK, RowsHaveLinks, Listed
  <2>2. RulingsAreNew'
    BY <1>1, <1>2 DEF ListPart, ListInv, RulingsAreNew, Rules, Ruling, Listed
  <2>3. \A w \in Workers : ListSession(w)'
    BY <1>1, <1>2 DEF ListPart, ListInv, ListSession, Listed
  <2>4. SerialInv'
    BY <1>1, <1>2 DEF ListPart, SerialInv, SerialSession, Packets, Listed
  <2>5. RefusingInv'
    BY <1>1, <1>2 DEF ListPart, RefusingInv, RefusingSession, RefusingRows, SameIdentity, Refusing,
                      Duplicate, Listed, Unregistered
  <2>6. QED
    BY <1>1, <1>2, <2>1, <2>2, <2>3, <2>4, <2>5 DEF ListPart, ListInv
<1>3. CASE load.part # "listings"
  BY <1>1, <1>3 DEF ListPart, NothingListed
<1>4. QED
  BY <1>2, <1>3

LEMMA ListStarts ==
    ASSUME Init
    PROVE  ListPart
<1>1. Frame /\ \A w \in Workers : pc[w] = "idle"
  BY DEF Init, RequestsInit, Frame
<1>2. CASE load.part = "listings"
  <2>1. /\ listing \in [Estates -> {NoListing} \cup {NewListing(o, l) : o \in Owners, l \in Locations}]
        /\ wallet \subseteq Owners /\ drawn = 0
    BY DEF Init, ListingsInit
  <2>2. \A e \in Estates : listing[e] = NoListing
                           \/ \E o \in Owners, l \in Locations : listing[e] = NewListing(o, l)
    BY <2>1
  <2>3. \A e \in Estates : listing[e] = NoListing
                           \/ /\ listing[e] \in ListingRow
                              /\ listing[e].identity = NoIdentity /\ listing[e].token = 0
                              /\ listing[e].packet.decision = listing[e].gov
    BY <2>2, NewListingIsARow
  <2>4. ListingsTypeOK
    BY <2>1, <2>3, DrawnAssumption DEF ListingsTypeOK, Draw
  <2>5. RowsHaveLinks /\ Packets
    BY <2>1, <2>3, ListingRowShapes
       DEF RowsHaveLinks, Packets, Listed
  <2>6. RefusingRows
    BY <2>1, <2>3, HashesDiffer, ListingRowShapes
       DEF RefusingRows, DrawnManifest, SameIdentity, Unregistered, Listed
  <2>7. \A w \in Workers : ~Rules(w) /\ ~Busy(w)
    BY <1>1 DEF Rules, Busy
  <2>8. \A w \in Workers : ListSession(w) /\ SerialSession(w) /\ RefusingSession(w)
    BY <1>1 DEF ListSession, SerialSession, RefusingSession, Working
  <2>9. QED
    BY <1>1, <1>2, <2>4, <2>5, <2>6, <2>7, <2>8
       DEF ListPart, ListInv, SerialInv, RefusingInv, RulingsAreNew, Alone
<1>3. CASE load.part # "listings"
  BY <1>3 DEF Init, ListingsInit, ListPart, NothingListed
<1>4. QED
  BY <1>2, <1>3

LEMMA ListStep ==
    ASSUME ListPart, [Next]_vars
    PROVE  ListPart' /\ (~load.overlap => Keeps \/ UNCHANGED listingVars)
<1>1. CASE Next /\ load.part = "listings"
  <2>1. ListingsNext /\ UNCHANGED load
    BY <1>1 DEF Next
  <2>2. QED
    BY <1>1, <2>1, ListingsNextKeeps, SerialStep, RefusingStep DEF ListPart
<1>2. CASE Next /\ load.part # "listings"
  BY <1>2 DEF Next, Except, ListPart, NothingListed, listingVars
<1>3. CASE UNCHANGED vars
  BY <1>3, ListSame DEF vars
<1>4. QED
  BY <1>1, <1>2, <1>3

LEMMA ListingsInvariant == Spec => []ListPart
BY ListStarts, ListStep, PTL DEF Spec

\* Whatever requests overlap and die, the page that a listing on the market
\* links to finds that listing and accepts it, and one request at a time its
\* packet is of the decision in force (identity_public_fields,
\* anchor_property_decision).
THEOREM ListingsAlwaysVerify == Spec => []ListingsVerify
<1>1. ASSUME ListPart
      PROVE  ListingsVerify
  <2>1. CASE load.part = "listings"
    BY <1>1, <2>1 DEF ListPart, ListInv, SerialInv, RowsHaveLinks, Packets, ListingsVerify,
                      MarketListingsVerify, PacketIsOfTheStatus, OnMarket, Verifies
  <2>2. CASE load.part # "listings"
    BY <1>1, <2>2, ListingRowShapes DEF ListPart, NothingListed, ListingsVerify,
                      MarketListingsVerify, PacketIsOfTheStatus, OnMarket, Listed
  <2>3. QED
    BY <2>1, <2>2
<1>2. QED
  BY <1>1, ListingsInvariant, PTL

\* One request at a time, a listing keeps its identity and its link through
\* edits, decisions, archiving and creations that died halfway
\* (ensure_listing_identity_if_missing).
THEOREM IdentitiesAreKept == Spec => IdentityIsKept
<1>1. ASSUME ListPart, [Next]_vars
      PROVE  [~load.overlap =>
                \A e \in Estates :
                    Listed(e) /\ listing'[e].row =>
                        /\ listing[e].identity # NoIdentity =>
                               listing'[e].identity = listing[e].identity
                        /\ listing[e].token # 0 => listing'[e].token = listing[e].token]_listingVars
  BY <1>1, ListStep DEF Keeps
<1>2. QED
  BY <1>1, ListingsInvariant, PTL DEF Spec, IdentityIsKept

\* One request at a time, and where no archived listing becomes active again, no
\* two active listings have one identity, whichever manifests could be stored
\* and however creations die (find_duplicate_listing, anchor_listing_identity).
THEOREM IdentitiesAreAlwaysUnique == Spec => []IdentitiesAreUnique
<1>1. ASSUME ListPart
      PROVE  IdentitiesAreUnique
  <2>1. CASE load.part = "listings"
    BY <1>1, <2>1 DEF ListPart, RefusingInv, Refusing, RefusingRows, IdentitiesAreUnique
  <2>2. CASE load.part # "listings"
    BY <1>1, <2>2, ListingRowShapes DEF ListPart, NothingListed, IdentitiesAreUnique, SameIdentity,
                                        Listed
  <2>3. QED
    BY <2>1, <2>2
<1>2. QED
  BY <1>1, ListingsInvariant, PTL
-----------------------------------------------------------------------------
(* Receipts.                                                               *)

LEMMA ReceiptsNameAPayment ==
    ASSUME ReceiptsTypeOK, NEW n \in Numbers
    PROVE  /\ Taken(n) => receipt[n] \in ReceiptRow /\ receipt[n].payment \in Payments
           /\ \A p \in Payments : receipt[n].payment = p => Taken(n)
           /\ \A r \in ReceiptRow : r # NoReceipt
BY ReceiptAssumption DEF ReceiptsTypeOK, Taken, ReceiptRow, NoReceipt

LEMMA NumberShapes ==
    /\ Cardinality(Payments) \in Nat
    /\ \A n \in Numbers : /\ n[1] \in Prefixes /\ n[2] \in Years
                          /\ n[3] \in 1 .. Cardinality(Payments)
                          /\ n = <<n[1], n[2], n[3]>>
    /\ \A x \in Prefixes, y \in Years, i \in 1 .. Cardinality(Payments) :
          /\ <<x, y, i>> \in Numbers
          /\ <<x, y, i>>[1] = x /\ <<x, y, i>>[2] = y /\ <<x, y, i>>[3] = i
    /\ \A x, y, i : <<x, y, i>> \in Numbers =>
          x \in Prefixes /\ y \in Years /\ i \in 1 .. Cardinality(Payments)
<1>1. Cardinality(Payments) \in Nat
  BY FS_CardinalityType, ReceiptAssumption
<1>2. QED
  BY <1>1 DEF Numbers

\* They are as many as payments at most, and one that has no receipt is not
\* among those.
LEMMA ReceiptsAreCounted ==
    ASSUME ReceiptsTypeOK, ReceiptRows, NEW x, NEW y, NEW P \in SUBSET Payments,
           \A n \in Numbers : Taken(n) => receipt[n].payment \in P
    PROVE  /\ IsFiniteSet(Counted(x, y)) /\ Cardinality(Counted(x, y)) \in Nat
           /\ Cardinality(Counted(x, y)) <= Cardinality(P)
<1> DEFINE D == Counted(x, y)
           f == [n \in D |-> receipt[n].payment]
<1>1. \A n \in D : n \in Numbers /\ Taken(n)
  BY DEF Counted
<1>2. f \in [D -> P]
  BY <1>1
<1>3. \A m, n \in D : f[m] = f[n] => m = n
  BY <1>1 DEF ReceiptRows
<1>4. f \in Injection(D, P)
  BY <1>2, <1>3 DEF Injection, IsInjective
<1>5. IsFiniteSet(P)
  BY FS_Subset, ReceiptAssumption
<1> HIDE DEF f, D
<1>6. IsFiniteSet(D) /\ Cardinality(D) <= Cardinality(P)
  BY <1>4, <1>5, FS_Injection
<1>7. Cardinality(D) \in Nat
  BY <1>6, FS_CardinalityType
<1>8. QED
  BY <1>6, <1>7 DEF D

\* Counting finds the first number that is free.
LEMMA CountingFindsTheFirst ==
    ASSUME ReceiptsTypeOK, ReceiptRows, NEW x \in Prefixes, NEW y \in Years,
           NEW c, c = Cardinality(Counted(x, y))
    PROVE  /\ \A i \in 1 .. c : i <= Cardinality(Payments) /\ Taken(<<x, y, i>>)
           /\ c + 1 <= Cardinality(Payments) => ~Taken(<<x, y, c + 1>>)
<1> DEFINE D == Counted(x, y)
           N == Cardinality(Payments)
<1>1. IsFiniteSet(D) /\ c \in Nat /\ c <= N
  BY ReceiptsAreCounted, ReceiptsNameAPayment
<1>2. N \in Nat
  BY NumberShapes
<1>3. \A n \in D : n \in Numbers /\ n[1] = x /\ n[2] = y /\ Taken(n)
  BY DEF Counted
<1>4. \A i \in 1 .. N : Taken(<<x, y, i>>) => <<x, y, i>> \in D
  BY NumberShapes DEF Counted
<1> HIDE DEF D, N
<1>5. ASSUME NEW i \in 1 .. c PROVE Taken(<<x, y, i>>)
  <2>1. SUFFICES ASSUME ~Taken(<<x, y, i>>) PROVE FALSE
    OBVIOUS
  <2>2. \A n \in D : n[3] \in 1 .. N /\ n = <<x, y, n[3]>> /\ Below(n)
    BY <1>3, NumberShapes DEF ReceiptRows, N
  <2>3. \A n \in D : n[3] \in 1 .. i - 1
    <3>1. ASSUME NEW n \in D PROVE n[3] \in 1 .. i - 1
      <4>1. n[3] # i
        BY <1>3, <2>1, <2>2
      <4>2. ~(i \in 1 .. n[3] - 1)
        BY <1>3, <2>1, <2>2 DEF Below
      <4>3. QED
        BY <1>1, <1>2, <2>2, <4>1, <4>2
    <3>2. QED
      BY <3>1
  <2> DEFINE g == [n \in D |-> n[3]]
  <2>4. g \in Injection(D, 1 .. i - 1)
    BY <2>2, <2>3 DEF Injection, IsInjective
  <2> HIDE DEF g
  <2>5. IsFiniteSet(1 .. i - 1) /\ Cardinality(1 .. i - 1) = i - 1
    <3>1. ASSUME NEW k \in Nat PROVE IsFiniteSet(1 .. k) /\ Cardinality(1 .. k) = k
      BY FS_Interval
    <3>2. i - 1 \in Nat
      BY <1>1
    <3>3. QED
      BY <3>1, <3>2
  <2>6. Cardinality(D) <= i - 1
    BY <2>4, <2>5, FS_Injection
  <2>7. QED
    BY <1>1, <2>6 DEF D
<1>6. ASSUME c + 1 <= N, Taken(<<x, y, c + 1>>) PROVE FALSE
  <2>1. <<x, y, c + 1>> \in D
    BY <1>1, <1>2, <1>4, <1>6
  <2> DEFINE h == [i \in 1 .. c + 1 |-> <<x, y, i>>]
  <2>2. \A i \in 1 .. c + 1 : <<x, y, i>> \in D
    BY <1>1, <1>2, <1>4, <1>5, <2>1, <1>6
  <2>3. h \in Injection(1 .. c + 1, D)
    BY <2>2 DEF Injection, IsInjective
  <2> HIDE DEF h
  <2>4. Cardinality(1 .. c + 1) <= Cardinality(D)
    BY <1>1, <2>3, FS_Injection
  <2>5. Cardinality(1 .. c + 1) = c + 1
    BY <1>1, FS_Interval
  <2>6. QED
    BY <1>1, <2>4, <2>5 DEF D
<1>7. QED
  BY <1>1, <1>2, <1>5, <1>6 DEF N

\* A payment that has no receipt is given the first free number.
LEMMA NextNumberIsTheFirst ==
    ASSUME ReceiptsTypeOK, ReceiptRows, NEW p \in Payments, ~Receipted(p), NEW m \in Methods
    PROVE  LET n == NextReceiptNumber(m) IN
           n \in Numbers /\ n[1] = PrefixOf[m] /\ ~Taken(n) /\ Below(n)
<1> DEFINE x == PrefixOf[m]
           c == Cardinality(Counted(x, year))
           P == Payments \ {p}
<1>1. x \in Prefixes /\ year \in Years
  BY DEF Prefixes, ReceiptsTypeOK
<1>2. \A n \in Numbers : Taken(n) => receipt[n].payment \in P
  BY ReceiptsNameAPayment DEF Receipted
<1>3. c \in Nat /\ c <= Cardinality(P)
  BY <1>2, ReceiptsAreCounted
<1>4. Cardinality(P) = Cardinality(Payments) - 1
  BY FS_RemoveElement, ReceiptAssumption
<1>5. NextReceiptNumber(m) = <<x, year, 1 + c>>
  BY DEF NextReceiptNumber, Counted
<1> HIDE DEF x, c, P
<1>6. 1 + c \in 1 .. Cardinality(Payments) /\ 1 + c = c + 1
  BY <1>3, <1>4, NumberShapes
<1>7. <<x, year, 1 + c>> \in Numbers
  BY <1>1, <1>6, NumberShapes
<1>8. /\ \A i \in 1 .. c : Taken(<<x, year, i>>)
      /\ ~Taken(<<x, year, 1 + c>>)
  BY <1>1, <1>6, CountingFindsTheFirst DEF c
<1>9. QED
  BY <1>3, <1>5, <1>7, <1>8 DEF Below, x

LEMMA FreeNumbers ==
    ASSUME ReceiptsTypeOK, ReceiptRows
    PROVE  NextReceiptNumberIsFree
<1>1. ASSUME NEW m \in Methods, NextReceiptNumber(m) \in Numbers
      PROVE  ~Taken(NextReceiptNumber(m))
  <2> DEFINE x == PrefixOf[m]
             c == Cardinality(Counted(x, year))
  <2>1. x \in Prefixes /\ year \in Years
    BY DEF Prefixes, ReceiptsTypeOK
  <2>2. NextReceiptNumber(m) = <<x, year, 1 + c>>
    BY DEF NextReceiptNumber, Counted
  <2>3. c \in Nat
    BY ReceiptsAreCounted, ReceiptsNameAPayment
  <2> HIDE DEF x, c
  <2>4. 1 + c \in 1 .. Cardinality(Payments)
    BY <1>1, <2>2, NumberShapes
  <2>5. c + 1 <= Cardinality(Payments) /\ 1 + c = c + 1
    BY <2>3, <2>4, NumberShapes
  <2>6. QED
    BY <2>1, <2>2, <2>5, CountingFindsTheFirst DEF c
<1>2. QED
  BY <1>1 DEF NextReceiptNumberIsFree

-----------------------------------------------------------------------------
(* What a step leaves of the sessions and the rows.                        *)

LEMMA SessionStays ==
    ASSUME ReceiptInv, PaymentsKept, UNCHANGED <<load, receipt>>,
           NEW v \in Workers, pc'[v] = pc[v], job'[v] = job[v]
    PROVE  ReceiptSession(v)'
BY DEF ReceiptInv, ReceiptSession, PaymentsKept, Receipted, Below, Taken, Fixed, Receipting

LEMMA RowsStay ==
    ASSUME ReceiptInv, PaymentsKept, UNCHANGED <<load, receipt>>
    PROVE  ReceiptRows'
<1>1. ReceiptRows /\ ReceiptsTypeOK
  BY DEF ReceiptInv
<1>2. \A p \in Payments : payment'[p].row = "absent" => ~Receipted(p)'
  BY <1>1 DEF ReceiptRows, PaymentsKept, Receipted
<1>3. \A n \in Numbers : Taken(n) => payment[receipt[n].payment].row # "absent"
                                     /\ receipt[n].payment \in Payments
  BY <1>1, ReceiptsNameAPayment DEF ReceiptRows, Receipted
<1>4. Fixed => \A n \in Numbers : Taken(n) => ReceiptVerifies(n)'
  BY <1>1, <1>3 DEF ReceiptRows, PaymentsKept, ReceiptVerifies, Taken
<1>5. QED
  BY <1>1, <1>2, <1>4 DEF ReceiptRows, Below, Taken, Fixed

\* A step of w that takes no number; a payment that w goes on to receipt was
\* its own or had not been made, and a number that it goes on to hold was its
\* own or nobody's.
LEMMA ReceiptMoves ==
    ASSUME ReceiptInv, NEW w \in Workers, Moved(w), ReceiptsTypeOK', PaymentsKept,
           UNCHANGED receipt, ReceiptSession(w)',
           pc'[w] \in Receipting =>
              \/ pc[w] \in Receipting /\ job'[w].payment = job[w].payment
              \/ payment[job'[w].payment].row = "absent",
           pc'[w] \in Holding =>
              \/ pc[w] \in Holding /\ job'[w].number = job[w].number
              \/ \A v \in Workers : ~Holds(v, job'[w].number)
    PROVE  ReceiptInv'
<1>1. \A v \in Workers : v # w => pc'[v] = pc[v] /\ job'[v] = job[v]
  BY DEF Moved
<1>2. \A v \in Workers : ReceiptSession(v)'
  BY <1>1, SessionStays DEF Moved
<1>3. ReceiptRows'
  BY RowsStay DEF Moved
<1>4. ASSUME NEW v \in Workers, v # w
      PROVE  /\ pc'[v] \in Receipting /\ pc'[w] \in Receipting => job'[v].payment # job'[w].payment
             /\ pc'[v] \in Holding /\ pc'[w] \in Holding => job'[v].number # job'[w].number
  <2>1. ReceiptSession(v) /\ OnePaymentEach
    BY DEF ReceiptInv
  <2>2. pc'[v] = pc[v] /\ job'[v] = job[v]
    BY <1>1, <1>4
  <2>3. pc'[v] \in Receipting /\ pc'[w] \in Receipting => job'[v].payment # job'[w].payment
    BY <1>4, <2>1, <2>2 DEF OnePaymentEach, ReceiptSession
  <2>4. pc'[v] \in Holding /\ pc'[w] \in Holding => job'[v].number # job'[w].number
    BY <1>4, <2>1, <2>2 DEF OnePaymentEach, Holds, Holding
  <2>5. QED
    BY <2>3, <2>4
<1>5. OnePaymentEach'
  BY <1>1, <1>4 DEF OnePaymentEach, ReceiptInv
<1>6. QED
  BY <1>2, <1>3, <1>5, MovedAlone DEF ReceiptInv, Moved

LEMMA ReceiptStands ==
    ASSUME ReceiptInv, Still, ReceiptsTypeOK', PaymentsKept, UNCHANGED receipt
    PROVE  ReceiptInv'
<1>1. \A v \in Workers : ReceiptSession(v)'
  BY SessionStays DEF Still
<1>2. ReceiptRows'
  BY RowsStay DEF Still
<1>3. OnePaymentEach'
  BY DEF OnePaymentEach, ReceiptInv, Still
<1>4. QED
  BY <1>1, <1>2, <1>3, StillAlone DEF ReceiptInv, Still

\* What a step of the workers of a set leaves accounted for.
LEMMA AccountsStay ==
    ASSUME ReceiptInv, AllAccounted, ~load.fails, load' = load, PaymentsKept,
           NEW W \in SUBSET Workers,
           \A v \in Workers : v \notin W => pc'[v] = pc[v] /\ job'[v] = job[v],
           \A n \in Numbers : Taken(n) => receipt'[n] = receipt[n],
           \A p \in Payments : payment'[p].row = "live" =>
              payment[p].row = "live" \/ Accounted(p)',
           \A w \in W : \A p \in Payments : pc[w] \in Receipting /\ job[w].payment = p =>
              payment'[p].row # "live" \/ Accounted(p)',
           \A r \in mailed' : r \in mailed \/ MailStands(r)',
           \A w \in W : pc[w] = "commit_receipt" => receipt'[job[w].number] = job[w].row
    PROVE  AllAccounted'
<1>1. ASSUME NEW p \in Payments, payment'[p].row = "live", payment[p].row = "live"
      PROVE  Accounted(p)'
  <2>1. Accounted(p)
    BY <1>1 DEF AllAccounted
  <2>2. CASE Receipted(p)
    BY <2>2, ReceiptsNameAPayment DEF Receipted, Accounted, ReceiptInv
  <2>3. CASE LostNumber(p)
    <3>1. Fixed => payment'[p].method = payment[p].method
      BY <1>1 DEF PaymentsKept
    <3>2. \A n \in Numbers : Taken(n) => Taken(n)'
      BY DEF Taken
    <3>3. LostNumber(p)'
      BY <2>3, <3>1, <3>2 DEF LostNumber, Fixed
    <3>4. QED
      BY <3>3 DEF Accounted
  <2>4. ASSUME NEW w \in Workers, pc[w] \in Receipting, job[w].payment = p
        PROVE  Accounted(p)'
    <3>1. CASE w \in W
      BY <1>1, <2>4, <3>1
    <3>2. CASE w \notin W
      BY <2>4, <3>2 DEF Accounted
    <3>3. QED
      BY <3>1, <3>2
  <2>5. QED
    BY <2>1, <2>2, <2>3, <2>4 DEF Accounted
<1>2. ASSUME NEW r \in mailed' PROVE MailStands(r)'
  <2>1. SUFFICES ASSUME r \in mailed PROVE MailStands(r)'
    BY <1>2
  <2>2. r[1] \in Numbers /\ r[2] \in ReceiptRow
    BY <2>1 DEF ReceiptInv, ReceiptsTypeOK
  <2>3. CASE receipt[r[1]] = r[2]
    BY <2>2, <2>3, ReceiptsNameAPayment DEF ReceiptInv, Taken, MailStands
  <2>4. ASSUME NEW w \in Workers, pc[w] = "commit_receipt", job[w].number = r[1], job[w].row = r[2]
        PROVE  MailStands(r)'
    BY <2>4 DEF MailStands
  <2>5. QED
    BY <2>1, <2>3, <2>4 DEF MailStands, AllAccounted
<1>3. QED
  BY <1>1, <1>2 DEF AllAccounted

LEMMA MovedAccounts ==
    ASSUME ReceiptInv, AllAccounted, ~load.fails, NEW w \in Workers, Moved(w), PaymentsKept,
           \A n \in Numbers : Taken(n) => receipt'[n] = receipt[n],
           \A p \in Payments : payment'[p].row = "live" =>
              payment[p].row = "live" \/ Accounted(p)',
           \A p \in Payments : pc[w] \in Receipting /\ job[w].payment = p =>
              payment'[p].row # "live" \/ Accounted(p)',
           \A r \in mailed' : r \in mailed \/ MailStands(r)',
           pc[w] = "commit_receipt" => receipt'[job[w].number] = job[w].row
    PROVE  AllAccounted'
<1>1. /\ {w} \in SUBSET Workers /\ load' = load
      /\ \A v \in Workers : v \notin {w} => pc'[v] = pc[v] /\ job'[v] = job[v]
      /\ \A v \in {w} : v = w
  BY DEF Moved
<1>2. /\ \A v \in {w} : \A p \in Payments : pc[v] \in Receipting /\ job[v].payment = p =>
              payment'[p].row # "live" \/ Accounted(p)'
      /\ \A v \in {w} : pc[v] = "commit_receipt" => receipt'[job[v].number] = job[v].row
  BY <1>1
<1> DEFINE W == {w}
<1> HIDE DEF W
<1>3. QED
  BY <1>1, <1>2, AccountsStay DEF W

LEMMA StillAccounts ==
    ASSUME ReceiptInv, AllAccounted, ~load.fails, Still, PaymentsKept, receipt' = receipt,
           \A p \in Payments : payment'[p].row = "live" => payment[p].row = "live",
           \A r \in mailed' : r \in mailed \/ MailStands(r)'
    PROVE  AllAccounted'
<1> DEFINE W == {}
<1>1. W \in SUBSET Workers /\ \A v \in W : FALSE
  OBVIOUS
<1> HIDE DEF W
<1>2. load' = load /\ \A v \in Workers : pc'[v] = pc[v] /\ job'[v] = job[v]
  BY DEF Still
<1>3. QED
  BY <1>1, <1>2, AccountsStay

-----------------------------------------------------------------------------
(* The steps of receipts.                                                  *)

LEMMA PaymentMadeKeeps ==
    ASSUME ReceiptInv, NEW w \in Workers, NEW p \in Payments, NEW m \in Methods,
           NEW a \in Amounts, NEW notify \in BOOLEAN, ~Busy(w),
           load.overlap \/ \A v \in Workers : ~Busy(v), PaymentMade(w, p, m, a, notify)
    PROVE  ReceiptInv' /\ (AllAccounted => AllAccounted')
<1> DEFINE row == [row |-> "live", method |-> m, amount |-> a]
           j == [payment |-> p, notify |-> notify]
<1>1. /\ Moved(w) /\ pc'[w] = "number" /\ job'[w] = j
      /\ UNCHANGED <<receipt, mailed, credited, year>>
      /\ payment[p].row = "absent" /\ payment' = [payment EXCEPT ![p] = row]
  BY GotoMoves DEF PaymentMade, ReceiptInv
<1>2. row \in PaymentRow /\ row.row = "live"
  BY DEF PaymentRow
<1>3. j.payment = p /\ j.notify = notify
  OBVIOUS
<1> HIDE DEF row, j
<1>4. \A q \in Payments : payment'[q] = IF q = p THEN row ELSE payment[q]
  BY <1>1 DEF ReceiptInv, ReceiptsTypeOK
<1>5. ReceiptsTypeOK'
  BY <1>1, <1>2 DEF ReceiptInv, ReceiptsTypeOK
<1>6. PaymentsKept
  BY <1>1, <1>4 DEF PaymentsKept
<1>7. ~Receipted(p)'
  BY <1>1 DEF ReceiptInv, ReceiptRows, Receipted
<1>8. ReceiptSession(w)'
  <2>1. payment'[p].row # "absent"
    BY <1>2, <1>4
  <2>2. ~Receipted(p)'
    BY <1>7
  <2>3. QED
    BY <1>1, <1>3, <2>1, <2>2 DEF ReceiptSession, Receipting, Holding, Receipted
<1>9. ReceiptInv'
  BY <1>1, <1>3, <1>5, <1>6, <1>8, ReceiptMoves DEF Holding
<1>10. ASSUME AllAccounted, ~load.fails PROVE AllAccounted'
  <2>1. Accounted(p)'
    BY <1>1, <1>3 DEF Accounted, Receipting
  <2>2. \A q \in Payments : payment'[q].row = "live" => payment[q].row = "live" \/ Accounted(q)'
    BY <1>4, <2>1
  <2>3. pc[w] = "idle"
    BY DEF Busy
  <2>4. QED
    BY <1>1, <1>6, <1>10, <2>2, <2>3, MovedAccounts DEF Receipting
<1>11. QED
  BY <1>1, <1>9, <1>10 DEF AllAccounted, Moved

LEMMA PaymentStandsKeeps ==
    ASSUME ReceiptInv, NEW p \in Payments,
           (\E m \in Methods, a \in Amounts : UpdatePayment(p, m, a)) \/ DeletePayment(p)
    PROVE  ReceiptInv' /\ (AllAccounted => AllAccounted')
<1>1. /\ Still /\ UNCHANGED <<receipt, mailed, credited, year>> /\ payment[p].row = "live"
      /\ pc' = pc /\ job' = job
  BY ServedIsStill DEF UpdatePayment, DeletePayment, ReceiptInv, Still
<1>2. payment[p] \in PaymentRow
  BY DEF ReceiptInv, ReceiptsTypeOK
<1> DEFINE Fits(row) ==
              /\ payment' = [payment EXCEPT ![p] = row]
              /\ row.row # "absent"
              /\ Fixed => row.method = payment[p].method /\ row.amount = payment[p].amount
<1>3. PICK row \in PaymentRow : Fits(row)
  <2>1. ASSUME NEW m \in Methods, NEW a \in Amounts, UpdatePayment(p, m, a)
        PROVE  \E row \in PaymentRow : Fits(row)
    <3> DEFINE row == [payment[p] EXCEPT !.method = m, !.amount = a]
    <3>1. row \in PaymentRow /\ row.row = "live"
      BY <1>1, <1>2 DEF PaymentRow
    <3>2. ~Fixed
      BY <2>1 DEF UpdatePayment, Served, Uses, Fixed
    <3>3. payment' = [payment EXCEPT ![p] = row]
      <4>1. payment' = [payment EXCEPT ![p].method = m, ![p].amount = a]
        BY <2>1 DEF UpdatePayment
      <4>2. QED
        BY <4>1 DEF ReceiptInv, ReceiptsTypeOK
    <3>4. QED
      BY <3>1, <3>2, <3>3
  <2>2. ASSUME DeletePayment(p)
        PROVE  \E row \in PaymentRow : Fits(row)
    <3> DEFINE row == [payment[p] EXCEPT !.row = "deleted"]
    <3>1. row \in PaymentRow /\ row.row = "deleted"
          /\ row.method = payment[p].method /\ row.amount = payment[p].amount
      BY <1>2 DEF PaymentRow
    <3>2. payment' = [payment EXCEPT ![p] = row]
      BY <2>2 DEF DeletePayment
    <3>3. QED
      BY <3>1, <3>2
  <2> HIDE DEF Fits
  <2>3. QED
    BY <2>1, <2>2
<1>4. \A q \in Payments : payment'[q] = IF q = p THEN row ELSE payment[q]
  BY <1>3 DEF ReceiptInv, ReceiptsTypeOK
<1>5. PaymentsKept
  BY <1>3, <1>4 DEF PaymentsKept
<1>6. ReceiptsTypeOK'
  BY <1>1, <1>3 DEF ReceiptInv, ReceiptsTypeOK
<1>7. ReceiptInv'
  BY <1>1, <1>5, <1>6, ReceiptStands
<1>8. \A q \in Payments : payment'[q].row = "live" => payment[q].row = "live"
  BY <1>1, <1>4
<1>9. ASSUME AllAccounted, ~load.fails PROVE AllAccounted'
  BY <1>1, <1>5, <1>8, <1>9, StillAccounts
<1>10. QED
  BY <1>1, <1>7, <1>9 DEF AllAccounted, Still

\* Other handlers of one step.
LEMMA OthersStandKeep ==
    ASSUME ReceiptInv, (\E n \in Numbers : EmailReceipt(n)) \/ NewYear
    PROVE  ReceiptInv' /\ (AllAccounted => AllAccounted')
<1>1. Still /\ UNCHANGED <<payment, receipt, credited>> /\ pc' = pc /\ job' = job
  BY ServedIsStill DEF EmailReceipt, NewYear, ReceiptInv, Still
<1>2. /\ mailed' \subseteq Numbers \X ReceiptRow /\ year' \in Years
      /\ \A r \in mailed' : r \in mailed \/ receipt'[r[1]] = r[2]
  <2>1. ASSUME NEW n \in Numbers, EmailReceipt(n) PROVE <1>2
    BY <2>1, ReceiptsNameAPayment DEF EmailReceipt, ReceiptInv, ReceiptsTypeOK
  <2>2. CASE NewYear
    BY <2>2, ReceiptAssumption DEF NewYear, ReceiptInv, ReceiptsTypeOK, Years
  <2>3. QED
    BY <2>1, <2>2
<1>3. PaymentsKept
  BY <1>1 DEF PaymentsKept
<1>4. ReceiptsTypeOK'
  BY <1>1, <1>2 DEF ReceiptInv, ReceiptsTypeOK
<1>5. ReceiptInv'
  BY <1>1, <1>3, <1>4, ReceiptStands
<1>6. \A r \in mailed' : r \in mailed \/ MailStands(r)'
  BY <1>2 DEF MailStands
<1>7. ASSUME AllAccounted, ~load.fails PROVE AllAccounted'
  BY <1>1, <1>3, <1>6, <1>7, StillAccounts
<1>8. QED
  BY <1>1, <1>5, <1>7 DEF AllAccounted, Still

LEMMA AfterReceiptMoves ==
    ASSUME Frame, Alone, NEW w \in Workers, AfterReceipt(w), Busy(w)
    PROVE  /\ Moved(w)
           /\ pc'[w] = "idle" \/ (pc'[w] = "credit" /\ job'[w] = job[w])
BY GotoMoves, RespondMoves DEF AfterReceipt

\* A request that is done with the receipt has no number left.
LEMMA DoneWithReceipt ==
    ASSUME ReceiptInv, NEW w \in Workers, Moved(w), UNCHANGED <<payment, receipt>>,
           mailed' = mailed, credited' \subseteq Payments, year' = year,
           pc'[w] = "idle" \/ (pc'[w] = "credit" /\ job'[w] = job[w] /\ pc[w] \in Receipting)
    PROVE  ReceiptInv' /\ PaymentsKept
<1>1. PaymentsKept /\ ReceiptsTypeOK'
  BY DEF PaymentsKept, ReceiptInv, ReceiptsTypeOK
<1>2. ReceiptSession(w)'
  BY DEF ReceiptInv, ReceiptSession, Receipting, Holding
<1>3. pc'[w] \notin Receipting /\ pc'[w] \notin Holding
  BY DEF Receipting, Holding
<1>4. QED
  BY <1>1, <1>2, <1>3, ReceiptMoves

LEMMA NumberReceiptKeeps ==
    ASSUME ReceiptInv, NEW w \in Workers, NumberReceipt(w)
    PROVE  ReceiptInv' /\ (AllAccounted => AllAccounted')
<1> DEFINE p == job[w].payment
           n == NextReceiptNumber(payment[p].method)
           j == [payment |-> p, notify |-> job[w].notify, number |-> n,
                 row |-> [payment |-> p, amount |-> payment[p].amount]]
<1>1. /\ pc[w] = "number" /\ Busy(w) /\ pc[w] \in Receipting
      /\ UNCHANGED <<payment, receipt, mailed, credited, year>>
      /\ Frame /\ Alone
  BY DEF NumberReceipt, Busy, Receipting, receiptVars, ReceiptInv
<1>2. /\ p \in Payments /\ job[w].notify \in BOOLEAN /\ payment[p].row # "absent" /\ ~Receipted(p)
      /\ payment[p] \in PaymentRow
  BY <1>1 DEF ReceiptInv, ReceiptSession, ReceiptsTypeOK
<1>3. CASE AfterReceipt(w) /\ payment[p].row = "deleted"
  <2>1. Moved(w) /\ (pc'[w] = "idle" \/ (pc'[w] = "credit" /\ job'[w] = job[w]))
    BY <1>1, <1>3, AfterReceiptMoves
  <2>2. ReceiptInv' /\ PaymentsKept
    BY <1>1, <2>1, DoneWithReceipt DEF ReceiptInv, ReceiptsTypeOK
  <2>3. ASSUME AllAccounted, ~load.fails PROVE AllAccounted'
    BY <1>1, <1>3, <2>1, <2>2, <2>3, MovedAccounts
  <2>4. QED
    BY <2>1, <2>2, <2>3 DEF AllAccounted, Moved
<1>4. CASE Goto(w, "flush", j)
  <2>1. Moved(w) /\ pc'[w] = "flush" /\ job'[w] = j
    BY <1>1, <1>4, GotoMoves
  <2>2. payment[p].method \in Methods /\ payment[p].amount \in Amounts
    BY <1>2 DEF PaymentRow
  <2>3. /\ n \in Numbers /\ n[1] = PrefixOf[payment[p].method] /\ ~Taken(n) /\ Below(n)
    BY <1>2, <2>2, NextNumberIsTheFirst DEF ReceiptInv
  <2>4. /\ j.payment = p /\ j.notify = job[w].notify /\ j.number = n
        /\ j.row = [payment |-> p, amount |-> payment[p].amount]
    OBVIOUS
  <2> HIDE DEF j, n
  <2>5. j.row \in ReceiptRow /\ j.row.payment = p /\ j.row.amount = payment[p].amount
    BY <1>2, <2>2, <2>4 DEF ReceiptRow
  <2>6. ReceiptSession(w)'
    <3>1. (\A k \in Numbers : receipt'[k].payment # p) /\ receipt'[n] = NoReceipt
      BY <1>1, <1>2, <2>3 DEF Receipted, Taken
    <3>2. \A i \in 1 .. n[3] - 1 : receipt'[<<n[1], n[2], i>>] # NoReceipt
      BY <1>1, <2>3 DEF Below, Taken
    <3>3. QED
      BY <1>1, <1>2, <2>1, <2>3, <2>4, <2>5, <3>1, <3>2
         DEF ReceiptSession, Holding, Receipting, Receipted, Taken, Below
  <2>7. PaymentsKept /\ ReceiptsTypeOK'
    BY <1>1 DEF PaymentsKept, ReceiptInv, ReceiptsTypeOK
  <2>8. ReceiptInv'
    BY <1>1, <2>1, <2>4, <2>6, <2>7, ReceiptMoves DEF Holding
  <2>9. ASSUME AllAccounted, ~load.fails PROVE AllAccounted'
    <3>1. \A q \in Payments : job[w].payment = q => Accounted(q)'
      BY <2>1, <2>4 DEF Accounted, Receipting
    <3>2. QED
      BY <1>1, <2>1, <2>7, <2>9, <3>1, MovedAccounts
  <2>10. QED
    BY <2>1, <2>8, <2>9 DEF AllAccounted, Moved
<1>5. QED
  BY <1>2, <1>3, <1>4 DEF NumberReceipt

LEMMA FlushReceiptKeeps ==
    ASSUME ReceiptInv, NEW w \in Workers, FlushReceipt(w)
    PROVE  ReceiptInv' /\ (AllAccounted => AllAccounted')
<1> DEFINE n == job[w].number
           p == job[w].payment
<1>1. /\ pc[w] = "flush" /\ Busy(w) /\ pc[w] \in Receipting
      /\ UNCHANGED <<payment, receipt, mailed, credited, year>>
      /\ Frame /\ Alone
      /\ \A v \in Workers : ~Holds(v, n)
  BY DEF FlushReceipt, Busy, Receipting, receiptVars, ReceiptInv
<1>2. ReceiptSession(w) /\ p \in Payments /\ n \in Numbers
  BY <1>1 DEF ReceiptInv, ReceiptSession, Receipting
<1>3. CASE Taken(n)
  <2>1. Moved(w) /\ (pc'[w] = "idle" \/ (pc'[w] = "credit" /\ job'[w] = job[w]))
    BY <1>1, <1>3, AfterReceiptMoves DEF FlushReceipt
  <2>2. ReceiptInv' /\ PaymentsKept
    BY <1>1, <2>1, DoneWithReceipt DEF ReceiptInv, ReceiptsTypeOK
  <2>3. ASSUME AllAccounted, ~load.fails PROVE AllAccounted'
    <3>1. LostNumber(p)
      BY <1>1, <1>2, <1>3 DEF ReceiptSession, LostNumber, Receipting
    <3>2. \A q \in Payments : job[w].payment = q => Accounted(q)'
      BY <1>1, <2>1, <3>1 DEF Accounted, LostNumber, Fixed, Taken, Moved
    <3>3. QED
      BY <1>1, <2>1, <2>2, <2>3, <3>2, MovedAccounts
  <2>4. QED
    BY <2>1, <2>2, <2>3 DEF AllAccounted, Moved
<1>4. CASE ~Taken(n)
  <2>1. Moved(w) /\ pc'[w] = "mail" /\ job'[w] = job[w]
    BY <1>1, <1>4, GotoMoves DEF FlushReceipt
  <2>2. ReceiptSession(w)'
    BY <1>1, <1>2, <1>4, <2>1
       DEF ReceiptSession, Receipting, Holding, Receipted, Taken, Below, Fixed, Moved
  <2>3. PaymentsKept /\ ReceiptsTypeOK'
    BY <1>1 DEF PaymentsKept, ReceiptInv, ReceiptsTypeOK
  <2>4. ReceiptInv'
    BY <1>1, <2>1, <2>2, <2>3, ReceiptMoves
  <2>5. ASSUME AllAccounted, ~load.fails PROVE AllAccounted'
    <3>1. \A q \in Payments : job[w].payment = q => Accounted(q)'
      BY <2>1 DEF Accounted, Receipting
    <3>2. QED
      BY <1>1, <2>1, <2>3, <2>5, <3>1, MovedAccounts
  <2>6. QED
    BY <2>1, <2>4, <2>5 DEF AllAccounted, Moved
<1>5. QED
  BY <1>3, <1>4

LEMMA MailReceiptKeeps ==
    ASSUME ReceiptInv, NEW w \in Workers, MailReceipt(w)
    PROVE  ReceiptInv' /\ (AllAccounted => AllAccounted')
<1>1. /\ pc[w] = "mail" /\ Busy(w) /\ pc[w] \in Receipting /\ pc[w] \in Holding
      /\ UNCHANGED <<payment, receipt, credited, year>>
      /\ Frame /\ Alone
      /\ mailed' \subseteq mailed \cup {<<job[w].number, job[w].row>>}
  BY DEF MailReceipt, Busy, Receipting, Holding, ReceiptInv
<1>2. ReceiptSession(w) /\ job[w].number \in Numbers /\ job[w].row \in ReceiptRow
  BY <1>1 DEF ReceiptInv, ReceiptSession, Receipting
<1>3. Moved(w) /\ pc'[w] = "commit_receipt" /\ job'[w] = job[w]
  BY <1>1, GotoMoves DEF MailReceipt
<1>4. ReceiptSession(w)'
  BY <1>1, <1>2, <1>3
     DEF ReceiptSession, Receipting, Holding, Receipted, Taken, Below, Fixed, Moved
<1>5. PaymentsKept /\ ReceiptsTypeOK'
  BY <1>1, <1>2 DEF PaymentsKept, ReceiptInv, ReceiptsTypeOK
<1>6. ReceiptInv'
  BY <1>1, <1>3, <1>4, <1>5, ReceiptMoves
<1>7. ASSUME AllAccounted, ~load.fails PROVE AllAccounted'
  <2>1. \A q \in Payments : job[w].payment = q => Accounted(q)'
    BY <1>3 DEF Accounted, Receipting
  <2>3. \A r \in mailed' : r \in mailed \/ MailStands(r)'
    <3>1. ASSUME NEW r, r = <<job[w].number, job[w].row>> PROVE MailStands(r)'
      BY <1>3, <3>1 DEF MailStands
    <3>2. QED
      BY <1>1, <3>1
  <2>4. QED
    BY <1>1, <1>3, <1>5, <1>7, <2>1, <2>3, MovedAccounts
<1>8. QED
  BY <1>3, <1>6, <1>7 DEF AllAccounted, Moved

\* The number committed is of no other session, and numbers before it are taken.
LEMMA CommitReceiptKeeps ==
    ASSUME ReceiptInv, NEW w \in Workers, CommitReceipt(w)
    PROVE  ReceiptInv' /\ (AllAccounted => AllAccounted')
<1> DEFINE n == job[w].number
           r == job[w].row
           p == job[w].payment
<1>1. /\ pc[w] = "commit_receipt" /\ Busy(w) /\ pc[w] \in Receipting /\ pc[w] \in Holding
      /\ UNCHANGED <<payment, mailed, credited, year>>
      /\ receipt' = [receipt EXCEPT ![n] = r]
      /\ AfterReceipt(w) /\ Frame /\ Alone
  BY DEF CommitReceipt, Busy, Receipting, Holding, ReceiptInv
<1>2. /\ ReceiptSession(w) /\ ReceiptRows /\ ReceiptsTypeOK /\ OnePaymentEach
      /\ p \in Payments /\ n \in Numbers /\ r \in ReceiptRow /\ r.payment = p
      /\ ~Taken(n) /\ Below(n) /\ ~Receipted(p) /\ payment[p].row # "absent"
      /\ Fixed => n[1] = PrefixOf[payment[p].method] /\ r.amount = payment[p].amount
  BY <1>1 DEF ReceiptInv, ReceiptSession, Receipting, Holding
<1>3. Moved(w) /\ (pc'[w] = "idle" \/ (pc'[w] = "credit" /\ job'[w] = job[w]))
  BY <1>1, AfterReceiptMoves
<1> HIDE DEF n, r, p
<1>4. \A k \in Numbers : receipt'[k] = IF k = n THEN r ELSE receipt[k]
  BY <1>1, <1>2 DEF ReceiptsTypeOK
<1>5. r # NoReceipt
  BY <1>2, ReceiptsNameAPayment
<1>6. PaymentsKept /\ ReceiptsTypeOK'
  BY <1>1, <1>2 DEF PaymentsKept, ReceiptsTypeOK
<1>7. /\ \A k \in Numbers : Taken(k) => Taken(k)' /\ receipt'[k] = receipt[k]
      /\ \A k \in Numbers : k # n => Taken(k)' = Taken(k)
      /\ receipt'[n] # NoReceipt
  BY <1>2, <1>4, <1>5 DEF Taken
<1>8. ASSUME NEW k \in Numbers, Below(k) PROVE Below(k)'
  <2>1. \A i \in 1 .. k[3] - 1 : <<k[1], k[2], i>> \in Numbers
    BY NumberShapes
  <2>2. \A i \in 1 .. k[3] - 1 : receipt'[<<k[1], k[2], i>>] # NoReceipt
    BY <1>7, <1>8, <2>1 DEF Below, Taken
  <2>3. QED
    BY <2>2 DEF Below, Taken
<1>9. ReceiptRows'
  <2>1. \A q \in Payments : payment'[q].row = "absent" => ~Receipted(q)'
    <3>1. ASSUME NEW q \in Payments, payment[q].row = "absent", NEW k \in Numbers
          PROVE  receipt'[k].payment # q
      BY <1>2, <1>4, <3>1 DEF ReceiptRows, Receipted
    <3>2. QED
      BY <1>1, <3>1 DEF Receipted
  <2>2. \A k, l \in Numbers :
           Taken(k)' /\ Taken(l)' /\ receipt'[k].payment = receipt'[l].payment => k = l
    <3>1. \A k \in Numbers : receipt[k].payment # p
      BY <1>2 DEF Receipted
    <3>2. QED
      BY <1>2, <1>4, <1>7, <3>1 DEF ReceiptRows
  <2>3. \A k \in Numbers : Taken(k)' => Below(k)'
    BY <1>2, <1>7, <1>8 DEF ReceiptRows
  <2>4. Fixed => \A k \in Numbers : Taken(k)' => ReceiptVerifies(k)'
    BY <1>1, <1>2, <1>4, <1>7 DEF ReceiptRows, ReceiptVerifies
  <2>5. QED
    BY <1>3, <2>1, <2>2, <2>3, <2>4 DEF ReceiptRows, Fixed, Moved
<1>10. ASSUME NEW v \in Workers, v # w PROVE ReceiptSession(v)'
  <2>1. pc'[v] = pc[v] /\ job'[v] = job[v] /\ ReceiptSession(v) /\ load' = load
        /\ (load.overlap \/ ~Busy(v))
    BY <1>3, <1>10 DEF Moved, ReceiptInv
  <2>2. pc[v] \in Receipting => job[v].payment # p
    BY <1>1, <1>2, <1>10 DEF OnePaymentEach, p
  <2>3. pc[v] \in Receipting => \A k \in Numbers : receipt'[k].payment # job[v].payment
    BY <1>2, <1>4, <2>1, <2>2 DEF ReceiptSession, Receipted
  <2>4. pc[v] \in Holding => job[v].number # n /\ job[v].number \in Numbers
    BY <1>1, <1>2, <1>10, <2>1 DEF OnePaymentEach, n, ReceiptSession, Holding, Receipting
  <2>5. pc[v] \in Holding \/ (pc[v] = "flush" /\ ~load.overlap) =>
           receipt'[job[v].number] = NoReceipt
    BY <1>4, <2>1, <2>4 DEF ReceiptSession, Taken, Busy
  <2>6. pc[v] \in Receipting \ {"number"} => Below(job[v].number)'
    <3>1. ASSUME pc[v] \in Receipting \ {"number"} PROVE Below(job[v].number)'
      <4>1. job[v].number \in Numbers /\ Below(job[v].number)
        BY <2>1, <3>1 DEF ReceiptSession
      <4>2. QED
        BY <1>8, <2>1, <4>1 DEF Below, Taken
    <3>2. QED
      BY <3>1
  <2>7. QED
    BY <1>1, <2>1, <2>3, <2>5, <2>6 DEF ReceiptSession, Receipted, Taken, Fixed, Below
<1>11. ReceiptSession(w)' /\ pc'[w] \notin Receipting /\ pc'[w] \notin Holding
  <2>1. pc'[w] \in {"idle", "credit"} /\ pc'[w] \notin Receipting /\ pc'[w] \notin Holding
        /\ pc'[w] # "flush"
    BY <1>3 DEF Receipting, Holding
  <2>2. pc'[w] = "credit" => job'[w].payment \in Payments
    BY <1>2, <1>3 DEF p
  <2>3. QED
    BY <2>1, <2>2 DEF ReceiptSession
<1>12. OnePaymentEach'
  BY <1>2, <1>3, <1>11 DEF OnePaymentEach, Moved
<1>13. ReceiptInv'
  BY <1>3, <1>6, <1>9, <1>10, <1>11, <1>12, MovedAlone DEF ReceiptInv, Moved
<1>14. ASSUME AllAccounted, ~load.fails PROVE AllAccounted'
  <2>1. receipt'[n].payment = p
    BY <1>2, <1>4
  <2>2. \A q \in Payments : job[w].payment = q => Accounted(q)'
    BY <1>2, <2>1 DEF Accounted, Receipted, p
  <2>3. receipt'[job[w].number] = job[w].row
    BY <1>2, <1>4 DEF n, r
  <2>4. QED
    BY <1>1, <1>3, <1>6, <1>7, <1>14, <2>2, <2>3, MovedAccounts
<1>15. QED
  BY <1>3, <1>13, <1>14 DEF AllAccounted, Moved

\* The notice to the landlord, or a request that dies.
LEMMA ReceiptEndKeeps ==
    ASSUME ReceiptInv, NEW w \in Workers, CreditNotice(w) \/ (Die(w) /\ UNCHANGED receiptVars)
    PROVE  ReceiptInv' /\ (AllAccounted => AllAccounted')
<1>1. /\ UNCHANGED <<payment, receipt, mailed, year>> /\ Respond(w) /\ Busy(w) /\ Frame /\ Alone
      /\ ReceiptSession(w) /\ ReceiptsTypeOK
      /\ \/ pc[w] = "credit" /\ credited' = credited \cup {job[w].payment}
         \/ load.fails /\ credited' = credited
  BY DEF CreditNotice, Die, Busy, receiptVars, ReceiptInv
<1>2. Moved(w) /\ pc'[w] = "idle"
  BY <1>1, RespondMoves
<1>3. credited' \subseteq Payments
  BY <1>1 DEF ReceiptSession, ReceiptsTypeOK
<1>4. ReceiptInv' /\ PaymentsKept
  BY <1>1, <1>2, <1>3, DoneWithReceipt
<1>5. ASSUME AllAccounted, ~load.fails PROVE AllAccounted'
  <2>1. pc[w] = "credit" /\ pc[w] \notin Receipting
    BY <1>1, <1>5 DEF Receipting
  <2>2. QED
    BY <1>1, <1>2, <1>4, <1>5, <2>1, MovedAccounts
<1>6. QED
  BY <1>2, <1>4, <1>5 DEF AllAccounted, Moved

LEMMA ReceiptsNextKeeps ==
    ASSUME ReceiptInv, ReceiptsNext
    PROVE  ReceiptInv' /\ (AllAccounted => AllAccounted')
<1>1. ASSUME NEW w \in Workers, NEW p \in Payments, NEW m \in Methods, NEW a \in Amounts,
             RecordPayment(w, p, m, a) \/ CompleteCheckout(w, p, m, a)
      PROVE  ReceiptInv' /\ (AllAccounted => AllAccounted')
  BY <1>1, PaymentMadeKeeps DEF RecordPayment, CompleteCheckout, Ready, Served
<1>2. ASSUME NEW w \in Workers,
             \/ NumberReceipt(w) \/ FlushReceipt(w) \/ MailReceipt(w) \/ CommitReceipt(w)
             \/ CreditNotice(w) \/ (Die(w) /\ UNCHANGED receiptVars)
      PROVE  ReceiptInv' /\ (AllAccounted => AllAccounted')
  BY <1>2, NumberReceiptKeeps, FlushReceiptKeeps, MailReceiptKeeps, CommitReceiptKeeps,
     ReceiptEndKeeps
<1>3. ASSUME NEW p \in Payments,
             (\E m \in Methods, a \in Amounts : UpdatePayment(p, m, a)) \/ DeletePayment(p)
      PROVE  ReceiptInv' /\ (AllAccounted => AllAccounted')
  BY <1>3, PaymentStandsKeeps
<1>4. QED
  BY <1>1, <1>2, <1>3, OthersStandKeep DEF ReceiptsNext

LEMMA ReceiptsInitially ==
    ASSUME ReceiptsInit
    PROVE  /\ ReceiptsTypeOK /\ ReceiptRows /\ mailed = {}
           /\ \A p \in Payments : payment[p].row = "absent"
<1>1. (CHOOSE m \in Methods : TRUE) \in Methods /\ (CHOOSE a \in Amounts : TRUE) \in Amounts
  BY ReceiptAssumption DEF Methods
<1>2. ReceiptsTypeOK
  BY <1>1, ReceiptAssumption DEF ReceiptsInit, ReceiptsTypeOK, PaymentRow, Years
<1>3. \A p \in Payments : payment[p].row = "absent"
  BY DEF ReceiptsInit
<1>4. \A n \in Numbers : ~Taken(n) /\ receipt[n].payment \notin Payments
  BY ReceiptAssumption DEF ReceiptsInit, Taken, NoReceipt
<1>5. ReceiptRows
  BY <1>4 DEF ReceiptRows, Receipted
<1>6. QED
  BY <1>2, <1>3, <1>5 DEF ReceiptsInit

LEMMA ReceiptsStart ==
    ASSUME RequestsInit, ReceiptsInit
    PROVE  ReceiptPart
<1>1. Frame /\ \A w \in Workers : pc[w] = "idle"
  BY DEF RequestsInit, Frame
<1>2. Alone /\ OnePaymentEach /\ \A w \in Workers : ReceiptSession(w)
  BY <1>1 DEF Alone, Busy, OnePaymentEach, ReceiptSession, Receipting, Holding
<1>3. AllAccounted
  BY ReceiptsInitially DEF AllAccounted
<1>4. QED
  BY <1>1, <1>2, <1>3, ReceiptsInitially DEF ReceiptPart, ReceiptInv

LEMMA ReceiptsSame ==
    ASSUME ReceiptInv, AllAccounted, UNCHANGED <<requests, receiptVars>>
    PROVE  ReceiptInv' /\ AllAccounted'
<1>1. UNCHANGED <<load, pc, job, payment, receipt, mailed, credited, year>>
  BY DEF requests, receiptVars
<1>2. PaymentsKept /\ Frame' /\ Alone' /\ ReceiptsTypeOK' /\ OnePaymentEach'
  BY <1>1 DEF PaymentsKept, ReceiptInv, Frame, Alone, Busy, ReceiptsTypeOK, OnePaymentEach
<1>3. ReceiptRows' /\ \A w \in Workers : ReceiptSession(w)'
  BY <1>1, <1>2, RowsStay, SessionStays
<1>4. AllAccounted'
  BY <1>1 DEF AllAccounted, Accounted, MailStands, Receipted, LostNumber, Fixed, Taken
<1>5. QED
  BY <1>2, <1>3, <1>4 DEF ReceiptInv

LEMMA ReceiptsStep ==
    ASSUME ReceiptPart, [Next]_vars
    PROVE  ReceiptPart'
<1>1. CASE Next /\ load.part = "receipts"
  <2>1. ReceiptsNext /\ load' = load
    BY <1>1 DEF Next
  <2>2. QED
    BY <1>1, <2>1, ReceiptsNextKeeps DEF ReceiptPart
<1>2. CASE Next /\ load.part # "receipts"
  <2>1. UNCHANGED receiptVars /\ load' = load
    BY <1>2 DEF Next, Except
  <2>2. QED
    BY <1>2, <2>1 DEF ReceiptPart, ReceiptsInit, receiptVars
<1>3. CASE UNCHANGED vars
  <2>1. UNCHANGED <<requests, receiptVars>> /\ load' = load
    BY <1>3 DEF vars, requests
  <2>2. QED
    BY <2>1, ReceiptsSame DEF ReceiptPart, ReceiptsInit, receiptVars
<1>4. QED
  BY <1>1, <1>2, <1>3

LEMMA ReceiptsInvariant == Spec => []ReceiptPart
<1>1. Init => ReceiptPart
  BY ReceiptsStart DEF Init
<1>2. QED
  BY <1>1, ReceiptsStep, PTL DEF Spec

\* Counting always proposes a free number, a payment that stands is receipted
\* or has lost its number to one recorded at the same time, and a receipt that
\* was mailed is there, and verifies for as long as nobody edits its payment,
\* whatever is deleted and however requests overlap (issue_from_payment,
\* _next_receipt_number, verify_receipt).
THEOREM ReceiptsAreAlwaysKept == Spec => []ReceiptsAreKept
<1>1. ASSUME ReceiptPart
      PROVE  ReceiptsAreKept
  <2>1. ReceiptsTypeOK /\ ReceiptRows
    BY <1>1, ReceiptsInitially DEF ReceiptPart, ReceiptInv
  <2>2. NextReceiptNumberIsFree
    BY <2>1, FreeNumbers
  <2>3. CASE load.part = "receipts"
    <3>1. ReceiptInv /\ AllAccounted
      BY <1>1, <2>3 DEF ReceiptPart
    <3>2. PaymentsAreReceipted
      BY <3>1 DEF PaymentsAreReceipted, AllAccounted, Accounted, LostNumber, Fixed, Busy, Receipting
    <3>3. ASSUME ~load.fails, NEW r \in mailed, receipt[r[1]] = r[2]
          PROVE  Uses("update_payment") \/ ReceiptVerifies(r[1])
      <4>1. r[1] \in Numbers /\ Taken(r[1])
        BY <2>1, <3>3, ReceiptsNameAPayment DEF ReceiptsTypeOK, Taken
      <4>2. QED
        BY <2>1, <4>1 DEF ReceiptRows, Fixed, Uses
    <3>4. MailedReceiptsExist
      BY <3>1, <3>3 DEF AllAccounted, MailStands, MailedReceiptsExist
    <3>5. QED
      BY <2>2, <3>2, <3>4 DEF ReceiptsAreKept
  <2>4. CASE load.part # "receipts"
    <3>1. mailed = {} /\ \A p \in Payments : payment[p].row = "absent"
      BY <1>1, <2>4, ReceiptsInitially DEF ReceiptPart
    <3>2. QED
      BY <2>2, <3>1 DEF ReceiptsAreKept, PaymentsAreReceipted, MailedReceiptsExist
  <2>5. QED
    BY <2>3, <2>4
<1>2. QED
  BY <1>1, ReceiptsInvariant, PTL

-----------------------------------------------------------------------------
(* Messages.                                                               *)

LEMMA MessageShapes ==
    ASSUME MessagesTypeOK
    PROVE  /\ Moment \subseteq Nat /\ clock \in Nat
           /\ \A r \in MessageRow : r.thread \in Threads /\ r.at \in Nat
                                    /\ r.event \in {None} \cup Events
           /\ \A r \in ThreadRow : r # NoThread /\ r.pair \in Pairs /\ r.unit \in Units
           /\ \A p \in Pairs : p \subseteq People
           /\ \A t \in Threads : Open(t) => thread[t] \in ThreadRow
           /\ \A m \in Stored : messages[m] \in MessageRow
           /\ \A t \in Threads, u \in People : lastRead[t][u] \in Nat
           /\ \A t \in Threads : thread[t].pair \subseteq People
           /\ Stored = 1 .. Len(messages) /\ Len(messages) \in Nat
<1>1. Moment \subseteq Nat
  BY MessageAssumption DEF Moment
<1>2. \A r \in MessageRow : r.thread \in Threads /\ r.at \in Nat /\ r.event \in {None} \cup Events
  BY <1>1 DEF MessageRow
<1>3. \A p \in Pairs : p \subseteq People /\ p # {}
  BY FS_EmptySet DEF Pairs
<1>4. \A r \in ThreadRow : r # NoThread /\ r.pair \in Pairs /\ r.unit \in Units
  BY <1>3 DEF ThreadRow, NoThread
<1>5. \A t \in Threads : Open(t) => thread[t] \in ThreadRow
  BY DEF MessagesTypeOK, Open
<1>6. /\ \A m \in Stored : messages[m] \in MessageRow
      /\ Stored = 1 .. Len(messages) /\ Len(messages) \in Nat
  BY DEF MessagesTypeOK, Stored
<1>7. \A t \in Threads, u \in People : lastRead[t][u] \in Nat
  BY <1>1 DEF MessagesTypeOK
<1>8. \A t \in Threads : thread[t].pair \subseteq People
  BY <1>3, <1>4, <1>5 DEF Open, NoThread
<1>9. clock \in Nat
  BY <1>1 DEF MessagesTypeOK
<1>10. QED
  BY <1>1, <1>2, <1>3, <1>4, <1>5, <1>6, <1>7, <1>8, <1>9

LEMMA MessageSessionStays ==
    ASSUME MessageInv, MessagesGrow, load' = load, MessagesTypeOK',
           NEW v \in Workers, pc'[v] = pc[v], job'[v] = job[v], load.overlap \/ ~Busy(v)
    PROVE  MessageSession(v)'
<1>1. MessageSession(v) /\ MessagesTypeOK
  BY DEF MessageInv
<1>2. CASE ~Busy(v)
  BY <1>2 DEF MessageSession, Busy, Composing
<1>3. CASE load.overlap
  <2>1. clock \in Nat /\ clock' \in Nat /\ Moment \subseteq Nat
    BY <1>1, MessageAssumption DEF MessagesTypeOK, Moment
  <2>2. pc[v] \in Composing \cup {"show"} => job[v].thread \in Threads /\ Open(job[v].thread)
    BY <1>1 DEF MessageSession, Composing
  <2>3. pc[v] = "append" => job[v].at \in Moment /\ job[v].at < clock'
    <3> SUFFICES ASSUME pc[v] = "append"
                 PROVE  job[v].at \in Moment /\ job[v].at < clock'
      OBVIOUS
    <3>1. job[v].at \in Moment /\ job[v].at < clock
      BY <1>1 DEF MessageSession
    <3>2. clock <= clock' /\ job[v].at \in Nat
      BY <2>1, <3>1 DEF MessagesGrow
    <3>3. QED
      BY <2>1, <3>1, <3>2
  <2>4. QED
    BY <1>1, <1>3, <2>2, <2>3 DEF MessageSession, MessagesGrow, Open, Stored, Composing
<1>4. QED
  BY <1>2, <1>3

\* The steps that leave badges alone: no session is about to show a thread,
\* and what is stored is of a time after anybody's mark.
LEMMA BadgesMove ==
    ASSUME MessageInv, MessagesGrow, MessagesTypeOK', load' = load, UNCHANGED <<lastRead, shown>>,
           ~load.overlap /\ ~load.fails =>
              /\ \A t \in Threads, u \in People : ~Showing(t, u) /\ ~Showing(t, u)'
              /\ \A m \in DOMAIN messages' : m \in Stored \/
                    (messages'[m].sender # None =>
                       \A u \in People : lastRead[messages'[m].thread][u] < messages'[m].at)
    PROVE  BadgesAreRight'
<1> SUFFICES ASSUME ~load.overlap, ~load.fails,
                    NEW t \in Threads, NEW u \in thread'[t].pair, NEW m \in DOMAIN messages',
                    messages'[m].thread = t, messages'[m].sender # None, messages'[m].sender # u
             PROVE  ~Showing(t, u)' /\ (messages'[m].at > lastRead[t][u] <=> m \notin shown[u])
  BY DEF BadgesAreRight, Stored, FromUser
<1>1. u \in People
  BY DEF MessagesTypeOK, ThreadRow, Pairs, NoThread
<1>2. ~Showing(t, u) /\ ~Showing(t, u)'
  BY <1>1
<1>3. CASE m \in Stored
  <2>1. messages'[m] = messages[m] /\ Open(t)
    BY <1>3 DEF MessagesGrow, MessageInv, MessageRows
  <2>2. u \in thread[t].pair
    BY <2>1 DEF MessagesGrow
  <2>3. messages[m].at > lastRead[t][u] <=> m \notin shown[u]
    BY <1>2, <1>3, <2>1, <2>2 DEF MessageInv, BadgesAreRight, FromUser
  <2>4. QED
    BY <1>2, <2>1, <2>3
<1>4. CASE m \notin Stored
  <2>1. lastRead[t][u] < messages'[m].at
    BY <1>1, <1>4
  <2>2. m \notin shown[u]
    BY <1>1, <1>4 DEF MessageInv, MessagesTypeOK
  <2>3. lastRead[t][u] \in Nat /\ messages'[m].at \in Nat
    BY <1>1, MessageShapes, MessageAssumption
       DEF MessageInv, MessagesTypeOK, MessageRow, Moment, Stored
  <2>4. QED
    BY <1>2, <2>1, <2>2, <2>3
<1>5. QED
  BY <1>3, <1>4

\* What was told stays told by a step of the workers of W.
LEMMA BellsStay ==
    ASSUME MessageInv, MessagesGrow, MessagesTypeOK', load' = load,
           NEW W \in SUBSET Workers,
           \A v \in Workers : v \notin W => pc'[v] = pc[v] /\ job'[v] = job[v],
           bells \subseteq bells',
           \A b \in bells' : b \in bells \/
              (b[1] \in thread'[messages'[b[2]].thread].pair /\ b[1] # messages'[b[2]].sender),
           ~load.fails =>
              /\ \A w \in W : \A m \in Stored : pc[w] = "notify" /\ job[w].message = m => Told(m)'
              /\ \A m \in DOMAIN messages' : m \in Stored \/ messages'[m].sender = None \/ Told(m)'
    PROVE  BellsRing'
<1>1. \A m \in Stored : /\ messages'[m] = messages[m]
                        /\ messages[m].thread \in Threads /\ Open(messages[m].thread)
                        /\ thread'[messages[m].thread].pair = thread[messages[m].thread].pair
  BY MessageShapes DEF MessageInv, MessageRows, MessagesGrow
<1>2. \A b \in bells' : b[1] \in thread'[messages'[b[2]].thread].pair
                        /\ b[1] # messages'[b[2]].sender
  <2>1. \A b \in bells : b[2] \in Stored
    BY DEF MessageInv, MessagesTypeOK
  <2>2. QED
    BY <1>1, <2>1 DEF MessageInv, BellsRing
<1>3. ASSUME ~load.fails, NEW m \in DOMAIN messages', messages'[m].sender # None
      PROVE  Told(m)'
  <2>1. CASE m \notin Stored
    BY <1>3, <2>1
  <2>2. CASE m \in Stored
    <3>1. Told(m)
      BY <1>1, <1>3, <2>2 DEF MessageInv, BellsRing, FromUser
    <3>2. CASE \A u \in thread[messages[m].thread].pair \ {messages[m].sender} : <<u, m>> \in bells
      BY <1>1, <2>2, <3>2 DEF Told
    <3>3. ASSUME NEW w \in Workers, pc[w] = "notify", job[w].message = m
          PROVE  Told(m)'
      <4>1. CASE w \in W
        BY <1>3, <2>2, <3>3, <4>1
      <4>2. CASE w \notin W
        BY <3>3, <4>2 DEF Told
      <4>3. QED
        BY <4>1, <4>2
    <3>4. QED
      BY <3>1, <3>2, <3>3 DEF Told
  <2>3. QED
    BY <2>1, <2>2
<1>4. QED
  BY <1>2, <1>3 DEF BellsRing, Stored, FromUser

LEMMA MessageRowsStay ==
    ASSUME MessageInv, MessagesGrow, MessagesTypeOK', UNCHANGED <<messages, lastRead>>
    PROVE  MessageRows'
<1>1. clock \in Nat /\ clock' \in Nat /\ clock <= clock'
  BY MessageAssumption DEF MessageInv, MessagesTypeOK, Moment, MessagesGrow
<1>2. \A m \in Stored : /\ messages[m].thread \in Threads /\ Open(messages[m].thread)
                        /\ messages[m].at \in Nat
                        /\ FromUser(m) => messages[m].at < clock
  BY MessageShapes DEF MessageInv, MessageRows
<1>3. \A t \in Threads, u \in People : lastRead[t][u] \in Nat /\ lastRead[t][u] < clock
  BY MessageShapes DEF MessageInv, MessageRows
<1>4. QED
  BY <1>1, <1>2, <1>3 DEF MessageRows, MessagesGrow, Open, Stored, FromUser

\* A step of a request that stores no message and changes no thread.
LEMMA SessionMoves ==
    ASSUME MessageInv, NEW w \in Workers, Moved(w), MessagesTypeOK', clock <= clock',
           UNCHANGED <<thread, messages, lastRead, shown>>, MessageSession(w)', BellsRing',
           load.fails \/ (pc[w] # "show" /\ pc'[w] # "show")
    PROVE  MessageInv'
<1>1. MessagesGrow /\ load' = load /\ MessagesTypeOK
  BY DEF MessagesGrow, Open, Stored, Moved, MessageInv
<1>2. \A v \in Workers : MessageSession(v)'
  BY <1>1, MessageSessionStays DEF Moved
<1>3. OneThreadPerConversation' /\ ThreadsOpenOnce'
  BY <1>1 DEF MessageInv, OneThreadPerConversation, ThreadsOpenOnce, Open, Stored, FromUser
<1>4. ~load.overlap /\ ~load.fails =>
         \A t \in Threads, u \in People : ~Showing(t, u) /\ ~Showing(t, u)'
  BY DEF Showing, Moved, Busy
<1>5. BadgesAreRight'
  BY <1>1, <1>4, BadgesMove DEF Stored
<1>6. QED
  BY <1>1, <1>2, <1>3, <1>5, MessageRowsStay, MovedAlone DEF MessageInv, Moved

LEMMA QuietBells ==
    ASSUME MessageInv, MessagesGrow, MessagesTypeOK', NEW w \in Workers, Moved(w),
           UNCHANGED <<messages, bells>>, pc[w] # "notify" \/ load.fails
    PROVE  BellsRing'
<1>1. /\ {w} \in SUBSET Workers
      /\ \A v \in Workers : v \notin {w} => pc'[v] = pc[v] /\ job'[v] = job[v]
  BY DEF Moved
<1>2. \A m \in DOMAIN messages' : m \in Stored
  BY DEF Stored
<1>3. ~load.fails => \A v \in {w} : pc[v] # "notify"
  OBVIOUS
<1>4. load' = load /\ bells \subseteq bells'
  BY DEF Moved
<1>5. \A b \in bells' : b \in bells \/
         (b[1] \in thread'[messages'[b[2]].thread].pair /\ b[1] # messages'[b[2]].sender)
  OBVIOUS
<1>6. ~load.fails =>
         /\ \A v \in {w} : \A m \in Stored : pc[v] = "notify" /\ job[v].message = m => Told(m)'
         /\ \A m \in DOMAIN messages' : m \in Stored \/ messages'[m].sender = None \/ Told(m)'
  BY <1>2, <1>3
<1>7. QED
  BY <1>1, <1>4, <1>5, <1>6, BellsStay

-----------------------------------------------------------------------------
(* The steps of messages.                                                  *)

LEMMA TwoAreAPair ==
    ASSUME NEW a \in People, NEW b \in People, a # b
    PROVE  {a, b} \in Pairs
<1>1. IsFiniteSet({a}) /\ Cardinality({a}) = 1
  BY FS_Singleton
<1>2. Cardinality({a} \cup {b}) = 2
  BY <1>1, FS_AddElement
<1>3. {a, b} = {a} \cup {b}
  OBVIOUS
<1>4. QED
  BY <1>2, <1>3 DEF Pairs

LEMMA StartFromUnitKeeps ==
    ASSUME MessageInv, NEW w \in Workers, NEW p \in People, NEW u \in Units,
           StartFromUnit(w, p, u)
    PROVE  MessageInv'
<1> DEFINE pair == {p, LandlordOf[u]}
           event == IF IsNew(pair, u) THEN "thread_opened" ELSE None
           j == [pair |-> pair, unit |-> u, sender |-> p, event |-> event]
<1>1. /\ Moved(w) /\ pc'[w] = "ensure" /\ job'[w] = j /\ UNCHANGED messageVars /\ pc[w] = "idle"
  BY GotoMoves DEF StartFromUnit, MessageInv, Ready, Served, Busy
<1>2. UNCHANGED <<thread, messages, lastRead, shown, bells, clock>>
  BY <1>1 DEF messageVars
<1>3. pair \in Pairs /\ p \in pair
  BY TwoAreAPair, MessageAssumption DEF StartFromUnit
<1>4. event \in {None, "thread_opened"} /\ (event = "thread_opened" <=> IsNew(pair, u))
  BY MessageAssumption DEF Events
<1>5. j.pair = pair /\ j.unit = u /\ j.sender = p /\ j.event = event
  OBVIOUS
<1> HIDE DEF pair, event, j
<1>6. (event = "thread_opened" <=> {t \in Threads : thread'[t] # NoThread /\ thread'[t].unit = u
                                                    /\ thread'[t].pair = pair} = {})
  BY <1>2, <1>4 DEF IsNew, Found, FoundByUnit, Open
<1>7. MessageSession(w)'
  BY <1>1, <1>3, <1>4, <1>5, <1>6
     DEF MessageSession, Composing, IsNew, Found, FoundByUnit, Open
<1>8. MessagesTypeOK' /\ clock <= clock' /\ MessagesGrow
  BY <1>2, MessageShapes DEF MessageInv, MessagesTypeOK, MessagesGrow, Open, Stored
<1>9. BellsRing'
  BY <1>1, <1>2, <1>8, QuietBells
<1>10. QED
  BY <1>1, <1>2, <1>7, <1>8, <1>9, SessionMoves

\* A session goes on to store a message of a participant.
LEMMA ComposeKeeps ==
    ASSUME MessageInv, NEW w \in Workers, NEW t \in Threads, NEW p, NEW event, Open(t),
           p \in thread[t].pair, event \in {None, "thread_opened", "inspection_requested"},
           ~load.overlap => event # "thread_opened",
           Tick, Compose(w, t, p, event, clock), UNCHANGED <<thread, messages, lastRead, shown, bells>>,
           Busy(w) \/ load.overlap \/ \A v \in Workers : ~Busy(v),
           pc[w] \notin {"notify", "show"}
    PROVE  MessageInv'
<1> DEFINE j == [thread |-> t, sender |-> p, event |-> event, at |-> clock]
<1>1. Moved(w) /\ pc'[w] = "append" /\ job'[w] = j
  BY GotoMoves DEF Compose, MessageInv
<1>2. j.thread = t /\ j.sender = p /\ j.event = event /\ j.at = clock
  OBVIOUS
<1> HIDE DEF j
<1>3. clock \in Moment /\ clock \in Nat /\ clock' \in Moment /\ clock' = clock + 1
  BY MessageAssumption DEF Tick, MessageInv, MessagesTypeOK, Moment
<1>4. clock < clock' /\ clock <= clock' /\ MessagesGrow
  BY <1>3 DEF MessagesGrow, Open, Stored
<1>5. MessagesTypeOK'
  BY <1>3 DEF MessageInv, MessagesTypeOK, Stored
<1>6. \A u \in People : lastRead[t][u] < clock
  BY DEF MessageInv, MessageRows
<1>7. MessageSession(w)'
  <2>1. thread'[t] # NoThread /\ p \in thread'[t].pair
    BY DEF Open
  <2>2. \A u \in People : lastRead'[t][u] < clock
    BY <1>6
  <2>3. QED
    BY <1>1, <1>2, <1>3, <1>4, <2>1, <2>2 DEF MessageSession, Composing, Open, Moved, Moment
<1>8. BellsRing'
  BY <1>1, <1>4, <1>5, QuietBells
<1>9. QED
  BY <1>1, <1>4, <1>5, <1>7, <1>8, SessionMoves

LEMMA EnsureThreadKeeps ==
    ASSUME MessageInv, NEW w \in Workers, EnsureThread(w)
    PROVE  MessageInv'
<1> DEFINE j == job[w]
<1>1. pc[w] = "ensure" /\ Busy(w) /\ MessageSession(w)
  BY DEF EnsureThread, Busy, MessageInv
<1>2. /\ j.pair \in Pairs /\ j.unit \in Units /\ j.sender \in j.pair
      /\ j.event \in {None, "thread_opened"}
      /\ ~load.overlap => (j.event = "thread_opened" <=> IsNew(j.pair, j.unit))
  BY <1>1 DEF MessageSession
<1>3. CASE Found(j.pair, j.unit) = {} /\ Goto(w, "open", j) /\ UNCHANGED messageVars
  <2>1. Moved(w) /\ pc'[w] = "open" /\ job'[w] = j
        /\ UNCHANGED <<thread, messages, lastRead, shown, bells, clock>>
    BY <1>1, <1>3, GotoMoves DEF MessageInv, messageVars
  <2>2. Found(j.pair, j.unit)' = {}
    BY <1>3, <2>1 DEF Found, FoundByUnit, Open
  <2>3. MessageSession(w)'
    BY <1>2, <1>3, <2>1, MessageAssumption
       DEF MessageSession, Composing, Moved, IsNew, Found, FoundByUnit, Open
  <2>4. MessagesTypeOK' /\ clock <= clock' /\ MessagesGrow
    BY <2>1, MessageShapes DEF MessageInv, MessagesTypeOK, MessagesGrow, Open, Stored
  <2>5. BellsRing'
    BY <1>1, <2>1, <2>4, QuietBells
  <2>6. QED
    BY <1>1, <2>1, <2>3, <2>4, <2>5, SessionMoves
<1>4. ASSUME NEW t \in Found(j.pair, j.unit), Tick, Compose(w, t, j.sender, j.event, clock),
             UNCHANGED <<thread, messages, lastRead, shown, bells>>
      PROVE  MessageInv'
  <2>1. t \in Threads /\ Open(t) /\ thread[t].pair = j.pair /\ ~IsNew(j.pair, j.unit)
    BY <1>4 DEF Found, FoundByUnit, IsNew
  <2>2. QED
    BY <1>1, <1>2, <1>4, <2>1, ComposeKeeps
<1>5. QED
  BY <1>3, <1>4 DEF EnsureThread

LEMMA PostToThreadKeeps ==
    ASSUME MessageInv, NEW w \in Workers, NEW t \in Threads, NEW p \in People,
           NEW event \in {None, "inspection_requested"}, PostToThread(w, t, p, event)
    PROVE  MessageInv'
<1>1. event # "thread_opened"
  BY MessageAssumption DEF Events
<1>2. pc[w] = "idle" /\ (load.overlap \/ \A v \in Workers : ~Busy(v))
  BY DEF PostToThread, Ready, Served, Busy
<1>3. QED
  BY <1>1, <1>2, ComposeKeeps DEF PostToThread

LEMMA NotifyRecipientsKeeps ==
    ASSUME MessageInv, NEW w \in Workers, NotifyRecipients(w)
    PROVE  MessageInv'
<1> DEFINE j == job[w]
           m == j.message
<1>1. /\ pc[w] = "notify" /\ Busy(w) /\ MessageSession(w) /\ MessagesTypeOK
      /\ UNCHANGED <<thread, messages, lastRead, shown, clock>>
  BY DEF NotifyRecipients, Busy, MessageInv
<1>2. /\ m \in Stored /\ messages[m].thread = j.thread /\ messages[m].sender = j.sender
      /\ j.thread \in Threads /\ Open(j.thread)
  BY <1>1 DEF MessageSession, Composing
<1>3. bells' = bells \cup (Recipients(j) \X {m}) /\ Recipients(j) = thread[j.thread].pair \ {j.sender}
  BY DEF NotifyRecipients, Recipients
<1>4. Moved(w) /\ (pc'[w] = "idle" \/ (pc'[w] = "system" /\ job'[w] = j /\ j.event # None))
  BY <1>1, GotoMoves, RespondMoves DEF NotifyRecipients, MessageInv
<1> HIDE DEF m, j
<1>5. \A x \in Recipients(j) : x \in People /\ x \in thread[j.thread].pair /\ x # j.sender
  BY <1>1, <1>2, <1>3, MessageShapes
<1>6. /\ bells \subseteq bells' /\ \A x \in Recipients(j) : <<x, m>> \in bells'
      /\ \A b \in bells' : b \in bells \/ (b[1] \in Recipients(j) /\ b[2] = m)
  BY <1>3
<1>7. MessagesTypeOK' /\ MessagesGrow /\ clock <= clock'
  <2>1. bells' \subseteq People \X Stored
    BY <1>1, <1>2, <1>3, <1>5 DEF MessagesTypeOK
  <2>2. clock <= clock'
    BY <1>1, MessageShapes
  <2>3. QED
    BY <1>1, <2>1, <2>2 DEF MessagesTypeOK, MessagesGrow, Open, Stored
<1>8. BellsRing'
  <2>1. \A x \in thread'[messages'[m].thread].pair \ {messages'[m].sender} : <<x, m>> \in bells'
    BY <1>1, <1>2, <1>3, <1>6
  <2>2. \A k : k = m => Told(k)'
    BY <2>1 DEF Told
  <2>3. /\ {w} \in SUBSET Workers /\ load' = load
        /\ \A v \in Workers : v \notin {w} => pc'[v] = pc[v] /\ job'[v] = job[v]
    BY <1>4 DEF Moved
  <2>4. /\ \A v \in {w} : \A k \in Stored : pc[v] = "notify" /\ job[v].message = k => Told(k)'
        /\ \A k \in DOMAIN messages' : k \in Stored \/ messages'[k].sender = None \/ Told(k)'
    BY <1>1, <2>2 DEF Stored, m, j
  <2>5. \A b \in bells' : b \in bells \/
           (b[1] \in thread'[messages'[b[2]].thread].pair /\ b[1] # messages'[b[2]].sender)
    BY <1>1, <1>2, <1>5, <1>6
  <2>6. QED
    BY <1>6, <1>7, <2>3, <2>4, <2>5, BellsStay
<1>9. MessageSession(w)'
  <2>1. CASE pc'[w] = "idle"
    BY <2>1 DEF MessageSession, Composing
  <2>2. CASE pc'[w] = "system" /\ job'[w] = j /\ j.event # None
    BY <1>1, <1>2, <1>4, <2>2 DEF MessageSession, Composing, Stored, Open, m, j, Moved
  <2>3. QED
    BY <1>4, <2>1, <2>2
<1>10. QED
  BY <1>1, <1>4, <1>7, <1>8, <1>9, SessionMoves

LEMMA MessageDieKeeps ==
    ASSUME MessageInv, NEW w \in Workers, Die(w), UNCHANGED messageVars
    PROVE  MessageInv'
<1>1. /\ Moved(w) /\ pc'[w] = "idle" /\ load.fails
      /\ UNCHANGED <<thread, messages, lastRead, shown, bells, clock>>
  BY RespondMoves DEF Die, MessageInv, messageVars
<1>2. MessagesTypeOK' /\ MessagesGrow /\ clock <= clock'
  BY <1>1, MessageShapes DEF MessageInv, MessagesTypeOK, MessagesGrow, Open, Stored
<1>3. MessageSession(w)'
  BY <1>1 DEF MessageSession, Composing
<1>4. BellsRing'
  BY <1>1, <1>2, QuietBells
<1>5. QED
  BY <1>1, <1>2, <1>3, <1>4, SessionMoves

LEMMA OpenThreadKeeps ==
    ASSUME MessageInv, NEW w \in Workers, OpenThread(w)
    PROVE  MessageInv'
<1> DEFINE j == job[w]
           n == [unit |-> j.unit, pair |-> j.pair, archived |-> FALSE]
<1>1. /\ pc[w] = "open" /\ Busy(w) /\ MessageSession(w) /\ MessagesTypeOK
      /\ UNCHANGED <<messages, lastRead, shown, bells>> /\ Tick
  BY DEF OpenThread, Busy, MessageInv
<1>2. /\ j.pair \in Pairs /\ j.unit \in Units /\ j.sender \in j.pair
      /\ j.event \in {None, "thread_opened"}
      /\ ~load.overlap => IsNew(j.pair, j.unit)
  BY <1>1 DEF MessageSession
<1>3. PICK t \in Threads : /\ ~Open(t) /\ thread' = [thread EXCEPT ![t] = n]
                           /\ Compose(w, t, j.sender, j.event, clock)
  BY DEF OpenThread
<1> DEFINE k == [thread |-> t, sender |-> j.sender, event |-> j.event, at |-> clock]
<1>4. Moved(w) /\ pc'[w] = "append" /\ job'[w] = k
  BY <1>1, <1>3, GotoMoves DEF Compose, MessageInv
<1>5. k.thread = t /\ k.sender = j.sender /\ k.event = j.event /\ k.at = clock
  OBVIOUS
<1>6. n \in ThreadRow /\ n.unit = j.unit /\ n.pair = j.pair /\ n # NoThread
  <2>1. n \in ThreadRow
    BY <1>2 DEF ThreadRow
  <2>2. QED
    BY <1>1, <2>1, MessageShapes
<1> HIDE DEF n, k
<1>7. \A s \in Threads : thread'[s] = IF s = t THEN n ELSE thread[s]
  BY <1>1, <1>3 DEF MessagesTypeOK
<1>8. clock \in Moment /\ clock \in Nat /\ clock' \in Moment /\ clock' = clock + 1
  BY <1>1, MessageAssumption DEF Tick, MessagesTypeOK, Moment
<1>9. MessagesTypeOK' /\ MessagesGrow
  <2>1. thread' \in [Threads -> ThreadRow \cup {NoThread}]
    BY <1>1, <1>3, <1>6 DEF MessagesTypeOK
  <2>2. clock <= clock'
    BY <1>8
  <2>3. QED
    BY <1>1, <1>3, <1>7, <1>8, <2>1, <2>2 DEF MessagesTypeOK, MessagesGrow, Open, Stored
<1>10. \A m \in Stored : messages[m].thread # t
  BY <1>3 DEF MessageInv, MessageRows
<1>11. MessageSession(w)'
  <2>1. thread'[t] # NoThread /\ j.sender \in thread'[t].pair
    BY <1>2, <1>6, <1>7
  <2>2. \A u \in People : lastRead'[t][u] < clock
    BY <1>1 DEF MessageInv, MessageRows
  <2>3. clock < clock'
    BY <1>8
  <2>4. QED
    BY <1>1, <1>2, <1>4, <1>5, <1>8, <1>10, <2>1, <2>2, <2>3
       DEF MessageSession, Composing, Open, Moved, Moment, Stored
<1>12. \A v \in Workers : MessageSession(v)'
  BY <1>4, <1>9, <1>11, MessageSessionStays DEF Moved
<1>13. OneThreadPerConversation'
  <2>1. ASSUME ~load.overlap, NEW s \in Threads, s # t, thread'[s] # NoThread
        PROVE  thread'[s].unit # j.unit \/ thread'[s].pair # j.pair
    BY <1>2, <1>7, <2>1 DEF IsNew, Found, FoundByUnit, Open
  <2>2. load' = load
    BY <1>4 DEF Moved
  <2>3. QED
    BY <1>6, <1>7, <2>1, <2>2 DEF MessageInv, OneThreadPerConversation, Open
<1>14. ThreadsOpenOnce'
  BY <1>1, <1>4 DEF MessageInv, ThreadsOpenOnce, Stored, FromUser, Moved
<1>15. BellsRing'
  BY <1>1, <1>4, <1>9, QuietBells
<1>16. ~load.overlap => \A s \in Threads, u \in People : ~Showing(s, u) /\ ~Showing(s, u)'
  BY <1>1, <1>4 DEF Showing, Moved, Busy
<1>17. BadgesAreRight'
  BY <1>1, <1>4, <1>9, <1>16, BadgesMove DEF Stored, Moved
<1>18. MessageRows'
  BY <1>1, <1>9, MessageRowsStay
<1>19. QED
  BY <1>4, <1>9, <1>12, <1>13, <1>14, <1>15, <1>17, <1>18, MovedAlone DEF MessageInv, Moved

LEMMA ArchiveThreadKeeps ==
    ASSUME MessageInv, NEW t \in Threads, NEW u, NEW archived \in BOOLEAN,
           ArchiveThread(t, u, archived)
    PROVE  MessageInv'
<1> DEFINE n == [thread[t] EXCEPT !.archived = archived]
<1>1. /\ Still /\ UNCHANGED <<messages, lastRead, shown, bells, clock>> /\ Open(t)
      /\ thread' = [thread EXCEPT ![t] = n] /\ MessagesTypeOK
  BY ServedIsStill DEF ArchiveThread, MessageInv
<1>2. thread[t] \in ThreadRow
  BY <1>1, MessageShapes
<1>3. n \in ThreadRow /\ n.pair = thread[t].pair /\ n.unit = thread[t].unit
  BY <1>2 DEF ThreadRow
<1>4. n # NoThread
  BY <1>1, <1>3, MessageShapes
<1> HIDE DEF n
<1>5. \A s \in Threads : thread'[s] = IF s = t THEN n ELSE thread[s]
  BY <1>1 DEF MessagesTypeOK
<1>6. MessagesTypeOK' /\ MessagesGrow
  <2>1. clock <= clock'
    BY <1>1, MessageShapes
  <2>2. QED
    BY <1>1, <1>3, <1>4, <1>5, <2>1 DEF MessagesTypeOK, MessagesGrow, Open, Stored
<1>7. \A v \in Workers : MessageSession(v)'
  BY <1>1, <1>6, MessageSessionStays DEF Still
<1>8. OneThreadPerConversation'
  BY <1>1, <1>3, <1>4, <1>5 DEF MessageInv, OneThreadPerConversation, Open, Still
<1>9. ThreadsOpenOnce'
  BY <1>1 DEF MessageInv, ThreadsOpenOnce, Stored, FromUser, Still
<1>10. MessageRows'
  BY <1>1, <1>6, MessageRowsStay
<1>11. BellsRing'
  <2>1. {} \in SUBSET Workers /\ \A v \in {} : FALSE
    OBVIOUS
  <2>2. load' = load /\ bells \subseteq bells' /\ \A v \in Workers : pc'[v] = pc[v] /\ job'[v] = job[v]
    BY <1>1 DEF Still
  <2>3. \A m \in DOMAIN messages' : m \in Stored
    BY <1>1 DEF Stored
  <2>4. \A b \in bells' : b \in bells
    BY <1>1
  <2>5. QED
    BY <1>6, <2>1, <2>2, <2>3, <2>4, BellsStay
<1>12. ~load.overlap => \A s \in Threads, x \in People : ~Showing(s, x) /\ ~Showing(s, x)'
  BY <1>1 DEF Showing, Still, Busy
<1>13. BadgesAreRight'
  BY <1>1, <1>6, <1>12, BadgesMove DEF Stored, Still
<1>14. QED
  BY <1>1, <1>6, <1>7, <1>8, <1>9, <1>10, <1>11, <1>13, StillAlone DEF MessageInv, Still

\* A row is stored: an announcement of a thread is the first, and follows
\* what somebody wrote.
LEMMA MessageStored ==
    ASSUME MessageInv, NEW r \in MessageRow, messages' = Append(messages, r),
           UNCHANGED <<thread, lastRead, shown, bells, clock>>, load' = load,
           Open(r.thread), r.sender # None => r.at < clock,
           ~load.overlap /\ r.event = "thread_opened" =>
              /\ \E m \in Stored : messages[m].thread = r.thread /\ FromUser(m)
              /\ \A m \in Stored : messages[m].thread = r.thread =>
                                       messages[m].event # "thread_opened"
    PROVE  /\ MessagesTypeOK' /\ MessagesGrow /\ MessageRows'
           /\ OneThreadPerConversation' /\ ThreadsOpenOnce'
           /\ DOMAIN messages' = Stored \cup {Len(messages) + 1}
           /\ messages'[Len(messages) + 1] = r
<1> DEFINE l == Len(messages) + 1
<1>1. /\ Stored = 1 .. Len(messages) /\ Len(messages) \in Nat /\ MessagesTypeOK
      /\ messages \in Seq(MessageRow)
  BY MessageShapes DEF MessageInv, MessagesTypeOK
<1>2. /\ messages' \in Seq(MessageRow) /\ Len(messages') = l
      /\ DOMAIN messages' = 1 .. l
      /\ \A m \in Stored : messages'[m] = messages[m]
      /\ messages'[l] = r
  BY <1>1
<1>3. DOMAIN messages' = Stored \cup {l} /\ l \notin Stored
  BY <1>1, <1>2
<1>4. MessagesGrow
  <2>1. clock <= clock'
    BY <1>1, MessageShapes
  <2>2. QED
    BY <1>2, <1>3, <2>1 DEF MessagesGrow, Open
<1>5. MessagesTypeOK'
  BY <1>1, <1>2, <1>3 DEF MessagesTypeOK, Stored
<1>6. OneThreadPerConversation'
  BY DEF MessageInv, OneThreadPerConversation, Open
<1>7. MessageRows'
  <2>1. \A m \in DOMAIN messages' : Open(messages'[m].thread)
                                   /\ (messages'[m].sender # None => messages'[m].at < clock)
    BY <1>2, <1>3 DEF MessageInv, MessageRows, FromUser
  <2>2. QED
    BY <2>1 DEF MessageInv, MessageRows, Open, Stored, FromUser
<1>8. ThreadsOpenOnce'
  <2> SUFFICES ASSUME ~load.overlap, NEW m \in DOMAIN messages',
                      messages'[m].event = "thread_opened"
               PROVE  /\ \E n \in 1 .. m - 1 : messages'[n].thread = messages'[m].thread
                                               /\ messages'[n].sender # None
                      /\ \A n \in DOMAIN messages' \ {m} :
                            messages'[n].event = "thread_opened" =>
                               messages'[n].thread # messages'[m].thread
    BY DEF ThreadsOpenOnce, Stored, FromUser
  <2>1. CASE m = l
    <3>1. /\ \E n \in Stored : messages[n].thread = r.thread /\ FromUser(n)
          /\ \A n \in Stored : messages[n].thread = r.thread => messages[n].event # "thread_opened"
      BY <1>2, <2>1
    <3>2. Stored = 1 .. m - 1
      BY <1>1, <2>1
    <3>3. QED
      BY <1>2, <1>3, <2>1, <3>1, <3>2 DEF FromUser
  <2>2. CASE m \in Stored
    <3>1. /\ \E n \in 1 .. m - 1 : messages[n].thread = messages[m].thread /\ FromUser(n)
          /\ \A n \in Stored \ {m} :
               messages[n].event = "thread_opened" => messages[n].thread # messages[m].thread
      BY <1>2, <2>2 DEF MessageInv, ThreadsOpenOnce
    <3>2. \A n \in 1 .. m - 1 : n \in Stored
      BY <1>1, <2>2
    <3>3. r.event = "thread_opened" => r.thread # messages[m].thread
      BY <1>2, <2>2
    <3>4. QED
      BY <1>2, <1>3, <2>2, <3>1, <3>2, <3>3 DEF FromUser
  <2>3. QED
    BY <1>3, <2>1, <2>2
<1>9. QED
  BY <1>2, <1>3, <1>4, <1>5, <1>6, <1>7, <1>8

LEMMA AppendMessageKeeps ==
    ASSUME MessageInv, NEW w \in Workers, AppendMessage(w)
    PROVE  MessageInv'
<1> DEFINE j == job[w]
           l == Len(messages) + 1
           r == [thread |-> j.thread, sender |-> j.sender, event |-> None, at |-> j.at]
           k == [thread |-> j.thread, sender |-> j.sender, event |-> j.event, message |-> l]
<1>1. /\ pc[w] = "append" /\ Busy(w) /\ MessageSession(w) /\ MessagesTypeOK
      /\ UNCHANGED <<thread, lastRead, shown, bells, clock>>
      /\ messages' = Append(messages, r)
  BY DEF AppendMessage, Busy, MessageInv
<1>2. Moved(w) /\ pc'[w] = "notify" /\ job'[w] = k
  BY <1>1, GotoMoves DEF AppendMessage, MessageInv
<1>3. /\ j.thread \in Threads /\ Open(j.thread) /\ j.sender \in thread[j.thread].pair
      /\ j.event \in {None, "thread_opened", "inspection_requested"}
      /\ ~load.overlap /\ j.event = "thread_opened" =>
            \A m \in Stored : messages[m].thread = j.thread => messages[m].event # "thread_opened"
      /\ j.at \in Moment /\ j.at < clock
      /\ ~load.overlap => \A u \in People : lastRead[j.thread][u] < j.at
  BY <1>1 DEF MessageSession, Composing
<1>4. j.sender \in People /\ None # "thread_opened"
  BY <1>1, <1>3, MessageShapes, MessageAssumption DEF Events
<1>5. r \in MessageRow /\ r.thread = j.thread /\ r.sender = j.sender /\ r.event = None /\ r.at = j.at
  BY <1>3, <1>4 DEF MessageRow
<1>6. k.thread = j.thread /\ k.sender = j.sender /\ k.event = j.event /\ k.message = l
  OBVIOUS
<1> HIDE DEF r, k, l
<1>7. load' = load /\ \A v \in Workers : v # w => pc'[v] = pc[v] /\ job'[v] = job[v]
  BY <1>2 DEF Moved
<1>8. /\ MessagesTypeOK' /\ MessagesGrow /\ MessageRows'
      /\ OneThreadPerConversation' /\ ThreadsOpenOnce'
      /\ DOMAIN messages' = Stored \cup {l} /\ messages'[l] = r
  BY <1>1, <1>3, <1>4, <1>5, <1>7, MessageStored DEF l
<1>9. MessageSession(w)'
  <2>1. \A m \in DOMAIN messages' : ~load.overlap /\ j.event = "thread_opened" /\
           messages'[m].thread = j.thread => messages'[m].event # "thread_opened"
    BY <1>3, <1>4, <1>5, <1>8 DEF MessagesGrow
  <2>2. QED
    BY <1>1, <1>2, <1>3, <1>5, <1>6, <1>7, <1>8, <2>1 DEF MessageSession, Composing, Open, Stored
<1>10. \A v \in Workers : MessageSession(v)'
  BY <1>2, <1>8, <1>9, MessageSessionStays DEF Moved
<1>11. BellsRing'
  <2>1. \A m : m = l => Told(m)'
    BY <1>2, <1>6 DEF Told
  <2>2. /\ {w} \in SUBSET Workers
        /\ \A v \in Workers : v \notin {w} => pc'[v] = pc[v] /\ job'[v] = job[v]
    BY <1>7
  <2>3. /\ \A v \in {w} : \A m \in Stored : pc[v] = "notify" /\ job[v].message = m => Told(m)'
        /\ \A m \in DOMAIN messages' : m \in Stored \/ messages'[m].sender = None \/ Told(m)'
    BY <1>1, <1>8, <2>1
  <2>4. bells \subseteq bells' /\ \A b \in bells' : b \in bells
    BY <1>1
  <2>5. QED
    BY <1>7, <1>8, <2>2, <2>3, <2>4, BellsStay
<1>12. ~load.overlap => \A s \in Threads, u \in People : ~Showing(s, u) /\ ~Showing(s, u)'
  BY <1>1, <1>2 DEF Showing, Moved, Busy
<1>13. ~load.overlap => \A m \in DOMAIN messages' : m \in Stored \/
          (messages'[m].sender # None =>
             \A u \in People : lastRead[messages'[m].thread][u] < messages'[m].at)
  BY <1>3, <1>5, <1>8
<1>14. BadgesAreRight'
  BY <1>1, <1>7, <1>8, <1>12, <1>13, BadgesMove
<1>15. QED
  BY <1>2, <1>8, <1>10, <1>11, <1>14, MovedAlone DEF MessageInv, Moved

\* A system message, by a session or by a handler of one step.
LEMMA AnnouncedKeeps ==
    ASSUME MessageInv, NEW t \in Threads, NEW event \in Events, Announced(t, event), Open(t),
           UNCHANGED <<thread, lastRead, shown, bells, clock>>, load' = load,
           ~load.overlap /\ event = "thread_opened" =>
              /\ \E m \in Stored : messages[m].thread = t /\ FromUser(m)
              /\ \A m \in Stored : messages[m].thread = t => messages[m].event # "thread_opened"
    PROVE  /\ MessagesTypeOK' /\ MessagesGrow /\ MessageRows'
           /\ OneThreadPerConversation' /\ ThreadsOpenOnce'
           /\ \A m \in DOMAIN messages' : m \in Stored \/ messages'[m].sender = None
<1> DEFINE r == [thread |-> t, sender |-> None, event |-> event, at |-> clock]
<1>1. clock \in Moment /\ messages' = Append(messages, r)
  BY DEF MessageInv, MessagesTypeOK, Announced
<1>2. r \in MessageRow /\ r.thread = t /\ r.sender = None /\ r.event = event
  BY <1>1 DEF MessageRow
<1> HIDE DEF r
<1>3. QED
  BY <1>1, <1>2, MessageStored

LEMMA PostSystemMessageKeeps ==
    ASSUME MessageInv, NEW w \in Workers, PostSystemMessage(w)
    PROVE  MessageInv'
<1> DEFINE j == job[w]
<1>1. /\ pc[w] = "system" /\ Busy(w) /\ MessageSession(w) /\ MessagesTypeOK
      /\ UNCHANGED <<thread, lastRead, shown, bells, clock>>
      /\ Announced(j.thread, j.event)
  BY DEF PostSystemMessage, Busy, MessageInv
<1>2. Moved(w) /\ pc'[w] = "idle" /\ load' = load
  BY <1>1, RespondMoves DEF PostSystemMessage, MessageInv, Moved
<1>3. /\ j.thread \in Threads /\ Open(j.thread) /\ j.event \in Events
      /\ j.message \in Stored /\ messages[j.message].thread = j.thread
      /\ messages[j.message].sender \in People
      /\ ~load.overlap /\ j.event = "thread_opened" =>
            \A m \in Stored : messages[m].thread = j.thread => messages[m].event # "thread_opened"
  <2>1. /\ j.thread \in Threads /\ Open(j.thread) /\ j.sender \in thread[j.thread].pair
        /\ j.event \in {"thread_opened", "inspection_requested"}
        /\ j.message \in Stored /\ messages[j.message].thread = j.thread
        /\ messages[j.message].sender = j.sender
    BY <1>1 DEF MessageSession, Composing
  <2>2. j.sender \in People
    BY <1>1, <2>1, MessageShapes
  <2>3. QED
    BY <1>1, <2>1, <2>2 DEF MessageSession, Composing, Events
<1>4. FromUser(j.message)
  BY <1>3, MessageAssumption DEF FromUser
<1>5. /\ MessagesTypeOK' /\ MessagesGrow /\ MessageRows'
      /\ OneThreadPerConversation' /\ ThreadsOpenOnce'
      /\ \A m \in DOMAIN messages' : m \in Stored \/ messages'[m].sender = None
  BY <1>1, <1>2, <1>3, <1>4, AnnouncedKeeps
<1>6. MessageSession(w)'
  BY <1>2 DEF MessageSession, Composing
<1>7. \A v \in Workers : MessageSession(v)'
  BY <1>2, <1>5, <1>6, MessageSessionStays DEF Moved
<1>8. BellsRing'
  <2>1. /\ {w} \in SUBSET Workers
        /\ \A v \in Workers : v \notin {w} => pc'[v] = pc[v] /\ job'[v] = job[v]
    BY <1>2 DEF Moved
  <2>2. /\ \A v \in {w} : \A m \in Stored : pc[v] = "notify" /\ job[v].message = m => Told(m)'
        /\ bells \subseteq bells' /\ \A b \in bells' : b \in bells
    BY <1>1
  <2>3. QED
    BY <1>2, <1>5, <2>1, <2>2, BellsStay
<1>9. ~load.overlap => \A s \in Threads, u \in People : ~Showing(s, u) /\ ~Showing(s, u)'
  BY <1>1, <1>2 DEF Showing, Moved, Busy
<1>10. BadgesAreRight'
  BY <1>1, <1>2, <1>5, <1>9, BadgesMove
<1>11. QED
  BY <1>2, <1>5, <1>7, <1>8, <1>10, MovedAlone DEF MessageInv, Moved

LEMMA StartCallSessionKeeps ==
    ASSUME MessageInv, NEW t \in Threads, NEW u, StartCallSession(t, u)
    PROVE  MessageInv'
<1>1. /\ Still /\ UNCHANGED <<thread, lastRead, shown, bells, clock>> /\ Open(t)
      /\ Announced(t, "call_started") /\ load' = load
  BY ServedIsStill DEF StartCallSession, MessageInv, Still
<1>2. "call_started" \in Events /\ "call_started" # "thread_opened"
  BY DEF Events
<1>3. /\ MessagesTypeOK' /\ MessagesGrow /\ MessageRows'
      /\ OneThreadPerConversation' /\ ThreadsOpenOnce'
      /\ \A m \in DOMAIN messages' : m \in Stored \/ messages'[m].sender = None
  BY <1>1, <1>2, AnnouncedKeeps
<1>4. \A v \in Workers : MessageSession(v)'
  BY <1>1, <1>3, MessageSessionStays DEF Still
<1>5. BellsRing'
  <2>1. {} \in SUBSET Workers /\ \A v \in {} : FALSE
    OBVIOUS
  <2>2. bells \subseteq bells' /\ \A v \in Workers : pc'[v] = pc[v] /\ job'[v] = job[v]
    BY <1>1 DEF Still
  <2>3. \A b \in bells' : b \in bells
    BY <1>1
  <2>4. QED
    BY <1>1, <1>3, <2>1, <2>2, <2>3, BellsStay
<1>6. ~load.overlap => \A s \in Threads, x \in People : ~Showing(s, x) /\ ~Showing(s, x)'
  BY <1>1 DEF Showing, Still, Busy
<1>7. BadgesAreRight'
  BY <1>1, <1>3, <1>6, BadgesMove
<1>8. QED
  BY <1>1, <1>3, <1>4, <1>5, <1>7, StillAlone DEF MessageInv, Still

\* A step that only moves what a user has read or was shown.
LEMMA ReadingKeeps ==
    ASSUME MessageInv, UNCHANGED <<thread, messages, bells>>, load' = load,
           MessagesTypeOK', clock <= clock', Frame', Alone',
           NEW W \in SUBSET Workers,
           \A v \in Workers : v \notin W => pc'[v] = pc[v] /\ job'[v] = job[v]
                                            /\ (load.overlap \/ ~Busy(v)),
           \A v \in W : pc[v] # "notify" /\ MessageSession(v)',
           \A t \in Threads, u \in People : lastRead'[t][u] < clock',
           BadgesAreRight'
    PROVE  MessageInv'
<1>1. MessagesGrow
  BY DEF MessagesGrow, Open, Stored
<1>2. \A v \in Workers : MessageSession(v)'
  BY <1>1, MessageSessionStays
<1>3. OneThreadPerConversation' /\ ThreadsOpenOnce'
  BY DEF MessageInv, OneThreadPerConversation, ThreadsOpenOnce, Open, Stored, FromUser
<1>4. BellsRing'
  <2>1. /\ \A v \in W : \A m \in Stored : pc[v] = "notify" /\ job[v].message = m => Told(m)'
        /\ bells \subseteq bells' /\ \A b \in bells' : b \in bells
        /\ \A m \in DOMAIN messages' : m \in Stored
    BY DEF Stored
  <2>2. QED
    BY <1>1, <2>1, BellsStay
<1>5. MessageRows'
  <2>1. clock \in Nat /\ clock' \in Nat
    BY MessageAssumption DEF MessageInv, MessagesTypeOK, Moment
  <2>2. \A m \in Stored : /\ messages[m].at \in Nat /\ Open(messages[m].thread)
                          /\ FromUser(m) => messages[m].at < clock
    BY MessageShapes DEF MessageInv, MessageRows
  <2>3. QED
    BY <2>1, <2>2 DEF MessageRows, Open, Stored, FromUser
<1>6. QED
  BY <1>2, <1>3, <1>4, <1>5 DEF MessageInv

\* A mark is of now, and everything stored is of before.
LEMMA MarksAreOfNow ==
    ASSUME MessageInv, Tick, NEW t \in Threads, NEW u \in People,
           lastRead' = [lastRead EXCEPT ![t][u] = clock]
    PROVE  /\ lastRead' \in [Threads -> [People -> Moment]] /\ clock' \in Moment
           /\ clock \in Nat /\ clock' = clock + 1 /\ clock <= clock'
           /\ \A s \in Threads, x \in People :
                lastRead'[s][x] = IF s = t /\ x = u THEN clock ELSE lastRead[s][x]
           /\ \A s \in Threads, x \in People : lastRead'[s][x] < clock'
           /\ \A m \in Stored : FromUser(m) => messages[m].at <= clock
<1>1. /\ clock \in Moment /\ clock \in Nat /\ clock' \in Moment /\ clock' = clock + 1
      /\ lastRead \in [Threads -> [People -> Moment]] /\ Moment \subseteq Nat
  BY MessageAssumption DEF Tick, MessageInv, MessagesTypeOK, Moment
<1>2. \A s \in Threads, x \in People :
         lastRead'[s][x] = IF s = t /\ x = u THEN clock ELSE lastRead[s][x]
  BY <1>1
<1>3. lastRead' \in [Threads -> [People -> Moment]]
  BY <1>1
<1>4. \A s \in Threads, x \in People : lastRead[s][x] \in Nat /\ lastRead[s][x] < clock
  BY MessageShapes DEF MessageInv, MessageRows
<1>5. \A s \in Threads, x \in People : lastRead'[s][x] < clock'
  BY <1>1, <1>2, <1>4
<1>6. \A m \in Stored : FromUser(m) => messages[m].at \in Nat /\ messages[m].at < clock
  BY MessageShapes DEF MessageInv, MessageRows
<1>7. QED
  BY <1>1, <1>2, <1>3, <1>5, <1>6

LEMMA MarkThreadReadKeeps ==
    ASSUME MessageInv, NEW w \in Workers, NEW t \in Threads, NEW u \in People,
           MarkThreadRead(w, t, u)
    PROVE  MessageInv'
<1> DEFINE k == [thread |-> t, user |-> u]
<1>1. /\ Moved(w) /\ pc'[w] = "show" /\ job'[w] = k /\ pc[w] = "idle"
      /\ UNCHANGED <<thread, messages, shown, bells>> /\ Open(t) /\ Tick
      /\ lastRead' = [lastRead EXCEPT ![t][u] = clock]
  BY GotoMoves DEF MarkThreadRead, MessageInv, Ready, Served, Busy
<1>2. k.thread = t /\ k.user = u
  OBVIOUS
<1> HIDE DEF k
<1>3. /\ lastRead' \in [Threads -> [People -> Moment]] /\ clock' \in Moment
      /\ clock \in Nat /\ clock' = clock + 1 /\ clock <= clock'
      /\ \A s \in Threads, x \in People :
           lastRead'[s][x] = IF s = t /\ x = u THEN clock ELSE lastRead[s][x]
      /\ \A s \in Threads, x \in People : lastRead'[s][x] < clock'
      /\ \A m \in Stored : FromUser(m) => messages[m].at <= clock
  BY <1>1, MarksAreOfNow
<1>4. MessagesTypeOK'
  BY <1>1, <1>3 DEF MessageInv, MessagesTypeOK, Stored
<1>5. MessageSession(w)'
  BY <1>1, <1>2 DEF MessageSession, Composing, Open
<1>6. ~load.overlap => \A s \in Threads, x \in People :
         ~Showing(s, x) /\ (Showing(s, x)' <=> s = t /\ x = u)
  BY <1>1, <1>2 DEF Showing, Moved, Busy
<1>7. BadgesAreRight'
  <2> SUFFICES ASSUME ~load.overlap, ~load.fails,
                      NEW s \in Threads, NEW x \in thread[s].pair, NEW m \in Stored,
                      messages[m].thread = s, FromUser(m), messages[m].sender # x
               PROVE  IF s = t /\ x = u THEN messages[m].at <= lastRead'[s][x]
                      ELSE messages[m].at > lastRead'[s][x] <=> m \notin shown[x]
    <3>1. \A s \in Threads : thread[s].pair \subseteq People
      BY MessageShapes DEF MessageInv
    <3>2. load' = load
      BY <1>1 DEF Moved
    <3>3. QED
      BY <1>1, <1>6, <3>1, <3>2 DEF BadgesAreRight, Stored, FromUser
  <2>1. x \in People
    BY MessageShapes DEF MessageInv
  <2>2. CASE s = t /\ x = u
    BY <1>3, <2>1, <2>2
  <2>3. CASE ~(s = t /\ x = u)
    <3>1. lastRead'[s][x] = lastRead[s][x] /\ ~Showing(s, x)
      BY <1>3, <1>6, <2>1, <2>3
    <3>2. messages[m].at > lastRead[s][x] <=> m \notin shown[x]
      BY <3>1 DEF MessageInv, BadgesAreRight
    <3>3. QED
      BY <2>3, <3>1, <3>2
  <2>4. QED
    BY <2>2, <2>3
<1>8. /\ {w} \in SUBSET Workers /\ \A v \in {w} : pc[v] # "notify" /\ MessageSession(v)'
      /\ \A v \in Workers : v \notin {w} => pc'[v] = pc[v] /\ job'[v] = job[v]
                                            /\ (load.overlap \/ ~Busy(v))
      /\ load' = load /\ Frame' /\ Alone'
  BY <1>1, <1>5, MovedAlone DEF Moved
<1>9. QED
  BY <1>1, <1>3, <1>4, <1>7, <1>8, ReadingKeeps

\* What a user is shown of a thread, and of no other.
LEMMA ShownOfAThread ==
    ASSUME MessageInv, NEW t \in Threads, NEW u \in People, UNCHANGED messages,
           shown' = [shown EXCEPT ![u] = @ \cup {m \in Stored : messages[m].thread = t}]
    PROVE  /\ shown' \in [People -> SUBSET Stored]
           /\ \A m \in Stored, x \in People :
                m \in shown'[x] <=> m \in shown[x] \/ (x = u /\ messages[m].thread = t)
BY DEF MessageInv, MessagesTypeOK

LEMMA ListMessagesKeeps ==
    ASSUME MessageInv, NEW w \in Workers, ListMessages(w)
    PROVE  MessageInv'
<1> DEFINE t == job[w].thread
           u == job[w].user
<1>1. /\ pc[w] = "show" /\ Busy(w) /\ MessageSession(w)
      /\ UNCHANGED <<thread, messages, lastRead, bells, clock>>
      /\ shown' = [shown EXCEPT ![u] = @ \cup {m \in Stored : messages[m].thread = t}]
  BY DEF ListMessages, Busy, MessageInv
<1>2. t \in Threads /\ u \in People
  BY <1>1 DEF MessageSession
<1>3. Moved(w) /\ pc'[w] = "idle" /\ load' = load
  BY <1>1, RespondMoves DEF ListMessages, MessageInv, Moved
<1>4. ~load.overlap => \A s \in Threads, x \in People :
         ~Showing(s, x)' /\ (Showing(s, x) <=> s = t /\ x = u)
  BY <1>1, <1>3 DEF Showing, Moved, Busy
<1> HIDE DEF t, u
<1>5. /\ shown' \in [People -> SUBSET Stored]
      /\ \A m \in Stored, x \in People :
           m \in shown'[x] <=> m \in shown[x] \/ (x = u /\ messages[m].thread = t)
  BY <1>1, <1>2, ShownOfAThread
<1>6. MessagesTypeOK' /\ clock <= clock'
  BY <1>1, <1>5, MessageShapes DEF MessageInv, MessagesTypeOK, Stored
<1>7. MessageSession(w)'
  BY <1>3 DEF MessageSession, Composing
<1>8. BadgesAreRight'
  <2> SUFFICES ASSUME ~load.overlap, ~load.fails,
                      NEW s \in Threads, NEW x \in thread[s].pair, NEW m \in Stored,
                      messages[m].thread = s, FromUser(m), messages[m].sender # x
               PROVE  messages[m].at > lastRead[s][x] <=> m \notin shown'[x]
    <3>1. \A s \in Threads : thread[s].pair \subseteq People
      BY MessageShapes DEF MessageInv
    <3>2. QED
      BY <1>1, <1>3, <1>4, <3>1 DEF BadgesAreRight, Stored, FromUser
  <2>1. /\ x \in People /\ messages[m].at \in Nat
    BY MessageShapes DEF MessageInv
  <2>2. lastRead[s][x] \in Nat
    BY <2>1, MessageShapes DEF MessageInv
  <2>3. IF Showing(s, x) THEN messages[m].at <= lastRead[s][x]
        ELSE messages[m].at > lastRead[s][x] <=> m \notin shown[x]
    BY DEF MessageInv, BadgesAreRight
  <2>4. CASE s = t /\ x = u
    BY <1>4, <1>5, <2>1, <2>2, <2>3, <2>4
  <2>5. CASE ~(s = t /\ x = u)
    BY <1>4, <1>5, <2>1, <2>3, <2>5
  <2>6. QED
    BY <2>4, <2>5
<1>9. /\ {w} \in SUBSET Workers /\ \A v \in {w} : pc[v] # "notify" /\ MessageSession(v)'
      /\ \A v \in Workers : v \notin {w} => pc'[v] = pc[v] /\ job'[v] = job[v]
                                            /\ (load.overlap \/ ~Busy(v))
      /\ Frame' /\ Alone'
  BY <1>1, <1>3, <1>7, MovedAlone DEF Moved
<1>10. \A s \in Threads, x \in People : lastRead'[s][x] < clock'
  BY <1>1 DEF MessageInv, MessageRows
<1>11. QED
  BY <1>1, <1>3, <1>6, <1>8, <1>9, <1>10, ReadingKeeps

LEMMA MarkReadKeeps ==
    ASSUME MessageInv, NEW t \in Threads, NEW u \in People, MarkRead(t, u)
    PROVE  MessageInv'
<1>1. /\ Still /\ UNCHANGED <<thread, messages, bells>> /\ Tick /\ load' = load
      /\ lastRead' = [lastRead EXCEPT ![t][u] = clock]
      /\ shown' = [shown EXCEPT ![u] = @ \cup {m \in Stored : messages[m].thread = t}]
  BY ServedIsStill DEF MarkRead, MessageInv, Still
<1>2. /\ lastRead' \in [Threads -> [People -> Moment]] /\ clock' \in Moment
      /\ clock \in Nat /\ clock' = clock + 1 /\ clock <= clock'
      /\ \A s \in Threads, x \in People :
           lastRead'[s][x] = IF s = t /\ x = u THEN clock ELSE lastRead[s][x]
      /\ \A s \in Threads, x \in People : lastRead'[s][x] < clock'
      /\ \A m \in Stored : FromUser(m) => messages[m].at <= clock
  BY <1>1, MarksAreOfNow
<1>3. /\ shown' \in [People -> SUBSET Stored]
      /\ \A m \in Stored, x \in People :
           m \in shown'[x] <=> m \in shown[x] \/ (x = u /\ messages[m].thread = t)
  BY <1>1, ShownOfAThread
<1>4. MessagesTypeOK'
  BY <1>1, <1>2, <1>3 DEF MessageInv, MessagesTypeOK, Stored
<1>5. ~load.overlap => \A s \in Threads, x \in People : ~Showing(s, x) /\ ~Showing(s, x)'
  BY <1>1 DEF Showing, Still, Busy
<1>6. BadgesAreRight'
  <2> SUFFICES ASSUME ~load.overlap, ~load.fails,
                      NEW s \in Threads, NEW x \in thread[s].pair, NEW m \in Stored,
                      messages[m].thread = s, FromUser(m), messages[m].sender # x
               PROVE  messages[m].at > lastRead'[s][x] <=> m \notin shown'[x]
    <3>1. \A s \in Threads : thread[s].pair \subseteq People
      BY MessageShapes DEF MessageInv
    <3>2. QED
      BY <1>1, <1>5, <3>1 DEF BadgesAreRight, Stored, FromUser
  <2>1. x \in People /\ messages[m].at \in Nat
    BY MessageShapes DEF MessageInv
  <2>2. messages[m].at > lastRead[s][x] <=> m \notin shown[x]
    BY <1>5, <2>1 DEF MessageInv, BadgesAreRight
  <2>3. CASE s = t /\ x = u
    BY <1>2, <1>3, <2>1, <2>3
  <2>4. CASE ~(s = t /\ x = u)
    BY <1>2, <1>3, <2>1, <2>2, <2>4
  <2>5. QED
    BY <2>3, <2>4
<1>7. /\ {} \in SUBSET Workers /\ \A v \in {} : FALSE
      /\ \A v \in Workers : pc'[v] = pc[v] /\ job'[v] = job[v] /\ (load.overlap \/ ~Busy(v))
      /\ Frame' /\ Alone'
  BY <1>1, StillAlone DEF Still
<1>8. QED
  BY <1>1, <1>2, <1>4, <1>6, <1>7, ReadingKeeps

LEMMA MessagesNextKeeps ==
    ASSUME MessageInv, MessagesNext
    PROVE  MessageInv'
BY StartFromUnitKeeps, PostToThreadKeeps, MarkThreadReadKeeps, StartCallSessionKeeps,
   MarkReadKeeps, ArchiveThreadKeeps, EnsureThreadKeeps, OpenThreadKeeps, AppendMessageKeeps,
   NotifyRecipientsKeeps, PostSystemMessageKeeps, ListMessagesKeeps, MessageDieKeeps
   DEF MessagesNext

LEMMA MessagesInitially ==
    ASSUME MessagesInit
    PROVE  /\ MessagesTypeOK /\ MessageRows /\ Stored = {} /\ bells = {}
           /\ \A t \in Threads : ~Open(t)
<1>1. 0 \in Moment /\ 1 \in Moment
  BY MessageAssumption DEF Moment
<1>2. Stored = {} /\ messages \in Seq(MessageRow)
  BY DEF MessagesInit, Stored
<1>3. \A t \in Threads : ~Open(t)
  BY DEF MessagesInit, Open
<1>4. QED
  BY <1>1, <1>2, <1>3 DEF MessagesInit, MessagesTypeOK, MessageRows

LEMMA MessagesStart ==
    ASSUME RequestsInit, MessagesInit
    PROVE  MessagePart
<1>1. Frame /\ \A w \in Workers : pc[w] = "idle"
  BY DEF RequestsInit, Frame
<1>2. Alone /\ \A w \in Workers : MessageSession(w)
  BY <1>1 DEF Alone, Busy, MessageSession, Composing
<1>3. OneThreadPerConversation /\ ThreadsOpenOnce /\ BellsRing /\ BadgesAreRight
  BY MessagesInitially DEF OneThreadPerConversation, ThreadsOpenOnce, BellsRing, BadgesAreRight
<1>4. QED
  BY <1>1, <1>2, <1>3, MessagesInitially DEF MessagePart, MessageInv

LEMMA MessagesSame ==
    ASSUME MessageInv, UNCHANGED <<requests, messageVars>>
    PROVE  MessageInv'
<1>1. UNCHANGED <<load, pc, job, thread, messages, lastRead, shown, bells, clock>>
  BY DEF requests, messageVars
<1>2. Frame' /\ Alone' /\ MessagesTypeOK' /\ MessageRows'
  BY <1>1 DEF MessageInv, Frame, Alone, Busy, MessagesTypeOK, MessageRows, Stored, Open, FromUser
<1>3. \A w \in Workers : MessageSession(w)'
  BY <1>1 DEF MessageInv, MessageSession, Open, Stored, IsNew, Found, FoundByUnit
<1>4. OneThreadPerConversation' /\ ThreadsOpenOnce'
  BY <1>1 DEF MessageInv, OneThreadPerConversation, ThreadsOpenOnce, Open, Stored, FromUser
<1>5. BellsRing' /\ BadgesAreRight'
  BY <1>1 DEF MessageInv, BellsRing, Told, BadgesAreRight, Showing, Stored, FromUser
<1>6. QED
  BY <1>2, <1>3, <1>4, <1>5 DEF MessageInv

LEMMA MessagesStep ==
    ASSUME MessagePart, [Next]_vars
    PROVE  MessagePart'
<1>1. CASE Next /\ load.part = "messages"
  <2>1. MessagesNext /\ load' = load
    BY <1>1 DEF Next
  <2>2. QED
    BY <1>1, <2>1, MessagesNextKeeps DEF MessagePart
<1>2. CASE Next /\ load.part # "messages"
  <2>1. UNCHANGED messageVars /\ load' = load
    BY <1>2 DEF Next, Except
  <2>2. QED
    BY <1>2, <2>1 DEF MessagePart, MessagesInit, messageVars
<1>3. CASE UNCHANGED vars
  <2>1. UNCHANGED <<requests, messageVars>> /\ load' = load
    BY <1>3 DEF vars, requests
  <2>2. QED
    BY <2>1, MessagesSame DEF MessagePart, MessagesInit, messageVars
<1>4. QED
  BY <1>1, <1>2, <1>3

LEMMA MessagesInvariant == Spec => []MessagePart
<1>1. Init => MessagePart
  BY MessagesStart DEF Init
<1>2. QED
  BY <1>1, MessagesStep, PTL DEF Spec

\* One request at a time, two people have one thread about a unit, which says
\* once, after what the first of them wrote, that it was opened, even if the
\* request that opened it died (ensure_thread, start_from_unit).
THEOREM ConversationsAreAlwaysOne == Spec => []ConversationsAreOne
<1>1. ASSUME MessagePart
      PROVE  ConversationsAreOne
  BY <1>1, MessagesInitially DEF MessagePart, MessageInv, ConversationsAreOne,
                                 OneThreadPerConversation, ThreadsOpenOnce
<1>2. QED
  BY <1>1, MessagesInvariant, PTL

\* Overlapping or not, a message that was answered has told its recipients and
\* nobody else; one request at a time, the badge counts what one has not been
\* shown (_notify_message_recipients, _unread_count).
THEOREM MessagesAlwaysArrive == Spec => []MessagesArrive
<1>1. ASSUME MessagePart
      PROVE  MessagesArrive
  <2>1. CASE load.part = "messages"
    <3>1. MessageInv
      BY <1>1, <2>1 DEF MessagePart
    <3>2. RecipientsAreTold
      BY <3>1 DEF MessageInv, BellsRing, Told, RecipientsAreTold, Busy
    <3>3. UnreadIsUnshown
      <4> SUFFICES ASSUME ~load.overlap, ~load.fails, NEW t \in Threads, NEW u \in thread[t].pair,
                          ~(\E w \in Workers : pc[w] = "show"), NEW m \in Stored,
                          messages[m].thread = t
                   PROVE  /\ FromUser(m) /\ messages[m].at > lastRead[t][u]
                             /\ messages[m].sender # u
                          <=> m \notin shown[u] /\ messages[m].sender \notin {u, None}
        BY DEF UnreadIsUnshown, Unread, UnreadOfAll
      <4>1. ~Showing(t, u)
        BY DEF Showing
      <4>2. QED
        BY <3>1, <4>1 DEF MessageInv, BadgesAreRight, FromUser
    <3>4. QED
      BY <3>2, <3>3 DEF MessagesArrive
  <2>2. CASE load.part # "messages"
    <3>1. Stored = {} /\ bells = {}
      BY <1>1, <2>2, MessagesInitially DEF MessagePart
    <3>2. QED
      BY <3>1 DEF MessagesArrive, RecipientsAreTold, UnreadIsUnshown, Unread, UnreadOfAll
  <2>3. QED
    BY <2>1, <2>2
<1>2. QED
  BY <1>1, MessagesInvariant, PTL

-----------------------------------------------------------------------------
(* Tenant links.                                                           *)

LEMMA LinkShapes ==
    ASSUME LinksTypeOK
    PROVE  /\ \A t \in Rentals : /\ rental[t] \in RentalRow
                                 /\ rental[t].email \in Mailboxes \cup {None}
                                 /\ rental[t].user \in Logins \cup {None}
           /\ \A u \in Logins : Exists(u) => login[u] \in LoginRow /\ login[u].email \in Mailboxes
           /\ \A u \in Logins : login[u].email \in Mailboxes => Exists(u)
           /\ \A r \in LoginRow : r # NoLogin
           /\ Token \subseteq Nat
<1>1. \A r \in LoginRow : r.email \in Mailboxes /\ r # NoLogin
  BY LinkAssumption DEF LoginRow, NoLogin
<1>2. \A u \in Logins : Exists(u) => login[u] \in LoginRow
  BY DEF LinksTypeOK, Exists
<1>3. \A u \in Logins : login[u].email \in Mailboxes => Exists(u)
  BY LinkAssumption DEF Exists, NoLogin
<1>4. \A t \in Rentals : rental[t] \in RentalRow
  BY DEF LinksTypeOK
<1>5. \A r \in RentalRow : r.email \in Mailboxes \cup {None} /\ r.user \in Logins \cup {None}
  BY DEF RentalRow
<1>6. Token \subseteq Nat
  BY LinkAssumption DEF Token
<1>7. QED
  BY <1>1, <1>2, <1>3, <1>4, <1>5, <1>6

LEMMA LinkSessionStays ==
    ASSUME LinkInv, LinksStay, load' = load, NEW v \in Workers,
           pc'[v] = pc[v], job'[v] = job[v], load.overlap \/ ~Busy(v)
    PROVE  LinkSessions(v)'
<1>1. LinkSession(v) /\ LoginAtHand(v)
  BY DEF LinkInv, LinkSessions
<1>2. CASE ~Busy(v)
  BY <1>2 DEF LinkSessions, LinkSession, LoginAtHand, LinksAlone, StoresRental, Busy
<1>3. CASE load.overlap
  <2>1. LinkSession(v)' /\ LinksAlone(v)'
    BY <1>1, <1>3 DEF LinkSession, LinksAlone, StoresRental, Uses
  <2>2. LoginAtHand(v)'
    BY <1>1, <1>3 DEF LinkSession, LoginAtHand, LinksStay, StoresRental, Uses, Exists, Linked
  <2>3. QED
    BY <2>1, <2>2 DEF LinkSessions
<1>4. QED
  BY <1>2, <1>3

\* A step of a request, and a handler of one step.
LEMMA LinksMove ==
    ASSUME LinkInv, LinksStay, NEW w \in Workers, Moved(w), LinkSessions(w)',
           LinksTypeOK', LinkKeys', LinkedRentalsShareTheEmail'
    PROVE  LinkInv'
<1>1. \A v \in Workers : v # w => LinkSessions(v)'
  BY LinkSessionStays DEF Moved
<1>2. \A v \in Workers : LinkSessions(v)'
  BY <1>1
<1>3. Frame' /\ Alone'
  BY MovedAlone DEF Moved
<1>4. QED
  BY <1>2, <1>3 DEF LinkInv

LEMMA LinksStand ==
    ASSUME LinkInv, LinksStay, Still,
           LinksTypeOK', LinkKeys', LinkedRentalsShareTheEmail'
    PROVE  LinkInv'
<1>1. \A v \in Workers : LinkSessions(v)'
  BY LinkSessionStays DEF Still
<1>2. Frame' /\ Alone'
  BY StillAlone DEF Still
<1>3. QED
  BY <1>1, <1>2 DEF LinkInv

LEMMA LinksIdle ==
    ASSUME NEW w, pc'[w] = "idle"
    PROVE  LinkSessions(w)'
BY DEF LinkSessions, LinkSession, LoginAtHand, LinksAlone, StoresRental

\* The rows stay as they are.
LEMMA LinkRowsSame ==
    ASSUME LinkInv, UNCHANGED <<rental, login, opened>>, load' = load,
           tokens' \in Token, stale' \in 0 .. tokens'
    PROVE  LinksStay /\ LinksTypeOK' /\ LinkKeys' /\ LinkedRentalsShareTheEmail'
<1>1. LinksStay
  BY DEF LinksStay, Linked, Exists
<1>2. LinksTypeOK'
  BY DEF LinkInv, LinksTypeOK
<1>3. LinkKeys' /\ LinkedRentalsShareTheEmail'
  BY DEF LinkInv, LinkKeys, LinkedRentalsShareTheEmail, Linked, Exists, Uses
<1>4. QED
  BY <1>1, <1>2, <1>3

\* A login is made, with an address that is free.
LEMMA LoginAdded ==
    ASSUME LinkInv, NEW u \in Logins, NEW e \in Mailboxes, NEW role \in {"tenant", "other"},
           NEW o \in Rentals \cup {None}, ~Exists(u), ~Claimed(e),
           login' = [login EXCEPT ![u] = [email |-> e, role |-> role]],
           opened' = [opened EXCEPT ![u] = o],
           UNCHANGED <<rental, tokens, stale>>, load' = load
    PROVE  LinksStay /\ LinksTypeOK' /\ LinkKeys' /\ LinkedRentalsShareTheEmail'
<1>1. LinksTypeOK /\ LinkKeys /\ LinkedRentalsShareTheEmail
  BY DEF LinkInv
<1>2. /\ login' \in [Logins -> LoginRow \cup {NoLogin}]
      /\ opened' \in [Logins -> Rentals \cup {None}]
  BY <1>1 DEF LinksTypeOK, LoginRow
<1>3. /\ login'[u].email = e /\ login'[u] # NoLogin
      /\ \A v \in Logins : v # u => login'[v] = login[v]
  BY <1>1, <1>2, LinkShapes DEF LinksTypeOK, LoginRow
<1>4. LinksTypeOK'
  BY <1>1, <1>2 DEF LinksTypeOK
<1>5. LinksStay
  BY <1>3 DEF LinksStay, Exists, Linked
<1>6. LinkKeys'
  <2>1. \A t \in Rentals : rental'[t].user # None => login'[rental'[t].user] # NoLogin
    BY <1>1, <1>3, LinkShapes DEF LinkKeys, Linked, Exists
  <2>2. \A v \in Logins : v # u => login'[v].email # e
    BY <1>3 DEF Claimed, AccountOf
  <2>3. \A v, x \in Logins : login'[v] # NoLogin /\ login'[v].email = login'[x].email => v = x
    BY <1>1, <1>3, <2>2 DEF LinkKeys, Exists
  <2>4. QED
    BY <2>1, <2>3 DEF LinkKeys, Linked, Exists
<1>7. LinkedRentalsShareTheEmail'
  <2>1. \A t \in Rentals : Linked(t) => rental[t].user \in Logins /\ rental[t].user # u
    BY <1>1, LinkShapes DEF LinkKeys, Linked
  <2>2. QED
    BY <1>1, <1>3, <2>1 DEF LinkedRentalsShareTheEmail, Linked, Uses
<1>8. QED
  BY <1>4, <1>5, <1>6, <1>7

LEMMA MakeLoginKeeps ==
    ASSUME LinkInv, NEW u \in Logins, NEW e \in Mailboxes, NEW role \in {"tenant", "other"},
           MakeLogin(u, e, role)
    PROVE  LinkInv'
<1>1. Still
  BY ServedIsStill DEF LinkInv, MakeLogin
<1>2. opened[u] \in Rentals \cup {None} /\ opened' = [opened EXCEPT ![u] = opened[u]]
  BY DEF MakeLogin, LinkInv, LinksTypeOK
<1>3. LinksStay /\ LinksTypeOK' /\ LinkKeys' /\ LinkedRentalsShareTheEmail'
  BY <1>1, <1>2, LoginAdded DEF MakeLogin, Still
<1>4. QED
  BY <1>1, <1>3, LinksStand

LEMMA DeleteLoginKeeps ==
    ASSUME LinkInv, NEW u \in Logins, DeleteLogin(u)
    PROVE  LinkInv'
<1>1. Still /\ Uses("delete_login")
  BY ServedIsStill DEF LinkInv, DeleteLogin, Served
<1>2. LinksTypeOK /\ LinkKeys /\ LinkedRentalsShareTheEmail
  BY DEF LinkInv
<1>3. \A t \in Rentals : rental'[t] = IF rental[t].user = u
                                      THEN [rental[t] EXCEPT !.user = None] ELSE rental[t]
  BY DEF DeleteLogin
<1>4. \A t \in Rentals : /\ rental'[t] \in RentalRow
                         /\ rental'[t].email = rental[t].email
                         /\ rental'[t].user = IF rental[t].user = u THEN None ELSE rental[t].user
  <2> SUFFICES ASSUME NEW t \in Rentals
               PROVE  /\ rental'[t] \in RentalRow
                      /\ rental'[t].email = rental[t].email
                      /\ rental'[t].user = IF rental[t].user = u THEN None ELSE rental[t].user
    OBVIOUS
  <2>1. rental[t] \in RentalRow
    BY <1>2 DEF LinksTypeOK
  <2>2. [rental[t] EXCEPT !.user = None] \in RentalRow
    BY <2>1 DEF RentalRow
  <2>3. QED
    BY <1>3, <2>1, <2>2 DEF RentalRow
<1>5. login'[u] = NoLogin /\ \A v \in Logins : v # u => login'[v] = login[v]
  BY <1>2 DEF LinksTypeOK, DeleteLogin
<1>6. LinksTypeOK'
  <2>1. rental' \in [Rentals -> RentalRow]
    BY <1>4 DEF DeleteLogin
  <2>2. login' \in [Logins -> LoginRow \cup {NoLogin}] /\ opened' \in [Logins -> Rentals \cup {None}]
    BY <1>2 DEF LinksTypeOK, DeleteLogin
  <2>3. QED
    BY <1>2, <2>1, <2>2 DEF LinksTypeOK, DeleteLogin
<1>7. LinkKeys'
  <2>1. \A t \in Rentals : rental'[t].user # None => login'[rental'[t].user] # NoLogin
    BY <1>2, <1>4, <1>5, LinkShapes DEF LinkKeys, Linked, Exists
  <2>2. \A v \in Logins : login'[v] # NoLogin => v # u /\ login[v].email # None
    BY <1>2, <1>5, LinkShapes, LinkAssumption DEF Exists
  <2>3. login'[u].email = None
    BY <1>5 DEF NoLogin
  <2>4. \A v, x \in Logins : login'[v] # NoLogin /\ login'[v].email = login'[x].email => v = x
    BY <1>2, <1>5, <2>2, <2>3 DEF LinkKeys, Exists
  <2>5. QED
    BY <2>1, <2>4 DEF LinkKeys, Linked, Exists
<1>8. LinkedRentalsShareTheEmail'
  <2> SUFFICES ASSUME ~load.overlap, ~Uses("update_profile"), NEW t \in Rentals,
                      rental'[t].user # None, rental'[t].email # None,
                      \A s \in Rentals \ {t} : rental'[s].user # rental'[t].user
               PROVE  login'[rental'[t].user].email = rental'[t].email
    BY <1>1 DEF LinkedRentalsShareTheEmail, Linked, Still, Uses
  <2>1. /\ rental'[t].user = rental[t].user /\ rental[t].user # u
        /\ rental[t].user \in Logins
        /\ \A s \in Rentals \ {t} : rental[s].user # rental[t].user
    BY <1>2, <1>4, LinkShapes
  <2>2. QED
    BY <1>2, <1>4, <1>5, <2>1 DEF LinkedRentalsShareTheEmail, Linked
<1>9. LinksStay
  BY <1>1 DEF LinksStay
<1>10. QED
  BY <1>1, <1>6, <1>7, <1>8, <1>9, LinksStand

LEMMA UpdateEmailKeeps ==
    ASSUME LinkInv, NEW t \in Rentals, NEW e \in Mailboxes \cup {None}, UpdateEmail(t, e)
    PROVE  LinkInv'
<1> DEFINE u == rental[t].user
<1>1. Still
  BY ServedIsStill DEF LinkInv, UpdateEmail
<1>2. LinksTypeOK /\ LinkKeys /\ LinkedRentalsShareTheEmail
  BY DEF LinkInv
<1>3. /\ rental' \in [Rentals -> RentalRow]
      /\ rental'[t].email = e
      /\ \A s \in Rentals : rental'[s].user = rental[s].user
      /\ \A s \in Rentals : s # t => rental'[s] = rental[s]
  <2>1. rental[t] \in RentalRow /\ DOMAIN rental = Rentals
    BY <1>2 DEF LinksTypeOK
  <2>2. [rental[t] EXCEPT !.email = e] \in RentalRow
    BY <2>1 DEF RentalRow
  <2>3. rental' = [rental EXCEPT ![t] = [rental[t] EXCEPT !.email = e]]
    BY DEF UpdateEmail
  <2>4. QED
    BY <1>2, <2>1, <2>2, <2>3 DEF LinksTypeOK, RentalRow
<1>4. \/ login' = login /\ (e = None \/ u = None)
      \/ /\ e \in Mailboxes /\ u \in Logins /\ Exists(u)
         /\ AccountOf(e) \subseteq {u} /\ login' = Synced(u, e)
  BY <1>2, LinkShapes DEF UpdateEmail, LinkKeys, Linked
<1>5. /\ login' \in [Logins -> LoginRow \cup {NoLogin}]
      /\ \A v \in Logins : v # u => login'[v] = login[v]
      /\ \A v \in Logins : login[v] # NoLogin => login'[v] # NoLogin
      /\ e # None /\ u # None => login'[u].email = e
      /\ \A v, x \in Logins : login'[v] # NoLogin /\ login'[v].email = login'[x].email => v = x
  <2>1. CASE login' = login /\ (e = None \/ u = None)
    BY <1>2, <2>1 DEF LinksTypeOK, LinkKeys, Exists
  <2>2. CASE /\ e \in Mailboxes /\ u \in Logins /\ Exists(u)
             /\ AccountOf(e) \subseteq {u} /\ login' = Synced(u, e)
    <3>1. login[u] \in LoginRow /\ [login[u] EXCEPT !.email = e] \in LoginRow
      BY <1>2, <2>2, LinkShapes DEF LoginRow
    <3>2. login' = [login EXCEPT ![u] = [login[u] EXCEPT !.email = e]]
      BY <2>2 DEF Synced
    <3>3. login'[u] = [login[u] EXCEPT !.email = e] /\ \A v \in Logins : v # u => login'[v] = login[v]
      BY <1>2, <2>2, <3>2 DEF LinksTypeOK
    <3>4. login'[u].email = e /\ login'[u] # NoLogin
      BY <1>2, <3>1, <3>3, LinkShapes DEF LoginRow
    <3>5. \A v \in Logins : v # u => login[v].email # e
      BY <2>2 DEF AccountOf
    <3>6. login' \in [Logins -> LoginRow \cup {NoLogin}]
      BY <1>2, <3>1, <3>2 DEF LinksTypeOK
    <3>7. \A v, x \in Logins : login'[v] # NoLogin /\ login'[v].email = login'[x].email => v = x
      <4>1. \A v, x \in Logins : login[v] # NoLogin /\ login[v].email = login[x].email => v = x
        BY <1>2 DEF LinkKeys, Exists
      <4> HIDE DEF u
      <4>2. QED
        BY <3>3, <3>4, <3>5, <4>1
    <3>8. QED
      BY <3>3, <3>4, <3>6, <3>7
  <2>3. QED
    BY <1>4, <2>1, <2>2
<1>6. LinksTypeOK'
  BY <1>2, <1>3, <1>5 DEF LinksTypeOK, UpdateEmail
<1>7. LinkKeys'
  <2>1. \A s \in Rentals : rental[s].user # None => rental[s].user \in Logins /\ Exists(rental[s].user)
    BY <1>2, LinkShapes DEF LinkKeys, Linked
  <2>2. \A s \in Rentals : rental'[s].user # None => login'[rental'[s].user] # NoLogin
    BY <1>3, <1>5, <2>1 DEF Exists
  <2>3. QED
    BY <1>5, <2>2 DEF LinkKeys, Linked, Exists
<1>8. LinkedRentalsShareTheEmail'
  <2> SUFFICES ASSUME ~load.overlap, ~Uses("update_profile"), NEW s \in Rentals,
                      rental'[s].user # None, rental'[s].email # None,
                      \A x \in Rentals \ {s} : rental'[x].user # rental'[s].user
               PROVE  login'[rental'[s].user].email = rental'[s].email
    BY <1>1 DEF LinkedRentalsShareTheEmail, Linked, Still, Uses
  <2>1. /\ rental[s].user \in Logins
        /\ \A x \in Rentals \ {s} : rental[x].user # rental[s].user
    BY <1>2, <1>3, LinkShapes
  <2>2. CASE s = t
    BY <1>3, <1>5, <2>2
  <2>3. CASE s # t
    <3>1. rental'[s] = rental[s] /\ rental[s].user # u
      BY <1>3, <2>1, <2>3
    <3>2. QED
      BY <1>2, <1>5, <2>1, <3>1 DEF LinkedRentalsShareTheEmail, Linked
  <2>4. QED
    BY <2>2, <2>3
<1>9. LinksStay
  BY <1>3, <1>5 DEF LinksStay, Exists, Linked
<1>10. QED
  BY <1>1, <1>6, <1>7, <1>8, <1>9, LinksStand

LEMMA ExpireTokensKeeps ==
    ASSUME LinkInv, ExpireTokens
    PROVE  LinkInv'
<1>1. Still
  BY ServedIsStill DEF LinkInv, ExpireTokens
<1>2. tokens' \in Token /\ stale' \in 0 .. tokens'
  BY LinkShapes DEF ExpireTokens, LinkInv, LinksTypeOK
<1>3. LinksStay /\ LinksTypeOK' /\ LinkKeys' /\ LinkedRentalsShareTheEmail'
  BY <1>1, <1>2, LinkRowsSame DEF ExpireTokens, Still
<1>4. QED
  BY <1>1, <1>3, LinksStand

\* A request goes on to a phase without changing a row.
LEMMA LinkGoesOn ==
    ASSUME LinkInv, NEW w \in Workers, Moved(w), UNCHANGED <<rental, login, opened>>,
           tokens' \in Token, stale' \in 0 .. tokens', LinkSessions(w)'
    PROVE  LinkInv'
<1>1. LinksStay /\ LinksTypeOK' /\ LinkKeys' /\ LinkedRentalsShareTheEmail'
  BY LinkRowsSame DEF Moved
<1>2. QED
  BY <1>1, LinksMove

\* A session that has read an unlinked record is going to link it to a login
\* that is there, and has its address if requests do not overlap.
LEMMA LinkingReads ==
    ASSUME LinkInv, NEW w \in Workers, NEW t \in Rentals, NEW u \in Logins, NEW set,
           set \in {[user |-> u], [user |-> u, token |-> 0]},
           NEW p, NEW j, Goto(w, p, j),
           p \in {"store_rental", "resolve"}, j.rental = t, j.seen = rental[t], j.set = set,
           p = "resolve" => j.email \in Mailboxes \cup {None} /\ Uses("update_profile"),
           Busy(w) \/ load.overlap \/ \A v \in Workers : ~Busy(v),
           (load.overlap /\ Uses("delete_login")) \/ Exists(u),
           ~load.overlap => ~Linked(t) /\ login[u].email = rental[t].email,
           UNCHANGED linkVars
    PROVE  LinkInv'
<1>1. Moved(w) /\ pc'[w] = p /\ job'[w] = j /\ load' = load
  BY GotoMoves DEF LinkInv, Moved
<1>2. LinksTypeOK /\ UNCHANGED <<rental, login, opened, tokens, stale>>
  BY DEF LinkInv, linkVars
<1>3. /\ "user" \in DOMAIN set /\ set.user = u
      /\ "email" \notin DOMAIN set
      /\ "token" \in DOMAIN set => set.token \in Token
  BY LinkAssumption DEF Token
<1>4. rental[t] \in RentalRow
  BY <1>2 DEF LinksTypeOK
<1>5. LinkSession(w)'
  BY <1>1, <1>3, <1>4 DEF LinkSession, StoresRental, Uses
<1>6. LoginAtHand(w)'
  <2>1. u # rental[t].user \/ rental[t].user # None
    BY LinkAssumption
  <2>2. QED
    BY <1>1, <1>2, <1>3, <2>1 DEF LoginAtHand, StoresRental, Exists, Uses
<1>7. LinksAlone(w)'
  BY <1>1, <1>2, <1>3 DEF LinksAlone, StoresRental, Linked
<1>8. LinkSessions(w)'
  BY <1>5, <1>6, <1>7 DEF LinkSessions
<1>9. tokens' \in Token /\ stale' \in 0 .. tokens'
  BY <1>2 DEF LinksTypeOK
<1>10. QED
  BY <1>1, <1>2, <1>8, <1>9, LinkGoesOn

LEMMA LinkingUpdates ==
    ASSUME LinkInv, NEW w \in Workers, NEW t \in Rentals, NEW u \in Logins, NEW set,
           set \in {[user |-> u], [user |-> u, token |-> 0]},
           Goto(w, "store_rental", Updating(t, set)),
           Busy(w) \/ load.overlap \/ \A v \in Workers : ~Busy(v),
           (load.overlap /\ Uses("delete_login")) \/ Exists(u),
           ~load.overlap => ~Linked(t) /\ login[u].email = rental[t].email,
           UNCHANGED linkVars
    PROVE  LinkInv'
<1> DEFINE j == Updating(t, set)
<1>1. j.rental = t /\ j.seen = rental[t] /\ j.set = set
  BY DEF Updating
<1> HIDE DEF j
<1>2. QED
  BY <1>1, LinkingReads DEF j

LEMMA SendInviteKeeps ==
    ASSUME LinkInv, NEW w \in Workers, NEW t \in Rentals, NEW e \in Mailboxes, SendInvite(w, t, e)
    PROVE  LinkInv'
<1> DEFINE set == [email |-> e, token |-> tokens + 1]
<1>1. Moved(w) /\ pc'[w] = "store_rental" /\ job'[w] = Updating(t, set)
  BY GotoMoves DEF LinkInv, SendInvite, Ready, Served
<1>2. LinksTypeOK /\ UNCHANGED <<rental, login, opened, stale>>
  BY DEF LinkInv, SendInvite
<1>3. tokens \in Nat /\ tokens' = tokens + 1 /\ tokens' \in Token /\ tokens + 1 # 0
      /\ stale' \in 0 .. tokens'
  BY <1>2, LinkAssumption DEF LinksTypeOK, Token, SendInvite
<1>4. rental[t] \in RentalRow
  BY <1>2 DEF LinksTypeOK
<1>5. LinkSession(w)'
  BY <1>1, <1>3, <1>4 DEF LinkSession, StoresRental, Updating
<1>6. LoginAtHand(w)'
  BY <1>1 DEF LoginAtHand, StoresRental, Updating
<1>7. LinksAlone(w)'
  BY <1>1, <1>2 DEF LinksAlone, StoresRental, Updating, Linked, SendInvite, Invitable
<1>8. LinkSessions(w)'
  BY <1>5, <1>6, <1>7 DEF LinkSessions
<1>9. QED
  BY <1>1, <1>2, <1>3, <1>8, LinkGoesOn

\* The tenant's edit of his record has read it.
LEMMA EditsProfile ==
    ASSUME LinkInv, NEW w \in Workers, NEW t \in Rentals, NEW e \in Mailboxes \cup {None},
           Goto(w, "store_rental", Updating(t, [email |-> e])), Uses("update_profile"),
           Busy(w) \/ load.overlap \/ \A v \in Workers : ~Busy(v),
           UNCHANGED linkVars
    PROVE  Moved(w) /\ LinkSessions(w)'
<1>1. /\ Moved(w) /\ pc'[w] = "store_rental" /\ load' = load
      /\ job'[w] = Updating(t, [email |-> e])
  BY GotoMoves DEF LinkInv, Moved
<1>2. rental[t] \in RentalRow /\ rental' = rental
  BY DEF LinkInv, LinksTypeOK, linkVars
<1>3. LinkSession(w)'
  BY <1>1, <1>2 DEF LinkSession, StoresRental, Updating, Uses
<1>4. LoginAtHand(w)' /\ LinksAlone(w)'
  BY <1>1, <1>2 DEF LoginAtHand, LinksAlone, StoresRental, Updating
<1>5. QED
  BY <1>1, <1>3, <1>4 DEF LinkSessions

LEMMA AcceptInviteKeeps ==
    ASSUME LinkInv, NEW w \in Workers, NEW t \in Rentals, AcceptInvite(w, t)
    PROVE  LinkInv'
<1> DEFINE e == rental[t].email
<1>1. LinksTypeOK /\ e \in Mailboxes /\ ~Linked(t) /\ UNCHANGED linkVars
  BY LinkShapes DEF LinkInv, AcceptInvite
<1>2. ~Busy(w) /\ (load.overlap \/ \A v \in Workers : ~Busy(v))
  BY DEF AcceptInvite, Ready, Served
<1>3. ASSUME NEW u \in AccountOf(e), Goto(w, "store_rental", LinkTo(t, u))
      PROVE  LinkInv'
  <2>1. u \in Logins /\ login[u].email = e /\ Exists(u)
    BY <1>1, <1>3, LinkShapes DEF AccountOf
  <2>2. Goto(w, "store_rental", Updating(t, [user |-> u, token |-> 0]))
    BY <1>3 DEF LinkTo
  <2>3. QED
    BY <1>1, <1>2, <2>1, <2>2, LinkingUpdates
<1>4. ASSUME Goto(w, "make_account", [rental |-> t, email |-> e])
      PROVE  LinkInv'
  <2>1. Moved(w) /\ pc'[w] = "make_account" /\ job'[w] = [rental |-> t, email |-> e]
    BY <1>2, <1>4, GotoMoves DEF LinkInv
  <2>2. LinkSessions(w)'
    BY <1>1, <2>1 DEF LinkSessions, LinkSession, LoginAtHand, LinksAlone, StoresRental, linkVars, Linked
  <2>3. QED
    BY <1>1, <2>1, <2>2, LinkGoesOn DEF linkVars, LinksTypeOK
<1>5. QED
  BY <1>3, <1>4 DEF AcceptInvite

LEMMA MakeAccountKeeps ==
    ASSUME LinkInv, NEW w \in Workers, MakeAccount(w)
    PROVE  LinkInv'
<1> DEFINE j == job[w]
<1>1. /\ LinksTypeOK /\ Busy(w) /\ j.rental \in Rentals /\ j.email \in Mailboxes
      /\ ~load.overlap => ~Linked(j.rental) /\ rental[j.rental].email = j.email
  BY DEF LinkInv, MakeAccount, Busy, LinkSessions, LinkSession, LinksAlone
<1>2. CASE Claimed(j.email)
  <2>1. Respond(w) /\ UNCHANGED <<rental, login, opened, tokens, stale>>
    BY <1>2 DEF MakeAccount
  <2>2. Moved(w) /\ LinkSessions(w)'
    BY <1>1, <2>1, RespondMoves, LinksIdle DEF LinkInv
  <2>3. QED
    BY <1>1, <2>1, <2>2, LinkGoesOn DEF LinksTypeOK
<1>3. CASE ~Claimed(j.email)
  <2>1. PICK u \in Logins :
              /\ ~Exists(u)
              /\ login' = [login EXCEPT ![u] = [email |-> j.email, role |-> "tenant"]]
              /\ opened' = [opened EXCEPT ![u] = j.rental]
              /\ Goto(w, "link", [rental |-> j.rental, user |-> u])
    BY <1>3 DEF MakeAccount
  <2>2. Moved(w) /\ pc'[w] = "link" /\ job'[w] = [rental |-> j.rental, user |-> u]
    BY <1>1, <2>1, GotoMoves DEF LinkInv
  <2>3. UNCHANGED <<rental, tokens, stale>> /\ load' = load
    BY <2>2 DEF MakeAccount, Moved
  <2>4. LinksStay /\ LinksTypeOK' /\ LinkKeys' /\ LinkedRentalsShareTheEmail'
    BY <1>1, <1>3, <2>1, <2>3, LoginAdded
  <2>5. login'[u] = [email |-> j.email, role |-> "tenant"]
    BY <1>1, <2>1 DEF LinksTypeOK
  <2>6. login'[u].email = j.email /\ login'[u] # NoLogin
    BY <1>1, <2>5, LinkAssumption DEF NoLogin
  <2>7. LinkSessions(w)'
    BY <1>1, <2>2, <2>3, <2>6 DEF LinkSessions, LinkSession, LoginAtHand, LinksAlone, StoresRental, Linked, Exists
  <2>8. QED
    BY <2>2, <2>4, <2>7, LinksMove
<1>4. QED
  BY <1>2, <1>3

LEMMA LinkAccountKeeps ==
    ASSUME LinkInv, NEW w \in Workers, LinkAccount(w)
    PROVE  LinkInv'
<1> DEFINE j == job[w]
<1>1. /\ Busy(w) /\ j.rental \in Rentals /\ j.user \in Logins /\ UNCHANGED linkVars
      /\ (load.overlap /\ Uses("delete_login")) \/ Exists(j.user)
      /\ ~load.overlap => ~Linked(j.rental) /\ login[j.user].email = rental[j.rental].email
  BY DEF LinkInv, LinkAccount, Busy, LinkSessions, LinkSession, LinksAlone, LoginAtHand
<1>2. Goto(w, "store_rental", Updating(j.rental, [user |-> j.user, token |-> 0]))
  BY DEF LinkAccount, LinkTo
<1>3. QED
  BY <1>1, <1>2, LinkingUpdates

LEMMA ResolveKeeps ==
    ASSUME LinkInv, NEW w \in Workers, NEW h, NEW u \in Logins, Resolve(w, h, u)
    PROVE  LinkInv'
<1>1. /\ LinksTypeOK /\ LinkKeys /\ Exists(u) /\ UNCHANGED linkVars
      /\ \A t \in Rentals : rental[t].user # u
      /\ ~Busy(w) /\ (load.overlap \/ \A v \in Workers : ~Busy(v))
  BY DEF LinkInv, Resolve, Unhoused, Ready, Served
<1>2. ASSUME NEW t \in Newest(Candidates(u)),
             Goto(w, "store_rental", Updating(t, [user |-> u]))
      PROVE  LinkInv'
  <2>1. t \in Rentals /\ rental[t].email = login[u].email
        /\ (Linked(t) => login[rental[t].user].email = login[u].email)
    BY DEF Newest, Candidates
  <2>2. ~Linked(t)
    BY <1>1, <2>1, LinkShapes DEF LinkKeys, Linked
  <2>3. QED
    BY <1>1, <1>2, <2>1, <2>2, LinkingUpdates
<1>3. ASSUME Goto(w, "pending", [user |-> u, email |-> login[u].email])
      PROVE  LinkInv'
  <2>1. Moved(w) /\ pc'[w] = "pending" /\ job'[w] = [user |-> u, email |-> login[u].email]
    BY <1>1, <1>3, GotoMoves DEF LinkInv
  <2>2. LinkSessions(w)'
    BY <1>1, <2>1 DEF LinkSessions, LinkSession, LoginAtHand, LinksAlone, StoresRental, linkVars, Exists
  <2>3. QED
    BY <1>1, <2>1, <2>2, LinkGoesOn DEF linkVars, LinksTypeOK
<1>4. QED
  BY <1>2, <1>3 DEF Resolve

LEMMA LinkPendingKeeps ==
    ASSUME LinkInv, NEW w \in Workers, LinkPending(w)
    PROVE  LinkInv'
<1> DEFINE j == job[w]
           found == {t \in Rentals : ~Linked(t) /\ rental[t].email = j.email}
<1>1. /\ Busy(w) /\ j.user \in Logins /\ UNCHANGED linkVars
      /\ (load.overlap /\ Uses("delete_login")) \/ Exists(j.user)
      /\ ~load.overlap => login[j.user].email = j.email
  BY DEF LinkInv, LinkPending, Busy, LinkSessions, LinkSession, LinksAlone, LoginAtHand
<1>2. ASSUME Respond(w)
      PROVE  LinkInv'
  <2>1. Moved(w) /\ LinkSessions(w)'
    BY <1>1, <1>2, RespondMoves, LinksIdle DEF LinkInv
  <2>2. QED
    BY <1>1, <2>1, LinkGoesOn DEF linkVars, LinkInv, LinksTypeOK
<1>3. ASSUME NEW t \in Newest(found), Goto(w, "store_rental", LinkTo(t, j.user))
      PROVE  LinkInv'
  <2>1. t \in Rentals /\ ~Linked(t) /\ rental[t].email = j.email
    BY DEF Newest
  <2>2. Goto(w, "store_rental", Updating(t, [user |-> j.user, token |-> 0]))
    BY <1>3 DEF LinkTo
  <2>3. QED
    BY <1>1, <2>1, <2>2, LinkingUpdates
<1>4. QED
  BY <1>2, <1>3 DEF LinkPending

LEMMA UpdateProfileKeeps ==
    ASSUME LinkInv, NEW w \in Workers, NEW u \in Logins, NEW e \in Mailboxes \cup {None},
           UpdateProfile(w, u, e)
    PROVE  LinkInv'
<1>1. /\ LinksTypeOK /\ LinkKeys /\ Exists(u) /\ UNCHANGED linkVars /\ Uses("update_profile")
      /\ ~Busy(w) /\ (load.overlap \/ \A v \in Workers : ~Busy(v))
  BY DEF LinkInv, UpdateProfile, Ready, Served
<1>2. ASSUME NEW t \in Rentals, rental[t].user = u,
             Goto(w, "store_rental", Updating(t, [email |-> e]))
      PROVE  LinkInv'
  <2>1. Moved(w) /\ LinkSessions(w)'
    BY <1>1, <1>2, EditsProfile
  <2>2. QED
    BY <1>1, <2>1, LinkGoesOn DEF linkVars, LinksTypeOK
<1>3. ASSUME Unhoused(u), NEW t \in Newest(Candidates(u)),
             Goto(w, "resolve", LinkBefore(t, u, e))
      PROVE  LinkInv'
  <2> DEFINE j == LinkBefore(t, u, e)
  <2>1. t \in Rentals /\ rental[t].email = login[u].email
        /\ (Linked(t) => login[rental[t].user].email = login[u].email)
    BY DEF Newest, Candidates
  <2>2. ~Linked(t)
    BY <1>1, <1>3, <2>1, LinkShapes DEF LinkKeys, Linked, Unhoused
  <2>3. j.rental = t /\ j.seen = rental[t] /\ j.set = [user |-> u] /\ j.email = e
    BY DEF LinkBefore
  <2> HIDE DEF j
  <2>4. QED
    BY <1>1, <1>3, <2>1, <2>2, <2>3, LinkingReads DEF j
<1>4. QED
  BY <1>2, <1>3 DEF UpdateProfile

LEMMA EditProfileKeeps ==
    ASSUME LinkInv, NEW w \in Workers, EditProfile(w)
    PROVE  LinkInv'
<1> DEFINE j == job[w]
<1>1. /\ Busy(w) /\ j.rental \in Rentals /\ j.email \in Mailboxes \cup {None}
      /\ Uses("update_profile") /\ UNCHANGED linkVars /\ LinksTypeOK
  BY DEF LinkInv, EditProfile, Busy, LinkSessions, LinkSession
<1>2. Moved(w) /\ LinkSessions(w)'
  BY <1>1, EditsProfile DEF EditProfile
<1>3. QED
  BY <1>1, <1>2, LinkGoesOn DEF linkVars, LinksTypeOK

LEMMA LinkDieKeeps ==
    ASSUME LinkInv, NEW w \in Workers, Die(w), UNCHANGED linkVars
    PROVE  LinkInv'
<1>1. Moved(w) /\ LinkSessions(w)'
  BY RespondMoves, LinksIdle DEF LinkInv, Die
<1>2. QED
  BY <1>1, LinkGoesOn DEF linkVars, LinkInv, LinksTypeOK

\* What the commit of an update makes of its record.
LEMMA RentalStored ==
    ASSUME LinkInv, NEW w \in Workers, StoresRental(w), ~Refused(job[w]),
           rental' = StoredRental(job[w])
    PROVE  LET j == job[w]
               written(f) == f \in DOMAIN j.set /\ j.set[f] # j.seen[f]
           IN
           /\ rental' \in [Rentals -> RentalRow]
           /\ \A t \in Rentals : t # j.rental => rental'[t] = rental[t]
           /\ \A f \in {"email", "user", "token"} :
                 rental'[j.rental][f] = IF written(f) THEN j.set[f] ELSE rental[j.rental][f]
<1> DEFINE j == job[w]
           t == j.rental
           row == Written(rental[t], j.seen, j.set)
<1>1. LinksTypeOK /\ LinkSession(w)
  BY DEF LinkInv, LinkSessions
<1>2. t \in Rentals /\ rental[t] \in RentalRow /\ rental' = [rental EXCEPT ![t] = row]
  BY <1>1 DEF LinkSession, LinksTypeOK, StoredRental
<1>3. /\ rental'[t] = row
      /\ \A x \in Rentals : x # t => rental'[x] = rental[x]
  BY <1>1, <1>2 DEF LinksTypeOK
<1>4. /\ DOMAIN rental[t] = {"email", "user", "token"}
      /\ rental[t].email \in Mailboxes \cup {None} /\ rental[t].user \in Logins \cup {None}
      /\ rental[t].token \in Token
  BY <1>2 DEF RentalRow
<1>5. row = [f \in {"email", "user", "token"} |->
                IF f \in DOMAIN j.set /\ j.set[f] # j.seen[f] THEN j.set[f] ELSE rental[t][f]]
  BY <1>4 DEF Written
<1>6. /\ "email" \in DOMAIN j.set => j.set.email \in Mailboxes \cup {None}
      /\ "user" \in DOMAIN j.set => j.set.user \in Logins
      /\ "token" \in DOMAIN j.set => j.set.token \in Token
  BY <1>1 DEF LinkSession
<1>7. row = [email |-> row.email, user |-> row.user, token |-> row.token]
  BY <1>5
<1>8. /\ row.email \in Mailboxes \cup {None} /\ row.user \in Logins \cup {None}
      /\ row.token \in Token
  BY <1>4, <1>5, <1>6
<1>9. row \in RentalRow
  <2> HIDE DEF row
  <2>1. QED
    BY <1>7, <1>8 DEF RentalRow
<1>10. rental' \in [Rentals -> RentalRow]
  BY <1>1, <1>2, <1>9 DEF LinksTypeOK
<1>11. QED
  BY <1>3, <1>5, <1>10

LEMMA StoreRentalKeeps ==
    ASSUME LinkInv, NEW w \in Workers, StoreRental(w)
    PROVE  LinkInv' /\ LinksKept
<1> DEFINE j == job[w]
           t == j.rental
           written(f) == f \in DOMAIN j.set /\ j.set[f] # j.seen[f]
<1>1. /\ LinksTypeOK /\ LinkKeys /\ LinkedRentalsShareTheEmail
      /\ LinkSession(w) /\ LoginAtHand(w) /\ LinksAlone(w)
  BY DEF LinkInv, LinkSessions
<1>2. Moved(w) /\ LinkSessions(w)' /\ UNCHANGED <<login, opened, tokens, stale>> /\ load' = load
  <2>1. CASE Respond(w)
    BY <2>1, RespondMoves, LinksIdle DEF LinkInv, StoreRental, StoresRental, Busy, Moved
  <2>2. CASE pc[w] = "resolve" /\ Goto(w, "profile", [rental |-> j.rental, email |-> j.email])
    <3>1. /\ Moved(w) /\ pc'[w] = "profile" /\ load' = load
          /\ job'[w] = [rental |-> j.rental, email |-> j.email]
      BY <2>2, GotoMoves DEF LinkInv, Busy, Moved
    <3>2. j.rental \in Rentals /\ j.email \in Mailboxes \cup {None} /\ Uses("update_profile")
      BY <1>1, <2>2 DEF LinkSession, StoresRental
    <3>3. LinkSessions(w)'
      BY <3>1, <3>2 DEF LinkSessions, LinkSession, LoginAtHand, LinksAlone, StoresRental, Uses
    <3>4. QED
      BY <3>1, <3>3 DEF StoreRental
  <2>3. QED
    BY <2>1, <2>2 DEF StoreRental
<1>3. CASE Refused(j)
  <2>1. rental' = rental
    BY <1>3 DEF StoreRental
  <2>2. LinksKept
    BY <2>1 DEF LinksKept, SpentByLinking, LinksAreHeld
  <2>3. QED
    BY <1>1, <1>2, <2>1, <2>2, LinkGoesOn DEF LinksTypeOK
<1>4. CASE ~Refused(j)
  <2>1. rental' = StoredRental(j) /\ StoresRental(w)
    BY <1>4 DEF StoreRental
  <2>2. /\ rental' \in [Rentals -> RentalRow]
        /\ \A x \in Rentals : x # t => rental'[x] = rental[x]
        /\ rental'[t].email = IF written("email") THEN j.set.email ELSE rental[t].email
        /\ rental'[t].user = IF written("user") THEN j.set.user ELSE rental[t].user
        /\ rental'[t].token = IF written("token") THEN j.set.token ELSE rental[t].token
    BY <1>4, <2>1, RentalStored
  <2>3. /\ t \in Rentals
        /\ "user" \in DOMAIN j.set => j.set.user \in Logins /\ ~written("email")
        /\ "user" \notin DOMAIN j.set =>
              \/ "token" \in DOMAIN j.set /\ j.set.token # 0
              \/ "token" \notin DOMAIN j.set /\ Uses("update_profile")
    BY <1>1, <2>1 DEF LinkSession
  <2>4. written("user") => Exists(j.set.user)
    BY <1>4 DEF Refused
  <2>5. LinksTypeOK'
    BY <1>1, <1>2, <2>2 DEF LinksTypeOK
  <2>6. LinksStay
    BY <1>2, <2>2, <2>3, LinkAssumption DEF LinksStay, Linked, Exists
  <2>7. LinkKeys'
    <3>1. \A x \in Rentals : rental'[x].user # None => login[rental'[x].user] # NoLogin
      BY <1>1, <2>2, <2>3, <2>4 DEF LinkKeys, Linked, Exists
    <3>2. QED
      BY <1>1, <1>2, <3>1 DEF LinkKeys, Linked, Exists
  <2>8. ASSUME ~load.overlap
        PROVE  /\ rental[t].user # None => Uses("update_profile") /\ rental'[t].user = rental[t].user
               /\ rental[t].user = None /\ rental'[t].user # None => "user" \in DOMAIN j.set
                                            /\ rental'[t].user = j.set.user
                                            /\ rental'[t].email = rental[t].email
                                            /\ login[j.set.user].email = rental[t].email
               /\ j.seen = rental[t]
    BY <1>1, <2>1, <2>2, <2>3, <2>8 DEF LinksAlone, Linked
  <2>9. LinkedRentalsShareTheEmail'
    <3> SUFFICES ASSUME ~load.overlap, ~Uses("update_profile"), NEW x \in Rentals,
                        rental'[x].user # None, rental'[x].email # None,
                        \A s \in Rentals \ {x} : rental'[s].user # rental'[x].user
                 PROVE  login[rental'[x].user].email = rental'[x].email
      BY <1>2 DEF LinkedRentalsShareTheEmail, Linked, Uses
    <3>1. CASE x = t
      BY <2>8, <3>1
    <3>2. CASE x # t
      <4>1. rental'[x] = rental[x]
        BY <2>2, <3>2
      <4>2. \A s \in Rentals \ {x} : rental[s].user # rental[x].user
        <5>1. TAKE s \in Rentals \ {x}
        <5>2. CASE s = t
          BY <2>8, <4>1, <5>2
        <5>3. CASE s # t
          BY <2>2, <4>1, <5>3
        <5>4. QED
          BY <5>2, <5>3
      <4>3. QED
        BY <1>1, <4>1, <4>2 DEF LinkedRentalsShareTheEmail, Linked
    <3>3. QED
      BY <3>1, <3>2
  <2>10. SpentByLinking
    <3> SUFFICES ASSUME ~(load.overlap /\ Uses("delete_login")), rental[t].token # 0, rental'[t].token = 0
                 PROVE  rental'[t].user # None
      BY <2>2 DEF SpentByLinking
    <3>1. "user" \in DOMAIN j.set
      BY <2>2, <2>3
    <3>2. j.set.user # j.seen.user \/ rental[t].user # None
      BY <1>1, <2>1, <3>1 DEF LoginAtHand
    <3>3. QED
      BY <2>2, <2>3, <3>1, <3>2, LinkAssumption
  <2>11. LinksAreHeld
    BY <2>2, <2>8 DEF LinksAreHeld, Linked
  <2>12. QED
    BY <1>2, <2>5, <2>6, <2>7, <2>9, <2>10, <2>11, LinksMove DEF LinksKept
<1>5. QED
  BY <1>3, <1>4

LEMMA LinksNextKeeps ==
    ASSUME LinkInv, LinksNext
    PROVE  LinkInv'
BY MakeLoginKeeps, DeleteLoginKeeps, ResolveKeeps, SendInviteKeeps, AcceptInviteKeeps,
   StoreRentalKeeps, MakeAccountKeeps, LinkAccountKeeps, LinkPendingKeeps, LinkDieKeeps,
   UpdateEmailKeeps, UpdateProfileKeeps, EditProfileKeeps, ExpireTokensKeeps DEF LinksNext

LEMMA LinksNextKeepsLinks ==
    ASSUME LinkInv, LinksNext
    PROVE  LinksKept
<1>1. CASE rental' = rental
  BY <1>1 DEF LinksKept, SpentByLinking, LinksAreHeld
<1>2. ASSUME NEW w \in Workers, StoreRental(w)
      PROVE  LinksKept
  BY <1>2, StoreRentalKeeps
<1>3. ASSUME NEW u \in Logins, DeleteLogin(u)
      PROVE  LinksKept
  <2> SUFFICES ASSUME NEW t \in Rentals
               PROVE  /\ rental'[t].token = rental[t].token
                      /\ rental'[t].user \in {None, rental[t].user}
    BY DEF LinksKept, SpentByLinking, LinksAreHeld
  <2>1. rental[t] \in RentalRow
    BY DEF LinkInv, LinksTypeOK
  <2>2. rental'[t] = IF rental[t].user = u THEN [rental[t] EXCEPT !.user = None] ELSE rental[t]
    BY <1>3 DEF DeleteLogin
  <2>3. QED
    BY <2>1, <2>2 DEF RentalRow
<1>4. ASSUME NEW t \in Rentals, NEW e \in Mailboxes \cup {None}, UpdateEmail(t, e)
      PROVE  LinksKept
  <2> SUFFICES ASSUME NEW s \in Rentals
               PROVE  /\ rental'[s].token = rental[s].token
                      /\ rental'[s].user = rental[s].user
    BY DEF LinksKept, SpentByLinking, LinksAreHeld
  <2>1. rental[s] \in RentalRow /\ DOMAIN rental = Rentals
    BY DEF LinkInv, LinksTypeOK
  <2>2. rental'[s] = IF s = t THEN [rental[t] EXCEPT !.email = e] ELSE rental[s]
    BY <1>4, <2>1 DEF UpdateEmail
  <2>3. QED
    BY <2>1, <2>2 DEF RentalRow
<1>5. QED
  BY <1>1, <1>2, <1>3, <1>4 DEF LinksNext, MakeLogin, Resolve, SendInvite, AcceptInvite,
     MakeAccount, LinkAccount, LinkPending, UpdateProfile, EditProfile, ExpireTokens, linkVars

LEMMA LinksInitially ==
    ASSUME LinksInit
    PROVE  /\ LinksTypeOK /\ LinkKeys /\ LinkedRentalsShareTheEmail
           /\ \A t \in Rentals : ~Linked(t)
<1>1. \A t \in Rentals : ~Linked(t)
  BY DEF LinksInit, Linked
<1>2. 0 \in Token
  BY LinkAssumption DEF Token
<1>3. rental \in [Rentals -> RentalRow]
  BY <1>2 DEF LinksInit, RentalRow
<1>4. \A u \in Logins : ~Exists(u)
  BY DEF LinksInit, Exists
<1>5. QED
  BY <1>1, <1>2, <1>3, <1>4 DEF LinksInit, LinksTypeOK, LinkKeys, LinkedRentalsShareTheEmail

LEMMA LinksStart ==
    ASSUME RequestsInit, LinksInit
    PROVE  LinkPart
<1>1. Frame /\ \A w \in Workers : pc[w] = "idle"
  BY DEF RequestsInit, Frame
<1>2. Alone /\ \A w \in Workers : LinkSessions(w)
  BY <1>1 DEF Alone, Busy, LinkSessions, LinkSession, LoginAtHand, LinksAlone, StoresRental
<1>3. QED
  BY <1>1, <1>2, LinksInitially DEF LinkPart, LinkInv

LEMMA LinksSame ==
    ASSUME LinkInv, UNCHANGED <<requests, linkVars>>
    PROVE  LinkInv'
<1>1. UNCHANGED <<load, pc, job, rental, login, opened, tokens, stale>>
  BY DEF requests, linkVars
<1>2. tokens' \in Token /\ stale' \in 0 .. tokens'
  BY <1>1 DEF LinkInv, LinksTypeOK
<1>3. LinksTypeOK' /\ LinkKeys' /\ LinkedRentalsShareTheEmail'
  BY <1>1, <1>2, LinkRowsSame
<1>4. Frame' /\ Alone' /\ \A w \in Workers : LinkSessions(w)'
  BY <1>1 DEF LinkInv, Frame, Alone, Busy, LinkSessions, LinkSession, LoginAtHand, LinksAlone,
              StoresRental, Linked, Exists, Uses
<1>5. QED
  BY <1>3, <1>4 DEF LinkInv

LEMMA LinksStep ==
    ASSUME LinkPart, [Next]_vars
    PROVE  LinkPart' /\ (LinksKept \/ UNCHANGED linkVars)
<1>1. CASE Next /\ load.part = "links"
  <2>1. LinksNext /\ load' = load
    BY <1>1 DEF Next
  <2>2. QED
    BY <1>1, <2>1, LinksNextKeeps, LinksNextKeepsLinks DEF LinkPart
<1>2. CASE Next /\ load.part # "links"
  <2>1. UNCHANGED linkVars /\ load' = load
    BY <1>2 DEF Next, Except
  <2>2. QED
    BY <1>2, <2>1 DEF LinkPart, LinksInit, linkVars
<1>3. CASE UNCHANGED vars
  <2>1. UNCHANGED <<requests, linkVars>> /\ load' = load
    BY <1>3 DEF vars, requests
  <2>2. QED
    BY <2>1, LinksSame DEF LinkPart, LinksInit, linkVars
<1>4. QED
  BY <1>1, <1>2, <1>3

LEMMA LinksInvariant == Spec => []LinkPart
<1>1. Init => LinkPart
  BY LinksStart DEF Init
<1>2. QED
  BY <1>1, LinksStep, PTL DEF Spec

\* One request at a time, a login with one rental has the address on its
\* record, through invitations, the landlord's edits, removals and requests
\* that died halfway, as long as tenants do not edit the address on their record
\* themselves (resolve_tenant_for_user, update_tenant,
\* update_my_tenant_profile).
THEOREM LinkedRentalsAlwaysShareTheEmail == Spec => []LinkedRentalsShareTheEmail
<1>1. ASSUME LinkPart
      PROVE  LinkedRentalsShareTheEmail
  BY <1>1, LinksInitially DEF LinkPart, LinkInv
<1>2. QED
  BY <1>1, LinksInvariant, PTL

\* An invitation is spent by the commit that links its record, however requests
\* overlap, unless a login is removed under one; and one request at a time
\* nobody takes a record that somebody has (accept_tenant_invite,
\* resolve_tenant_for_user).
THEOREM LinksAreAlwaysKept == Spec => LinksAreKept
<1>1. ASSUME LinkPart, [Next]_vars
      PROVE  [~(load.overlap /\ Uses("delete_login")) =>
                \A t \in Rentals :
                    rental[t].token # 0 /\ rental'[t].token = 0 =>
                        rental'[t].user # None]_linkVars
  BY <1>1, LinksStep DEF LinksKept, SpentByLinking
<1>2. ASSUME LinkPart, [Next]_vars
      PROVE  [~load.overlap =>
                \A t \in Rentals :
                    Linked(t) /\ rental'[t].user \notin {None, rental[t].user} =>
                        login'[rental'[t].user].email = login[rental[t].user].email]_linkVars
  BY <1>2, LinksStep DEF LinksKept, LinksAreHeld
<1>3. QED
  BY <1>1, <1>2, LinksInvariant, PTL
     DEF Spec, LinksAreKept, TokensAreSpentByLinking, RentalsStayWithTheirTenant

-----------------------------------------------------------------------------
(* Reminders: the calendar.                                                *)

\* No month is shorter than 28 days or longer than 31.
LEMMA MonthLengths ==
    ASSUME NEW y, NEW m \in 1 .. 12
    PROVE  MonthLength(y, m) \in 28 .. 31
BY DEF MonthLength

LEMMA MonthsFollow ==
    ASSUME NEW y \in Nat, NEW m \in 1 .. 12
    PROVE  /\ m = 12 => NextMonth(y, m)[1] = y + 1 /\ NextMonth(y, m)[2] = 1
           /\ m # 12 => NextMonth(y, m)[1] = y /\ NextMonth(y, m)[2] = m + 1
           /\ NextMonth(y, m)[1] \in Nat /\ NextMonth(y, m)[2] \in 1 .. 12
           /\ NextMonth(y, m)[2] # m
BY DEF NextMonth

LEMMA NextDueFalls ==
    ASSUME NEW s, NEW a, IsDate(s), IsDate(a)
    PROVE  /\ IsDate(NextDue(s, a))
           /\ NextDue(s, a).d <= s.d
           /\ \/ NextDue(s, a).d = s.d
              \/ NextDue(s, a).d = MonthLength(NextDue(s, a).y, NextDue(s, a).m)
           /\ \/ DueThisMonth(s, a, NextDue(s, a))
              \/ DueNextMonth(s, a, NextDue(s, a))
<1> DEFINE n == NextMonth(a.y, a.m)
           L == MonthLength(a.y, a.m)
           N == MonthLength(n[1], n[2])
           due == DueIn(a.y, a.m, s)
           later == DueIn(n[1], n[2], s)
<1>1. /\ a.y \in Nat /\ a.m \in 1 .. 12 /\ a.d \in 1 .. 31 /\ a.d <= L
      /\ s.d \in 1 .. 31
  BY DEF IsDate
<1>2. L \in 28 .. 31 /\ N \in 28 .. 31 /\ n[1] \in Nat /\ n[2] \in 1 .. 12
  BY <1>1, MonthLengths, MonthsFollow
<1>3. /\ due.y = a.y /\ due.m = a.m
      /\ due.d = IF s.d < L THEN s.d ELSE L
      /\ later.y = n[1] /\ later.m = n[2]
      /\ later.d = IF s.d < N THEN s.d ELSE N
      /\ due = [y |-> due.y, m |-> due.m, d |-> due.d]
      /\ later = [y |-> later.y, m |-> later.m, d |-> later.d]
  BY DEF DueIn, Day, ClampDay
<1>4. NextDue(s, a) = IF Before(due, a) THEN later ELSE due
  BY DEF NextDue
<1>5. Before(due, a) <=> due.d < a.d
  <2>1. ~(a.y < a.y) /\ ~(a.m < a.m)
    BY <1>1
  <2>2. QED
    BY <1>3, <2>1 DEF Before
<1>6. IsDate(due) /\ IsDate(later)
  <2>1. due.d \in 1 .. 31 /\ due.d <= L /\ later.d \in 1 .. 31 /\ later.d <= N
    BY <1>1, <1>2, <1>3
  <2>2. due \in [y : Nat, m : 1 .. 12, d : 1 .. 31]
    BY <1>1, <1>3, <2>1
  <2>3. later \in [y : Nat, m : 1 .. 12, d : 1 .. 31]
    BY <1>2, <1>3, <2>1
  <2>4. QED
    BY <1>3, <2>1, <2>2, <2>3 DEF IsDate
<1> HIDE DEF n, L, N, due, later
<1>7. CASE due.d < a.d
  <2>1. NextDue(s, a) = later
    BY <1>4, <1>5, <1>7
  <2>2. s.d < a.d /\ s.d < L /\ later.d <= s.d /\ (later.d = s.d \/ later.d = N)
    BY <1>1, <1>2, <1>3, <1>7
  <2>3. DueNextMonth(s, a, later)
    BY <1>3, <2>2 DEF DueNextMonth, n, L
  <2>4. QED
    BY <1>3, <1>6, <2>1, <2>2, <2>3 DEF N
<1>8. CASE ~(due.d < a.d)
  <2>1. NextDue(s, a) = due
    BY <1>4, <1>5, <1>8
  <2>2. a.d <= due.d /\ due.d <= s.d /\ (due.d = s.d \/ due.d = L)
    BY <1>1, <1>2, <1>3, <1>8
  <2>3. DueThisMonth(s, a, due)
    BY <1>3, <2>2 DEF DueThisMonth
  <2>4. QED
    BY <1>3, <1>6, <2>1, <2>2, <2>3 DEF L
<1>9. QED
  BY <1>7, <1>8

\* Two dates with the same fields are one.
LEMMA SameDate ==
    ASSUME NEW a, NEW b, IsDate(a), IsDate(b), a.y = b.y, a.m = b.m, a.d = b.d
    PROVE  a = b
<1>1. /\ a = [y |-> a.y, m |-> a.m, d |-> a.d]
      /\ b = [y |-> b.y, m |-> b.m, d |-> b.d]
  BY DEF IsDate
<1>2. QED
  BY <1>1

LEMMA DateFields ==
    ASSUME NEW a, IsDate(a)
    PROVE  /\ a.y \in Nat /\ a.m \in 1 .. 12 /\ a.d \in 1 .. 31
           /\ a.d <= MonthLength(a.y, a.m) /\ MonthLength(a.y, a.m) \in 28 .. 31
BY MonthLengths DEF IsDate

\* How far the next due day is.
LEMMA DaysToDue ==
    ASSUME NEW s, NEW a, IsDate(s), IsDate(a)
    PROVE  LET due == NextDue(s, a) IN
           /\ DaysLeft(a, due) \in Nat
           /\ DueThisMonth(s, a, due) => DaysLeft(a, due) = due.d - a.d
           /\ DueNextMonth(s, a, due) =>
                 DaysLeft(a, due) = MonthLength(a.y, a.m) - a.d + due.d
           /\ DaysLeft(a, due) = 0 => a = due
<1> DEFINE due == NextDue(s, a)
           L == MonthLength(a.y, a.m)
<1>1. /\ a.y \in Nat /\ a.m \in 1 .. 12 /\ a.d \in 1 .. 31 /\ a.d <= L /\ L \in 28 .. 31
  BY DateFields
<1>2. /\ IsDate(due) /\ due.y \in Nat /\ due.m \in 1 .. 12 /\ due.d \in 1 .. 31
      /\ DueThisMonth(s, a, due) \/ DueNextMonth(s, a, due)
  <2>1. IsDate(due) /\ (DueThisMonth(s, a, due) \/ DueNextMonth(s, a, due))
    BY NextDueFalls
  <2> HIDE DEF due
  <2>2. QED
    BY <2>1, DateFields
<1> DEFINE left == DaysLeft(a, due)
<1>3. left = IF a.m = due.m THEN due.d - a.d ELSE L - a.d + due.d
  BY DEF DaysLeft
<1> HIDE DEF due, L, left
<1>4. NextMonth(a.y, a.m)[2] # a.m
  BY <1>1, MonthsFollow
<1>5. CASE DueThisMonth(s, a, due)
  <2>1. due.y = a.y /\ due.m = a.m /\ a.d <= due.d
    BY <1>5 DEF DueThisMonth
  <2>2. ~DueNextMonth(s, a, due)
    BY <1>4, <2>1 DEF DueNextMonth
  <2>3. left = due.d - a.d /\ left \in Nat
    BY <1>1, <1>2, <1>3, <2>1
  <2>4. ASSUME left = 0 PROVE a = due
    BY <1>1, <1>2, <2>1, <2>3, <2>4, SameDate
  <2>5. QED
    BY <2>2, <2>3, <2>4 DEF due, L, left
<1>6. CASE DueNextMonth(s, a, due)
  <2>1. due.m # a.m
    BY <1>6, <1>4 DEF DueNextMonth
  <2>2. ~DueThisMonth(s, a, due)
    BY <2>1 DEF DueThisMonth
  <2>3. left = L - a.d + due.d
    BY <1>3, <2>1
  <2>4. left \in Nat /\ left # 0
    BY <1>1, <1>2, <2>3
  <2>5. QED
    BY <2>2, <2>3, <2>4 DEF due, L, left
<1>7. QED
  BY <1>2, <1>5, <1>6

\* A day later the due day is the same and a day closer, unless it was today:
\* then the next is most of a month away.
LEMMA TomorrowsDue ==
    ASSUME NEW s, NEW a, IsDate(s), IsDate(a)
    PROVE  LET b == Tomorrow(a)
               due == NextDue(s, a)
               next == NextDue(s, b)
           IN /\ IsDate(b)
              /\ a # due => next = due /\ DaysLeft(b, next) = DaysLeft(a, due) - 1
              /\ a = due => DaysLeft(b, next) > ReminderDaysBefore
<1> DEFINE n == NextMonth(a.y, a.m)
           b == Tomorrow(a)
           due == NextDue(s, a)
           next == NextDue(s, b)
           L == MonthLength(a.y, a.m)
           N == MonthLength(n[1], n[2])
<1>1. /\ a.y \in Nat /\ a.m \in 1 .. 12 /\ a.d \in 1 .. 31 /\ a.d <= L /\ L \in 28 .. 31
      /\ s.d \in 1 .. 31 /\ a = [y |-> a.y, m |-> a.m, d |-> a.d]
  BY DateFields DEF IsDate
<1>2. /\ n[1] \in Nat /\ n[2] \in 1 .. 12 /\ N \in 28 .. 31
      /\ ~(n[1] = a.y /\ n[2] = a.m) /\ n[2] # a.m
  BY <1>1, MonthsFollow, MonthLengths
<1>3. /\ a.d < L => b.y = a.y /\ b.m = a.m /\ b.d = a.d + 1
      /\ ~(a.d < L) => b.y = n[1] /\ b.m = n[2] /\ b.d = 1
      /\ b = [y |-> b.y, m |-> b.m, d |-> b.d]
  BY <1>1 DEF Tomorrow, Day
<1>4. b.d \in 1 .. 31 /\ b.d <= MonthLength(b.y, b.m) /\ b.y \in Nat /\ b.m \in 1 .. 12
  <2>1. CASE a.d < L
    <3>1. MonthLength(b.y, b.m) = L
      BY <1>3, <2>1
    <3>2. QED
      BY <1>1, <1>3, <2>1, <3>1
  <2>2. CASE ~(a.d < L)
    <3>1. MonthLength(b.y, b.m) = N
      BY <1>3, <2>2
    <3>2. QED
      BY <1>2, <1>3, <2>2, <3>1
  <2>3. QED
    BY <2>1, <2>2
<1>5. IsDate(b)
  BY <1>3, <1>4 DEF IsDate
<1>6. /\ IsDate(due) /\ due.d <= s.d
      /\ due.d = s.d \/ due.d = MonthLength(due.y, due.m)
      /\ DueThisMonth(s, a, due) \/ DueNextMonth(s, a, due)
      /\ DueThisMonth(s, a, due) => DaysLeft(a, due) = due.d - a.d
      /\ DueNextMonth(s, a, due) => DaysLeft(a, due) = L - a.d + due.d
  BY NextDueFalls, DaysToDue
<1> HIDE DEF due
<1>7. due.d \in 1 .. 31 /\ due.d <= MonthLength(due.y, due.m)
  BY <1>6, DateFields
<1> HIDE DEF b
<1>8. /\ IsDate(next) /\ next.d <= s.d
      /\ next.d = s.d \/ next.d = MonthLength(next.y, next.m)
      /\ DueThisMonth(s, b, next) \/ DueNextMonth(s, b, next)
      /\ DueThisMonth(s, b, next) => DaysLeft(b, next) = next.d - b.d
      /\ DueNextMonth(s, b, next) =>
            DaysLeft(b, next) = MonthLength(b.y, b.m) - b.d + next.d
  BY <1>5, NextDueFalls, DaysToDue
<1> HIDE DEF next
<1>9. next.d \in 1 .. 31 /\ next.d <= MonthLength(next.y, next.m)
  BY <1>8, DateFields
<1> HIDE DEF n, L, N
<1>10. CASE a.d < L
  <2>1. b.y = a.y /\ b.m = a.m /\ b.d = a.d + 1 /\ MonthLength(b.y, b.m) = L
    BY <1>3, <1>10 DEF L
  <2>2. CASE DueThisMonth(s, a, due) /\ a.d # due.d
    <3>1. /\ due.y = a.y /\ due.m = a.m /\ a.d < due.d /\ MonthLength(due.y, due.m) = L
      BY <1>1, <1>7, <2>2 DEF DueThisMonth, L
    <3>2. ~DueNextMonth(s, b, next)
      BY <1>1, <1>6, <1>7, <2>1, <3>1 DEF DueNextMonth
    <3>3. DueThisMonth(s, b, next)
      BY <1>8, <3>2
    <3>4. next.y = due.y /\ next.m = due.m
      BY <2>1, <3>1, <3>3 DEF DueThisMonth
    <3>5. MonthLength(next.y, next.m) = L
      BY <3>1, <3>4
    <3>6. next.d = due.d
      BY <1>1, <1>6, <1>7, <1>8, <1>9, <3>1, <3>5
    <3>7. next = due
      BY <1>6, <1>8, <3>4, <3>6, SameDate
    <3>8. DaysLeft(b, next) = next.d - b.d /\ DaysLeft(a, due) = due.d - a.d
      BY <1>6, <1>8, <2>2, <3>3
    <3>9. DaysLeft(b, next) = DaysLeft(a, due) - 1
      BY <1>1, <1>7, <2>1, <3>6, <3>8
    <3>10. QED
      BY <1>5, <2>2, <3>7, <3>9 DEF n, b, due, next
  <2>3. CASE DueThisMonth(s, a, due) /\ a.d = due.d
    <3>1. /\ due.y = a.y /\ due.m = a.m /\ MonthLength(due.y, due.m) = L
      BY <2>3 DEF DueThisMonth, L
    <3>2. due = a
      BY <1>6, <2>3, <3>1, SameDate
    <3>3. ~DueThisMonth(s, b, next)
      <4> SUFFICES ASSUME DueThisMonth(s, b, next) PROVE FALSE
        OBVIOUS
      <4>1. next.y = a.y /\ next.m = a.m /\ b.d <= next.d
        BY <2>1 DEF DueThisMonth
      <4>2. MonthLength(next.y, next.m) = L
        BY <4>1 DEF L
      <4>3. next.d = due.d
        BY <1>1, <1>6, <1>7, <1>8, <1>9, <3>1, <4>2
      <4>4. QED
        BY <1>1, <2>1, <2>3, <4>1, <4>3
    <3>4. DueNextMonth(s, b, next)
      BY <1>8, <3>3
    <3>5. MonthLength(next.y, next.m) = N
      BY <2>1, <3>4 DEF DueNextMonth, N, n
    <3>6. DaysLeft(b, next) = L - b.d + next.d
      BY <1>8, <2>1, <3>4
    <3>7. a.d = s.d
      BY <1>1, <1>6, <1>10, <2>3, <3>1
    <3>8. DaysLeft(b, next) > 7
      BY <1>1, <1>2, <1>8, <1>9, <1>10, <2>1, <3>5, <3>6, <3>7
    <3>9. QED
      BY <1>5, <3>2, <3>8 DEF n, b, due, next, ReminderDaysBefore
  <2>4. CASE DueNextMonth(s, a, due)
    <3>1. /\ due.y = n[1] /\ due.m = n[2] /\ s.d < a.d /\ s.d < L
      BY <2>4 DEF DueNextMonth, L, n
    <3>2. ~DueThisMonth(s, b, next)
      BY <1>1, <1>8, <1>9, <2>1, <3>1 DEF DueThisMonth
    <3>3. DueNextMonth(s, b, next)
      BY <1>8, <3>2
    <3>4. next.y = due.y /\ next.m = due.m
      BY <2>1, <3>1, <3>3 DEF DueNextMonth, n
    <3>5. MonthLength(next.y, next.m) = MonthLength(due.y, due.m)
      BY <3>4
    <3>6. MonthLength(due.y, due.m) = N
      BY <3>1 DEF N
    <3>7. next.d = due.d
      BY <1>1, <1>2, <1>6, <1>7, <1>8, <1>9, <3>5, <3>6
    <3>8. next = due
      BY <1>6, <1>8, <3>4, <3>7, SameDate
    <3>9. DaysLeft(b, next) = L - b.d + next.d /\ DaysLeft(a, due) = L - a.d + due.d
      BY <1>6, <1>8, <2>1, <2>4, <3>3
    <3>10. DaysLeft(b, next) = DaysLeft(a, due) - 1
      BY <1>1, <1>7, <2>1, <3>7, <3>9
    <3>11. a # due
      BY <1>2, <3>1
    <3>12. QED
      BY <1>5, <3>8, <3>10, <3>11 DEF n, b, due, next
  <2>5. QED
    BY <1>6, <2>2, <2>3, <2>4
<1>11. CASE ~(a.d < L)
  <2>1. b.y = n[1] /\ b.m = n[2] /\ b.d = 1 /\ MonthLength(b.y, b.m) = N /\ a.d = L
    BY <1>1, <1>3, <1>11 DEF N
  <2>2. DueThisMonth(s, b, next)
    BY <1>1, <1>8, <2>1 DEF DueNextMonth
  <2>3. next.y = n[1] /\ next.m = n[2] /\ MonthLength(next.y, next.m) = N
    BY <2>1, <2>2 DEF DueThisMonth
  <2>4. DaysLeft(b, next) = next.d - 1
    BY <1>8, <2>1, <2>2
  <2>5. CASE DueThisMonth(s, a, due)
    <3>1. due.y = a.y /\ due.m = a.m /\ a.d <= due.d /\ MonthLength(due.y, due.m) = L
      BY <2>5 DEF DueThisMonth, L
    <3>2. due.d = L
      BY <1>1, <1>7, <2>1, <3>1
    <3>3. due = a
      BY <1>6, <2>1, <3>1, <3>2, SameDate
    <3>4. DaysLeft(b, next) > 7
      BY <1>1, <1>2, <1>6, <1>8, <1>9, <2>3, <2>4, <3>2
    <3>5. QED
      BY <1>5, <3>3, <3>4 DEF n, b, due, next, ReminderDaysBefore
  <2>6. CASE DueNextMonth(s, a, due)
    <3>1. due.y = n[1] /\ due.m = n[2] /\ MonthLength(due.y, due.m) = N
      BY <2>6 DEF DueNextMonth, N, n
    <3>2. next.d = due.d
      BY <1>1, <1>2, <1>6, <1>7, <1>8, <1>9, <2>3, <3>1
    <3>3. next = due
      BY <1>6, <1>8, <2>3, <3>1, <3>2, SameDate
    <3>4. DaysLeft(a, due) = L - a.d + due.d
      BY <1>6, <2>6
    <3>5. DaysLeft(b, next) = DaysLeft(a, due) - 1
      BY <1>1, <1>7, <2>1, <2>4, <3>2, <3>4
    <3>6. a # due
      BY <1>2, <3>1
    <3>7. QED
      BY <1>5, <3>3, <3>5, <3>6 DEF n, b, due, next
  <2>7. QED
    BY <1>6, <2>5, <2>6
<1>12. QED
  BY <1>10, <1>11

\* The week before a due day after the first one is after the first one.
LEMMA WindowFollowsStart ==
    ASSUME NEW s, NEW a, IsDate(s), IsDate(a), Before(s, NextDue(s, a))
    PROVE  ~Before(a, s)
<1> DEFINE due == NextDue(s, a)
<1>1. /\ a.y \in Nat /\ a.m \in 1 .. 12 /\ a.d \in 1 .. 31
      /\ s.y \in Nat /\ s.m \in 1 .. 12 /\ s.d \in 1 .. 31
  BY DateFields
<1>2. /\ IsDate(due) /\ due.d <= s.d
      /\ DueThisMonth(s, a, due) \/ DueNextMonth(s, a, due)
  BY NextDueFalls
<1> HIDE DEF due
<1>3. due.y \in Nat /\ due.m \in 1 .. 12 /\ due.d \in 1 .. 31
  BY <1>2, DateFields
<1>4. s.y < due.y \/ (s.y = due.y /\ s.m < due.m)
  BY <1>1, <1>2, <1>3 DEF due, Before
<1>5. CASE DueThisMonth(s, a, due)
  BY <1>1, <1>3, <1>4, <1>5 DEF DueThisMonth, Before
<1>6. CASE DueNextMonth(s, a, due)
  <2>1. s.d < a.d
    BY <1>6 DEF DueNextMonth
  <2>2. \/ a.m = 12 /\ due.y = a.y + 1 /\ due.m = 1
        \/ a.m # 12 /\ due.y = a.y /\ due.m = a.m + 1
    <3>1. due.y = NextMonth(a.y, a.m)[1] /\ due.m = NextMonth(a.y, a.m)[2]
      BY <1>6 DEF DueNextMonth
    <3>2. /\ a.m = 12 => NextMonth(a.y, a.m)[1] = a.y + 1 /\ NextMonth(a.y, a.m)[2] = 1
          /\ a.m # 12 => NextMonth(a.y, a.m)[1] = a.y /\ NextMonth(a.y, a.m)[2] = a.m + 1
      BY DEF NextMonth
    <3>3. QED
      BY <3>1, <3>2
  <2>3. s.y < a.y \/ (s.y = a.y /\ s.m <= a.m)
    BY <1>1, <1>3, <1>4, <2>2
  <2>4. QED
    BY <1>1, <2>1, <2>3 DEF Before
<1>7. QED
  BY <1>2, <1>5, <1>6

\* No due day falls between today and the next.
LEMMA NoneBetween ==
    ASSUME NEW s, NEW a, IsDate(s), IsDate(a)
    PROVE  LET due == NextDue(s, a)
               n == NextMonth(a.y, a.m)
           IN /\ IsDueDay(due, s) /\ ~Before(due, a)
              /\ \A d \in 1 .. 31, ym \in {<<a.y, a.m>>, n} :
                    LET b == Day(ym[1], ym[2], d) IN
                    d <= MonthLength(ym[1], ym[2]) /\ Before(b, due) /\ ~Before(b, a) =>
                        ~IsDueDay(b, s)
<1> DEFINE due == NextDue(s, a)
           n == NextMonth(a.y, a.m)
           L == MonthLength(a.y, a.m)
           N == MonthLength(n[1], n[2])
<1>1. /\ a.y \in Nat /\ a.m \in 1 .. 12 /\ a.d \in 1 .. 31 /\ a.d <= L /\ L \in 28 .. 31
      /\ s.d \in 1 .. 31
  BY DateFields
<1>2. /\ n[1] \in Nat /\ n[2] \in 1 .. 12 /\ N \in 28 .. 31
      /\ n[1] > a.y \/ (n[1] = a.y /\ n[2] > a.m)
  <2>1. n[1] \in Nat /\ n[2] \in 1 .. 12
    BY <1>1, MonthsFollow
  <2>2. n[1] = a.y + 1 \/ (n[1] = a.y /\ n[2] = a.m + 1)
    BY <1>1, MonthsFollow
  <2>3. N \in 28 .. 31
    BY <2>1, MonthLengths
  <2> HIDE DEF n, N
  <2>4. QED
    BY <1>1, <2>1, <2>2, <2>3
<1>3. /\ IsDate(due) /\ due.d <= s.d
      /\ due.d = s.d \/ due.d = MonthLength(due.y, due.m)
      /\ DueThisMonth(s, a, due) \/ DueNextMonth(s, a, due)
  BY NextDueFalls
<1> HIDE DEF due
<1>4. due.y \in Nat /\ due.m \in 1 .. 12 /\ due.d \in 1 .. 31
      /\ due.d <= MonthLength(due.y, due.m)
  BY <1>3, DateFields
<1> HIDE DEF n, L, N
<1>5. IsDueDay(due, s)
  <2>1. CASE due.d = s.d
    BY <2>1 DEF IsDueDay
  <2>2. CASE due.d # s.d
    <3>1. due.d < s.d /\ due.d = MonthLength(due.y, due.m)
      BY <1>1, <1>3, <1>4, <2>2
    <3>2. QED
      BY <3>1 DEF IsDueDay
  <2>3. QED
    BY <2>1, <2>2
<1>6. ~Before(due, a)
  <2>1. CASE DueThisMonth(s, a, due)
    BY <1>1, <1>4, <2>1 DEF DueThisMonth, Before
  <2>2. CASE DueNextMonth(s, a, due)
    BY <1>1, <1>2, <1>4, <2>2 DEF DueNextMonth, Before, n
  <2>3. QED
    BY <1>3, <2>1, <2>2
<1>7. ASSUME NEW d \in 1 .. 31, NEW ym \in {<<a.y, a.m>>, n},
             d <= MonthLength(ym[1], ym[2]),
             Before(Day(ym[1], ym[2], d), due), ~Before(Day(ym[1], ym[2], d), a)
      PROVE  ~IsDueDay(Day(ym[1], ym[2], d), s)
  <2> DEFINE b == Day(ym[1], ym[2], d)
  <2>1. b.y = ym[1] /\ b.m = ym[2] /\ b.d = d
    BY DEF Day
  <2>2. IsDueDay(b, s) <=> d = s.d \/ (d < s.d /\ d = MonthLength(ym[1], ym[2]))
    BY <2>1 DEF IsDueDay
  <2>3. Before(b, due) /\ ~Before(b, a)
    BY <1>7
  <2> HIDE DEF b
  <2>4. CASE DueThisMonth(s, a, due)
    <3>1. due.y = a.y /\ due.m = a.m /\ MonthLength(due.y, due.m) = L
      BY <2>4 DEF DueThisMonth, L
    <3>2. ym[1] = a.y /\ ym[2] = a.m /\ d < due.d
      BY <1>1, <1>2, <1>4, <2>1, <2>3, <3>1 DEF Before
    <3>3. MonthLength(ym[1], ym[2]) = L
      BY <3>2 DEF L
    <3>4. QED
      BY <1>1, <1>3, <1>4, <2>2, <3>1, <3>2, <3>3 DEF b
  <2>5. CASE DueNextMonth(s, a, due)
    <3>1. due.y = n[1] /\ due.m = n[2] /\ MonthLength(due.y, due.m) = N
          /\ s.d < a.d /\ s.d < L
      BY <2>5 DEF DueNextMonth, L, N, n
    <3>2. CASE ym[1] = a.y /\ ym[2] = a.m
      <4>1. a.d <= d
        BY <1>1, <2>1, <2>3, <3>2 DEF Before
      <4>2. QED
        BY <1>1, <2>2, <3>1, <4>1 DEF b
    <3>3. CASE ym = n
      <4>1. d < due.d /\ MonthLength(ym[1], ym[2]) = N
        BY <1>2, <1>4, <2>1, <2>3, <3>1, <3>3 DEF Before, N
      <4>2. QED
        BY <1>1, <1>2, <1>3, <1>4, <2>2, <3>1, <4>1 DEF b
    <3>4. QED
      BY <3>2, <3>3
  <2>6. QED
    BY <1>3, <2>4, <2>5 DEF b
<1>8. QED
  BY <1>5, <1>6, <1>7 DEF due, n

-----------------------------------------------------------------------------
(* Reminders.                                                              *)

LEMMA StartsAreDates == IsDate(FirstDay) /\ \A t \in Residents : IsDate(StartOf[t])
BY ReminderAssumption

\* What one worker does leaves the others' scans as they were, as long as no
\* notification goes and the day stays.
LEMMA RemMoves ==
    ASSUME RemInv, NEW w \in Workers, Moved(w), UNCHANGED <<loginOf, today>>,
           sent \subseteq sent', RemindersTypeOK', TenantsAreRemindedOnce', NoneIsLate',
           ScanSession(w)'
    PROVE  RemInv'
<1>1. ASSUME NEW v \in Workers PROVE ScanSession(v)'
  <2>1. CASE v = w
    BY <2>1
  <2>2. CASE v # w /\ Busy(v)
    <3>1. /\ pc'[v] = pc[v] /\ job'[v] = job[v] /\ load' = load /\ load.overlap
          /\ ScanSession(v)
      BY <2>2 DEF Moved, RemInv
    <3>2. Scan(v)' = Scan(v)
      BY <3>1 DEF Scan
    <3>3. \A t \in Residents :
              /\ Reminded(t) => Reminded(t)'
              /\ Storing(v, t) => Storing(v, t)'
      BY <3>1 DEF Reminded, Storing, DueOf
    <3>4. QED
      BY <3>1, <3>2, <3>3 DEF ScanSession
  <2>3. CASE v # w /\ ~Busy(v)
    BY <2>3 DEF Moved, Busy, ScanSession
  <2>4. QED
    BY <2>1, <2>2, <2>3
<1>2. Frame' /\ Alone'
  BY MovedAlone DEF Moved
<1>3. QED
  BY <1>1, <1>2 DEF RemInv

\* A worker that moves and stores nothing.
LEMMA RemReads ==
    ASSUME RemInv, NEW w \in Workers, Moved(w), UNCHANGED reminderVars, ScanSession(w)'
    PROVE  RemInv'
<1>1. UNCHANGED <<loginOf, sent, repeated, today, missed>> /\ load' = load
  BY DEF reminderVars, Moved
<1>2. RemindersTypeOK' /\ TenantsAreRemindedOnce'
  BY <1>1 DEF RemInv, RemindersTypeOK, TenantsAreRemindedOnce
<1>3. NoneIsLate'
  BY <1>1 DEF RemInv, NoneIsLate, Awaited, DaysTo, DueOf, Reminded
<1>4. QED
  BY <1>1, <1>2, <1>3, RemMoves

LEMMA StartJobKeeps ==
    ASSUME RemInv, NEW w \in Workers, StartJob(w)
    PROVE  RemInv'
<1>1. /\ Moved(w) /\ pc'[w] = "scan" /\ job'[w] = [left |-> Residents, asOf |-> today]
      /\ UNCHANGED reminderVars
  <2>1. Ready(w, "reminders") /\ Goto(w, "scan", [left |-> Residents, asOf |-> today])
    BY DEF StartJob
  <2>2. load.overlap \/ \A v \in Workers : ~Busy(v)
    BY <2>1 DEF Ready, Served
  <2>3. QED
    BY <2>1, <2>2, GotoMoves DEF RemInv, StartJob
<1>2. Scan(w)' = [left |-> Residents, asOf |-> today] /\ today' = today
  BY <1>1 DEF Scan, reminderVars
<1>3. ScanSession(w)'
  BY <1>1, <1>2 DEF ScanSession
<1>4. QED
  BY <1>1, <1>3, RemReads

\* A tenant is passed over, or there is a notification to store that is not
\* there yet.
LEMMA CheckResidentKeeps ==
    ASSUME RemInv, NEW w \in Workers, CheckResident(w)
    PROVE  RemInv'
<1> DEFINE j == job[w]
<1>1. /\ pc[w] = "scan" /\ UNCHANGED reminderVars /\ ScanSession(w) /\ Scan(w) = j
  BY DEF CheckResident, RemInv, Scan
<1>2. /\ j.asOf = today /\ j.left \subseteq Residents
      /\ \A t \in Residents :
            t \notin j.left /\ loginOf[t] # None /\ InWindow(StartOf[t], today) => Reminded(t)
  BY <1>1 DEF ScanSession, Storing
<1>3. PICK t \in j.left :
          LET due == NextDue(StartOf[t], j.asOf)
              note == Reminder(t, due)
              rest == [left |-> j.left \ {t}, asOf |-> j.asOf]
          IN IF InWindow(StartOf[t], j.asOf) /\ ~AlreadySent(note.who, LooksFor(t, due))
             THEN Goto(w, "store_note", [note |-> note, then |-> rest])
             ELSE Goto(w, "scan", rest)
  BY DEF CheckResident
<1> DEFINE note == Reminder(t, DueOf(t))
           rest == [left |-> j.left \ {t}, asOf |-> j.asOf]
<1>4. /\ rest.left = j.left \ {t} /\ rest.asOf = today /\ t \in Residents
      /\ NextDue(StartOf[t], j.asOf) = DueOf(t)
  BY <1>2, <1>3 DEF DueOf
<1>5. /\ loginOf[t] # None => note = Note(loginOf[t], PayLink(DueOf(t)))
      /\ loginOf[t] = None => note.who = Landlord
      /\ note.who \in Readers \cup {Landlord}
      /\ loginOf[t] # None => note.who = loginOf[t]
  <2>1. loginOf[t] \in Readers \cup {None}
    BY <1>4 DEF RemInv, RemindersTypeOK
  <2>2. QED
    BY <2>1 DEF Reminder, Note
<1>6. \/ /\ InWindow(StartOf[t], today) /\ ~AlreadySent(note.who, PayLink(DueOf(t)))
         /\ Goto(w, "store_note", [note |-> note, then |-> rest])
      \/ /\ ~InWindow(StartOf[t], today) \/ AlreadySent(note.who, PayLink(DueOf(t)))
         /\ Goto(w, "scan", rest)
  BY <1>2, <1>3, <1>4 DEF LooksFor
<1>7. UNCHANGED <<loginOf, sent, repeated, today, missed>>
  BY <1>1 DEF reminderVars
<1>8. Busy(w)
  BY <1>1 DEF Busy
<1> HIDE DEF note, rest
<1>9. CASE /\ InWindow(StartOf[t], today) /\ ~AlreadySent(note.who, PayLink(DueOf(t)))
           /\ Goto(w, "store_note", [note |-> note, then |-> rest])
  <2>1. /\ Moved(w) /\ pc'[w] = "store_note" /\ job'[w] = [note |-> note, then |-> rest]
        /\ load' = load
    BY <1>8, <1>9, GotoMoves DEF RemInv, Moved
  <2>2. Scan(w)' = rest /\ job'[w].note = note
    BY <2>1 DEF Scan
  <2>3. \A r \in Residents : DueOf(r)' = DueOf(r) /\ Reminded(r)' = Reminded(r)
    BY <1>7 DEF DueOf, Reminded
  <2>4. loginOf[t] # None => Storing(w, t)'
    BY <1>4, <1>5, <1>7, <2>1, <2>2, <2>3 DEF Storing
  <2>5. \A r \in Residents :
            r \notin rest.left /\ loginOf'[r] # None /\ InWindow(StartOf[r], today')
               => Reminded(r)' \/ Storing(w, r)'
    BY <1>2, <1>4, <1>7, <2>3, <2>4
  <2>6. note.who = Landlord \/ note \notin sent
    BY <1>5, <1>9 DEF AlreadySent
  <2>7. ScanSession(w)'
    BY <1>2, <1>4, <1>5, <1>7, <2>1, <2>2, <2>5, <2>6 DEF ScanSession
  <2>8. QED
    BY <1>1, <2>1, <2>7, RemReads
<1>10. CASE /\ ~InWindow(StartOf[t], today) \/ AlreadySent(note.who, PayLink(DueOf(t)))
            /\ Goto(w, "scan", rest)
  <2>1. Moved(w) /\ pc'[w] = "scan" /\ job'[w] = rest
    BY <1>8, <1>10, GotoMoves DEF RemInv
  <2>2. Scan(w)' = rest
    BY <2>1 DEF Scan
  <2>3. \A r \in Residents : DueOf(r)' = DueOf(r) /\ Reminded(r)' = Reminded(r)
    BY <1>7 DEF DueOf, Reminded
  <2>4. loginOf[t] # None /\ InWindow(StartOf[t], today) => Reminded(t)
    BY <1>5, <1>10 DEF AlreadySent, Reminded
  <2>5. \A r \in Residents :
            r \notin rest.left /\ loginOf'[r] # None /\ InWindow(StartOf[r], today')
               => Reminded(r)'
    BY <1>2, <1>4, <1>7, <2>3, <2>4
  <2>6. ScanSession(w)'
    BY <1>2, <1>4, <1>7, <2>1, <2>2, <2>5 DEF ScanSession
  <2>7. QED
    BY <1>1, <2>1, <2>6, RemReads
<1>11. QED
  BY <1>6, <1>9, <1>10

\* One loop running stores a tenant's notification once.
LEMMA StoreNoteKeeps ==
    ASSUME RemInv, NEW w \in Workers, StoreNote(w)
    PROVE  RemInv'
<1> DEFINE n == job[w].note
<1>1. /\ pc[w] = "store_note" /\ ScanSession(w) /\ Scan(w) = job[w].then
      /\ sent' = sent \cup {n}
      /\ repeated' = IF n \in sent THEN repeated \cup {n} ELSE repeated
      /\ UNCHANGED <<loginOf, today, missed>>
      /\ Goto(w, "scan", job[w].then)
  BY DEF StoreNote, RemInv, Scan
<1>2. /\ Moved(w) /\ pc'[w] = "scan" /\ job'[w] = job[w].then /\ load' = load
  BY <1>1, GotoMoves DEF RemInv, Busy, Moved
<1>3. /\ n.who \in Readers \cup {Landlord}
      /\ load.overlap \/ n.who = Landlord \/ n \notin sent
  BY <1>1 DEF ScanSession
<1>4. RemindersTypeOK'
  BY <1>1, <1>3 DEF RemInv, RemindersTypeOK
<1>5. TenantsAreRemindedOnce'
  BY <1>1, <1>2, <1>3 DEF RemInv, TenantsAreRemindedOnce
<1>6. ASSUME NEW t \in Residents
      PROVE  /\ Reminded(t) => Reminded(t)'
             /\ Storing(w, t) => Reminded(t)'
             /\ Awaited(t)' => Awaited(t)
             /\ DaysTo(t)' = DaysTo(t)
  <2>1. DueOf(t)' = DueOf(t) /\ loginOf' = loginOf /\ sent \subseteq sent' /\ n \in sent'
    BY <1>1 DEF DueOf
  <2>2. Reminded(t) => Reminded(t)'
    BY <2>1 DEF Reminded
  <2>3. Storing(w, t) => Reminded(t)'
    BY <2>1 DEF Storing, Reminded
  <2>4. Awaited(t)' => Awaited(t)
    BY <2>1 DEF Awaited
  <2>5. DaysTo(t)' = DaysTo(t)
    BY <1>1, <2>1 DEF DaysTo
  <2>6. QED
    BY <2>2, <2>3, <2>4, <2>5
<1>7. NoneIsLate'
  <2> SUFFICES ASSUME NEW t \in Residents, Awaited(t)', DaysTo(t)' <= ReminderDaysBefore
               PROVE  Reminded(t)' \/ missed' + DaysTo(t)' >= ReminderDaysBefore
    BY DEF NoneIsLate
  <2>1. Awaited(t) /\ DaysTo(t)' = DaysTo(t) /\ missed' = missed
    BY <1>1, <1>6
  <2>2. Reminded(t) \/ missed + DaysTo(t) >= ReminderDaysBefore
    BY <2>1 DEF RemInv, NoneIsLate
  <2>3. QED
    BY <1>6, <2>1, <2>2
<1>8. Scan(w)' = Scan(w)
  BY <1>1, <1>2 DEF Scan
<1>9. ScanSession(w)'
  <2>1. /\ Scan(w)'.asOf = today' /\ Scan(w)'.left \subseteq Residents
        /\ pc'[w] = "scan"
    BY <1>1, <1>2, <1>8 DEF ScanSession
  <2>2. \A t \in Residents :
            t \notin Scan(w)'.left /\ loginOf'[t] # None /\ InWindow(StartOf[t], today')
               => Reminded(t)'
    BY <1>1, <1>6, <1>8 DEF ScanSession
  <2>3. QED
    BY <2>1, <2>2 DEF ScanSession
<1>10. QED
  BY <1>1, <1>2, <1>4, <1>5, <1>7, <1>9, RemMoves

\* A job that ends has told everybody whose window it is; a due day that is
\* today was told before, or a whole window of days was missed.
LEMMA EndJobKeeps ==
    ASSUME RemInv, NEW w \in Workers, EndJob(w)
    PROVE  RemInv'
<1>1. /\ pc[w] = "scan" /\ ScanSession(w) /\ Scan(w) = job[w] /\ job[w].left = {}
      /\ missed' = 0 /\ Respond(w) /\ UNCHANGED <<loginOf, sent, repeated, today>>
  BY DEF EndJob, RemInv, Scan
<1>2. Moved(w) /\ pc'[w] = "idle" /\ load' = load
  BY <1>1, RespondMoves DEF RemInv, Busy, Moved
<1>3. MaxMissed \in 0 .. 6 /\ missed \in 0 .. MaxMissed /\ IsDate(today)
  BY ReminderAssumption DEF RemInv, RemindersTypeOK, ReminderDaysBefore
<1>4. RemindersTypeOK'
  BY <1>1, <1>3 DEF RemInv, RemindersTypeOK
<1>5. TenantsAreRemindedOnce'
  BY <1>1, <1>2 DEF RemInv, TenantsAreRemindedOnce
<1>6. NoneIsLate'
  <2> SUFFICES ASSUME NEW t \in Residents, Awaited(t)', DaysTo(t)' <= ReminderDaysBefore
               PROVE  Reminded(t)' \/ missed' + DaysTo(t)' >= ReminderDaysBefore
    BY DEF NoneIsLate
  <2> DEFINE left == DaysTo(t)
  <2>1. DueOf(t)' = DueOf(t) /\ DaysTo(t)' = left /\ Reminded(t)' = Reminded(t) /\ Awaited(t)
    BY <1>1 DEF DueOf, DaysTo, Reminded, Awaited
  <2>2. left \in Nat /\ left <= 7
    BY <1>3, <2>1, StartsAreDates, DaysToDue DEF DaysTo, DueOf, ReminderDaysBefore
  <2>3. Reminded(t) \/ missed + left >= 7
    BY <2>1 DEF RemInv, NoneIsLate, ReminderDaysBefore
  <2> HIDE DEF left
  <2>4. CASE left = 0
    BY <1>3, <2>1, <2>3, <2>4
  <2>5. CASE left # 0
    <3>1. left \in 1 .. ReminderDaysBefore
      BY <2>2, <2>5 DEF ReminderDaysBefore
    <3>2. ~Before(today, StartOf[t])
      BY <1>3, <2>1, StartsAreDates, WindowFollowsStart DEF Awaited, DueOf
    <3>3. InWindow(StartOf[t], today)
      BY <3>1, <3>2 DEF InWindow, left, DaysTo, DueOf
    <3>4. Reminded(t)
      BY <1>1, <2>1, <3>3 DEF ScanSession, Storing, Awaited
    <3>5. QED
      BY <2>1, <3>4
  <2>6. QED
    BY <2>4, <2>5
<1>7. ScanSession(w)'
  BY <1>2 DEF ScanSession
<1>8. QED
  BY <1>1, <1>2, <1>4, <1>5, <1>6, <1>7, RemMoves

\* A day passes: every window has one day less and one missed day more.
LEMMA NextDayKeeps ==
    ASSUME RemInv, NextDay
    PROVE  RemInv'
<1>1. /\ \A w \in Workers : ~Busy(w)
      /\ missed < MaxMissed /\ missed' = missed + 1 /\ today' = Tomorrow(today)
      /\ UNCHANGED <<load, pc, job, loginOf, sent, repeated>>
  BY DEF NextDay, requests
<1>2. MaxMissed \in 0 .. 6 /\ missed \in 0 .. MaxMissed /\ IsDate(today)
  BY ReminderAssumption DEF RemInv, RemindersTypeOK, ReminderDaysBefore
<1>3. IsDate(today')
  BY <1>1, <1>2, StartsAreDates, TomorrowsDue
<1>4. RemindersTypeOK'
  <2>1. missed' \in 0 .. MaxMissed
    BY <1>1, <1>2
  <2>2. QED
    BY <1>1, <1>3, <2>1 DEF RemInv, RemindersTypeOK
<1>5. TenantsAreRemindedOnce'
  BY <1>1 DEF RemInv, TenantsAreRemindedOnce
<1>6. NoneIsLate'
  <2> SUFFICES ASSUME NEW t \in Residents, Awaited(t)', DaysTo(t)' <= ReminderDaysBefore
               PROVE  Reminded(t)' \/ missed' + DaysTo(t)' >= ReminderDaysBefore
    BY DEF NoneIsLate
  <2>1. /\ today # DueOf(t) => DueOf(t)' = DueOf(t) /\ DaysTo(t)' = DaysTo(t) - 1
        /\ today = DueOf(t) => DaysTo(t)' > ReminderDaysBefore
    BY <1>1, <1>2, StartsAreDates, TomorrowsDue DEF DueOf, DaysTo
  <2>2. DaysTo(t)' \in Nat /\ DaysTo(t) \in Nat
    BY <1>2, <1>3, StartsAreDates, DaysToDue DEF DueOf, DaysTo
  <2>3. PICK l \in Nat : l = DaysTo(t)
    BY <2>2
  <2>4. PICK k \in Nat : k = DaysTo(t)'
    BY <2>2
  <2>5. k <= 7
    BY <2>4 DEF ReminderDaysBefore
  <2>6. today # DueOf(t)
    BY <2>1, <2>4, <2>5 DEF ReminderDaysBefore
  <2>7. k = l - 1 /\ DueOf(t)' = DueOf(t)
    BY <2>1, <2>3, <2>4, <2>6
  <2>8. CASE l <= 7
    <3>1. Reminded(t)' = Reminded(t) /\ Awaited(t)
      BY <1>1, <2>7 DEF Reminded, Awaited
    <3>2. Reminded(t) \/ missed + l >= 7
      BY <2>3, <2>8, <3>1 DEF RemInv, NoneIsLate, ReminderDaysBefore
    <3>3. missed + l >= 7 => missed' + k >= 7
      BY <1>1, <1>2, <2>7
    <3>4. QED
      BY <2>4, <3>1, <3>2, <3>3 DEF ReminderDaysBefore
  <2>9. CASE ~(l <= 7)
    <3>1. missed' + k >= 7
      BY <1>1, <1>2, <2>7, <2>9
    <3>2. QED
      BY <2>4, <3>1 DEF ReminderDaysBefore
  <2>10. QED
    BY <2>8, <2>9
<1>7. \A w \in Workers : ScanSession(w)'
  BY <1>1 DEF Busy, ScanSession
<1>8. Frame' /\ Alone'
  BY <1>1 DEF RemInv, Frame, Alone, Busy
<1>9. QED
  BY <1>4, <1>5, <1>6, <1>7, <1>8 DEF RemInv

LEMMA JobDieKeeps ==
    ASSUME RemInv, NEW w \in Workers, Die(w), UNCHANGED reminderVars
    PROVE  RemInv'
<1>1. Moved(w) /\ pc'[w] = "idle"
  BY RespondMoves DEF Die, RemInv
<1>2. ScanSession(w)'
  BY <1>1 DEF ScanSession
<1>3. QED
  BY <1>1, <1>2, RemReads

LEMMA RemindersNextKeeps ==
    ASSUME RemInv, RemindersNext
    PROVE  RemInv'
BY StartJobKeeps, CheckResidentKeeps, StoreNoteKeeps, EndJobKeeps, NextDayKeeps, JobDieKeeps
   DEF RemindersNext

LEMMA RemindersSame ==
    ASSUME RemInv, UNCHANGED <<requests, reminderVars>>
    PROVE  RemInv'
<1>1. UNCHANGED <<load, pc, job, loginOf, sent, repeated, today, missed>>
  BY DEF requests, reminderVars
<1>2. Frame' /\ Alone' /\ RemindersTypeOK' /\ TenantsAreRemindedOnce'
  BY <1>1 DEF RemInv, Frame, Alone, Busy, RemindersTypeOK, TenantsAreRemindedOnce
<1>3. NoneIsLate'
  BY <1>1 DEF RemInv, NoneIsLate, Awaited, DaysTo, DueOf, Reminded
<1>4. ASSUME NEW w \in Workers PROVE ScanSession(w)'
  BY <1>1 DEF RemInv, ScanSession, Scan, Storing, Reminded, DueOf
<1>5. QED
  BY <1>2, <1>3, <1>4 DEF RemInv

\* On the first day nothing is late: the windows that have begun do not count.
LEMMA RemindersInitially ==
    ASSUME RemindersInit
    PROVE  /\ RemindersTypeOK /\ TenantsAreRemindedOnce /\ NoneIsLate
           /\ TenantsAreRemindedInTime
<1>1. /\ loginOf \in [Residents -> Readers \cup {None}] /\ sent = {} /\ repeated = {}
      /\ today = FirstDay /\ missed = 0 /\ IsDate(today)
  BY StartsAreDates DEF RemindersInit
<1>2. MaxMissed \in 0 .. 6
  BY ReminderAssumption DEF ReminderDaysBefore
<1>3. RemindersTypeOK /\ TenantsAreRemindedOnce
  <2>1. missed \in 0 .. MaxMissed
    BY <1>1, <1>2
  <2>2. QED
    BY <1>1, <2>1 DEF RemindersTypeOK, TenantsAreRemindedOnce
<1>4. NoneIsLate
  <2> SUFFICES ASSUME NEW t \in Residents, Awaited(t)
               PROVE  missed + DaysTo(t) >= ReminderDaysBefore
    BY DEF NoneIsLate
  <2>1. DaysTo(t) \in Nat
    BY <1>1, StartsAreDates, DaysToDue DEF DaysTo, DueOf
  <2>2. PICK k \in Nat : k = DaysTo(t)
    BY <2>1
  <2>3. k >= ReminderDaysBefore
    BY <1>1, <2>2 DEF Awaited, DaysTo, DueOf
  <2>4. missed + k >= ReminderDaysBefore
    BY <1>1, <2>3 DEF ReminderDaysBefore
  <2>5. QED
    BY <2>2, <2>4
<1>5. TenantsAreRemindedInTime
  <2> SUFFICES ASSUME NEW t \in Residents, today = NextDue(StartOf[t], today),
                      DaysLeft(FirstDay, today) >= ReminderDaysBefore
               PROVE  FALSE
    BY <1>1 DEF TenantsAreRemindedInTime
  <2>1. DaysLeft(today, today) = today.d - today.d /\ today.d \in 1 .. 31
    BY <1>1, DateFields DEF DaysLeft
  <2>2. QED
    BY <1>1, <2>1 DEF ReminderDaysBefore
<1>6. QED
  BY <1>3, <1>4, <1>5

LEMMA InTimeOnTheDay ==
    ASSUME RemInv
    PROVE  TenantsAreRemindedInTime
<1> SUFFICES ASSUME NEW t \in Residents, loginOf[t] # None,
                    today = NextDue(StartOf[t], today), Before(StartOf[t], today),
                    today = NextDue(StartOf[t], FirstDay) =>
                        DaysLeft(FirstDay, today) >= ReminderDaysBefore
             PROVE  Note(loginOf[t], PayLink(today)) \in sent
  BY DEF TenantsAreRemindedInTime
<1>1. DueOf(t) = today /\ Awaited(t)
  BY DEF DueOf, Awaited
<1>2. MaxMissed \in 0 .. 6 /\ missed \in 0 .. MaxMissed /\ IsDate(today)
  BY ReminderAssumption DEF RemInv, RemindersTypeOK, ReminderDaysBefore
<1>3. DaysTo(t) = 0
  <2>1. DaysTo(t) = today.d - today.d /\ today.d \in 1 .. 31
    BY <1>1, <1>2, DateFields DEF DaysTo, DaysLeft
  <2>2. QED
    BY <2>1
<1>4. Reminded(t) \/ missed + 0 >= 7
  BY <1>1, <1>3 DEF RemInv, NoneIsLate, ReminderDaysBefore
<1>5. QED
  BY <1>1, <1>2, <1>4 DEF Reminded

LEMMA DueDaysAreNext ==
    ASSUME IsDate(today)
    PROVE  DueDayIsNext
BY StartsAreDates, NoneBetween DEF DueDayIsNext

LEMMA RemindersStart ==
    ASSUME RequestsInit, RemindersInit
    PROVE  RemPart
<1>1. Frame /\ \A w \in Workers : pc[w] = "idle"
  BY DEF RequestsInit, Frame
<1>2. Alone /\ \A w \in Workers : ScanSession(w)
  BY <1>1 DEF Alone, Busy, ScanSession
<1>3. QED
  BY <1>1, <1>2, RemindersInitially DEF RemPart, RemInv

LEMMA RemindersStep ==
    ASSUME RemPart, [Next]_vars
    PROVE  RemPart'
<1>1. CASE Next /\ load.part = "reminders"
  <2>1. RemindersNext /\ load' = load
    BY <1>1 DEF Next
  <2>2. QED
    BY <1>1, <2>1, RemindersNextKeeps DEF RemPart
<1>2. CASE Next /\ load.part # "reminders"
  <2>1. UNCHANGED reminderVars /\ load' = load
    BY <1>2 DEF Next, Except
  <2>2. QED
    BY <1>2, <2>1 DEF RemPart, RemindersInit, reminderVars
<1>3. CASE UNCHANGED vars
  <2>1. UNCHANGED <<requests, reminderVars>> /\ load' = load
    BY <1>3 DEF vars, requests
  <2>2. QED
    BY <2>1, RemindersSame DEF RemPart, RemindersInit, reminderVars
<1>4. QED
  BY <1>1, <1>2, <1>3

LEMMA RemindersInvariant == Spec => []RemPart
<1>1. Init => RemPart
  BY RemindersStart DEF Init
<1>2. QED
  BY <1>1, RemindersStep, PTL DEF Spec

\* Whenever leases began, and whichever jobs die or fall behind by fewer days
\* than the window has, every tenant with a login is told of each due day
\* before it comes, by one loop only once, and the due days are the lease's
\* own through short months, leap years and the turn of the year
\* (process_rent_reminders, next_rent_due_date).
THEOREM RemindersAlwaysKeepTime == Spec => []RemindersKeepTime
<1>1. RemPart => RemindersKeepTime
  <2> SUFFICES ASSUME RemPart PROVE RemindersKeepTime
    OBVIOUS
  <2>1. RemindersTypeOK /\ TenantsAreRemindedOnce /\ TenantsAreRemindedInTime
    BY RemindersInitially, InTimeOnTheDay DEF RemPart, RemInv
  <2>2. QED
    BY <2>1, DueDaysAreNext DEF RemindersKeepTime, RemindersTypeOK
<1>2. QED
  BY <1>1, RemindersInvariant, PTL

-----------------------------------------------------------------------------

\* Every part's rows and notes keep their types, in whatever part of the
\* platform requests are served.
THEOREM TypeCorrect == Spec => []TypeOK
<1>1. ReceiptPart => ReceiptsTypeOK
  BY ReceiptsInitially DEF ReceiptPart, ReceiptInv
<1>2. MessagePart => MessagesTypeOK
  BY MessagesInitially DEF MessagePart, MessageInv
<1>3. CrmPart => CrmTypeOK
  BY CrmInitially DEF CrmPart, CrmInv
<1>4. LinkPart => LinksTypeOK
  BY LinksInitially DEF LinkPart, LinkInv
<1>5. RemPart => RemindersTypeOK
  BY RemindersInitially DEF RemPart, RemInv
<1>6. ListPart => ListingsTypeOK
  <2>1. NothingListed => ListingsTypeOK
    BY DrawnAssumption DEF NothingListed, ListingsTypeOK, Draw
  <2>2. QED
    BY <2>1 DEF ListPart, ListInv
<1>7. QED
  BY <1>1, <1>2, <1>3, <1>4, <1>5, <1>6, ReceiptsInvariant, MessagesInvariant,
     CrmInvariant, LinksInvariant, RemindersInvariant, ListingsInvariant,
     SuiTypeCorrect, UpkeepTypeCorrect, PTL DEF TypeOK
=============================================================================
