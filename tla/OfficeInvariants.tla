-------------------------- MODULE OfficeInvariants --------------------------
(***************************************************************************)
(* The predicates that the proofs of Office are laid out with: of each     *)
(* part its inductive invariant, the conjuncts it is made of, and what a   *)
(* step of a worker may change.                                            *)
(***************************************************************************)
EXTENDS Office

-----------------------------------------------------------------------------
(* Payments in Sui: the inductive invariant.                               *)

Paid == [checkout : SuiCheckouts, seen : {NotRead, "processing", "completed"},
         digest : {0} \cup Digests, from : Addresses \cup {None},
         primaries : SUBSET Addresses, then : {"respond", "read", "settle"}]

\* Digests may be given by hand.
ByHand == Uses("confirm") \/ Uses("confirm_bare")

\* A session that is going to settle.
Settling(w) == pc[w] = "settle" \/ (pc[w] = "link" /\ job[w].then = "settle")

\* A session holds a payment; up to the transfer it names the wallet, after it
\* it has the digest, of the checkout's own transfer unless digests are given
\* by hand; and what it is going to settle is covered.
SuiSessionOK(w) ==
    /\ pc[w] \in {"link", "read", "transfer", "confirm", "settle"} => job[w] \in Paid
    /\ pc[w] \in {"link", "read", "transfer"} => job[w].from # None
    /\ Settling(w) => Covers(job[w].digest, job[w].checkout)
    /\ pc[w] = "confirm" \/ Settling(w) =>
          ByHand \/ job[w].digest \in TransfersFor(job[w].checkout)

\* Only a wallet that is named is linked before the checkout is settled, and
\* what a session read is forgotten in that commit.
NamesItsWallet(w) ==
    /\ pc[w] = "confirm" => job[w].from # None
    /\ pc[w] = "settle" => job[w].seen = NotRead

SettledOnce ==
    \A c \in SuiCheckouts :
        /\ settled[c] = IF checkout[c].status = "completed" THEN 1 ELSE 0
        /\ checkout[c].status = "completed" =>
              /\ Covers(checkout[c].digest, c)
              /\ ByHand \/ checkout[c].digest \in TransfersFor(c)

SuiTyped ==
    /\ DOMAIN pc = Workers /\ DOMAIN job = Workers
    /\ SuiTypeOK
    /\ \A w \in Workers : SuiSessionOK(w)

SuiInv ==
    /\ SuiTyped
    /\ "confirm_bare" \notin load.uses =>
          SettledOnce /\ \A w \in Workers : NamesItsWallet(w)

-----------------------------------------------------------------------------
(* Payments in Sui: sessions and the chain.                                *)

\* A step of one worker leaves the others where they were.
SuiMoved(w) ==
    /\ DOMAIN pc' = Workers /\ DOMAIN job' = Workers
    /\ \A v \in Workers : v # w => pc'[v] = pc[v] /\ job'[v] = job[v]
    /\ load' = load

\* The chain only grows, so a transfer stays a transfer for its checkout.
Grows == \A c \in SuiCheckouts : TransfersFor(c) \subseteq TransfersFor(c)'

SuiRowsKeep == SuiTypeOK' /\ Grows

-----------------------------------------------------------------------------
(* Payments in Sui: the steps.                                             *)

\* What a step of w has to leave, if it settles nothing.
Orderly(w) ==
    /\ SuiRowsKeep
    /\ SuiMoved(w)
    /\ SuiSessionOK(w)'
    /\ UNCHANGED <<checkout, settled>>
    /\ "confirm_bare" \notin load.uses => NamesItsWallet(w)'

\* What is due on an invoice only falls.
DueFalls == \A b \in Bills : balance'[b] <= balance[b]

-----------------------------------------------------------------------------
(* Payments in Sui, one at a time: primary wallets, payments settled.      *)

SuiOthersIdle(w) == \A v \in Workers : v # w => ~Busy(v)

SuiAlone == \A v, w \in Workers : Busy(v) /\ Busy(w) => v = w

OnePrimary == \A u \in Payers : \A a, b \in Primaries(u) : a = b

\* A session that links a wallet has read which are primary now.
LinkingAsRead(w) == pc[w] = "link" => job[w].primaries = Primaries(PayerOf[job[w].checkout])

\* No request dies and the node always answers.
Answering == ~load.fails /\ ~load.lossy

\* What a session knows of the status is so, and a transfer is about to be
\* made only for an open checkout.
StatusAsRead(w) ==
    /\ pc[w] = "read" => job[w].seen = NotRead
    /\ pc[w] \in {"transfer", "confirm", "settle"} =>
          job[w].seen \in {NotRead, checkout[job[w].checkout].status}
    /\ pc[w] = "transfer" => checkout[job[w].checkout].status # "completed"

Paying(w, c) ==
    /\ pc[w] = "confirm" \/ Settling(w)
    /\ job[w].checkout = c
    /\ job[w].digest \in TransfersFor(c)

\* A checkout has one transfer at most, which is settled or about to be, unless
\* the invoice was paid or cancelled before.
TransfersAccounted ==
    \A c \in SuiCheckouts :
        /\ (\A d, e \in TransfersFor(c) : d = e) \/ TooLate(c)
        /\ TransfersFor(c) # {} =>
              checkout[c].status = "completed" \/ TooLate(c) \/ \E w \in Workers : Paying(w, c)

SuiSerial ==
    ~load.overlap =>
        /\ SuiAlone /\ OnePrimary /\ \A w \in Workers : LinkingAsRead(w)
        /\ Answering => TransfersAccounted /\ \A w \in Workers : StatusAsRead(w)

PrimariesStay == \A u \in Payers : Primaries(u) # {} => Primaries(u)' # {}

\* What a step of w leaves, alone.
SuiAloneDoes(w) ==
    /\ OnePrimary' /\ PrimariesStay /\ LinkingAsRead(w)'
    /\ Answering => TransfersAccounted' /\ StatusAsRead(w)'

SuiCalm == SuiInv /\ SuiSerial /\ ~load.overlap

-----------------------------------------------------------------------------
(* Payments in Sui as part of the office: at rest while others work.       *)

SuiOfficeInv ==
    IF load.part = "sui" THEN SuiInv ELSE SuiTypeOK /\ SettledOnce

\* The same with requests one at a time.
SuiPaidInv == IF load.part = "sui" THEN SuiInv /\ SuiSerial ELSE chain = <<>>

-----------------------------------------------------------------------------
(* Upkeep: the inductive invariant.                                        *)

\* What a session in each phase holds.
UpkeepSessionOK(w) ==
    /\ pc[w] \in {"payload", "anchor"} =>
          job[w].contract \in Contracts /\ Drawn(job[w].contract)
    /\ pc[w] = "anchor" => job[w].terms \in Terms
    /\ pc[w] = "escrow" => job[w] \in [contract : Contracts, terms : Terms]
    /\ pc[w] = "report" =>
          job[w] \in [ticket : Tickets, by : {"tenant", "landlord"}, unit : Premises]
    /\ pc[w] = "update_ticket" =>
          /\ job[w].ticket \in Tickets
          /\ job[w].seen \in TicketRow
          /\ job[w].set \in [status : TicketStatus, resolved : 0 .. MaxDay]

UpkeepTyped ==
    /\ DOMAIN pc = Workers /\ DOMAIN job = Workers
    /\ UpkeepTypeOK
    /\ \A w \in Workers : UpkeepSessionOK(w)

\* Where requests do not overlap, one is in flight at most.
UpkeepAlone == ~load.overlap => \A v, w \in Workers : Busy(v) /\ Busy(w) => v = w

\* An active lease without a proof has a request that is going to anchor it.
Anchored ==
    ~load.fails =>
        \A c \in Contracts :
            contract[c].status = "active" /\ contract[c].proof = None =>
                \E w \in Workers : pc[w] \in {"payload", "anchor"} /\ job[w].contract = c

\* A hold is made while there is none of its contract.
HoldsDiffer ==
    ~load.overlap =>
        /\ \A h, i \in DOMAIN holds : holds[h].contract = holds[i].contract => h = i
        /\ \A w \in Workers : pc[w] = "escrow" =>
              \A h \in DOMAIN holds : holds[h].contract # job[w].contract

\* What a request alone in flight read of a ticket or a lease is still so.
Story ==
    ~load.overlap =>
        /\ \A w \in Workers : pc[w] = "update_ticket" =>
              /\ job[w].seen = ticket[job[w].ticket]
              /\ job[w].seen.resolved # 0 => job[w].set.resolved = job[w].seen.resolved
              /\ job[w].set.status = "resolved" => job[w].set.resolved # 0
        /\ \A w \in Workers : pc[w] = "report" /\ job[w].by = "tenant" =>
              ActiveOf(job[w].unit) # {}
        /\ \A k \in Tickets : ticket[k].status = "resolved" => ticket[k].resolved # 0

UpkeepInv == UpkeepTyped /\ UpkeepAlone /\ Anchored /\ HoldsDiffer /\ TicketsHaveUnits /\ Story

-----------------------------------------------------------------------------
(* Upkeep: sessions and rows.                                              *)

\* A step of one worker leaves the others where they were.
UpkeepMoved(w) ==
    /\ DOMAIN pc' = Workers /\ DOMAIN job' = Workers
    /\ \A v \in Workers : v # w => pc'[v] = pc[v] /\ job'[v] = job[v]
    /\ load' = load

-----------------------------------------------------------------------------
(* Upkeep: types, and one request at a time.                               *)

\* The rows of leases keep their types, and no lease is lost.
ContractsKeep ==
    /\ contract' \in [Contracts -> ContractRow \cup {NoContract}]
    /\ \A c \in Contracts : Drawn(c) => contract'[c] # NoContract

UpkeepRowsKeep ==
    /\ ContractsKeep
    /\ premises' \subseteq Premises
    /\ holds' \in Seq([contract : Contracts, terms : Terms])
    /\ ticket' \in [Tickets -> TicketRow \cup {NoTicket}]
    /\ now' \in 1 .. MaxDay

\* A step is served while no request that must not overlap is in flight, or
\* goes on with the one that is.
Waits == load.overlap \/ \A v \in Workers : ~Busy(v)

-----------------------------------------------------------------------------
(* Upkeep: the anchoring follows the lease.                                *)

\* What is active and has no proof after a step was so before.
NoneAppears ==
    \A c \in Contracts :
        contract'[c].status = "active" /\ contract'[c].proof = None =>
            contract[c].status = "active" /\ contract[c].proof = None

-----------------------------------------------------------------------------
(* Upkeep: what a request tells of itself.                                 *)

DatedTickets == \A k \in Tickets : ticket[k].status = "resolved" => ticket[k].resolved # 0

\* What Story asks of one session.
Reads(w) ==
    /\ pc[w] = "update_ticket" =>
          /\ job[w].seen = ticket[job[w].ticket]
          /\ job[w].seen.resolved # 0 => job[w].set.resolved = job[w].seen.resolved
          /\ job[w].set.status = "resolved" => job[w].set.resolved # 0
    /\ pc[w] = "report" /\ job[w].by = "tenant" => ActiveOf(job[w].unit) # {}

-----------------------------------------------------------------------------
(* Upkeep as part of the office.                                           *)

\* Where the workload is of another part, nothing of this one happens.
UpkeepOfficeInv ==
    /\ load.part = "upkeep" => UpkeepInv
    /\ load.part # "upkeep" => UpkeepInit

-----------------------------------------------------------------------------
(* Workers, whatever part they serve.                                      *)

Frame == DOMAIN pc = Workers /\ DOMAIN job = Workers

\* Where requests do not overlap, one is in flight at most.
Alone == ~load.overlap => \A v, w \in Workers : Busy(v) /\ Busy(w) => v = w

\* A step of one worker leaves the others where they were, and is of the
\* request in flight if requests do not overlap.
Moved(w) ==
    /\ Frame'
    /\ \A v \in Workers : v # w => pc'[v] = pc[v] /\ job'[v] = job[v]
    /\ load' = load
    /\ load.overlap \/ \A v \in Workers : v # w => ~Busy(v)

\* A handler of one step moves no worker, and finds none at work if requests
\* do not overlap.
Still ==
    /\ Frame' /\ pc' = pc /\ job' = job /\ load' = load
    /\ load.overlap \/ \A v \in Workers : ~Busy(v)

-----------------------------------------------------------------------------
(* The agent's records.                                                    *)

DealSet == [status : DealStatuses, fee : Fees, closed : BOOLEAN]

CommissionSet == [status : CommissionStatuses, paid : BOOLEAN]

\* A session that updates a deal or a commission has read its row, and closes
\* or pays it when it sets a status that asks for it; no row has been opened
\* again since.
CrmSession(w) ==
    /\ pc[w] = "save_deal" =>
          LET j == job[w] IN
          /\ j.deal \in Deals /\ deal[j.deal] # Gone
          /\ j.seen \in DealRow /\ j.set \in DealSet
          /\ j.seen.status # "open" => j.seen.closed
          /\ j.seen.closed => deal[j.deal].closed
          /\ j.set.closed <=> j.seen.closed \/ Closes(j.set.status)
    /\ pc[w] = "save_commission" =>
          LET j == job[w] IN
          /\ j.commission \in Commissions /\ commission[j.commission] # Gone
          /\ j.seen \in CommissionRow /\ j.set \in CommissionSet
          /\ j.seen.status = "paid" => j.seen.paid
          /\ j.seen.paid => commission[j.commission].paid
          /\ j.set.paid <=> j.seen.paid \/ j.set.status = "paid"

\* Where requests do not overlap, a deal is about to accrue a commission only
\* while it has none.
Accruing(w) ==
    ~load.overlap /\ pc[w] = "save_deal" /\ job[w].accrue => ~Commissioned(job[w].deal)

CrmInv ==
    /\ Frame /\ Alone
    /\ CrmTypeOK
    /\ \A w \in Workers : CrmSession(w) /\ Accruing(w)
    /\ RecordsHold

\* What a step of a request leaves of the sessions of the others.
CrmRowsKept ==
    /\ \A d \in Deals : deal[d] # Gone => deal'[d] # Gone
                                          /\ (deal[d].closed => deal'[d].closed)
    /\ \A c \in Commissions :
          commission[c] # Gone => commission'[c] # Gone
                                  /\ (commission[c].paid => commission'[c].paid)

-----------------------------------------------------------------------------
(* The agent's records: its steps.                                         *)

\* A row from which a lead is struck stays one.
NamesALead(R) ==
    \A r \in R : /\ r.row /\ r # Gone /\ {"row", "lead"} \subseteq DOMAIN r
                 /\ [r EXCEPT !.lead = None] \in R

\* It loses the lead, if it named it, and nothing else.
StruckRow(r, n, l) ==
    /\ n.row = r.row
    /\ r.row => n.lead = IF r.lead = l THEN None ELSE r.lead
    /\ r # Gone => n # Gone /\ r.row
    /\ \A f \in DOMAIN r \ {"lead"} : n[f] = r[f]

\* Under a workload of another part the agent has nothing.
CrmPart == IF load.part = "crm" THEN CrmInv ELSE CrmInit

-----------------------------------------------------------------------------
(* Listings.                                                               *)

PlainAfters == {Nothing, Delete} \cup {Edit(s) : s \in [loc : Locations] \cup [active : BOOLEAN]}

RuledAfters ==
    {Edit(s) : s \in [gov : Decisions, active : BOOLEAN, token : Draw, packet : Packet]}

Working == {"anchor", "wallet", "expired", "mint", "reload", "then"}

\* A session works on a row that it inserts or that it has read; what has a
\* link keeps having one.
ListSession(w) ==
    pc[w] \in Working =>
        LET j == job[w] IN
        /\ j.ids = {} \/ \E e \in Estates : j.ids = {e}
        /\ j.seen \in ListingRow
        /\ j.then \in PlainAfters \/ (pc[w] = "then" /\ j.then \in RuledAfters)
        /\ j.ids = {} => /\ pc[w] \in {"anchor", "wallet", "mint"}
                         /\ j.then = Nothing
                         /\ \E o \in Owners, l \in Locations : j.seen = NewListing(o, l)
        /\ j.seen.identity # NoIdentity => j.seen.token # 0
        /\ \A e \in j.ids :
              /\ listing[e] # NoListing
              /\ Listed(e) /\ j.seen.token # 0 => listing[e].token # 0

\* A decision has drawn a token for a listing that had none.
Rules(w) ==
    /\ pc[w] = "then" /\ job[w].then \in RuledAfters
    /\ job[w].then.set.token # job[w].seen.token

Ruling(w) == job[w].then.set.token

\* A token is of one row or of one decision.
RulingsAreNew ==
    /\ \A w \in Workers : Rules(w) =>
          /\ Ruling(w) # 0 /\ Ruling(w) <= drawn
          /\ \A e \in Estates : Listed(e) => listing[e].token # Ruling(w)
    /\ \A v, w \in Workers : v # w /\ Rules(v) /\ Rules(w) => Ruling(v) # Ruling(w)

RowsHaveLinks ==
    /\ \A e \in Estates : Listed(e) =>
          /\ listing[e].token <= drawn
          /\ listing[e].identity # NoIdentity => listing[e].token # 0
    /\ \A e, f \in Estates : e # f /\ Listed(e) /\ Listed(f) /\ listing[e].token # 0 =>
          listing[e].token # listing[f].token

ListInv ==
    /\ Frame /\ Alone
    /\ ListingsTypeOK
    /\ \A w \in Workers : ListSession(w)
    /\ RowsHaveLinks
    /\ RulingsAreNew

\* The row that a step of w writes: its token is the one it had, none, a new
\* one, or the one that w's decision has drawn.
WrittenRow(w, e) ==
    /\ listing'[e] \in ListingRow \cup {DeletedListing}
    /\ listing'[e].row =>
          /\ listing'[e].token <= drawn'
          /\ listing'[e].identity # NoIdentity => listing'[e].token # 0
          /\ Listed(e) /\ listing[e].token # 0 => listing'[e].token # 0
          /\ \/ listing'[e].token = 0
             \/ Listed(e) /\ listing'[e].token = listing[e].token
             \/ listing'[e].token > drawn
             \/ Rules(w) /\ listing'[e].token = Ruling(w)

\* A step of w writes one row at most, and draws at most one token.
OneRowIsWritten(w) ==
    /\ drawn' \in Draw /\ drawn <= drawn' /\ wallet' \subseteq Owners
    /\ \/ UNCHANGED listing
       \/ \E e \in Estates, r \in ListingRow \cup {DeletedListing} :
             listing' = [listing EXCEPT ![e] = r] /\ WrittenRow(w, e)
                         /\ (listing[e] = DeletedListing => r = DeletedListing)

\* The token of a decision that w takes now is new.
RulesAnew(w) ==
    Rules(w)' => /\ Ruling(w)' > drawn /\ Ruling(w)' <= drawn'
                 /\ UNCHANGED listing

\* The row of an UPDATE, field by field.
ListFields == {"row", "owner", "loc", "active", "gov", "identity", "token", "packet"}

SetFits(set) ==
    /\ "row" \in DOMAIN set => set.row = TRUE
    /\ "owner" \in DOMAIN set => set.owner \in Owners
    /\ "loc" \in DOMAIN set => set.loc \in Locations
    /\ "active" \in DOMAIN set => set.active \in BOOLEAN
    /\ "gov" \in DOMAIN set => set.gov \in Decisions \cup {"pending"}
    /\ "identity" \in DOMAIN set => set.identity \in Identity
    /\ "token" \in DOMAIN set => set.token \in Draw
    /\ "packet" \in DOMAIN set => set.packet \in Packet

\* What a registration does to the rows.
Mints(w, id) ==
    LET j == job[w]
        row == Registered(j.seen, id) IN
    \/ UNCHANGED listing /\ pc'[w] = "idle"
    \/ \E e \in Estates :
          /\ j.ids = {} /\ listing[e] = NoListing /\ pc'[w] = "idle"
          /\ listing' = [listing EXCEPT ![e] = row]
    \/ \E e \in Estates :
          /\ j.ids = {e} /\ Listed(e)
          /\ listing' = [listing EXCEPT ![e] = Written(listing[e], j.seen, row)]

\* What the handler's own commit does to the rows.
Stores(w) ==
    LET j == job[w] IN
    \/ UNCHANGED listing
    \/ \E e \in Estates :
          /\ j.ids = {e} /\ Listed(e)
          /\ \/ j.then = Delete /\ listing' = [listing EXCEPT ![e] = DeletedListing]
             \/ /\ j.then.do = "edit" /\ SetFits(j.then.set)
                /\ listing' = [listing EXCEPT ![e] = Written(listing[e], j.seen, j.then.set)]
                /\ \/ j.then \in RuledAfters
                   \/ \E l \in Locations : j.then = Edit([loc |-> l])
                   \/ \E b \in BOOLEAN : j.then = Edit([active |-> b])

-----------------------------------------------------------------------------
(* Listings, one request at a time.                                        *)

\* What a session read is what the row is, but for what it has just written;
\* only a listing without an identity is registered.
SerialSession(w) ==
    pc[w] \in Working =>
        LET j == job[w] IN
        /\ \A e \in j.ids : Listed(e) /\ (pc[w] # "reload" => j.seen = listing[e])
        /\ pc[w] \in {"anchor", "wallet", "expired", "mint"} => j.seen.identity = NoIdentity
        /\ j.then \in RuledAfters =>
              /\ j.then.set.packet.decision = j.then.set.gov
              /\ j.seen.token # 0 => j.then.set.token = j.seen.token

\* The packets of the rows, whatever overlaps.
Packets == \A e \in Estates : Listed(e) => listing[e].packet.decision = listing[e].gov

\* A step keeps the identities and the links of the rows that stay.
Keeps ==
    \A e \in Estates :
        Listed(e) /\ listing'[e].row =>
            /\ listing[e].identity # NoIdentity => listing'[e].identity = listing[e].identity
            /\ listing[e].token # 0 => listing'[e].token = listing[e].token

\* What a request does to the rows when it is alone.
AloneDoes(w) == SerialSession(w)' /\ Packets' /\ Keeps

SerialInv == ~load.overlap => Packets /\ \A w \in Workers : SerialSession(w)

-----------------------------------------------------------------------------
(* Listings where none becomes active again.                               *)

Refusing ==
    /\ ~load.overlap
    /\ load.uses \cap {"restore_property", "kcca_decide"} = {}

\* What a request does to a row then, which activates none.
Lasting == {Nothing, Delete, Edit([active |-> FALSE])} \cup {Edit([loc |-> l]) : l \in Locations}

\* An edit of the address, or one that ends a listing.
ActivatesNone(set) ==
    DOMAIN set = {"loc"} \/ (DOMAIN set = {"active"} /\ set.active = FALSE)

\* No listing is in the way of the one that is about to be registered.
RefusingSession(w) ==
    pc[w] \in Working =>
        LET j == job[w] IN
        /\ pc[w] \in {"wallet", "expired", "mint"} => ~Duplicate(j.seen.loc, j.ids)
        /\ j.then \in Lasting

\* The hashes of manifests are drawn, and no two active listings share an
\* identity.
DrawnManifest(identity, last) == \A k \in Draw : identity = ManifestHash(k) => k <= last

RefusingRows ==
    /\ \A e \in Estates : Listed(e) => DrawnManifest(listing[e].identity, drawn)
    /\ \A e, f \in Estates : ~SameIdentity(e, f)

\* What is drawn is never given back.
Grown == drawn \in Nat /\ drawn' \in Nat /\ drawn <= drawn'

RefusesAlone(w) == RefusingSession(w)' /\ RefusingRows'

\* The other active listings have another identity.
StandsAlone(e, identity) ==
    \A f \in Estates \ {e} : Listed(f) /\ listing[f].active => listing[f].identity # identity

RefusingInv == Refusing => RefusingRows /\ \A w \in Workers : RefusingSession(w)

\* Listings under a workload of theirs; under another nothing is listed.
NothingListed ==
    /\ listing = [e \in Estates |-> NoListing]
    /\ wallet = {} /\ drawn = 0

ListPart ==
    IF load.part = "listings" THEN ListInv /\ SerialInv /\ RefusingInv ELSE NothingListed

-----------------------------------------------------------------------------
(* Receipts.                                                               *)

Receipting == {"number", "flush", "mail", "commit_receipt"}

Holding == {"mail", "commit_receipt"}

\* Nobody edits a payment under the workload.
Fixed == "update_payment" \notin load.uses

\* The numbers before one, of its prefix and its year, are taken.
Below(n) == \A i \in 1 .. n[3] - 1 : Taken(<<n[1], n[2], i>>)

\* A session that receipts a payment has one that is made and has no receipt;
\* it has drawn the first number that was free, which nobody has taken since it
\* inserted its row.
ReceiptSession(w) ==
    LET j == job[w] IN
    /\ pc[w] \in Receipting =>
          /\ j.payment \in Payments /\ j.notify \in BOOLEAN
          /\ payment[j.payment].row # "absent"
          /\ ~Receipted(j.payment)
    /\ pc[w] = "credit" => j.payment \in Payments
    /\ pc[w] \in Receipting \ {"number"} =>
          /\ j.number \in Numbers /\ Below(j.number)
          /\ j.row \in ReceiptRow /\ j.row.payment = j.payment
          /\ Fixed => /\ j.number[1] = PrefixOf[payment[j.payment].method]
                      /\ j.row.amount = payment[j.payment].amount
    /\ pc[w] \in Holding \/ (pc[w] = "flush" /\ ~load.overlap) => ~Taken(j.number)

\* No two sessions receipt one payment, and no two have inserted one number.
OnePaymentEach ==
    \A v, w \in Workers : v # w =>
        /\ pc[v] \in Receipting /\ pc[w] \in Receipting => job[v].payment # job[w].payment
        /\ pc[v] \in Holding /\ pc[w] \in Holding => job[v].number # job[w].number

\* A payment has one receipt, and the numbers taken have no gaps.
ReceiptRows ==
    /\ \A p \in Payments : payment[p].row = "absent" => ~Receipted(p)
    /\ \A m, n \in Numbers :
          Taken(m) /\ Taken(n) /\ receipt[m].payment = receipt[n].payment => m = n
    /\ \A n \in Numbers : Taken(n) => Below(n)
    /\ Fixed => \A n \in Numbers : Taken(n) => ReceiptVerifies(n)

ReceiptInv ==
    /\ Frame /\ Alone
    /\ ReceiptsTypeOK
    /\ \A w \in Workers : ReceiptSession(w)
    /\ OnePaymentEach
    /\ ReceiptRows

\* The receipts of a prefix and a year, by number.
Counted(x, y) == {n \in Numbers : n[1] = x /\ n[2] = y /\ Taken(n)}

-----------------------------------------------------------------------------
(* Receipts: what a step leaves of the sessions and the rows.              *)

\* A payment once made stays a row, and keeps what it says unless it is edited.
PaymentsKept ==
    \A p \in Payments : payment[p].row # "absent" =>
        /\ payment'[p].row # "absent"
        /\ Fixed => payment'[p].method = payment[p].method
                    /\ payment'[p].amount = payment[p].amount

\* A payment whose receipt lost its number to one recorded at the same time.
LostNumber(p) ==
    /\ load.overlap
    /\ \/ ~Fixed
       \/ \E n \in Numbers : Taken(n) /\ n[1] = PrefixOf[payment[p].method]

\* Where no request dies, a payment that stands is receipted, being receipted
\* or has lost its number, and a receipt that was mailed is committed or about
\* to be.
Accounted(p) ==
    \/ Receipted(p) \/ LostNumber(p)
    \/ \E w \in Workers : pc[w] \in Receipting /\ job[w].payment = p

MailStands(r) ==
    \/ receipt[r[1]] = r[2]
    \/ \E w \in Workers :
          pc[w] = "commit_receipt" /\ job[w].number = r[1] /\ job[w].row = r[2]

AllAccounted ==
    ~load.fails => /\ \A p \in Payments : payment[p].row = "live" => Accounted(p)
                   /\ \A r \in mailed : MailStands(r)

-----------------------------------------------------------------------------
(* Receipts: the steps.                                                    *)

ReceiptPart ==
    IF load.part = "receipts" THEN ReceiptInv /\ AllAccounted ELSE ReceiptsInit

-----------------------------------------------------------------------------
(* Messages.                                                               *)

Composing == {"append", "notify", "system"}

\* A session that looks for a thread knows, alone, that there is none when it
\* will announce one; a session that composes has an open thread of its
\* sender, and will announce, alone, only a thread that nobody announced.
MessageSession(w) ==
    LET j == job[w] IN
    /\ pc[w] \in {"ensure", "open"} =>
          /\ j.pair \in Pairs /\ j.unit \in Units /\ j.sender \in j.pair
          /\ j.event \in {None, "thread_opened"}
          /\ ~load.overlap => (j.event = "thread_opened" <=> IsNew(j.pair, j.unit))
          /\ ~load.overlap /\ pc[w] = "open" => j.event = "thread_opened"
    /\ pc[w] \in Composing =>
          /\ j.thread \in Threads /\ Open(j.thread) /\ j.sender \in thread[j.thread].pair
          /\ j.event \in {None, "thread_opened", "inspection_requested"}
          /\ ~load.overlap /\ j.event = "thread_opened" =>
                \A m \in Stored :
                    messages[m].thread = j.thread => messages[m].event # "thread_opened"
    /\ pc[w] = "append" =>
          /\ j.at \in Moment /\ j.at < clock
          /\ ~load.overlap => \A u \in People : lastRead[j.thread][u] < j.at
    /\ pc[w] \in {"notify", "system"} =>
          /\ j.message \in Stored /\ messages[j.message].thread = j.thread
          /\ messages[j.message].sender = j.sender
    /\ pc[w] = "system" => j.event # None
    /\ pc[w] = "show" => j.thread \in Threads /\ Open(j.thread) /\ j.user \in People

\* Messages are in open threads and, like what was read, of the past.
MessageRows ==
    /\ \A m \in Stored : Open(messages[m].thread)
    /\ \A m \in Stored : FromUser(m) => messages[m].at < clock
    /\ \A t \in Threads, u \in People : lastRead[t][u] < clock

\* A message is told to its recipients, at the latest by the session that
\* stored it.
Told(m) ==
    \/ \A u \in thread[messages[m].thread].pair \ {messages[m].sender} : <<u, m>> \in bells
    \/ \E w \in Workers : pc[w] = "notify" /\ job[w].message = m

BellsRing ==
    /\ \A b \in bells : b[1] \in thread[messages[b[2]].thread].pair /\ b[1] # messages[b[2]].sender
    /\ ~load.fails => \A m \in Stored : FromUser(m) => Told(m)

\* One request at a time, a message of the other is unread until it is shown;
\* the request that has marked its thread read is about to show it.
Showing(t, u) == \E w \in Workers : pc[w] = "show" /\ job[w].thread = t /\ job[w].user = u

BadgesAreRight ==
    ~load.overlap /\ ~load.fails =>
        \A t \in Threads : \A u \in thread[t].pair : \A m \in Stored :
            messages[m].thread = t /\ FromUser(m) /\ messages[m].sender # u =>
                IF Showing(t, u) THEN messages[m].at <= lastRead[t][u]
                ELSE messages[m].at > lastRead[t][u] <=> m \notin shown[u]

MessageInv ==
    /\ Frame /\ Alone
    /\ MessagesTypeOK
    /\ \A w \in Workers : MessageSession(w)
    /\ MessageRows
    /\ OneThreadPerConversation
    /\ ThreadsOpenOnce
    /\ BellsRing
    /\ BadgesAreRight

\* Threads stay, between the same people about the same unit; messages stay
\* and time passes.
MessagesGrow ==
    /\ \A t \in Threads : Open(t) =>
          thread'[t] # NoThread /\ thread'[t].pair = thread[t].pair /\ thread'[t].unit = thread[t].unit
    /\ \A m \in Stored : m \in DOMAIN messages' /\ messages'[m] = messages[m]
    /\ clock <= clock'

-----------------------------------------------------------------------------
(* Messages: the steps.                                                    *)

MessagePart == IF load.part = "messages" THEN MessageInv ELSE MessagesInit

-----------------------------------------------------------------------------
(* Tenant links.                                                           *)

\* A session that updates a record has read it, and links it, invites its
\* tenant, or edits his address.
LinkSession(w) ==
    LET j == job[w] IN
    /\ StoresRental(w) =>
          /\ j.rental \in Rentals /\ j.seen \in RentalRow
          /\ "email" \in DOMAIN j.set => j.set.email \in Mailboxes \cup {None}
          /\ "user" \in DOMAIN j.set => j.set.user \in Logins /\ "email" \notin DOMAIN j.set
          /\ "token" \in DOMAIN j.set => j.set.token \in Token
          /\ "user" \notin DOMAIN j.set =>
                \/ "token" \in DOMAIN j.set /\ j.set.token # 0
                \/ "token" \notin DOMAIN j.set /\ Uses("update_profile")
    /\ pc[w] = "resolve" => j.email \in Mailboxes \cup {None} /\ Uses("update_profile")
    /\ pc[w] = "profile" =>
          j.rental \in Rentals /\ j.email \in Mailboxes \cup {None} /\ Uses("update_profile")
    /\ pc[w] = "make_account" => j.rental \in Rentals /\ j.email \in Mailboxes
    /\ pc[w] = "link" => j.rental \in Rentals /\ j.user \in Logins
    /\ pc[w] = "pending" => j.user \in Logins

\* Unless it may have been removed since, the login a session links is there,
\* and the commit writes it or finds the record linked.
LoginAtHand(w) ==
    LET j == job[w] IN
    ~(load.overlap /\ Uses("delete_login")) =>
        /\ pc[w] \in {"link", "pending"} => Exists(j.user)
        /\ StoresRental(w) /\ "user" \in DOMAIN j.set =>
              /\ Exists(j.set.user)
              /\ j.set.user # j.seen.user \/ rental[j.rental].user # None

\* One request at a time, the record a session has read is as it was, nobody
\* has it unless the tenant edits it himself, and its address is that of the
\* login it is linked to.
LinksAlone(w) ==
    LET j == job[w] IN
    ~load.overlap =>
        /\ StoresRental(w) =>
              /\ j.seen = rental[j.rental]
              /\ Linked(j.rental) => "user" \notin DOMAIN j.set /\ "token" \notin DOMAIN j.set
              /\ "user" \in DOMAIN j.set => login[j.set.user].email = rental[j.rental].email
        /\ pc[w] = "make_account" => ~Linked(j.rental) /\ rental[j.rental].email = j.email
        /\ pc[w] = "link" => ~Linked(j.rental) /\ rental[j.rental].email = login[j.user].email
        /\ pc[w] = "pending" => login[j.user].email = j.email

LinkSessions(w) == LinkSession(w) /\ LoginAtHand(w) /\ LinksAlone(w)

\* A linked record has a login that is there, and an address has one login.
LinkKeys ==
    /\ \A t \in Rentals : Linked(t) => Exists(rental[t].user)
    /\ \A u, v \in Logins : Exists(u) /\ login[u].email = login[v].email => u = v

LinkInv ==
    /\ Frame /\ Alone
    /\ LinksTypeOK
    /\ \A w \in Workers : LinkSessions(w)
    /\ LinkKeys
    /\ LinkedRentalsShareTheEmail

\* Where no login is removed, logins and links stay.
LinksStay ==
    ~Uses("delete_login") =>
        /\ \A u \in Logins : Exists(u) => login'[u] # NoLogin
        /\ \A t \in Rentals : Linked(t) => rental'[t].user # None

\* What every step leaves of the links: a token is spent by linking, and
\* nobody takes a record that somebody has.
SpentByLinking ==
    ~(load.overlap /\ Uses("delete_login")) =>
        \A t \in Rentals : rental[t].token # 0 /\ rental'[t].token = 0 => rental'[t].user # None

LinksAreHeld ==
    ~load.overlap =>
        \A t \in Rentals : Linked(t) => rental'[t].user \in {None, rental[t].user}

LinksKept == SpentByLinking /\ LinksAreHeld

LinkPart == IF load.part = "links" THEN LinkInv ELSE LinksInit

-----------------------------------------------------------------------------
(* Reminders: the calendar.                                                *)

\* The next due day is in this month, not before today, or in the next, where
\* this month's was before today.
DueThisMonth(s, a, due) ==
    due.y = a.y /\ due.m = a.m /\ a.d <= due.d

DueNextMonth(s, a, due) ==
    /\ due.y = NextMonth(a.y, a.m)[1] /\ due.m = NextMonth(a.y, a.m)[2]
    /\ s.d < a.d
    /\ s.d < MonthLength(a.y, a.m)

-----------------------------------------------------------------------------
(* Reminders.                                                              *)

DueOf(t) == NextDue(StartOf[t], today)

DaysTo(t) == DaysLeft(today, DueOf(t))

Reminded(t) == Note(loginOf[t], PayLink(DueOf(t))) \in sent

\* The due days a tenant is to be told of.
Awaited(t) ==
    /\ loginOf[t] # None
    /\ Before(StartOf[t], DueOf(t))
    /\ DueOf(t) = NextDue(StartOf[t], FirstDay) =>
          DaysLeft(FirstDay, DueOf(t)) >= ReminderDaysBefore

\* Within the window, who has not been told has been missed on every day of it.
NoneIsLate ==
    \A t \in Residents :
        Awaited(t) /\ DaysTo(t) <= ReminderDaysBefore =>
            Reminded(t) \/ missed + DaysTo(t) >= ReminderDaysBefore

\* What a job is scanning, and what it has done of it.
Scan(w) == IF pc[w] = "scan" THEN job[w] ELSE job[w].then

Storing(w, t) ==
    pc[w] = "store_note" /\ job[w].note = Note(loginOf[t], PayLink(DueOf(t)))

ScanSession(w) ==
    /\ pc[w] \in {"scan", "store_note"} =>
          /\ Scan(w).asOf = today
          /\ Scan(w).left \subseteq Residents
          /\ \A t \in Residents :
                t \notin Scan(w).left /\ loginOf[t] # None /\ InWindow(StartOf[t], today)
                   => Reminded(t) \/ Storing(w, t)
    /\ pc[w] = "store_note" =>
          /\ job[w].note.who \in Readers \cup {Landlord}
          /\ load.overlap \/ job[w].note.who = Landlord \/ job[w].note \notin sent

RemInv ==
    /\ Frame /\ Alone /\ RemindersTypeOK /\ TenantsAreRemindedOnce /\ NoneIsLate
    /\ \A w \in Workers : ScanSession(w)

\* Under a workload of another part the loop does not run.
RemPart == IF load.part = "reminders" THEN RemInv ELSE RemindersInit

=============================================================================
