# Rental manager backend: specifications and proofs

TLA+ models of the FastAPI backend of the rental manager (`app/`), the TLC runs
that check them and the TLAPS proofs about them. The backend serves landlords,
tenants, agents and government officers over one PostgreSQL database; there is
no broker and no worker pool of its own, so what is hard in it is **requests
that overlap in the database**: a handler reads rows into a session, decides on
those copies, and commits later.

## 1. How the program executes, and how the models say it

`database.get_db` gives a request a session of its own (`autocommit=False`,
`autoflush=False`) over READ COMMITTED transactions. So in every module

* a *worker* is a request in flight. `pc[w]` is where it stands and `job[w]` (or
  `session[w]`) the rows it has loaded. `Goto` moves it, `Respond` closes the
  session;
* a handler that decides on what it read is two or more actions, `...Read` and
  `...Commit`, with any other request's steps in between; one that decides on
  nothing it read is a single action;
* a commit makes all of its writes visible at once, and nothing before it.
  `Abort` is every way of not getting there (an exception, a constraint, a
  crash): the uncommitted part is gone, the committed part stays. Nothing else
  is kept in memory between requests, so a restart of the process is an
  `Abort` of every worker;
* the ORM writes the columns whose value *changed in the session*
  (`WriteBack`). A value that equals the loaded one is not written, even if
  the row has changed since; an object loaded before a `FOR UPDATE` is not
  refreshed by it.

Requests **one at a time** are what the handlers were written for; requests that
**overlap** are what they meet. A property says which of the two it is about. Two
workers are enough for every check-then-act pair: a third request can only repeat
what the second does between the first's read and commit.

An instance of TLC usually covers several situations. They are initial states of
one run, told apart by a variable that never changes: `overlap` in `Settlement` and
`Invoicing`, which is false where a request is answered before the next one comes
(the `...Regimes` modules bound the two cases differently), and `load` (the
*workload*) in `Tenancy` and in the modules that extend `Requests`, a record that
says which handlers are in use (`uses`), whether their requests `overlap`, what may
go wrong, and what the part adds to it. Because that is part of the state, a property
such as `~overlap => CollectedIsCredited` is a formula of the specification itself,
which a theorem can state for every instance.

## 2. Inventory

| Component | State | Operations | Interacts with | Hard part | Correct when | Module |
|---|---|---|---|---|---|---|
| Gateway checkouts (`payment_gateway_service.py`) | `payment_checkouts` | initiate, webhook, poll, simulate, confirm on chain, complete | provider (HTTP, redelivered notices), settlement, receipts | notices repeated, reordered, concurrent; row lock and stale identity map; money asked before the row is committed | settled at most once; completed exactly with a payment row; an approval settles | `Settlement` |
| Settlement (`payment_service.settle_invoice_payment`), manual recording and deletion (`routers/invoices.py`) | `invoices` balances and status, `payments` | settle, record, delete | checkouts, ledger, notifications | read-modify-write of `amount_paid` without a lock | books balance; credit backed by payment rows; paid means collected | `Settlement`, `InvoiceAccount` |
| Platform fees and landlord ledger (`platform_fee_service.py`) | `landlord_ledger_entries` | settlement rows, monthly unit fee, summaries | settlement, units | running balance over concurrent appends; idempotence by check-then-act | credit and fee make the gross; one fee a month; the summaries agree | `LandlordLedger` |
| Tenants and leases (`tenant_service.py`, `lease_service.py`, `routers/leases.py`) | `tenants`, `leases` | onboard, update, move out, create and terminate a lease, list (with backfill) | units, anchoring (commits in the middle), invoices | occupancy is written three times and each handler reads some of them; two commits in one onboarding | a unit is let once; who lives here has a contract; who left has none in effect | `Tenancy` |
| Properties and units (`property_service.py`) | `properties`, `units` | create, edit, archive, restore, status, delete | tenants, leases (foreign keys set NULL), listing identity | deletion decides on statuses others are changing; a wallet's commit saves a listing halfway | nothing let is deleted; what the market links to verifies; active listings differ in identity | `Tenancy`, `Listings` |
| Invoice creation (`routers/invoices.py`, `invoice_service.py`) | `invoices` | create, make sure of the month's rent, number | leases, the tenant's pay page | duplicate check and numbering by counting, both check-then-act | one bill a month; numbers never collide for good | `Invoicing` |
| Payments and receipts (`payment_service.py`, `receipt_service.py`) | `payments`, `system_receipts` | record, edit, delete, issue, number, mail, verify | settlement, mail | counted numbers; mail before the commit; silent failure | payments that stand are receipted; mailed receipts verify | `Receipts` |
| Sui and Privy transfers (`payment_gateway_service.py`, `blockchain/`) | wallets, digests, the chain | pay, submit, confirm, link a wallet | checkouts, the node | chain and database are two commits; lost answers | a checkout settles once, by a transfer that covers it | `SuiPay` |
| Escrow, anchoring (`blockchain_service.py`, `walrus_anchor_service.py`) | `escrow_holds`, proofs and hashes in other tables | hold, release, anchor, verify | leases, listings, accounts | the anchor is a commit of its own after the row it proves | active leases verify; one open hold | `Upkeep`, `Listings` |
| Accounts and tokens (`routers/auth.py`, `routers/users.py`, `auth_service.py`) | `users` | register, verify, login, second factor, refresh, logout, reset, social sign-in | every router | codes and tokens stored one per row, replaced by whoever commits last; two-commit reset | a code works once and until it is used | `Accounts` |
| Government invitations and portal (`government_invitation_service.py`) | `government_invitations`, a code in `users` | create, look at, accept, sign in, mailed code | accounts | lazy expiry; acceptance is check-then-act | an invitation makes one officer, in time | `GovPortal` |
| KYC, oversight, administration (`kyc_service.py`, `government_service.py`, `workspace_service.py`) | review states in `users`, the log | upload, decide, suspend, disconnect, delete | accounts, listings | decisions on what a queue showed earlier; two officers at once | trust follows a decision; sanctions hold and are logged; an administrator remains | `Oversight`, `Certificates` |
| Agent CRM (`agent_crm_service.py`) | leads, clients, viewings, deals, commissions | every edit, win a deal | - | commission by check-then-act | one commission per won deal | `Crm` |
| Messages (`conversation_service.py`) | threads, participants, messages | open, post, inspect, call, read, archive | notifications | thread by check-then-act; read times | one thread per pair and unit; unread is unshown | `Messages` |
| Tenant portal (`routers/tenant_portal.py`, `invoice_service.py`) | `tenants.user_id`, invitation tokens | invite, accept, link by address | accounts, tenants | two commits in one acceptance | an invitation is spent by linking; linked rentals share the address until the tenant edits his | `TenantLinks` |
| Rent reminders (`rent_reminder_service.py`, loop in `main.py`) | `notifications` | the loop's pass | tenants | missed days, deaths, short months, dedup by link | reminded of each due day, in time, once | `Reminders` |
| Maintenance (`maintenance_service.py`) | `maintenance_requests` | report, update, delete | units, leases | the property is deleted meanwhile | no request outlives its unit | `Upkeep` |
| Dashboards, arrears, reports (`arrears_service.py`, `dashboard.py`, ...) | none: computed | - | payments, tenants | six screens, each with its own query and month arithmetic | they agree | `Figures` |
| Search and marketplace; gateway providers; media, e-mail, PDF, identity providers; configuration, schema, seeds | one row at a time, or none | - | read the rest | - | - | not modelled (section 7) |

`PROJECT.json` lists every component with its files and status, and under
`hazards` what is hard to test, at its line.

## 3. Modules

```
Settlement --> InvoiceAccount (refinement)      LandlordLedger   Tenancy   Invoicing   Figures

Requests --> Accounts --> GovPortal --> Oversight --> Certificates          (people)
Requests --> Receipts, Messages, Crm, TenantLinks, Reminders,
             Listings, SuiPay, Upkeep --> Office --> OfficeInvariants       (office)
```

`MC...` modules hold model values, small functions for constants, the workloads
and symmetry; `..._proofs` hold theorems, `OfficeInvariants` the inductive invariants of
`Office_proofs`, and `Sums` the facts about totals that two of them need.

**`Settlement`.** Checkouts and invoices: every way a rent payment is initiated,
approved, settled, recorded by hand, and an invoice deleted. The payment rows are
abstracted to their effect: `collected[i]` is their total for an invoice,
`settlements[c]` how many a checkout has. The provider is the environment:
`PayerApproves`, `PayerDeclines`, and `notices` that are never removed, so that
they are delivered late, in any order, any number of times. `EntryPoints` says
which of webhook, simulate and confirm_sui an instance has, because what the row
lock achieves depends on it: a webhook loads nothing before the lock, the others
hold a copy of the checkout that the locking query does not refresh (`job.seen`).
Where `overlap` is false a request arrives only when every worker is idle.
**`InvoiceAccount`** is what all of that promises of an invoice: a credit by manual
recordings and by checkouts that count once, until it is voided.

**`LandlordLedger`.** The fee, the rows a settlement appends, the monthly unit fee,
the running balance and the two summaries, in which totals are the community modules'
`SumFunction`. It takes the sessions' rows as flushed
but not committed, as `_append_ledger` does, and rounds the fee in the smallest
unit of the column.

**`Tenancy`.** Units, tenants, leases. The three records of occupancy are `unit[u]`,
the leases and `tenant[t].unit`. `onboard` and `occupy` are the two commits of
`create_tenant`: anchoring the agreement commits the tenant and the lease
(`walrus_anchor_service.py:275`) before the unit's status is written.
A workload names the handlers in use, whether their requests overlap, whether
`create_tenant` may stop between its two commits (`halts`), whether somebody who has
left may be moved out again (`repeats`), and bounds the lease rows (`maxLeases`). Where
requests overlap, a tenant can be moved to a unit between the check of `delete_property`
and its commit, so `ActiveTenantsKeepTheirUnit` is claimed of requests one at a time. Only the statuses the code assigns appear: no lease is
ever `draft`, `pending` or `expired`, no tenant `evicted`. Tenant rows and lease
rows are never deleted.

**`Invoicing`.** A creation is three steps, as it is three statements: the
duplicate check, the count, the insert; the unique index is `Taken`. Payments and
deletions are one step each there, and in detail in `Settlement`. `overlap` is as in
`Settlement`.

**`Requests`** is the frame of the modules below: workers, workloads, and
`Written`, what an `UPDATE` of a session's row does to the row that is there now.

**`Accounts`, `GovPortal`, `Oversight`** are all writers of the `users` table, in one
state: a row in `user`, what its owner has been handed in `given` (the last code
mailed, the secret confirmed), accepted codes in `spent`, the audit log, invitations,
the images on disk. Codes, tokens and hashes are drawn at random in the code; here
each draw is the next number, so that "another one" can be told. What lasts a
number of minutes lapses in the order it was drawn. A handler reads rows into a
session and `save` commits its assignments, its log entries and its hand-outs; where
the code commits twice the first commit names the phase after it. The portal answers a
request that finds no code on the row with yes if the account had a code accepted
within five minutes (`RepeatOtp`); how long ago it was is left open.
**`Certificates`** adds what only reads that table: the public certificate page, the
officers' and administrators' counts, their alerts, and the pages of the queue and the
blacklist, each cut to what the officer asks for, the queue to `QueueLimit` at most.

**`Office`** composes eight parts that share the workers and no table:
**`Receipts`** (numbering by prefix and year, the mail between insert and commit,
the page that verifies), **`Messages`** (threads, the transaction time a message is
stamped with, read times, bells), **`Crm`** (leads, clients, viewings, deals,
commissions; a session writes the columns it changes), **`TenantLinks`** (every way a
login and a tenant row come together, and `update_profile`, which sets the address of
the row alone; a login that is removed while an acceptance is
under way leaves an invitation spent on nobody, which `LinksAreKept` excepts),
**`Reminders`** (a calendar, the scan, which has no `ORDER BY` and so takes the tenants in
any order, the window, the dedup, days the loop misses), **`Listings`** (the
fingerprint of a location, replaced by the hash of a manifest unless storing it raises,
the wallet's commit halfway, KCCA's decisions, archiving and restoring; the id of a
deleted row is not used again), **`SuiPay`** (transfers on a chain that keeps
what the database may forget; answers that get lost; a Privy wallet or the
platform's; digests given by hand, of any transfer; an invoice that is paid or
cancelled meanwhile, `PayElsewhere`, and then takes nothing), **`Upkeep`** (agreements and their anchor, escrow holds, maintenance
requests, the deletion of units and of the property). A part that the workload is
not about keeps the first of its states.

**`Figures`** has no requests: it holds rows of tenants and payments and a day,
and computes arrears, charts, wallets and revenue each as its screen does. A world is
what its rows may hold: the leases, the kinds, amounts and months of payments. Amounts
are in hundredths, as the column `Numeric(12, 2)` keeps them; sums taken in floating
point are taken to be exact, and only the officers' chart is cut to whole shillings.

Definitions marked `Mutant:` are not part of the model. Each is a plausible bug
in the definition that follows it, and the property named beside it in
`PROJECT.json` fails when it is put in that definition's place.

## 4. Runs

| Run | Instance | Checks |
|---|---|---|
| `settlement` | two overlapping requests, 2 checkouts (one mock, one Sui) of one invoice of 2, all entry points | `BooksAreBacked` (the columns balance, credit is backed by payment rows, paid means collected, completed means a payment row), `CompletedIsFinal` |
| `settlement_live` | 2 checkouts of one invoice; overlapping: the deliveries of one of them by webhook to two workers, fair; one at a time: every request from every entry point | `SettledAtMostOnce`; `BooksAreComplete` (no receipt without its payment; serially, every payment is credited and the status follows the balance); `DeliveriesSettle`; `ImplementsAccount`, the refinement of `InvoiceAccount` |
| `ledger_books` | one request at a time, 2 payments, 2 landlords, 2 months | `CreditAndFeeMakeGross`, `UnitFeeOncePerMonth`, `LedgerAdds` (types, running balance, summaries of landlords and platform agree) |
| `tenancy` | 2 properties, 2 units, 3 tenants; *Race*: overlapping, with every failure and repeat; *ByTenant*, *ByLease*, *Listing*: one at a time, three ways to run a property | `TenantsHaveLeases`, `MovedOutHasNoLease`, `OccupancyAgrees` (what is let once, vacant or lost, by what the workload uses) |
| `invoicing` | overlapping: 2 leases, 2 days of one month; one at a time: 1 lease, 3 days, the third in the next month | `NextNumberIsFree`, `BillsHold` (one bill a month, paid stays paid) |
| `people` | 21 workloads over 3 accounts and 2 invitations, one at a time and overlapping with deaths | types; `CodesWorkOnce`, `InvitationsMakeOfficers`, `SanctionsHold`, `TrustIsDecided`, `DisconnectionsHold`, `DocumentsAreKept`, `OfficersSeeEverybody` |
| `office` | 31 workloads of the eight parts | types; `ReceiptsAreKept`, `ConversationsAreOne`, `MessagesArrive`, `AgentsRecordsHold`, `LinkedRentalsShareTheEmail`, `LinksAreKept`, `RemindersKeepTime`, `ListingsVerify`, `IdentityIsKept`, `IdentitiesAreUnique`, `SuiSettlesOnce`, `PaymentsAreSettled`, `ContractsVerify`, `TicketsAreKept`, `OneOpenHold` |
| `figures` | every day from November to March of 2 tenants of 2 landlords with 2 payments, in two worlds | `FiguresAgree` (charts, months and wallets), `RentFallsDueMonthly` |

A property that joins several is defined as their conjunction, each conjunct with
a name and a comment of its own in the module. The other four runs,
`settlement_momo`, `ledger_net`, `contracts` and `reminders`, end in a violation
and are the findings of section 6.

**Bounds.** An invoice of 2 with amounts 1 and 2 has a part payment, an exact
payment and one too many; two checkouts are what a lost update and a double
settlement take. `MaxCollected` stops manual recordings, which the balance alone
does not when credits are lost. The ledger's grosses 3 and 1033 fall under the
minimum fee (which the payment then caps) and need rounding; `Recent = 3` stands for
the 500 rows of a summary and is passed. `maxLeases` leaves room for a tenant with a
second lease and a unit with a second tenant; in *Race*, where a move-out or a
termination may be repeated at will, two leases do.
`MaxInvoices = 3` lets a deleted bill be replaced within a month and the next month
be billed. In `people` two of the three accounts are rivals for one address, and
`draws` is what a workload needs for a code to be replaced and the replacement
used; three accounts with lists of one and alerts of two (`LimitEach`, `Limit`, 12
and 30 in the code) fill both limits, and a page of the queue of two (`QueueLimit`, 200) leaves one out. In `office`, two payments of one prefix
collide in the count and a third method has another prefix; two threads are one
duplicate; the reminders run from December through a leap February with leases that
began on the 15th, 29th and 31st, and up to three missed days in a row out of a
window of seven; two transfers are a payment and its repetition, or the payments of two
checkouts, of 1 and 2, of an invoice of 2: the larger transfer covers either checkout,
and what is due takes one of them only. `MaxDrawn = 2` lets two
registrations of two rows, or a registration and a decision, or two decisions meet; ids
are not used again, so two rows are never registered a third time. The months of `figures` cross a year, a payment
of July is older than any chart, and amounts are of 100 and 150 hundredths. The clock
stops at `MaxDay`, `MaxMonth`, `MaxClock` or `LastDay`. No run checks for deadlock:
a system in which every bound is used up, or in which nobody asks for anything,
may stop.

**Symmetry** is used where all the identities of a set are interchangeable in
the constants (in `tenancy` a unit is exchanged together with its property), and in
no run with a liveness property.

**Fairness** (`Settlement!Fairness`, in `settlement_live`). A request that has been
accepted goes on until it answers: weak fairness of each worker's steps, which the
server's thread justifies. A provider repeats a notice until it is answered, and a
request of its own does not lose every race for the lock: strong fairness of delivery
and of the steps under the lock, as a delivery may find all workers busy and the lock
taken, again and again, but not always. A request may abort any number of times;
nothing makes the payer approve, the landlord record, or a retry happen otherwise.
The reminder loop has no liveness property: that it misses at most `MaxMissed` days
in a row is a bound, and that a reminder comes in time is then an invariant.

## 5. Proofs

TLAPS proves the following for every value of the constants and every workload, from
the named assumptions of the modules. They say that totals and amounts are positive,
bounds are natural numbers, `None` is not a row, a percentage is at most 100, days have
a period and units a property, the flags of a workload are Booleans, payments and accounts
are finite in number, accounts have an address and are numbered, those there at the start
have one each and a role the code knows, a list is at least twice as long as the part of
it each kind of alert may fill, the first day and the start of a lease are dates, a calendar
ends no earlier than it begins, landlords and tenants are finite in number where they are summed
over, rents are integers and amounts of payments natural numbers (of hundredths), what a
checkout asks for is due on its invoice at first, and the reminder loop misses fewer days in a row than its
window has.

* `Settlement_proofs`: `TypeCorrect`, `BooksStayBalanced`, `CreditStaysBacked`,
  `PaidMeansCollected`, `CompletionMeansPayment`, together `BooksStayBacked`
  (`BooksAreBacked`), and `CompletionIsFinal`. The properties are not inductive: a
  commit writes from a copy of any age. `IInv` adds what every copy still satisfies
  at its commit (`SessionOK`: what a session has read is backed by payment rows and
  leaves room for its amount, since `collected` only grows and a total never
  changes), that checkout rows name an invoice and an amount, and that one request
  creates a reference. Lost updates are among the behaviours, and the books balance
  in spite of them. `WebhooksSettleOnce` proves `SettledAtMostOnce` where
  `EntryPoints = {"webhook"}`: the sessions before the lock have loaded nothing, so
  what is read under the lock is what is there, and one session is under it at a
  time. `SerialRequestsSettleOnce`, `SerialStatusMatchesBooks` and
  `BooksAreCompleteAlways` (`BooksAreComplete`) are of requests one at a time, from
  every entry point: `SerialInv` adds to `IInv` that one worker at most is busy and
  that what its session has read is still what is there (`Fresh`). That receipts have
  payments needs no such thing: `ReceiptInv` counts the requests that are about to
  issue one. `SerialSettlementIsAnAccount` is the refinement `ImplementsAccount`: where
  requests do not overlap, `Settlement` implements `InvoiceAccount`. Each of the three
  commits maps to a credit, a counted checkout or a void, and everything else to a
  stutter.
* `LandlordLedger_proofs`: `CreditAndFeeAlwaysMakeGross`, for any number of
  overlapping requests and any fee schedule. `Inv` says what every session is about
  to append: rows of no payment, or the one or two rows of a payment that is nobody
  else's and has no row yet (`MakeUp`); a commit puts them after whatever has been
  appended meanwhile. `FeeBounds` is the arithmetic: the fee is never negative and
  never more than the payment. `AccrualsApartBillOnce` proves `UnitFeeOncePerMonth` of
  every behaviour in which no two requests bill one landlord at the same time, whatever
  else overlaps and even if the month ends before the commit: `BillingInv` adds that a
  session holds no bill, or the one bill of a month that is not billed yet.
  `SerialAccrualsBillOnce` is the case of one worker. `SummariesAlwaysAgree` is of every
  behaviour: credits are never negative and charges never positive (`Signed`), so the
  shares of the rows are numbers that are summed over the ledger once, or landlord by
  landlord, to the same total, and a summary that leaves out old rows can only be short.
  `RowsApartAdd` is the running balance, and with it `LedgerAdds`, of every behaviour in
  which no two requests hold rows of one landlord (`RowsApart`). `Adding` says that the
  rows a session has flushed continue the ledger as it is (`Running`): a commit for
  another landlord leaves his sum alone (`BalanceApart`), one for this landlord there is
  none of. `SerialLedgerAdds` is the case of one worker. With overlap the balance
  does go wrong (section 6), so the condition is needed.
* `Tenancy_proofs`: `TypeCorrect` and `TenantsStayOnRecord`, whatever handlers a
  workload has, by `Base`: leases are never lost, and a session that is going to
  write a tenant or lease names one. `MovedOutStaysOut` proves `MovedOutHasNoLease`.
  Where requests overlap, onboarding alone makes leases: `Homes` adds that a tenant has
  at most one lease, that an onboarding's tenant has no row yet, and that what a
  move-out has read, however long ago, is the only lease there is to end. Where they
  do not, and for `OccupancyAlwaysAgrees` (`OccupancyAgrees`), the invariant is
  `Serial`: one request at a time, a session's decision still holds (`AsRead`), and
  `RowsAgree`, which depends on what the workload uses. Where tenancies end in one
  way, an active lease is of a unit that is occupied or that the onboarding under way
  is about to occupy (`InUse`), and where that way is moving out, a resident and an
  active lease are the same thing, which is what makes the backfill of a listing
  harmless.
* `Invoicing_proofs`: `TypeCorrect` and `NextNumberStaysFree`. A number is never
  ahead of its day's count, and a pending one at most by one; an insert adds one
  to the count and soft deletion takes nothing off it. `BillsAlwaysHold`
  (`BillsHold`) is of requests one at a time: between the duplicate check and the insert
  the month stays without a bill, and a draft that is about to be sent stays a draft
  (`ReadsHold`).
* `Office_proofs`: each of the eight parts has an invariant of its own that the steps of
  the others leave alone, and `TypeCorrect` is of all of them.
  * `SuiTypeCorrect` and `CheckoutsSettleOnce` (`SuiSettlesOnce`), with
    overlap, deaths and lost answers. The invariant follows what a session knows of
    the checkout's status: after a commit has expired its rows it knows nothing, so
    what it reads under the lock is the row; what it is about to settle is covered by its
    transfer, which was made for that checkout where no digest is given by hand
    (`SuiSessionOK`). `PaymentsAlwaysSettled` (`PaymentsAreSettled`) is of requests one at
    a time. `SuiSerial`: a checkout whose amount is still due has one transfer at most,
    which is settled or whose session is on its way to settle it (`TransfersAccounted`);
    what is due only falls (`DueFalls`), so a checkout that came too late stays so; a
    transfer is about to be made only for an open checkout (`StatusAsRead`); and a session
    that links a wallet has read which one is primary now (`LinkingAsRead`).
  * `UpkeepTypeCorrect`; `TicketsStayWithUnits`, with overlap;
    `TicketsAlwaysKept`; `ContractsAlwaysVerify`, where no request dies;
    `DepositsAreHeldOnce`, where none overlap. `UpkeepInv` says that one session at
    most is busy where requests do not overlap (`UpkeepAlone`), and that an active lease
    without a proof has a session on its way to anchor it (`Anchored`).
  * `AgentsRecordsAlwaysHold`: a session that sets a deal's outcome closes it in the
    same commit, or read it closed, and none is ever opened again (`CrmSession`). The
    columns it does not change keep what others wrote. One request at a time, a session
    that is about to accrue a commission has found none of the deal, won or entered by
    hand, and there still is none.
  * `ListingsAlwaysVerify`, `IdentitiesAreKept`, `IdentitiesAreAlwaysUnique`: a row with
    an identity has a link, and no two rows one (`RowsHaveLinks`); the one thing that
    replaces a link is a decision, whose new token nobody else has (`RulingsAreNew`).
    One request at a time, a session's row is as it was read (`SerialSession`). Where no
    archived listing comes back, the hash of a manifest is drawn anew, and the
    fingerprint that a failed store leaves is one that was looked for in the same request
    and not found, so active rows differ in identity (`RefusingRows`).
  * `ReceiptsAreAlwaysKept`: the numbers taken have no gaps, so the count proposes a
    free one; a session that waits to commit holds a number that the index keeps for
    it, and a payment is receipted by one session (`ReceiptInv`).
  * `ConversationsAreAlwaysOne`, `MessagesAlwaysArrive`: a message has told its
    recipients, or the session that stored it is about to (`Told`); one request at a
    time, what is shown is exactly what the read time covers, except for a thread
    that the request in flight has marked and is about to show (`BadgesAreRight`).
  * `LinkedRentalsAlwaysShareTheEmail`, `LinksAreAlwaysKept`: a linked record has a login
    that exists; an acceptance writes that link in the commit that spends the token
    (`LoginAtHand`), and, one request at a time, the record is still as it was read
    (`LinksAlone`). The first is claimed where no tenant edits his own record.
  * `RemindersAlwaysKeepTime`: within the window a tenant who has not been told of the
    due day was missed on every day of it so far (`NoneIsLate`), and a finished scan
    has told everybody in the window (`ScanSession`). It rests on lemmas about the
    calendar, for every date: a lease falls due on the day it began or the last of a
    shorter month (`NextDueFalls`), the next due day stays the same until it has come
    (`TomorrowsDue`), no other falls before it (`NoneBetween`), and who is warned of a
    due day after the first has moved in (`WindowFollowsStart`).

* `People_proofs`: every property of `people`, with overlap and deaths wherever the
  property says nothing else. What a handler is about to commit nobody else can change,
  so each handler is looked at once, where it reads: `RowFits` says what any of them may
  write, given what it has read (a code is written with the mail that carries it and
  cleared with the one it accepts; a flag of a suspension comes with the other and an
  entry; an approval with an entry), and `Steps` that every action is `Quiet`, opens
  such an update, or commits one. `PeopleTypeCorrect` is of `Base`: only an insert is of
  a row that is not there, of which no other request is about (`Claimed`), and one
  request at a time what was read is still so (`Current`). From it and the steps:
  * `SanctionsAlwaysHold`: the entry of a deletion is there before the row goes
    (`Logging`). `OfficersAlwaysSeeEverybody`: who waits for review is a landlord, an
    agent or a tenant (`SelfServed`), and a list or page out of a set leaves nobody out
    that is not full, for limits of any size.
  * `TrustIsAlwaysDecided`: with overlap, an account approved without an officer has
    been so from the start, and no update has seen it otherwise (`Decided`), so none
    makes a certificate of it; one at a time, an account is trusted after an officer's
    approval, which stays on record (`Endorsed`; the seed script and administrators leave
    no entry, so where they approve only the review's state is asked), and an upload of
    new documents sends it back to review without taking that off it. `DisconnectionsAlwaysHold`: whoever is about to be
    disconnected or deleted is not the last administrator, counted by the row that was
    read, which one request at a time is the row there is.
  * `CodesAlwaysWorkOnce`: a code is drawn before it is used, is in one place, on a row
    or in one update, and whoever accepts it takes it off its row with the commit
    (`CodesDiffer`). What makes it hold with overlap is that a column is written only if
    it changed: a session that read a code never writes it back. The portal's second yes
    needs the entry that only an accepted code leaves (`RepeatsFollowACode`).
  * `InvitationsAlwaysMakeOfficers`: addresses of live accounts differ (`EmailsDiffer`),
    and the commit of an acceptance finds no other account of the address, while a
    deletion gives up the invitations of an address before the account (`OfficersStay`).
  * `DocumentsAreAlwaysKept`: documents newer than the manifest have the request that
    stored them still at it (`Documented`).

* `Sums`: what `SumFunctionOnSet` and `SumFunction` of the community modules compute, for
  every finite set: a sum of integers is an integer (`SumType`), an element can be taken
  out of it (`SumRemove`), the sum of a sum is the sum of the sums (`SumPlus`), and what is
  summed class by class is summed once (`SumByClass`). Induction takes no operator
  here: a set of numbers that is not empty has a least one (`LeastNumber`, from the
  library's `WFMin`), so a set that holds 0 and the successor of what it holds is `Nat`
  (`NumberInduction`), and likewise for the subsets of a finite set (`SubsetInduction`).
* `Figures_proofs`: `FiguresAlwaysAgree` (`FiguresAgree`) and `RentAlwaysFallsDueMonthly`
  (`RentFallsDueMonthly`), for any rows and any calendar. `TypeOK` is the invariant: the
  figures are functions of the rows. A bar of the officers' is the administrators' less
  its fraction of a shilling (`WholeShillings`), whatever the hundredths add up to. Every figure is a sum over rent payments with a
  condition, so the screens agree because their classes do: by landlord, tenant and method
  each payment is in one class (`RentByLandlord`, `RentByTenant`, `RentByMethod`), and by
  month in one bar or in none. The latter is about dates: months are counted in one
  sequence over the turn of the year, in which a bar's bucket (`BucketIs`) and the month a
  landlord's chart subtracts its way to are the month that many places back (`OneMonth`),
  and the dates between a bucket's ends are those of its month (`InBucketIs`). For rents
  falling due, tomorrow is the next day, the first of the next month, or the first of
  January (`TomorrowIsNext`), and what that does to the months between a lease's start and
  its end or today is one more month, or none (`OneMoreMonth`, `DayTurns`).

Each proof has one lemma per effect (a session moves, a row is changed in place,
a row is appended), one step per action that cites it, and a temporal step.

**Model-checked only**: liveness under fairness (`DeliveriesSettle`), which is out of
these provers' reach. Every other property of the passing runs is a theorem. Some are of
the two cases that their run has: `SettledAtMostOnce` of deliveries by webhook
alone, with overlap, and of all entry points one request at a time; `LedgerAdds` and
`UnitFeeOncePerMonth` of requests that keep apart, which one request at a time does.

## 6. Findings

| Run | What the code does | What is said of it |
|---|---|---|
| `settlement_momo` | the webhook and poll of MTN MoMo, Pesapal and Flutterwave raise `NameError` (`payment_gateway_service.py:696`), so no approval settles | `docs/PAYMENT_GATEWAY.md:39` |
| `ledger_net` | a fee is taken off the balance twice (`platform_fee_service.py:176`) | `docs/PLATFORM_FEES.md:20,50` |
| `contracts` | a lease that is edited after it was anchored goes on being confirmed, with terms that were never anchored (`routers/leases.py:194`) | `verification_service.py:209`: "This rental agreement matches the anchored record" |
| `reminders` | the landlord of a tenant without a login is reminded on every run of the loop, because the dedup looks for one link and stores another (`rent_reminder_service.py:141`) | `rent_reminder_service.py:61`: "once per period via dedup" |

**What overlap costs.** Several properties are claimed only of requests one at a
time, because a check and the write it guards are two statements with neither a lock
nor a constraint between them:

* `CollectedIsCredited`: two checkouts of an invoice settled at once, or a checkout
  and a manual recording, and one credit overwrites the other
  (`payment_service.py:186`).
* `RunningBalance`: two appends at once read the same sum
  (`platform_fee_service.py:105`).
* `UnitFeeOncePerMonth`: two accruals at once bill a month twice
  (`platform_fee_service.py:227`); `routers/payments.py:79` calls it idempotent.
* `OneInvoicePerMonth`: two loads of the pay page that overlap across a count bill
  a month twice (`invoice_service.py:104`; "Idempotent", `invoice_service.py:91`).
* `OneActiveLeasePerUnit`: two onboardings, two contracts or two listings.
* `TrustFollowsReview`, `EnabledSecretIsConfirmed`, `AnAdministratorRemains`,
  `OnePendingInvitation`: two officers, two set-ups of an authenticator, two
  administrators who disconnect each other, two invitations to one address.
* `OneCommissionPerWin`, `OneThreadPerConversation`, `OneOpenHold`,
  `LinkedRentalsShareTheEmail`, `IdentityIsKept`, `PacketIsOfTheStatus`.

**What conditions in the properties leave out**, each a sequence of legal calls:

* Terminating a lease frees the unit and leaves the tenant active
  (`routers/leases.py:228`), the unit is let again on its status alone
  (`tenant_service.py:188`), and the next listing gives the first tenant a new
  lease on it (`lease_service.py:139`): hence the workloads of `tenancy`.
* An account disconnected between its password and its authenticator code is let
  in: `verify_totp_login` does not ask whether it is active (`routers/auth.py:362`).
* A certificate that an administrator approved says "verified by NIRA officers" too
  (`verification_service.py:345`).
* A simulated or bare on-chain confirmation that has loaded the checkout before the
  lock can settle it twice (`payment_gateway_service.py:742`).
* The fingerprint of a location is replaced by the hash of the manifest
  (`property_identity_service.py:180`) when the manifest was published, and also when it
  was not (`walrus_service.py:44-51,70-72`); only where storing raises, as a failed
  publication does in production, does the fingerprint stay. So a second listing of the
  same address is not found, although `property_service.py:80-83` says each address
  receives one identity to prevent duplicates. What holds is that active listings do not
  share an identity. Restoring a listing, or a decision that makes it active, looks for no
  duplicate.
* A digest given by hand may be of any transfer, old or made for another checkout: the
  node is asked only whether the treasury received at least the amount
  (`sui_rpc.py:60-92`), so one transfer can settle several checkouts. What holds is that
  each is settled once and by a transfer that covers it.
* A transfer is made before the invoice is asked. If the invoice was paid or cancelled
  meanwhile, or less is due than the checkout says, `settle_invoice_payment` refuses
  (`payment_service.py:151-155`), the money is in the treasury and the checkout stays open,
  one request at a time too. Two payments that settle one invoice at once are in
  `Settlement`.
* For five minutes after a code was accepted the portal accepts any six digits, as long as
  no new code is stored (`government_invitation_service.py:513-527`). The model keeps
  the entry and not its age, so it allows the second yes for longer.
* `PATCH /tenant/me` sets the address of the tenant's record without the login's
  (`tenant_portal.py:213-224`): hence the condition of `LinkedRentalsShareTheEmail`.
* An officer's queue shows 100 accounts unless he asks for more, and never more than 200
  (`government_service.py:468`), the blacklist 50 unless he asks otherwise
  (`government_service.py:1014-1026`). Who waits is on the page unless it is full.
* An account that was trusted and uploads documents anew waits for review again and
  stays trusted.
* Rent falls due on the day a lease begins and then on the first of every month
  (`arrears_service.py:18`). The docstrings say otherwise: "number of full months from
  lease_start" (`arrears_service.py:5`), and a billing cycle anchored to the day of the
  month the lease began (`rent_reminder_service.py:4-6`), by which the reminders go.
  `RentFallsDueMonthly` states what the code computes.
* The officers' chart drops what is less than a shilling (`government_service.py:255`);
  the administrators' (`workspace_service.py:241`) does not.
* The page of a receipt whose payment is edited stops verifying; of one whose payment
  is deleted it goes on.
* A deal that is won in the request that first sets its commission accrues none.
* `execute_platform_sui_checkout` uses a name that it imports only for payers with a
  Privy account (`payment_gateway_service.py:422,437`): the platform wallet of any
  other payer raises.
* No code funds an escrow hold, so `release_escrow` refuses every one there can be.
* The backfill (`lease_service.py:120`) is also run for a tenant whose lease was
  terminated; `delete_unit` (`property_service.py:305`) does not look at payments;
  a landlord's "lifetime" figures are of the newest 500 rows
  (`platform_fee_service.py:262`); arrears vanish when a tenant is made inactive and
  a new rent applies to all past months (`arrears_service.py`).

## 7. What is not modelled

Left out for good: storage, e-mail delivery, PDF layout and identity providers (input
and output without state), the providers' HTTP (their answers are in `Settlement`) and
the Move modules, which no code of the backend calls; start-up, migrations and seeds
(run by hand); search, saved units, activity and reputation scores, support tickets
and platform settings (they read what others write, or edit one row of their own);
push notifications; the columns of units, tenants and properties that decide nothing.
That a signed token cannot be forged and that a hash has one preimage is assumed.

What could follow: `Invoicing` and `Settlement` over one invoice table, with `Tenancy`
as the environment that starts and ends the leases.
