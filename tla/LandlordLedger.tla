---------------------------- MODULE LandlordLedger ----------------------------
(***************************************************************************)
(* The landlord balance ledger (app/services/platform_fee_service.py): the *)
(* rows a rent settlement appends and the monthly fee per occupied unit,   *)
(* by requests that read the ledger, decide, and commit later.             *)
(*                                                                         *)
(* Money is in the smallest unit the columns hold (0.01 UGX).              *)
(***************************************************************************)
EXTENDS Integers, Sequences, FiniteSets, Functions

CONSTANTS
    Workers,      \* requests that may be in flight at once
    Owners,       \* landlords
    Payments,     \* ids of payments rows written by settle_invoice_payment
    Grosses,      \* amounts of those payments
    Methods,      \* payment methods, of which
    Online,       \*   these are charged the collection fee
    Percent,      \* platform_rent_fee_percent, in hundredths of a percent
    Flat,         \* platform_rent_fee_flat_ugx
    Minimum,      \* platform_rent_fee_min_ugx
    UnitFee,      \* platform_unit_fee_monthly_ugx
    Recent,       \* the rows a landlord's summary looks at (500)
    MaxUnits,     \* bound: occupied units of a landlord
    MaxMonth,     \* bound: months the clock runs through
    None          \* no payment

ASSUME GrossAssumption == Grosses \subseteq Nat \ {0}
ASSUME MethodAssumption == Online \subseteq Methods
ASSUME FeeAssumption ==
    Percent \in 0 .. 10000 /\ Flat \in Nat /\ Minimum \in Nat /\ UnitFee \in Nat
ASSUME RecentAssumption == Recent \in Nat
ASSUME BoundAssumption == MaxUnits \in Nat /\ MaxMonth \in Nat \ {0}
ASSUME PaymentAssumption == None \notin Payments
ASSUME OwnerAssumption == IsFiniteSet(Owners)

VARIABLES
    ledger,       \* landlord_ledger_entries, in id order
    gross,        \* payments.gross_amount, 0 before the row exists
    online,       \* payments whose payment_method is an online one
    occupied,     \* occupied units in the landlord's active properties
    month,        \* the current month
    session       \* what each worker has added to its session

vars == <<ledger, gross, online, occupied, month, session>>

-----------------------------------------------------------------------------

EntryTypes == {"rent_credit", "platform_fee", "unit_subscription"}

\* period is 0 on a row that carries no unit-fee reference.
Entry == [owner : Owners, type : EntryTypes, amount : Int, after : Int,
          payment : Payments \cup {None}, period : Nat]

Session == [rows : Seq(Entry), payment : Payments \cup {None}, gross : Nat,
            online : BOOLEAN]

Empty == [rows |-> <<>>, payment |-> None, gross |-> 0, online |-> FALSE]

TypeOK ==
    /\ ledger \in Seq(Entry)
    /\ gross \in [Payments -> Nat]
    /\ online \subseteq Payments
    /\ occupied \in [Owners -> 0 .. MaxUnits]
    /\ month \in 1 .. MaxMonth
    /\ session \in [Workers -> Session]

Init ==
    /\ ledger = <<>>
    /\ gross = [p \in Payments |-> 0]
    /\ online = {}
    /\ occupied = [o \in Owners |-> 0]
    /\ month = 1
    /\ session = [w \in Workers |-> Empty]

-----------------------------------------------------------------------------
(* calculate_online_rent_fee.                                              *)

\* Quantized to the column's precision, halves up.
Rounded(g) == (g * Percent + Flat * 10000 + 5000) \div 10000

Fee(g) ==
    LET fee == IF Rounded(g) < Minimum THEN Minimum ELSE Rounded(g)
    IN  IF fee > g THEN g ELSE fee

-----------------------------------------------------------------------------
(* Ledger rows.                                                            *)

\* _current_balance over rows the session can see.
Balance(o, rows) ==
    SumFunction([i \in {j \in DOMAIN rows : rows[j].owner = o} |-> rows[i].amount])

\* Mutant: the balance does not count the flushed rows.
AppendStale(rows, o, type, amount, p, period) ==
    Append(rows, [owner |-> o, type |-> type, amount |-> amount,
                  after |-> Balance(o, ledger) + amount,
                  payment |-> p, period |-> period])

\* _append_ledger: the balance counts the rows the session has flushed before.
AppendLedger(rows, o, type, amount, p, period) ==
    Append(rows, [owner |-> o, type |-> type, amount |-> amount,
                  after |-> Balance(o, ledger \o rows) + amount,
                  payment |-> p, period |-> period])

\* Mutant: the credit is the gross amount.
SettlementRowsGross(o, p, g, fee) ==
    LET credited == AppendLedger(<<>>, o, "rent_credit", g, p, 0)
    IN  IF fee > 0
        THEN AppendLedger(credited, o, "platform_fee", -fee, p, 0)
        ELSE credited

SettlementRows(o, p, g, fee) ==
    LET credited == AppendLedger(<<>>, o, "rent_credit", g - fee, p, 0)
    IN  IF fee > 0
        THEN AppendLedger(credited, o, "platform_fee", -fee, p, 0)
        ELSE credited

-----------------------------------------------------------------------------
(* The summaries.  Fees are stored negative and shown positive.            *)

Magnitude(n) == IF n < 0 THEN -n ELSE n

Charged(type, rows) ==
    SumFunction([i \in rows |->
                    IF ledger[i].type = type THEN Magnitude(ledger[i].amount) ELSE 0])

Credited(rows) ==
    SumFunction([i \in rows |-> IF ledger[i].type = "rent_credit" THEN ledger[i].amount ELSE 0])

RowsFor(o) == {i \in DOMAIN ledger : ledger[i].owner = o}

Newest(o) == {i \in RowsFor(o) : Cardinality({j \in RowsFor(o) : j > i}) < Recent}

\* landlord_balance_summary: the balance is of all the landlord's rows, the
\* "lifetime" figures of the newest.
BalanceSummary(o) ==
    [available |-> Balance(o, ledger),
     credited  |-> Credited(Newest(o)),
     fees      |-> Charged("platform_fee", Newest(o)),
     unitFees  |-> Charged("unit_subscription", Newest(o)),
     whole     |-> Newest(o) = RowsFor(o)]

\* platform_revenue_summary: every row counts.
RevenueSummary ==
    [fees      |-> Charged("platform_fee", DOMAIN ledger),
     unitFees  |-> Charged("unit_subscription", DOMAIN ledger),
     credited  |-> Credited(DOMAIN ledger)]

-----------------------------------------------------------------------------

Free(w) == session[w] = Empty

Fresh(p) == gross[p] = 0 /\ \A w \in Workers : session[w].payment # p

\* settle_invoice_payment: the payment row and record_online_rent_settlement
\* in one transaction, not yet committed.
RecordSettlement(w, o, p, g, method) ==
    LET fee == IF method \in Online THEN Fee(g) ELSE 0 IN
    /\ Free(w)
    /\ Fresh(p)
    /\ session' = [session EXCEPT
                      ![w] = [rows |-> SettlementRows(o, p, g, fee),
                              payment |-> p, gross |-> g,
                              online |-> method \in Online]]
    /\ UNCHANGED <<ledger, gross, online, occupied, month>>

\* Mutant: the existing row is not looked for.
AccruedNever(o) == FALSE

\* A row carries this month's reference already.
Accrued(o) ==
    \E i \in DOMAIN ledger : ledger[i].owner = o /\ ledger[i].period = month

\* accrue_monthly_unit_fees, not yet committed; with nothing to bill it adds
\* no row.
AccrueUnitFees(w, o) ==
    /\ Free(w)
    /\ UnitFee > 0
    /\ ~Accrued(o)
    /\ occupied[o] > 0
    /\ session' = [session EXCEPT
                      ![w].rows = AppendLedger(<<>>, o, "unit_subscription",
                                               -(UnitFee * occupied[o]),
                                               None, month)]
    /\ UNCHANGED <<ledger, gross, online, occupied, month>>

Commit(w) ==
    LET s == session[w] IN
    /\ ~Free(w)
    /\ ledger' = ledger \o s.rows
    /\ gross' = IF s.payment = None THEN gross
                ELSE [gross EXCEPT ![s.payment] = s.gross]
    /\ online' = IF s.online THEN online \cup {s.payment} ELSE online
    /\ session' = [session EXCEPT ![w] = Empty]
    /\ UNCHANGED <<occupied, month>>

Abort(w) ==
    /\ ~Free(w)
    /\ session' = [session EXCEPT ![w] = Empty]
    /\ UNCHANGED <<ledger, gross, online, occupied, month>>

-----------------------------------------------------------------------------
(* What happens around the ledger.                                         *)

\* Units are let and vacated.
SetOccupied(o, n) ==
    /\ n # occupied[o]
    /\ occupied' = [occupied EXCEPT ![o] = n]
    /\ UNCHANGED <<ledger, gross, online, month, session>>

NextMonth ==
    /\ month < MaxMonth
    /\ month' = month + 1
    /\ UNCHANGED <<ledger, gross, online, occupied, session>>

Next ==
    \/ \E w \in Workers, o \in Owners :
          \/ \E p \in Payments, g \in Grosses, m \in Methods :
                RecordSettlement(w, o, p, g, m)
          \/ AccrueUnitFees(w, o)
    \/ \E w \in Workers : Commit(w) \/ Abort(w)
    \/ \E o \in Owners, n \in 0 .. MaxUnits : SetOccupied(o, n)
    \/ NextMonth

Spec == Init /\ [][Next]_vars

-----------------------------------------------------------------------------

RowsOf(p) == {i \in DOMAIN ledger : ledger[i].payment = p}

\* Whatever else is appended meanwhile, a committed payment has one credit
\* and, when it was charged one, one fee row; the two make up the gross amount
\* and neither is negative, at the minimum and at the cap too.
CreditAndFeeMakeGross ==
    \A p \in Payments : gross[p] > 0 =>
        \E c \in RowsOf(p) :
            /\ ledger[c].type = "rent_credit"
            /\ ledger[c].amount >= 0
            /\ \/ /\ RowsOf(p) = {c}
                  /\ ledger[c].amount = gross[p]
                  /\ p \in online => Fee(gross[p]) = 0
               \/ \E f \in RowsOf(p) \ {c} :
                     /\ RowsOf(p) = {c, f}
                     /\ ledger[f].type = "platform_fee"
                     /\ ledger[f].amount < 0
                     /\ ledger[c].amount - ledger[f].amount = gross[p]

\* Each row's balance_after is the sum of the landlord's rows up to it.
RunningBalance ==
    \A i \in DOMAIN ledger :
        ledger[i].after = Balance(ledger[i].owner, SubSeq(ledger, 1, i))

\* A landlord is billed for the units of a month at most once ("idempotent per
\* month", routers/payments.py).
UnitFeeOncePerMonth ==
    \A i, j \in DOMAIN ledger :
        /\ ledger[i].type = "unit_subscription"
        /\ ledger[j].type = "unit_subscription"
        /\ ledger[i].owner = ledger[j].owner
        /\ ledger[i].period = ledger[j].period
        => i = j

\* A landlord's balance is what his summary says was credited less what it
\* says was charged, while it looks at all his rows; and the platform's
\* revenue and credits are what the landlords are shown to have paid and got,
\* or more once a summary leaves old rows out (landlord_balance_summary,
\* platform_revenue_summary).
SummariesAgree ==
    LET shown == [o \in Owners |-> BalanceSummary(o)]
        paid == SumFunction([o \in Owners |-> shown[o].fees + shown[o].unitFees])
        got == SumFunction([o \in Owners |-> shown[o].credited])
        revenue == RevenueSummary.fees + RevenueSummary.unitFees
    IN  /\ \A o \in Owners : shown[o].whole =>
              shown[o].available = shown[o].credited - shown[o].fees - shown[o].unitFees
        /\ paid <= revenue /\ got <= RevenueSummary.credited
        /\ (\A o \in Owners : shown[o].whole) =>
              paid = revenue /\ got = RevenueSummary.credited

\* The ledger is a ledger: every row says what the rows before it and itself
\* add up to, and the summaries of landlords and platform tell one story
\* (_append_ledger, landlord_balance_summary, platform_revenue_summary).
LedgerAdds == TypeOK /\ RunningBalance /\ SummariesAgree

\* What a settlement adds to the landlord's balance is the gross amount less
\* one fee (docs/PLATFORM_FEES.md: "Landlord balance credit UGX 2,955,000" on
\* a payment of 3,000,000, the balance being "the ledger sum").
LedgerCreditsNet ==
    \A p \in Payments : gross[p] > 0 =>
        SumFunction([i \in RowsOf(p) |-> ledger[i].amount])
            = gross[p] - IF p \in online THEN Fee(gross[p]) ELSE 0
=============================================================================
