------------------------------ MODULE Figures ------------------------------
(***************************************************************************)
(* The rent figures people are shown, all computed when asked from the     *)
(* rows of tenants and payments: the arrears of a tenant                   *)
(* (app/services/arrears_service.py), the landlord's dashboard and wallet  *)
(* (app/routers/dashboard.py, app/services/payment_service.py), his list   *)
(* of tenants (app/services/tenant_service.py), and the summaries of       *)
(* administrators and of tax officers (app/services/workspace_service.py,  *)
(* app/services/government_service.py).  Each has its own query and its    *)
(* own arithmetic of months; here they read one set of rows.  Amounts are  *)
(* in hundredths of a shilling, as the columns keep them (Numeric(12, 2)). *)
(***************************************************************************)
EXTENDS Integers, FiniteSets, Functions

CONSTANTS
    Landlords, Tenants, Payments,    \* ids of rows
    Worlds,       \* the values the rows of a behaviour take: records of the
                  \* terms of leases, kinds and amounts of payments, and months
    FirstDay,     \* the days the calendar runs over
    LastDay,
    None

\* A month has two days: what matters is whether a day is before another of
\* its month.
Day(y, m, d) == [y |-> y, m |-> m, d |-> d]
Month(day) == [y |-> day.y, m |-> day.m]

Days == [y : Int, m : 1 .. 12, d : 1 .. 2]
Months == [y : Int, m : 1 .. 12]

Before(a, b) ==
    \/ a.y < b.y
    \/ a.y = b.y /\ a.m < b.m
    \/ a.y = b.y /\ a.m = b.m /\ a.d < b.d

ASSUME RowAssumption == IsFiniteSet(Landlords) /\ IsFiniteSet(Tenants) /\ IsFiniteSet(Payments)
ASSUME WorldAssumption ==
    \A w \in Worlds :
        /\ \A l \in w.terms : l.rent \in Int /\ l.start \in Days /\ l.end \in Days \cup {None}
        /\ w.amounts \subseteq Nat
        /\ w.periods \subseteq Months
ASSUME CalendarAssumption ==
    FirstDay \in Days /\ LastDay \in Days /\ ~Before(LastDay, FirstDay)

VARIABLES
    world,        \* one of Worlds
    today,        \* the calendar
    tenant,       \* tenants rows
    payment       \* payments rows

vars == <<world, today, tenant, payment>>

NoRow == [row |-> "absent"]

TenantRow ==
    [row : {"live"}, owner : Landlords, terms : world.terms, status : {"active", "inactive"}]

PaymentRow ==
    [row : {"live", "deleted"}, tenant : Tenants, owner : Landlords, kind : world.kinds,
     amount : world.amounts, period : world.periods]

Init ==
    /\ world \in Worlds
    /\ today = FirstDay
    /\ tenant = [t \in Tenants |-> NoRow]
    /\ payment = [p \in Payments |-> NoRow]

TypeOK ==
    /\ world \in Worlds
    /\ today \in [y : FirstDay.y .. LastDay.y, m : 1 .. 12, d : 1 .. 2]
    /\ tenant \in [Tenants -> TenantRow \cup {NoRow}]
    /\ payment \in [Payments -> PaymentRow \cup {NoRow}]

-----------------------------------------------------------------------------
(* Dates.                                                                  *)

Earlier(a, b) == IF Before(b, a) THEN b ELSE a

NextMonth(a) ==
    IF a.m = 12 THEN [y |-> a.y + 1, m |-> 1] ELSE [y |-> a.y, m |-> a.m + 1]

Tomorrow(a) ==
    IF a.d = 1 THEN [a EXCEPT !.d = 2]
    ELSE Day(NextMonth(a).y, NextMonth(a).m, 1)

-----------------------------------------------------------------------------
(* The rows.                                                               *)

Resident(t) == tenant[t].row = "live"
Paid(p) == payment[p].row = "live"

CreateTenant(t, o, terms) ==
    /\ ~Resident(t)
    /\ tenant' = [tenant EXCEPT ![t] =
                    [row |-> "live", owner |-> o, terms |-> terms, status |-> "active"]]
    /\ UNCHANGED <<world, today, payment>>

\* A field that is not given stays: the end of a lease is never taken back.
UpdateTenant(t, terms, status) ==
    /\ Resident(t)
    /\ terms.end = None => tenant[t].terms.end = None
    /\ tenant' = [tenant EXCEPT ![t].terms = terms, ![t].status = status]
    /\ UNCHANGED <<world, today, payment>>

MoveOutTenant(t) ==
    /\ Resident(t)
    /\ tenant' = [tenant EXCEPT ![t].status = "inactive"]
    /\ UNCHANGED <<world, today, payment>>

RecordPayment(p, t, kind, amount, period) ==
    /\ payment[p] = NoRow
    /\ Resident(t)
    /\ payment' = [payment EXCEPT ![p] =
                     [row |-> "live", tenant |-> t, owner |-> tenant[t].owner, kind |-> kind,
                      amount |-> amount, period |-> period]]
    /\ UNCHANGED <<world, today, tenant>>

UpdatePayment(p, kind, amount, period) ==
    /\ Paid(p)
    /\ payment' = [payment EXCEPT ![p].kind = kind, ![p].amount = amount,
                                  ![p].period = period]
    /\ UNCHANGED <<world, today, tenant>>

DeletePayment(p) ==
    /\ Paid(p)
    /\ payment' = [payment EXCEPT ![p].row = "deleted"]
    /\ UNCHANGED <<world, today, tenant>>

NextDay ==
    /\ Before(today, LastDay)
    /\ today' = Tomorrow(today)
    /\ UNCHANGED <<world, tenant, payment>>

Next ==
    \/ \E t \in Tenants : MoveOutTenant(t)
    \/ \E t \in Tenants, terms \in world.terms :
          \/ \E o \in Landlords : CreateTenant(t, o, terms)
          \/ \E s \in {"active", "inactive"} : UpdateTenant(t, terms, s)
    \/ \E p \in Payments, k \in world.kinds, a \in world.amounts, m \in world.periods :
          \/ \E t \in Tenants : RecordPayment(p, t, k, a, m)
          \/ UpdatePayment(p, k, a, m)
    \/ \E p \in Payments : DeletePayment(p)
    \/ NextDay

Spec == Init /\ [][Next]_vars

-----------------------------------------------------------------------------
(* Arrears.                                                                *)

Sum(S) == SumFunction([p \in S |-> payment[p].amount])

RentPayments == {p \in Payments : Paid(p) /\ payment[p].kind.type = "rent"}
RentOf(o) == {p \in RentPayments : payment[p].owner = o}
RentBy(t) == {p \in RentPayments : payment[p].tenant = t}

\* months_between: the months that have begun, the first included.
MonthsBetween(a, b) == IF Before(b, a) THEN 0 ELSE (b.y - a.y) * 12 + (b.m - a.m) + 1

\* Mutant: the end of the lease is forgotten.
MonthsDueStill(t) == MonthsBetween(tenant[t].terms.start, today)

MonthsDue(t) ==
    LET l == tenant[t].terms
        upTo == IF l.end = None THEN today ELSE Earlier(l.end, today)
    IN MonthsBetween(l.start, upTo)

\* compute_tenant_balance.
Balance(t) ==
    IF tenant[t].status # "active" THEN 0
    ELSE tenant[t].terms.rent * MonthsDue(t) - Sum(RentBy(t))

InArrears(o) ==
    {t \in Tenants : /\ Resident(t) /\ tenant[t].owner = o /\ tenant[t].status = "active"
                     /\ Balance(t) > 0}

\* What a landlord's dashboard, wallet and report of arrears call outstanding.
Outstanding(o) == SumFunction([t \in InArrears(o) |-> Balance(t)])

-----------------------------------------------------------------------------
(* Months.  Three functions count back from this month.                    *)

InMonth(ps, month) == Sum({p \in ps : payment[p].period = month})

\* Mutant: December of last year is the month zero of this one.
MonthsBackLate(i) ==
    IF today.m - i < 0 THEN [y |-> today.y - 1, m |-> today.m - i + 12]
    ELSE [y |-> today.y, m |-> today.m - i]

\* get_dashboard_stats, monthly_income: i months ago.
MonthsBack(i) ==
    IF today.m - i <= 0 THEN [y |-> today.y - 1, m |-> today.m - i + 12]
    ELSE [y |-> today.y, m |-> today.m - i]

\* admin_summary and _last_six_month_buckets add twelve while the month is
\* not positive; a month is the days from its first to the first of the next.
Bucket(i) ==
    LET k == CHOOSE n \in 0 .. i :
                /\ today.m - i + 12 * n > 0
                /\ \A j \in 0 .. n - 1 : today.m - i + 12 * j <= 0
        m == today.m - i + 12 * k
        y == today.y - k
    IN [start |-> Day(y, m, 1),
        end |-> IF m = 12 THEN Day(y + 1, 1, 1) ELSE Day(y, m + 1, 1)]

InBucket(day, b) == ~Before(day, b.start) /\ Before(day, b.end)

\* The bars of a landlord's chart, of the administrators' and of the officers',
\* i months ago; an officer's is cut to whole shillings, int(float(ura_val)).
DashboardBar(o, i) == InMonth(RentOf(o), MonthsBack(i))
AdminBar(i) == InMonth(RentPayments, Month(Bucket(i).start))
OfficerBar(i) == InMonth(RentPayments, Month(Bucket(i).start)) \div 100

\* tax_revenue_ugx and payments_rent_this_month.
TaxRevenue == InMonth(RentPayments, Month(today))

-----------------------------------------------------------------------------
(* Columns.                                                                *)

Manual(ps) == {p \in ps : payment[p].kind.method = "bank"}

\* wallet_summary_for_user, of the payments its role sees.
Wallet(ps) ==
    [total |-> Sum(ps), online |-> Sum(ps \ Manual(ps)), manual |-> Sum(Manual(ps)),
     thisMonth |-> InMonth(ps, Month(today))]

TenantWallet(t) == Wallet(RentBy(t))
LandlordWallet(o) == Wallet(RentOf(o))
PlatformWallet == Wallet(RentPayments)

\* _payment_splits, in the landlord's list of tenants.
Split(t) ==
    LET ps == {p \in Payments : /\ Paid(p) /\ payment[p].tenant = t
                                /\ payment[p].kind.type = "rent"}
    IN [online |-> Sum(ps \ Manual(ps)), manual |-> Sum(Manual(ps))]

\* revenue_breakdown: this month's payments by type.
Revenue(type) ==
    Sum({p \in Payments : /\ Paid(p) /\ payment[p].kind.type = type
                          /\ payment[p].period = Month(today)})

-----------------------------------------------------------------------------

\* What compute_tenant_balance makes due: a month's rent on the first day of
\* a lease and on the first of each month it runs in, on no other day, over the
\* turn of the year and never past the end of the lease.  The docstrings say
\* otherwise, full months (arrears_service.py:5) and a cycle from the lease's
\* day of the month (rent_reminder_service.py:4-6).
RentFallsDueMonthly ==
    [][today' # today =>
          \A t \in Tenants :
              Resident(t) /\ tenant[t].status = "active" =>
                  LET l == tenant[t].terms
                      runs == ~Before(today', l.start)
                                 /\ (l.end = None \/ ~Before(l.end, today'))
                      begins == today' = l.start \/ today'.m # today.m
                  IN Balance(t)' = Balance(t) + (IF runs /\ begins THEN l.rent ELSE 0)]_vars

\* A bar in shillings is an amount less its fraction of a shilling.
WholeShillings(bar, amount) == 100 * bar <= amount /\ amount < 100 * bar + 100

\* The charts of the landlords, put together, are the chart of the
\* administrators, and that of the officers but for less than a shilling in
\* a bar; their last month is what the wallets and the revenue figures call
\* this month, though each finds its six months by itself
\* (get_dashboard_stats, admin_summary, overview_summary).
ChartsAgree ==
    LET landlords(i) == SumFunction([o \in Landlords |-> DashboardBar(o, i)])
        wallets == SumFunction([o \in Landlords |-> LandlordWallet(o).thisMonth])
    IN
    /\ \A i \in 0 .. 5 :
          landlords(i) = AdminBar(i) /\ WholeShillings(OfficerBar(i), landlords(i))
    /\ landlords(0) = TaxRevenue
    /\ wallets = TaxRevenue
    /\ Revenue("rent") = TaxRevenue

\* The six bars are six months: a day of the last half year is in one bucket,
\* an earlier or later day in none, and a rent payment of the last half year
\* is in one bar (_last_six_month_buckets).
ChartsCoverSixMonths ==
    LET index(a) == 12 * a.y + a.m
        recent(a) == index(a) \in index(today) - 5 .. index(today)
        days == {Day((n - 1) \div 12, 1 + ((n - 1) % 12), d) :
                     n \in index(today) - 8 .. index(today) + 1, d \in 1 .. 2}
    IN
    /\ \A a \in days :
          Cardinality({i \in 0 .. 5 : InBucket(a, Bucket(i))}) = IF recent(a) THEN 1 ELSE 0
    /\ SumFunction([i \in 0 .. 5 |-> AdminBar(i)])
          = Sum({p \in RentPayments : recent(payment[p].period)})

\* Rent is counted once wherever it is shown: the platform's wallet is that of
\* the landlords and that of the tenants, by method and in all, and what a
\* landlord's list says a tenant has paid by method, and no more, is taken off
\* the arrears (wallet_summary_for_user, _payment_splits,
\* compute_tenant_balance).
WalletsAgree ==
    /\ SumFunction([o \in Landlords |-> LandlordWallet(o).total]) = PlatformWallet.total
    /\ SumFunction([t \in Tenants |-> TenantWallet(t).total]) = PlatformWallet.total
    /\ PlatformWallet.online + PlatformWallet.manual = PlatformWallet.total
    /\ \A t \in Tenants : Resident(t) /\ tenant[t].status = "active" =>
          tenant[t].terms.rent * MonthsDue(t)
              = Balance(t) + Split(t).online + Split(t).manual

\* What six screens compute each by itself is one set of figures, month by
\* month and in all, but for the fraction the officers' chart drops, on every
\* day of the calendar (get_dashboard_stats,
\* admin_summary, overview_summary, wallet_summary_for_user).
FiguresAgree == TypeOK /\ ChartsAgree /\ ChartsCoverSixMonths /\ WalletsAgree
=============================================================================
