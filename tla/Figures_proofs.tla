---------------------------- MODULE Figures_proofs ----------------------------
(***************************************************************************)
(* The figures agree, for any number of landlords, tenants and payments,   *)
(* any leases and amounts, and a calendar of any length.                   *)
(***************************************************************************)
EXTENDS Figures, Sums

-----------------------------------------------------------------------------
(* Days.                                                                   *)

\* Days and months are counted in one sequence.
Nth(a) == 24 * a.y + 2 * a.m + a.d
Index(a) == 12 * a.y + a.m

LEMMA DaysInOrder ==
    ASSUME NEW a \in Days, NEW b \in Days
    PROVE  /\ Before(a, b) <=> Nth(a) < Nth(b)
           /\ Nth(a) = Nth(b) => a = b
           /\ Nth(a) \in Int /\ Index(a) \in Int /\ Nth(a) = 2 * Index(a) + a.d
<1>1. /\ a = [y |-> a.y, m |-> a.m, d |-> a.d] /\ a.y \in Int /\ a.m \in 1 .. 12 /\ a.d \in 1 .. 2
      /\ b = [y |-> b.y, m |-> b.m, d |-> b.d] /\ b.y \in Int /\ b.m \in 1 .. 12 /\ b.d \in 1 .. 2
  BY DEF Days
<1>2. Before(a, b) <=> Nth(a) < Nth(b)
  BY <1>1 DEF Before, Nth
<1>3. Nth(a) = Nth(b) => a.y = b.y /\ a.m = b.m /\ a.d = b.d
  BY <1>1 DEF Nth
<1>4. Nth(a) \in Int /\ Index(a) \in Int /\ Nth(a) = 2 * Index(a) + a.d
  BY <1>1 DEF Nth, Index
<1>5. QED
  BY <1>1, <1>2, <1>3, <1>4

LEMMA TomorrowIsNext ==
    ASSUME NEW a \in Days
    PROVE  /\ Tomorrow(a) \in Days
           /\ Nth(Tomorrow(a)) = Nth(a) + 1
           /\ Index(Tomorrow(a)) = IF Tomorrow(a).m = a.m THEN Index(a) ELSE Index(a) + 1
           /\ Tomorrow(a).m # a.m <=> a.d = 2
<1>1. a = [y |-> a.y, m |-> a.m, d |-> a.d] /\ a.y \in Int /\ a.m \in 1 .. 12 /\ a.d \in 1 .. 2
  BY DEF Days
<1>2. CASE a.d = 1
  <2>1. Tomorrow(a) = [y |-> a.y, m |-> a.m, d |-> 2]
    BY <1>1, <1>2 DEF Tomorrow
  <2>2. QED
    BY <1>1, <1>2, <2>1 DEF Days, Nth, Index
<1>3. CASE a.d = 2 /\ a.m = 12
  <2>1. Tomorrow(a) = [y |-> a.y + 1, m |-> 1, d |-> 1]
    BY <1>1, <1>3 DEF Tomorrow, NextMonth, Day
  <2>2. QED
    BY <1>1, <1>3, <2>1 DEF Days, Nth, Index
<1>4. CASE a.d = 2 /\ a.m # 12
  <2>1. Tomorrow(a) = [y |-> a.y, m |-> a.m + 1, d |-> 1]
    BY <1>1, <1>4 DEF Tomorrow, NextMonth, Day
  <2>2. QED
    BY <1>1, <1>4, <2>1 DEF Days, Nth, Index
<1>5. QED
  BY <1>1, <1>2, <1>3, <1>4

-----------------------------------------------------------------------------
(* Types.                                                                  *)

LEMMA TenantIs ==
    ASSUME TypeOK, NEW t \in Tenants, Resident(t)
    PROVE  /\ tenant[t] \in TenantRow /\ tenant[t].owner \in Landlords
           /\ tenant[t].terms \in world.terms
           /\ tenant[t].terms.rent \in Int /\ tenant[t].terms.start \in Days
           /\ tenant[t].terms.end \in Days \cup {None}
<1>1. tenant[t] \in TenantRow
  BY DEF TypeOK, Resident, NoRow
<1>2. QED
  BY <1>1, WorldAssumption DEF TypeOK, TenantRow

LEMMA PaymentIs ==
    ASSUME TypeOK, NEW p \in Payments, Paid(p)
    PROVE  /\ payment[p] \in PaymentRow
           /\ payment[p].tenant \in Tenants /\ payment[p].owner \in Landlords
           /\ payment[p].amount \in Int /\ payment[p].period \in Months
<1>1. payment[p] \in PaymentRow
  BY DEF TypeOK, Paid, NoRow
<1>2. QED
  BY <1>1, WorldAssumption DEF TypeOK, PaymentRow

LEMMA InitTyped == Init => TypeOK
<1> SUFFICES ASSUME Init PROVE TypeOK
  OBVIOUS
<1>1. FirstDay \in [y : FirstDay.y .. LastDay.y, m : 1 .. 12, d : 1 .. 2]
  BY CalendarAssumption DEF Days, Before
<1>2. QED
  BY <1>1 DEF Init, TypeOK

LEMMA TomorrowTyped ==
    ASSUME TypeOK, NextDay
    PROVE  today' \in [y : FirstDay.y .. LastDay.y, m : 1 .. 12, d : 1 .. 2]
<1>1. /\ today \in Days /\ FirstDay \in Days /\ LastDay \in Days
      /\ today' = Tomorrow(today) /\ Before(today, LastDay)
      /\ today.y >= FirstDay.y
  BY CalendarAssumption DEF NextDay, TypeOK, Days
<1>2. Tomorrow(today) \in Days /\ Nth(Tomorrow(today)) = Nth(today) + 1
  BY <1>1, TomorrowIsNext
<1>3. Nth(today) < Nth(LastDay) /\ Nth(today) \in Int /\ Nth(LastDay) \in Int
  BY <1>1, DaysInOrder
<1> DEFINE x == Tomorrow(today)
<1>4. x \in Days /\ Nth(x) <= Nth(LastDay) /\ Nth(x) >= Nth(today)
  BY <1>2, <1>3
<1> HIDE DEF x
<1>5. x.y <= LastDay.y /\ x.y >= today.y
  BY <1>1, <1>4 DEF Nth, Days
<1>6. x.y \in FirstDay.y .. LastDay.y /\ x = [y |-> x.y, m |-> x.m, d |-> x.d]
      /\ x.m \in 1 .. 12 /\ x.d \in 1 .. 2
  BY <1>1, <1>4, <1>5 DEF Days
<1>7. QED
  BY <1>1, <1>6 DEF x

LEMMA NextTyped == TypeOK /\ [Next]_vars => TypeOK'
<1> SUFFICES ASSUME TypeOK, [Next]_vars PROVE TypeOK'
  OBVIOUS
<1>1. ASSUME NEW t \in Tenants, NEW o \in Landlords, NEW terms \in world.terms,
             CreateTenant(t, o, terms)
      PROVE  TypeOK'
  <2>1. [row |-> "live", owner |-> o, terms |-> terms, status |-> "active"] \in TenantRow
    BY DEF TenantRow
  <2>2. QED
    BY <1>1, <2>1 DEF CreateTenant, TypeOK, TenantRow, PaymentRow
<1>2. ASSUME NEW t \in Tenants, NEW terms \in world.terms, NEW s \in {"active", "inactive"},
             UpdateTenant(t, terms, s)
      PROVE  TypeOK'
  <2>1. tenant[t] \in TenantRow
    BY <1>2, TenantIs DEF UpdateTenant
  <2>2. [tenant[t] EXCEPT !.terms = terms, !.status = s] \in TenantRow
    BY <2>1 DEF TenantRow
  <2>3. tenant' = [tenant EXCEPT ![t] = [tenant[t] EXCEPT !.terms = terms, !.status = s]]
    BY <1>2 DEF UpdateTenant, TypeOK
  <2>4. QED
    BY <1>2, <2>2, <2>3 DEF UpdateTenant, TypeOK, TenantRow, PaymentRow
<1>3. ASSUME NEW t \in Tenants, MoveOutTenant(t)
      PROVE  TypeOK'
  <2>1. tenant[t] \in TenantRow
    BY <1>3, TenantIs DEF MoveOutTenant
  <2>2. [tenant[t] EXCEPT !.status = "inactive"] \in TenantRow
    BY <2>1 DEF TenantRow
  <2>3. tenant' = [tenant EXCEPT ![t] = [tenant[t] EXCEPT !.status = "inactive"]]
    BY <1>3 DEF MoveOutTenant, TypeOK
  <2>4. QED
    BY <1>3, <2>2, <2>3 DEF MoveOutTenant, TypeOK, TenantRow, PaymentRow
<1>4. ASSUME NEW p \in Payments, NEW t \in Tenants, NEW k \in world.kinds,
             NEW a \in world.amounts, NEW m \in world.periods, RecordPayment(p, t, k, a, m)
      PROVE  TypeOK'
  <2> DEFINE r == [row |-> "live", tenant |-> t, owner |-> tenant[t].owner, kind |-> k,
                   amount |-> a, period |-> m]
  <2>1. tenant[t].owner \in Landlords
    BY <1>4, TenantIs DEF RecordPayment
  <2>2. r \in PaymentRow
    BY <2>1 DEF PaymentRow
  <2>3. payment' = [payment EXCEPT ![p] = r]
    BY <1>4 DEF RecordPayment
  <2> HIDE DEF r
  <2>4. QED
    <3>1. payment' \in [Payments -> PaymentRow \cup {NoRow}]
      BY <2>2, <2>3 DEF TypeOK
    <3>2. QED
      BY <1>4, <3>1 DEF RecordPayment, TypeOK, TenantRow, PaymentRow
<1>5. ASSUME NEW p \in Payments, NEW k \in world.kinds, NEW a \in world.amounts,
             NEW m \in world.periods, UpdatePayment(p, k, a, m)
      PROVE  TypeOK'
  <2> DEFINE r == [payment[p] EXCEPT !.kind = k, !.amount = a, !.period = m]
  <2>1. payment[p] \in PaymentRow
    BY <1>5, PaymentIs DEF UpdatePayment
  <2>2. r \in PaymentRow
    BY <2>1 DEF PaymentRow
  <2>3. payment' = [payment EXCEPT ![p] = r]
    BY <1>5 DEF UpdatePayment, TypeOK
  <2> HIDE DEF r
  <2>4. QED
    <3>1. payment' \in [Payments -> PaymentRow \cup {NoRow}]
      BY <2>2, <2>3 DEF TypeOK
    <3>2. QED
      BY <1>5, <3>1 DEF UpdatePayment, TypeOK, TenantRow, PaymentRow
<1>6. ASSUME NEW p \in Payments, DeletePayment(p)
      PROVE  TypeOK'
  <2>1. payment[p] \in PaymentRow
    BY <1>6, PaymentIs DEF DeletePayment
  <2>2. [payment[p] EXCEPT !.row = "deleted"] \in PaymentRow
    BY <2>1 DEF PaymentRow
  <2>3. payment' = [payment EXCEPT ![p] = [payment[p] EXCEPT !.row = "deleted"]]
    BY <1>6 DEF DeletePayment, TypeOK
  <2>4. QED
    BY <1>6, <2>2, <2>3 DEF DeletePayment, TypeOK, TenantRow, PaymentRow
<1>7. CASE NextDay
  BY <1>7, TomorrowTyped DEF NextDay, TypeOK, TenantRow, PaymentRow
<1>8. CASE UNCHANGED vars
  BY <1>8 DEF vars, TypeOK, TenantRow, PaymentRow
<1>9. CASE Next
  BY <1>1, <1>2, <1>3, <1>4, <1>5, <1>6, <1>7, <1>9 DEF Next
<1>10. QED
  BY <1>8, <1>9

-----------------------------------------------------------------------------
(* Sums of payments.                                                       *)

Amounts == [p \in Payments |-> payment[p].amount]

LEMMA RentRows ==
    ASSUME TypeOK, NEW S, S \subseteq RentPayments
    PROVE  /\ S \subseteq Payments /\ IsFiniteSet(S)
           /\ \A p \in S : Amounts[p] \in Int /\ Amounts[p] = payment[p].amount
           /\ Sum(S) = SumFunctionOnSet(Amounts, S) /\ Sum(S) \in Int
<1>1. S \subseteq Payments /\ IsFiniteSet(S)
  BY RowAssumption, FS_Subset DEF RentPayments
<1>2. \A p \in S : Amounts[p] \in Int /\ Amounts[p] = payment[p].amount
  BY <1>1, PaymentIs DEF Amounts, RentPayments
<1> DEFINE g == [p \in S |-> payment[p].amount]
<1>3. Sum(S) = SumFunction(g) /\ DOMAIN g = S /\ \A p \in S : Amounts[p] = g[p]
  BY <1>2 DEF Sum
<1> HIDE DEF g
<1>4. SumFunctionOnSet(Amounts, S) = SumFunctionOnSet(g, S)
  BY <1>1, <1>2, <1>3, SumSame
<1>5. SumFunctionOnSet(Amounts, S) \in Int
  BY <1>1, <1>2, SumType
<1>6. QED
  BY <1>1, <1>2, <1>3, <1>4, <1>5, SumOfDomain

\* Rent shown class by class is the rent: k[p] is the class of payment p,
\* part[c] what is in class c and g[c] what is shown for it.
LEMMA RentByClass ==
    ASSUME TypeOK, NEW S, S \subseteq RentPayments, NEW C, IsFiniteSet(C),
           NEW k, \A p \in S : k[p] \in C,
           NEW part, \A c \in C : \A p : p \in part[c] <=> p \in S /\ k[p] = c,
           NEW g, DOMAIN g = C, \A c \in C : g[c] = Sum(part[c])
    PROVE  SumFunction(g) = Sum(S)
<1>1. \A c \in C : part[c] \subseteq S
  OBVIOUS
<1>2. \A c \in C : g[c] = SumFunctionOnSet(Amounts, part[c])
  <2>1. ASSUME NEW c \in C
        PROVE  Sum(part[c]) = SumFunctionOnSet(Amounts, part[c])
    <3>1. part[c] \subseteq RentPayments
      BY <1>1
    <3>2. QED
      BY <3>1, RentRows
  <2>2. QED
    BY <2>1
<1>3. IsFiniteSet(S) /\ (\A p \in S : Amounts[p] \in Int) /\ Sum(S) = SumFunctionOnSet(Amounts, S)
  BY RentRows
<1>4. SumFunctionOnSet(Amounts, S) = SumFunctionOnSet(g, C)
  BY <1>2, <1>3, SumByClass
<1>5. QED
  BY <1>3, <1>4, SumOfDomain

\* By the landlord it is paid to, whatever part of the rent is looked at.
LEMMA RentByLandlord ==
    ASSUME TypeOK, NEW S, S \subseteq RentPayments, NEW g, DOMAIN g = Landlords,
           \A o \in Landlords : g[o] = Sum({p \in S : payment[p].owner = o})
    PROVE  SumFunction(g) = Sum(S)
<1> DEFINE k == [p \in S |-> payment[p].owner]
           part == [o \in Landlords |-> {p \in S : payment[p].owner = o}]
<1>1. \A p \in S : k[p] \in Landlords
  BY PaymentIs DEF RentPayments
<1>2. \A o \in Landlords : \A p : p \in part[o] <=> p \in S /\ k[p] = o
  OBVIOUS
<1>3. \A o \in Landlords : g[o] = Sum(part[o])
  OBVIOUS
<1> HIDE DEF k, part
<1>4. QED
  BY <1>1, <1>2, <1>3, RowAssumption, RentByClass

\* By the tenant who pays it.
LEMMA RentByTenant ==
    ASSUME TypeOK, NEW g, DOMAIN g = Tenants,
           \A t \in Tenants : g[t] = Sum(RentBy(t))
    PROVE  SumFunction(g) = Sum(RentPayments)
<1> DEFINE S == RentPayments
           k == [p \in S |-> payment[p].tenant]
           part == [t \in Tenants |-> RentBy(t)]
<1>1. \A p \in S : k[p] \in Tenants
  BY PaymentIs DEF RentPayments
<1>2. \A t \in Tenants : \A p : p \in part[t] <=> p \in S /\ k[p] = t
  BY DEF RentBy
<1>3. \A t \in Tenants : g[t] = Sum(part[t])
  OBVIOUS
<1> HIDE DEF S, k, part
<1>4. SumFunction(g) = Sum(S)
  BY <1>1, <1>2, <1>3, RowAssumption, RentByClass DEF S
<1>5. QED
  BY <1>4 DEF S

\* By method.
LEMMA RentByMethod ==
    ASSUME TypeOK, NEW S, S \subseteq RentPayments
    PROVE  /\ Sum(S) = Sum(Manual(S)) + Sum(S \ Manual(S))
           /\ Sum(S) \in Int /\ Sum(Manual(S)) \in Int /\ Sum(S \ Manual(S)) \in Int
<1> DEFINE M == Manual(S)
           R == S \ M
<1>1. M \subseteq S /\ R \subseteq S
  BY DEF Manual
<1>2. /\ Sum(M) = SumFunctionOnSet(Amounts, M) /\ Sum(M) \in Int
      /\ Sum(R) = SumFunctionOnSet(Amounts, R) /\ Sum(R) \in Int
      /\ Sum(S) = SumFunctionOnSet(Amounts, S) /\ Sum(S) \in Int
      /\ IsFiniteSet(S) /\ \A p \in S : Amounts[p] \in Int
  <2> HIDE DEF M, R
  <2>1. M \subseteq RentPayments /\ R \subseteq RentPayments
    BY <1>1
  <2>2. QED
    BY <2>1, RentRows
<1> HIDE DEF M
<1>3. SumFunctionOnSet(Amounts, S) = SumFunctionOnSet(Amounts, M) + SumFunctionOnSet(Amounts, S \ M)
  BY <1>1, <1>2, SumUnion
<1>4. QED
  BY <1>2, <1>3 DEF M

LEMMA MonthsDueType ==
    ASSUME TypeOK, NEW t \in Tenants, Resident(t)
    PROVE  MonthsDue(t) \in Int /\ tenant[t].terms.rent \in Int
<1> DEFINE l == tenant[t].terms
           upTo == IF l.end = None THEN today ELSE Earlier(l.end, today)
<1>1. l.start \in Days /\ (l.end # None => l.end \in Days) /\ l.rent \in Int
  BY TenantIs
<1>2. today \in Days
  BY CalendarAssumption DEF TypeOK, Days
<1>3. upTo \in Days
  BY <1>1, <1>2 DEF Earlier
<1>4. MonthsDue(t) = MonthsBetween(l.start, upTo)
  BY DEF MonthsDue
<1> HIDE DEF l, upTo
<1>5. MonthsBetween(l.start, upTo) \in Int
  BY <1>1, <1>3 DEF MonthsBetween, Days
<1>6. QED
  BY <1>1, <1>4, <1>5 DEF l

LEMMA TypedWallets == TypeOK => WalletsAgree
<1> SUFFICES ASSUME TypeOK PROVE WalletsAgree
  OBVIOUS
<1>1. SumFunction([o \in Landlords |-> LandlordWallet(o).total]) = PlatformWallet.total
  <2> DEFINE g == [o \in Landlords |-> LandlordWallet(o).total]
  <2>1. \A o \in Landlords : RentOf(o) = {p \in RentPayments : payment[p].owner = o}
    BY DEF RentOf
  <2>2. DOMAIN g = Landlords
        /\ \A o \in Landlords : g[o] = Sum({p \in RentPayments : payment[p].owner = o})
    BY <2>1 DEF LandlordWallet, Wallet
  <2> HIDE DEF g
  <2>3. SumFunction(g) = Sum(RentPayments)
    BY <2>2, RentByLandlord
  <2>4. QED
    BY <2>3 DEF g, PlatformWallet, Wallet
<1>2. SumFunction([t \in Tenants |-> TenantWallet(t).total]) = PlatformWallet.total
  <2> DEFINE g == [t \in Tenants |-> TenantWallet(t).total]
  <2>1. DOMAIN g = Tenants /\ \A t \in Tenants : g[t] = Sum(RentBy(t))
    BY DEF TenantWallet, Wallet
  <2> HIDE DEF g
  <2>2. SumFunction(g) = Sum(RentPayments)
    BY <2>1, RentByTenant
  <2>3. QED
    BY <2>2 DEF g, PlatformWallet, Wallet
<1>3. PlatformWallet.online + PlatformWallet.manual = PlatformWallet.total
  BY RentByMethod DEF PlatformWallet, Wallet
<1>4. ASSUME NEW t \in Tenants
      PROVE  /\ Sum(RentBy(t)) = Split(t).online + Split(t).manual
             /\ Split(t).online \in Int /\ Split(t).manual \in Int
  <2> DEFINE ps == {p \in Payments : /\ Paid(p) /\ payment[p].tenant = t
                                     /\ payment[p].kind.type = "rent"}
  <2>1. ps = RentBy(t) /\ RentBy(t) \subseteq RentPayments
    BY DEF RentBy, RentPayments
  <2>2. Split(t) = [online |-> Sum(ps \ Manual(ps)), manual |-> Sum(Manual(ps))]
    BY DEF Split
  <2> HIDE DEF ps
  <2>3. QED
    BY <2>1, <2>2, RentByMethod
<1>5. ASSUME NEW t \in Tenants, Resident(t), tenant[t].status = "active"
      PROVE  tenant[t].terms.rent * MonthsDue(t)
                = Balance(t) + Split(t).online + Split(t).manual
  <2>1. Balance(t) = tenant[t].terms.rent * MonthsDue(t) - Sum(RentBy(t))
    BY <1>5 DEF Balance
  <2>2. tenant[t].terms.rent * MonthsDue(t) \in Int
    <3>1. \A r, n \in Int : r * n \in Int
      OBVIOUS
    <3>2. QED
      BY <1>5, <3>1, MonthsDueType
  <2> DEFINE due == tenant[t].terms.rent * MonthsDue(t)
  <2> HIDE DEF due
  <2>3. due \in Int /\ Balance(t) = due - Sum(RentBy(t))
    BY <2>1, <2>2 DEF due
  <2>4. due = Balance(t) + Split(t).online + Split(t).manual
    BY <1>4, <2>3
  <2>5. QED
    BY <2>4 DEF due
<1>6. QED
  BY <1>1, <1>2, <1>3, <1>4, <1>5 DEF WalletsAgree

-----------------------------------------------------------------------------
(* Months.                                                                 *)

\* The month that is i months before this one, as the year and month say it.
Back(i) ==
    IF today.m > i THEN [y |-> today.y, m |-> today.m - i]
    ELSE [y |-> today.y - 1, m |-> today.m - i + 12]

LEMMA TodayIs ==
    ASSUME TypeOK
    PROVE  today \in Days /\ today.y \in Int /\ today.m \in 1 .. 12 /\ today.d \in 1 .. 2
BY CalendarAssumption DEF TypeOK, Days

LEMMA MonthsInOrder ==
    ASSUME NEW a \in Months, NEW b \in Months, Index(a) = Index(b)
    PROVE  a = b
<1>1. /\ a = [y |-> a.y, m |-> a.m] /\ a.y \in Int /\ a.m \in 1 .. 12
      /\ b = [y |-> b.y, m |-> b.m] /\ b.y \in Int /\ b.m \in 1 .. 12
  BY DEF Months
<1>2. a.y = b.y /\ a.m = b.m
  BY <1>1 DEF Index
<1>3. QED
  BY <1>1, <1>2

LEMMA BackIs ==
    ASSUME TypeOK, NEW i \in 0 .. 5
    PROVE  /\ Back(i) \in Months /\ Index(Back(i)) = Index(today) - i /\ Index(today) \in Int
           /\ MonthsBack(i) = Back(i)
<1>1. today.y \in Int /\ today.m \in 1 .. 12
  BY TodayIs
<1>2. CASE today.m > i
  <2>1. Back(i) = [y |-> today.y, m |-> today.m - i]
    BY <1>2 DEF Back
  <2>2. QED
    BY <1>1, <1>2, <2>1 DEF Index, Months, MonthsBack
<1>3. CASE ~(today.m > i)
  <2>1. Back(i) = [y |-> today.y - 1, m |-> today.m - i + 12]
    BY <1>3 DEF Back
  <2>2. QED
    BY <1>1, <1>3, <2>1 DEF Index, Months, MonthsBack
<1>4. QED
  BY <1>2, <1>3

\* Twelve is added as often as it takes: once or not at all.
LEMMA TwelvesAdded ==
    ASSUME NEW m \in 1 .. 12, NEW i \in 0 .. 5
    PROVE  (CHOOSE n \in 0 .. i : /\ m - i + 12 * n > 0
                                  /\ \A j \in 0 .. n - 1 : m - i + 12 * j <= 0)
              = IF m > i THEN 0 ELSE 1
<1> DEFINE P(n) == m - i + 12 * n > 0 /\ \A j \in 0 .. n - 1 : m - i + 12 * j <= 0
           k == IF m > i THEN 0 ELSE 1
<1>1. k \in 0 .. i /\ P(k)
  <2>1. CASE m > i
    BY <2>1
  <2>2. CASE ~(m > i)
    BY <2>2
  <2>3. QED
    BY <2>1, <2>2
<1>2. ASSUME NEW n \in 0 .. i, P(n)
      PROVE  n = k
  <2>1. CASE m > i
    <3>1. n > 0 => 0 \in 0 .. n - 1 /\ m - i + 12 * 0 > 0
      BY <2>1
    <3>2. QED
      BY <1>2, <2>1, <3>1
  <2>2. CASE ~(m > i)
    <3>1. n > 1 => 1 \in 0 .. n - 1 /\ m - i + 12 * 1 > 0
      BY <2>2
    <3>2. n # 0
      BY <1>2, <2>2
    <3>3. QED
      BY <1>2, <2>2, <3>1, <3>2
  <2>3. QED
    BY <2>1, <2>2
<1> HIDE DEF P, k
<1>3. (CHOOSE n \in 0 .. i : P(n)) = k
  BY <1>1, <1>2
<1>4. QED
  BY <1>3 DEF P, k

\* A bucket is the days of a month.
LEMMA BucketIs ==
    ASSUME TypeOK, NEW i \in 0 .. 5
    PROVE  /\ Bucket(i).start = Day(Back(i).y, Back(i).m, 1)
           /\ Bucket(i).end = Day(NextMonth(Back(i)).y, NextMonth(Back(i)).m, 1)
<1> DEFINE k == CHOOSE n \in 0 .. i : /\ today.m - i + 12 * n > 0
                                     /\ \A j \in 0 .. n - 1 : today.m - i + 12 * j <= 0
           m == today.m - i + 12 * k
           y == today.y - k
<1>1. today.y \in Int /\ today.m \in 1 .. 12
  BY TodayIs
<1>2. k = IF today.m > i THEN 0 ELSE 1
  BY <1>1, TwelvesAdded
<1>3. Bucket(i) = [start |-> Day(y, m, 1),
                   end |-> IF m = 12 THEN Day(y + 1, 1, 1) ELSE Day(y, m + 1, 1)]
  BY DEF Bucket
<1> HIDE DEF k
<1>4. Back(i) = [y |-> y, m |-> m]
  BY <1>1, <1>2 DEF Back
<1> HIDE DEF y, m
<1>5. QED
  BY <1>3, <1>4 DEF NextMonth

\* The administrators' and officers' months are the landlords'.
LEMMA OneMonth ==
    ASSUME TypeOK, NEW i \in 0 .. 5
    PROVE  Month(Bucket(i).start) = Back(i) /\ MonthsBack(i) = Back(i)
<1>1. Back(i) = [y |-> Back(i).y, m |-> Back(i).m]
  BY BackIs DEF Months
<1>2. QED
  BY <1>1, BackIs, BucketIs DEF Month, Day

\* A day is in the bucket of its month.
LEMMA InBucketIs ==
    ASSUME TypeOK, NEW i \in 0 .. 5, NEW a \in Days
    PROVE  InBucket(a, Bucket(i)) <=> Index(a) = Index(today) - i
<1> DEFINE b == Back(i)
           s == Day(b.y, b.m, 1)
           e == Day(NextMonth(b).y, NextMonth(b).m, 1)
<1>1. b \in Months /\ Index(b) = Index(today) - i
  BY BackIs
<1>2. InBucket(a, Bucket(i)) <=> ~Before(a, s) /\ Before(a, e)
  BY BucketIs DEF InBucket
<1> HIDE DEF b
<1>3. b.y \in Int /\ b.m \in 1 .. 12
  BY <1>1 DEF Months
<1>4. s \in Days /\ Index(s) = Index(b) /\ s.d = 1
  BY <1>3 DEF Day, Days, Index
<1>5. e \in Days /\ Index(e) = Index(b) + 1 /\ e.d = 1
  BY <1>3 DEF Day, Days, Index, NextMonth
<1> HIDE DEF s, e
<1>6. /\ Before(a, s) <=> Nth(a) < Nth(s)
      /\ Before(a, e) <=> Nth(a) < Nth(e)
      /\ Nth(a) = 2 * Index(a) + a.d /\ Nth(s) = 2 * Index(s) + s.d /\ Nth(e) = 2 * Index(e) + e.d
      /\ Index(a) \in Int /\ Index(s) \in Int /\ Index(e) \in Int /\ a.d \in 1 .. 2
  BY <1>4, <1>5, DaysInOrder DEF Days
<1>7. ~Before(a, s) /\ Before(a, e) <=> Index(a) = Index(b)
  BY <1>4, <1>5, <1>6
<1>8. QED
  BY <1>1, <1>2, <1>7

LEMMA TypedCharts == TypeOK => ChartsAgree
<1> SUFFICES ASSUME TypeOK PROVE ChartsAgree
  OBVIOUS
<1> DEFINE landlords(i) == SumFunction([o \in Landlords |-> DashboardBar(o, i)])
           wallets == SumFunction([o \in Landlords |-> LandlordWallet(o).thisMonth])
<1>1. ASSUME NEW m
      PROVE  SumFunction([o \in Landlords |-> InMonth(RentOf(o), m)]) = InMonth(RentPayments, m)
  <2> DEFINE S == {p \in RentPayments : payment[p].period = m}
             g == [o \in Landlords |-> InMonth(RentOf(o), m)]
  <2>1. ASSUME NEW o \in Landlords
        PROVE  g[o] = Sum({p \in S : payment[p].owner = o})
    <3>1. {p \in RentOf(o) : payment[p].period = m} = {p \in S : payment[p].owner = o}
      BY DEF RentOf
    <3>2. QED
      BY <3>1 DEF InMonth
  <2>2. S \subseteq RentPayments /\ DOMAIN g = Landlords /\ Sum(S) = InMonth(RentPayments, m)
    BY DEF InMonth
  <2> HIDE DEF S, g
  <2>3. SumFunction(g) = Sum(S)
    BY <2>1, <2>2, RentByLandlord
  <2>4. QED
    BY <2>2, <2>3 DEF g
<1>2. ASSUME NEW i \in 0 .. 5
      PROVE  landlords(i) = AdminBar(i) /\ WholeShillings(OfficerBar(i), landlords(i))
  <2>1. Month(Bucket(i).start) = MonthsBack(i)
    BY OneMonth
  <2>2. landlords(i) = SumFunction([o \in Landlords |-> InMonth(RentOf(o), MonthsBack(i))])
    BY DEF DashboardBar
  <2>3. /\ AdminBar(i) = InMonth(RentPayments, MonthsBack(i))
        /\ OfficerBar(i) = InMonth(RentPayments, MonthsBack(i)) \div 100
    BY <2>1 DEF AdminBar, OfficerBar
  <2>4. InMonth(RentPayments, MonthsBack(i)) \in Int
    <3>1. {p \in RentPayments : payment[p].period = MonthsBack(i)} \subseteq RentPayments
      OBVIOUS
    <3>2. QED
      BY <3>1, RentRows DEF InMonth
  <2> DEFINE a == InMonth(RentPayments, MonthsBack(i))
  <2>5. landlords(i) = a /\ AdminBar(i) = a /\ OfficerBar(i) = a \div 100 /\ a \in Int
    BY <1>1, <2>2, <2>3, <2>4
  <2> HIDE DEF a, landlords
  <2>6. WholeShillings(a \div 100, a)
    BY <2>5 DEF WholeShillings
  <2>7. QED
    BY <2>5, <2>6
<1>3. landlords(0) = TaxRevenue
  <2>1. MonthsBack(0) = Month(today)
    BY TodayIs DEF MonthsBack, Month
  <2>2. landlords(0) = SumFunction([o \in Landlords |-> InMonth(RentOf(o), Month(today))])
    BY <2>1 DEF DashboardBar
  <2>3. QED
    BY <1>1, <2>2 DEF TaxRevenue
<1>4. wallets = TaxRevenue
  <2>1. wallets = SumFunction([o \in Landlords |-> InMonth(RentOf(o), Month(today))])
    BY DEF LandlordWallet, Wallet
  <2>2. QED
    BY <1>1, <2>1 DEF TaxRevenue
<1>5. Revenue("rent") = TaxRevenue
  <2>1. {p \in Payments : /\ Paid(p) /\ payment[p].kind.type = "rent"
                          /\ payment[p].period = Month(today)}
           = {p \in RentPayments : payment[p].period = Month(today)}
    BY DEF RentPayments
  <2>2. QED
    BY <2>1 DEF Revenue, TaxRevenue, InMonth
<1>6. QED
  BY <1>2, <1>3, <1>4, <1>5 DEF ChartsAgree

LEMMA TypedCover == TypeOK => ChartsCoverSixMonths
<1> SUFFICES ASSUME TypeOK PROVE ChartsCoverSixMonths
  OBVIOUS
<1> DEFINE now == Index(today)
           Recent(a) == Index(a) \in now - 5 .. now
           D == {Day((n - 1) \div 12, 1 + ((n - 1) % 12), d) : n \in now - 8 .. now + 1, d \in 1 .. 2}
           g == [i \in 0 .. 5 |-> AdminBar(i)]
           S == {p \in RentPayments : Recent(payment[p].period)}
<1>1. now \in Int
  BY TodayIs, DaysInOrder
<1>2. ASSUME NEW a \in D
      PROVE  a \in Days
  <2>1. PICK n \in now - 8 .. now + 1, d \in 1 .. 2 : a = Day((n - 1) \div 12, 1 + ((n - 1) % 12), d)
    OBVIOUS
  <2>2. (n - 1) \div 12 \in Int /\ 1 + ((n - 1) % 12) \in 1 .. 12
    BY <1>1
  <2>3. QED
    BY <2>1, <2>2 DEF Day, Days
<1> HIDE DEF D
<1>3. ASSUME NEW a \in D
      PROVE  Cardinality({i \in 0 .. 5 : InBucket(a, Bucket(i))}) = IF Recent(a) THEN 1 ELSE 0
  <2> DEFINE B == {i \in 0 .. 5 : InBucket(a, Bucket(i))}
  <2>1. a \in Days /\ Index(a) \in Int
    BY <1>2, DaysInOrder
  <2>2. \A i \in 0 .. 5 : i \in B <=> Index(a) = now - i
    BY <2>1, InBucketIs
  <2>3. B \subseteq 0 .. 5
    OBVIOUS
  <2> HIDE DEF B, now
  <2>4. CASE Recent(a)
    <3>1. now - Index(a) \in 0 .. 5 /\ now - (now - Index(a)) = Index(a)
      BY <1>1, <2>1, <2>4
    <3>2. PICK c \in 0 .. 5 : c = now - Index(a)
      BY <3>1
    <3>3. \A i \in 0 .. 5 : i \in B <=> i = c
      BY <1>1, <2>1, <2>2, <3>2
    <3>4. B = {c}
      BY <2>3, <3>3
    <3>5. QED
      BY <2>4, <3>4, FS_Singleton DEF B
  <2>5. CASE ~Recent(a)
    <3>1. B = {}
      BY <1>1, <2>1, <2>2, <2>3, <2>5
    <3>2. QED
      BY <2>5, <3>1, FS_EmptySet DEF B
  <2>6. QED
    BY <2>4, <2>5
<1>4. SumFunction(g) = Sum(S)
  <2> DEFINE k == [p \in S |-> now - Index(payment[p].period)]
             part == [i \in 0 .. 5 |-> {p \in RentPayments : payment[p].period = Back(i)}]
  <2>1. ASSUME NEW p \in RentPayments
        PROVE  payment[p].period \in Months /\ Index(payment[p].period) \in Int
    BY PaymentIs DEF RentPayments, Months, Index
  <2>2. \A p \in S : k[p] \in 0 .. 5
    BY <1>1, <2>1
  <2>3. ASSUME NEW i \in 0 .. 5, NEW p
        PROVE  p \in part[i] <=> p \in S /\ k[p] = i
    <3>1. CASE p \notin RentPayments
      BY <3>1
    <3>2. CASE p \in RentPayments
      <4> DEFINE m == payment[p].period
                 b == Back(i)
      <4>1. m \in Months /\ b \in Months /\ Index(b) = now - i /\ Index(m) \in Int
        BY <2>1, <3>2, BackIs
      <4>2. p \in part[i] <=> m = b
        BY <3>2
      <4>3. p \in S <=> Index(m) \in now - 5 .. now
        BY <3>2
      <4>4. p \in S => k[p] = now - Index(m)
        OBVIOUS
      <4> HIDE DEF m, b, now, k, part, S
      <4>5. m = b <=> Index(m) = now - i
        BY <4>1, MonthsInOrder
      <4>6. QED
        BY <1>1, <4>1, <4>2, <4>3, <4>4, <4>5
    <3>3. QED
      BY <3>1, <3>2
  <2>4. ASSUME NEW i \in 0 .. 5
        PROVE  g[i] = Sum(part[i])
    BY OneMonth DEF AdminBar, InMonth
  <2>5. S \subseteq RentPayments /\ DOMAIN g = 0 .. 5
    OBVIOUS
  <2>6. IsFiniteSet(0 .. 5)
    <3>1. 0 \in Int /\ 5 \in Int
      OBVIOUS
    <3>2. QED
      BY <3>1, FS_Interval, Zenon
  <2> HIDE DEF g, S, k, part
  <2>7. QED
    BY <2>2, <2>3, <2>4, <2>5, <2>6, RentByClass
<1>5. QED
  BY <1>3, <1>4 DEF ChartsCoverSixMonths, Index, D

\* Whoever pays whom and whatever the calendar says, the six screens show one
\* set of figures (get_dashboard_stats, admin_summary, overview_summary,
\* wallet_summary_for_user).
THEOREM FiguresAlwaysAgree == Spec => []FiguresAgree
<1>1. TypeOK => FiguresAgree
  BY TypedCharts, TypedCover, TypedWallets DEF FiguresAgree
<1>2. QED
  BY <1>1, InitTyped, NextTyped, PTL DEF Spec

-----------------------------------------------------------------------------
(* Arrears.                                                                *)

\* The months that are due on day x, of a lease that runs from day a to the
\* day e it ends, if it ends.
Due(a, e, x) == MonthsBetween(a, IF e = None THEN x ELSE Earlier(e, x))

Runs(a, e, x) == ~Before(x, a) /\ (e = None \/ ~Before(e, x))

LEMMA MonthsBetweenIs ==
    ASSUME NEW a \in Days, NEW b \in Days
    PROVE  MonthsBetween(a, b) = IF Nth(b) < Nth(a) THEN 0 ELSE Index(b) - Index(a) + 1
<1>1. (b.y - a.y) * 12 + (b.m - a.m) + 1 = Index(b) - Index(a) + 1
  BY DEF Days, Index
<1>2. QED
  BY <1>1, DaysInOrder DEF MonthsBetween

\* One day later one more month is due, or none.
LEMMA OneMoreMonth ==
    ASSUME NEW a \in Days, NEW e \in Days \cup {None}, NEW x \in Days
    PROVE  LET y == Tomorrow(x) IN
           Due(a, e, y) = Due(a, e, x)
                + IF Runs(a, e, y) /\ (y = a \/ y.m # x.m) THEN 1 ELSE 0
<1> DEFINE y == Tomorrow(x)
<1>1. /\ y \in Days /\ Nth(y) = Nth(x) + 1 /\ (y.m # x.m <=> x.d = 2)
      /\ Index(y) = IF y.m = x.m THEN Index(x) ELSE Index(x) + 1
  BY TomorrowIsNext
<1> HIDE DEF y
<1>2. /\ Nth(a) \in Int /\ Index(a) \in Int /\ Nth(a) = 2 * Index(a) + a.d
      /\ Nth(x) \in Int /\ Index(x) \in Int /\ Nth(x) = 2 * Index(x) + x.d
      /\ Nth(y) \in Int /\ Index(y) \in Int /\ Nth(y) = 2 * Index(y) + y.d
      /\ a.d \in 1 .. 2 /\ x.d \in 1 .. 2 /\ y.d \in 1 .. 2
  BY <1>1, DaysInOrder DEF Days
<1>3. (y = a <=> Nth(y) = Nth(a)) /\ (Before(y, a) <=> Nth(y) < Nth(a))
  BY <1>1, DaysInOrder
<1>4. ASSUME NEW u \in Days
      PROVE  MonthsBetween(a, u) = IF Nth(u) < Nth(a) THEN 0 ELSE Index(u) - Index(a) + 1
  BY MonthsBetweenIs
<1>5. MonthsBetween(a, y)
         = MonthsBetween(a, x) + IF ~Before(y, a) /\ (y = a \/ y.m # x.m) THEN 1 ELSE 0
  BY <1>1, <1>2, <1>3, <1>4
<1>6. CASE e = None
  <2>1. Due(a, e, y) = MonthsBetween(a, y) /\ Due(a, e, x) = MonthsBetween(a, x)
        /\ (Runs(a, e, y) <=> ~Before(y, a))
    BY <1>6 DEF Due, Runs
  <2>2. QED
    BY <1>5, <2>1 DEF y
<1>7. CASE e # None
  <2>1. e \in Days
    BY <1>7
  <2>2. /\ Nth(e) \in Int /\ Index(e) \in Int /\ Nth(e) = 2 * Index(e) + e.d /\ e.d \in 1 .. 2
        /\ Before(x, e) <=> Nth(x) < Nth(e)
        /\ Before(y, e) <=> Nth(y) < Nth(e)
        /\ Before(e, y) <=> Nth(e) < Nth(y)
    BY <1>1, <2>1, DaysInOrder DEF Days
  <2>3. CASE Nth(y) <= Nth(e)
    <3>1. Due(a, e, x) = MonthsBetween(a, x) /\ ~Before(e, y)
      BY <1>1, <1>2, <1>7, <2>2, <2>3 DEF Due, Earlier
    <3>2. Due(a, e, y) = MonthsBetween(a, y)
      <4>1. CASE Nth(y) = Nth(e)
        <5>1. y = e
          BY <1>1, <2>1, <4>1, DaysInOrder
        <5>2. QED
          BY <1>7, <5>1 DEF Due, Earlier
      <4>2. CASE Nth(y) < Nth(e)
        BY <1>7, <2>2, <4>2 DEF Due, Earlier
      <4>3. QED
        BY <1>2, <2>2, <2>3, <4>1, <4>2
    <3>3. Runs(a, e, y) <=> ~Before(y, a)
      BY <3>1 DEF Runs
    <3>4. QED
      BY <1>5, <3>1, <3>2, <3>3 DEF y
  <2>4. CASE Nth(e) < Nth(y)
    <3>1. ~Before(x, e) /\ ~Before(y, e) /\ Before(e, y)
      BY <1>1, <1>2, <2>2, <2>4
    <3>2. Due(a, e, x) = MonthsBetween(a, e) /\ Due(a, e, y) = MonthsBetween(a, e)
      BY <1>7, <3>1 DEF Due, Earlier
    <3>3. ~Runs(a, e, y)
      BY <1>7, <3>1 DEF Runs
    <3>4. MonthsBetween(a, e) \in Int
      BY <1>2, <1>4, <2>1, <2>2
    <3>5. QED
      BY <3>2, <3>3, <3>4 DEF y
  <2>5. QED
    BY <1>2, <2>2, <2>3, <2>4
<1>8. QED
  BY <1>6, <1>7

\* What is taken off the arrears stays when the day turns.
LEMMA DayTurns ==
    ASSUME TypeOK, NextDay, NEW t \in Tenants, Resident(t), tenant[t].status = "active"
    PROVE  LET l == tenant[t].terms
               runs == ~Before(today', l.start) /\ (l.end = None \/ ~Before(l.end, today'))
               begins == today' = l.start \/ today'.m # today.m
           IN Balance(t)' = Balance(t) + (IF runs /\ begins THEN l.rent ELSE 0)
<1> DEFINE l == tenant[t].terms
           n == Due(l.start, l.end, today)
           m == Due(l.start, l.end, today')
           more == Runs(l.start, l.end, today') /\ (today' = l.start \/ today'.m # today.m)
           paid == Sum(RentBy(t))
<1>1. /\ l.start \in Days /\ l.end \in Days \cup {None} /\ l.rent \in Int
      /\ today \in Days /\ today' = Tomorrow(today)
  BY TenantIs, TodayIs DEF NextDay
<1>2. m = n + IF more THEN 1 ELSE 0
  <2> HIDE DEF l
  <2>1. QED
    BY <1>1, OneMoreMonth
<1>3. tenant' = tenant /\ payment' = payment
  BY DEF NextDay
<1>4. MonthsDue(t) = n /\ MonthsDue(t)' = m
  BY <1>3 DEF MonthsDue, Due
<1>5. Balance(t) = l.rent * n - paid
  BY <1>4 DEF Balance
<1>6. Balance(t)' = l.rent * m - paid
  <2>1. paid' = paid
    BY <1>3 DEF Sum, RentBy, RentPayments, Paid
  <2>2. Balance(t)' = IF tenant'[t].status # "active" THEN 0
                      ELSE tenant'[t].terms.rent * MonthsDue(t)' - paid'
    BY DEF Balance
  <2> HIDE DEF paid, m
  <2>3. QED
    BY <1>3, <1>4, <2>1, <2>2
<1>7. n \in Int /\ paid \in Int
  <2>1. n \in Int
    BY <1>4, MonthsDueType
  <2>2. RentBy(t) \subseteq RentPayments
    BY DEF RentBy
  <2>3. QED
    BY <2>1, <2>2, RentRows
<1>8. \A r, i \in Int : r * (i + 1) = r * i + r /\ r * i \in Int
  OBVIOUS
<1>9. Balance(t)' = Balance(t) + (IF more THEN l.rent ELSE 0)
  <2> DEFINE r == l.rent
             b == Balance(t)
             c == Balance(t)'
  <2>1. r \in Int /\ b = r * n - paid /\ c = r * m - paid
    BY <1>1, <1>5, <1>6
  <2> HIDE DEF r, b, c, n, m, more, paid
  <2>2. CASE more
    <3>1. m = n + 1 /\ r * m = r * n + r /\ r * n \in Int
      BY <1>2, <1>7, <1>8, <2>1, <2>2
    <3>2. c = b + r
      BY <1>7, <2>1, <3>1
    <3>3. QED
      BY <2>2, <3>2 DEF b, c, r
  <2>3. CASE ~more
    <3>1. m = n /\ r * n \in Int
      BY <1>2, <1>7, <1>8, <2>1, <2>3
    <3>2. c = b + 0
      BY <1>7, <2>1, <3>1
    <3>3. QED
      BY <2>3, <3>2 DEF b, c
  <2>4. QED
    BY <2>2, <2>3
<1>10. QED
  BY <1>9 DEF Runs

\* For any lease and any calendar, compute_tenant_balance makes a month's rent
\* due on the first day of a lease and on the first of each month it runs in,
\* and on no other day (months_between counts the months begun, which is not
\* what the docstrings of arrears_service.py and rent_reminder_service.py say).
THEOREM RentAlwaysFallsDueMonthly == Spec => RentFallsDueMonthly
<1> DEFINE Step == today' # today =>
          \A t \in Tenants :
              Resident(t) /\ tenant[t].status = "active" =>
                  LET l == tenant[t].terms
                      runs == ~Before(today', l.start)
                                 /\ (l.end = None \/ ~Before(l.end, today'))
                      begins == today' = l.start \/ today'.m # today.m
                  IN Balance(t)' = Balance(t) + (IF runs /\ begins THEN l.rent ELSE 0)
<1>1. TypeOK /\ [Next]_vars => [Step]_vars
  <2> SUFFICES ASSUME TypeOK, [Next]_vars, today' # today
               PROVE  Step
    OBVIOUS
  <2>1. NextDay
    BY DEF Next, vars, CreateTenant, UpdateTenant, MoveOutTenant, RecordPayment, UpdatePayment,
           DeletePayment
  <2>2. QED
    BY <2>1, DayTurns
<1>2. RentFallsDueMonthly <=> [][Step]_vars
  BY DEF RentFallsDueMonthly
<1> HIDE DEF Step
<1>3. QED
  BY <1>1, <1>2, InitTyped, NextTyped, PTL DEF Spec
=============================================================================
