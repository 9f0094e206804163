------------------------- MODULE LandlordLedger_proofs -------------------------
(***************************************************************************)
(* The rows of a settlement, the monthly fee, the balance in each row and  *)
(* the summaries, for any number of workers, landlords and payments and    *)
(* any fee schedule.                                                       *)
(***************************************************************************)
EXTENDS LandlordLedger, SequenceTheorems, Sums

-----------------------------------------------------------------------------
(* Sequences of rows.                                                      *)

\* A sequence, of whatever its members are.
Rows(s) == s \in Seq({s[i] : i \in DOMAIN s})

LEMMA OneRow ==
    ASSUME NEW r
    PROVE  Rows(Append(<<>>, r)) /\ Len(Append(<<>>, r)) = 1 /\ Append(<<>>, r)[1] = r
<1> DEFINE s == Append(<<>>, r)
<1>1. s \in Seq({r}) /\ Len(s) = 1 /\ s[1] = r
  BY EmptySeq, AppendProperties
<1>2. {s[i] : i \in DOMAIN s} = {r}
  BY <1>1
<1>3. QED
  BY <1>1, <1>2 DEF Rows

LEMMA TwoRows ==
    ASSUME NEW r, NEW q
    PROVE  LET s == Append(Append(<<>>, r), q) IN
           Rows(s) /\ Len(s) = 2 /\ s[1] = r /\ s[2] = q
<1> DEFINE one == Append(<<>>, r)
           s == Append(one, q)
<1>1. one \in Seq({r, q}) /\ Len(one) = 1 /\ one[1] = r
  BY EmptySeq, AppendProperties
<1>2. s \in Seq({r, q}) /\ Len(s) = 2 /\ s[1] = r /\ s[2] = q
  BY <1>1, AppendProperties
<1>3. {s[i] : i \in DOMAIN s} = {r, q}
  BY <1>2
<1>4. QED
  BY <1>2, <1>3 DEF Rows

LEMMA OwnMembers ==
    ASSUME NEW S, NEW j \in Seq(S)
    PROVE  Rows(j)
<1>1. j \in [1 .. Len(j) -> S] /\ Len(j) \in Nat /\ DOMAIN j = 1 .. Len(j)
  BY LenProperties
<1>2. j \in [1 .. Len(j) -> {j[k] : k \in DOMAIN j}]
  BY <1>1
<1>3. j \in Seq({j[k] : k \in DOMAIN j})
  BY <1>1, <1>2, SeqDef
<1>4. QED
  BY <1>3 DEF Rows

LEMMA Joined ==
    ASSUME NEW s, NEW t, Rows(s), Rows(t)
    PROVE  /\ Rows(s \o t)
           /\ Len(s) \in Nat /\ DOMAIN s = 1 .. Len(s)
           /\ Len(t) \in Nat /\ DOMAIN t = 1 .. Len(t)
           /\ DOMAIN (s \o t) = 1 .. Len(s) + Len(t)
           /\ \A i \in 1 .. Len(s) : (s \o t)[i] = s[i]
           /\ \A i \in 1 .. Len(t) : (s \o t)[Len(s) + i] = t[i]
<1> DEFINE S == {s[i] : i \in DOMAIN s} \cup {t[i] : i \in DOMAIN t}
<1>1. s \in Seq(S) /\ t \in Seq(S)
  BY DEF Rows
<1>2. /\ s \o t \in Seq(S)
      /\ Len(s \o t) = Len(s) + Len(t)
      /\ \A i \in 1 .. Len(s) + Len(t) :
            (s \o t)[i] = IF i <= Len(s) THEN s[i] ELSE t[i - Len(s)]
  BY <1>1, ConcatProperties
<1>3. /\ Len(s) \in Nat /\ DOMAIN s = 1 .. Len(s)
      /\ Len(t) \in Nat /\ DOMAIN t = 1 .. Len(t)
      /\ DOMAIN (s \o t) = 1 .. Len(s) + Len(t)
  BY <1>1, <1>2, LenProperties
<1>4. Rows(s \o t)
  BY <1>2, OwnMembers
<1>5. \A i \in 1 .. Len(t) : (s \o t)[Len(s) + i] = t[i]
  BY <1>2, <1>3
<1>6. QED
  BY <1>2, <1>3, <1>4, <1>5

-----------------------------------------------------------------------------
(* The fee.                                                                *)

\* calculate_online_rent_fee charges something between nothing and the whole
\* payment, whatever the percentage, the flat fee and the minimum.
LEMMA FeeBounds ==
    ASSUME NEW g \in Nat
    PROVE  Fee(g) \in 0 .. g
<1>1. g * Percent + Flat * 10000 + 5000 \in Int
  BY FeeAssumption
<1>2. Rounded(g) \in Int
  BY <1>1 DEF Rounded
<1>3. Minimum \in Nat
  BY FeeAssumption
<1> HIDE DEF Rounded
<1>4. QED
  BY <1>2, <1>3 DEF Fee

-----------------------------------------------------------------------------
(* What rows settle a payment.                                             *)

Credits(r, p) == r.type = "rent_credit" /\ r.payment = p /\ r.amount \in Nat
Charges(r, p) ==
    r.type = "platform_fee" /\ r.payment = p /\ r.amount \in Int /\ r.amount < 0

MakeUp(rows, p, g, charged) ==
    \/ /\ Len(rows) = 1 /\ Credits(rows[1], p) /\ rows[1].amount = g
       /\ charged => Fee(g) = 0
    \/ /\ Len(rows) = 2 /\ Credits(rows[1], p) /\ Charges(rows[2], p)
       /\ rows[1].amount - rows[2].amount = g

LEMMA SettlementMakesUp ==
    ASSUME NEW o, NEW p, NEW g \in Nat, NEW fee \in 0 .. g, NEW charged,
           charged => fee = Fee(g)
    PROVE  /\ Rows(SettlementRows(o, p, g, fee))
           /\ MakeUp(SettlementRows(o, p, g, fee), p, g, charged)
<1> DEFINE credit == [owner |-> o, type |-> "rent_credit", amount |-> g - fee,
                      after |-> Balance(o, ledger \o <<>>) + (g - fee),
                      payment |-> p, period |-> 0]
           one == Append(<<>>, credit)
           charge == [owner |-> o, type |-> "platform_fee", amount |-> -fee,
                      after |-> Balance(o, ledger \o one) + (-fee),
                      payment |-> p, period |-> 0]
           two == Append(one, charge)
<1>1. SettlementRows(o, p, g, fee) = IF fee > 0 THEN two ELSE one
  BY DEF SettlementRows, AppendLedger
<1>2. Rows(one) /\ Len(one) = 1 /\ one[1] = credit
  BY OneRow
<1>3. Rows(two) /\ Len(two) = 2 /\ two[1] = credit /\ two[2] = charge
  BY TwoRows
<1>4. Credits(credit, p) /\ credit.amount = g - fee
  BY DEF Credits
<1>5. fee > 0 => Charges(charge, p) /\ charge.amount = -fee
  BY DEF Charges
<1> HIDE DEF credit, charge, one, two
<1>6. CASE fee > 0
  BY <1>1, <1>3, <1>4, <1>5, <1>6 DEF MakeUp
<1>7. CASE fee = 0
  BY <1>1, <1>2, <1>4, <1>7 DEF MakeUp
<1>8. QED
  BY <1>6, <1>7

-----------------------------------------------------------------------------
(* The inductive invariant.                                                *)

\* What a session holds: nothing, a payment that is nobody else's with the
\* rows that make it up, or rows of no payment.
SessionOK(w) ==
    LET s == session[w] IN
    /\ s = [rows |-> s.rows, payment |-> s.payment, gross |-> s.gross, online |-> s.online]
    /\ Rows(s.rows)
    /\ s.online \in BOOLEAN
    /\ s.payment = None =>
          ~s.online /\ \A i \in DOMAIN s.rows : s.rows[i].payment = None
    /\ s.payment # None =>
          /\ s.payment \in Payments /\ gross[s.payment] = 0
          /\ s.gross \in Nat \ {0}
          /\ MakeUp(s.rows, s.payment, s.gross, s.online)
          /\ \A v \in Workers \ {w} : session[v].payment # s.payment

Inv ==
    /\ Rows(ledger)
    /\ gross \in [Payments -> Nat]
    /\ \A p \in online : p \in Payments /\ gross[p] > 0
    /\ DOMAIN session = Workers
    /\ \A w \in Workers : SessionOK(w)
    /\ \A p \in Payments : gross[p] = 0 => RowsOf(p) = {}
    /\ CreditAndFeeMakeGross

\* Row c is the credit of payment p, alone or with its fee.
IsCredit(p, c) == ledger[c].type = "rent_credit" /\ ledger[c].amount >= 0

Alone(p, c) ==
    RowsOf(p) = {c} /\ ledger[c].amount = gross[p] /\ (p \in online => Fee(gross[p]) = 0)

WithFee(p, c, f) ==
    /\ f \in RowsOf(p) \ {c} /\ RowsOf(p) = {c, f}
    /\ ledger[f].type = "platform_fee" /\ ledger[f].amount < 0
    /\ ledger[c].amount - ledger[f].amount = gross[p]

Settled(p) ==
    \E c \in RowsOf(p) : IsCredit(p, c) /\ (Alone(p, c) \/ \E f : WithFee(p, c, f))

LEMMA SettledIsMade == CreditAndFeeMakeGross <=> \A p \in Payments : gross[p] > 0 => Settled(p)
BY DEF CreditAndFeeMakeGross, Settled, IsCredit, Alone, WithFee

LEMMA EmptyRows == Rows(<<>>) /\ DOMAIN <<>> = {}
<1>1. <<>> \in Seq({<<>>[i] : i \in DOMAIN <<>>})
  BY EmptySeq
<1>2. QED
  BY <1>1 DEF Rows

LEMMA InitHolds == Init => Inv
<1> SUFFICES ASSUME Init PROVE Inv
  OBVIOUS
<1>1. \A w \in Workers : SessionOK(w)
  BY EmptyRows DEF Init, SessionOK, Empty
<1>2. \A p : RowsOf(p) = {}
  BY EmptyRows DEF Init, RowsOf
<1>3. QED
  BY <1>1, <1>2, EmptyRows DEF Init, Inv, CreditAndFeeMakeGross

\* Where nothing is committed, the ledger and what is known of it stay.
LEMMA BooksStay ==
    ASSUME Inv, UNCHANGED <<ledger, gross, online>>, DOMAIN session' = Workers,
           \A w \in Workers : SessionOK(w)'
    PROVE  Inv'
BY DEF Inv, RowsOf, CreditAndFeeMakeGross

LEMMA RecordKeeps ==
    ASSUME Inv, NEW w \in Workers, NEW o \in Owners, NEW p \in Payments, NEW g \in Grosses,
           NEW m \in Methods, RecordSettlement(w, o, p, g, m)
    PROVE  Inv'
<1> DEFINE fee == IF m \in Online THEN Fee(g) ELSE 0
           rows == SettlementRows(o, p, g, fee)
           s == [rows |-> rows, payment |-> p, gross |-> g, online |-> m \in Online]
<1>1. g \in Nat \ {0} /\ p # None
  BY GrossAssumption, PaymentAssumption
<1>2. fee \in 0 .. g
  BY <1>1, FeeBounds
<1>3. Rows(rows) /\ MakeUp(rows, p, g, m \in Online)
  BY <1>1, <1>2, SettlementMakesUp
<1>4. session' = [session EXCEPT ![w] = s] /\ UNCHANGED <<ledger, gross, online>>
  BY DEF RecordSettlement
<1>5. gross[p] = 0 /\ \A v \in Workers : session[v].payment # p
  BY DEF RecordSettlement, Fresh
<1> HIDE DEF rows
<1>6. session'[w] = s /\ DOMAIN session' = Workers
      /\ \A v \in Workers \ {w} : session'[v] = session[v]
  BY <1>4 DEF Inv
<1>7. SessionOK(w)'
  BY <1>1, <1>3, <1>4, <1>5, <1>6 DEF SessionOK
<1>8. ASSUME NEW v \in Workers \ {w}
      PROVE  SessionOK(v)'
  <2>1. SessionOK(v) /\ session'[v] = session[v] /\ session'[w].payment = p
    BY <1>6 DEF Inv
  <2>2. \A u \in Workers \ {v} : session[v].payment # None => session'[u].payment # session[v].payment
    BY <1>5, <1>6, <2>1 DEF SessionOK
  <2>3. QED
    BY <1>4, <2>1, <2>2 DEF SessionOK
<1>9. QED
  BY <1>4, <1>6, <1>7, <1>8, BooksStay

LEMMA SessionWithRows ==
    ASSUME NEW old, NEW rows,
           old = [rows |-> old.rows, payment |-> old.payment, gross |-> old.gross,
                  online |-> old.online]
    PROVE  LET new == [old EXCEPT !.rows = rows] IN
           /\ new = [rows |-> new.rows, payment |-> new.payment, gross |-> new.gross,
                      online |-> new.online]
           /\ new.rows = rows /\ new.payment = old.payment /\ new.online = old.online
OBVIOUS

LEMMA AccrueKeeps ==
    ASSUME Inv, NEW w \in Workers, NEW o \in Owners, AccrueUnitFees(w, o)
    PROVE  Inv'
<1> DEFINE r == [owner |-> o, type |-> "unit_subscription", amount |-> -(UnitFee * occupied[o]),
                 after |-> Balance(o, ledger \o <<>>) + (-(UnitFee * occupied[o])),
                 payment |-> None, period |-> month]
           rows == Append(<<>>, r)
           s == [session[w] EXCEPT !.rows = rows]
<1>1. session' = [session EXCEPT ![w].rows = rows] /\ session[w] = Empty
  BY DEF AccrueUnitFees, AppendLedger, Free
<1>2. UNCHANGED <<ledger, gross, online>>
  BY DEF AccrueUnitFees
<1>3. Rows(rows) /\ Len(rows) = 1 /\ rows[1] = r
  BY OneRow
<1>4. DOMAIN rows = {1} /\ rows[1].payment = None
  <2>1. DOMAIN rows = 1 .. 1
    BY <1>3, LenProperties DEF Rows
  <2>2. QED
    BY <1>3, <2>1
<1> HIDE DEF rows
<1>5. session'[w] = s /\ DOMAIN session' = Workers
      /\ \A v \in Workers \ {w} : session'[v] = session[v]
  <2>1. DOMAIN session = Workers
    BY DEF Inv
  <2>2. QED
    BY <1>1, <2>1
<1>6. session'[w].payment = None /\ SessionOK(w)'
  <2>1. session[w] = [rows |-> session[w].rows, payment |-> session[w].payment,
                      gross |-> session[w].gross, online |-> session[w].online]
    BY DEF Inv, SessionOK
  <2>2. session[w].payment = None /\ session[w].online = FALSE
    BY <1>1 DEF Empty
  <2>3. /\ s = [rows |-> s.rows, payment |-> s.payment, gross |-> s.gross, online |-> s.online]
        /\ s.rows = rows /\ s.payment = None /\ s.online = FALSE
    BY <2>1, <2>2, SessionWithRows
  <2> HIDE DEF s
  <2>4. Rows(s.rows) /\ \A i \in DOMAIN s.rows : s.rows[i].payment = None
    BY <1>3, <1>4, <2>3
  <2>5. QED
    BY <1>5, <2>3, <2>4 DEF SessionOK
<1>7. ASSUME NEW v \in Workers \ {w}
      PROVE  SessionOK(v)'
  <2>1. SessionOK(v) /\ session'[v] = session[v] /\ session'[w].payment = None
    BY <1>5, <1>6 DEF Inv
  <2>2. \A u \in Workers \ {v} : session[v].payment # None => session'[u].payment # session[v].payment
    BY <1>5, <2>1 DEF SessionOK
  <2>3. QED
    BY <1>2, <2>1, <2>2 DEF SessionOK
<1>8. QED
  BY <1>2, <1>5, <1>6, <1>7, BooksStay

\* A session that ends frees its payment, if its gross amount is told apart
\* from those of the others.
LEMMA EndKeepsSessions ==
    ASSUME Inv, NEW w \in Workers, session' = [session EXCEPT ![w] = Empty],
           \A v \in Workers \ {w} :
              session[v].payment # None => gross'[session[v].payment] = 0
    PROVE  DOMAIN session' = Workers /\ \A v \in Workers : SessionOK(v)'
<1>1. session'[w] = Empty /\ DOMAIN session' = Workers
      /\ \A v \in Workers \ {w} : session'[v] = session[v]
  BY DEF Inv
<1>2. SessionOK(w)'
  BY <1>1, EmptyRows DEF SessionOK, Empty
<1>3. ASSUME NEW v \in Workers \ {w}
      PROVE  SessionOK(v)'
  <2>1. SessionOK(v) /\ session'[v] = session[v] /\ session'[w].payment = None
    BY <1>1 DEF Inv, Empty
  <2>2. \A u \in Workers \ {v} : session[v].payment # None => session'[u].payment # session[v].payment
    BY <1>1, <2>1 DEF SessionOK
  <2>3. QED
    BY <2>1, <2>2 DEF SessionOK
<1>4. QED
  BY <1>1, <1>2, <1>3

LEMMA AbortKeeps ==
    ASSUME Inv, NEW w \in Workers, Abort(w)
    PROVE  Inv'
<1>1. session' = [session EXCEPT ![w] = Empty] /\ UNCHANGED <<ledger, gross, online>>
  BY DEF Abort
<1>2. \A v \in Workers \ {w} : session[v].payment # None => gross'[session[v].payment] = 0
  BY <1>1 DEF Inv, SessionOK
<1>3. QED
  BY <1>1, <1>2, EndKeepsSessions, BooksStay

LEMMA CommitKeeps ==
    ASSUME Inv, NEW w \in Workers, Commit(w)
    PROVE  Inv'
<1> DEFINE s == session[w]
           n == Len(ledger)
<1>1. SessionOK(w) /\ Rows(ledger) /\ Rows(s.rows)
  BY DEF Inv, SessionOK
<1>2. /\ ledger' = ledger \o s.rows
      /\ session' = [session EXCEPT ![w] = Empty]
      /\ gross' = IF s.payment = None THEN gross ELSE [gross EXCEPT ![s.payment] = s.gross]
      /\ online' = IF s.online THEN online \cup {s.payment} ELSE online
  BY DEF Commit
<1>3. /\ Rows(ledger') /\ n \in Nat /\ Len(s.rows) \in Nat
      /\ DOMAIN ledger = 1 .. n /\ DOMAIN s.rows = 1 .. Len(s.rows)
      /\ DOMAIN ledger' = 1 .. n + Len(s.rows)
      /\ \A i \in 1 .. n : ledger'[i] = ledger[i]
      /\ \A i \in 1 .. Len(s.rows) : ledger'[n + i] = s.rows[i]
  BY <1>1, <1>2, Joined
<1>4. ASSUME NEW p \in Payments,
             \A i \in 1 .. Len(s.rows) : s.rows[i].payment # p
      PROVE  RowsOf(p)' = RowsOf(p) /\ \A i \in RowsOf(p) : ledger'[i] = ledger[i]
  <2>1. ASSUME NEW i \in 1 .. n + Len(s.rows), ~(i \in 1 .. n)
        PROVE  ledger'[i].payment # p
    <3>1. i - n \in 1 .. Len(s.rows) /\ n + (i - n) = i
      BY <1>3, <2>1
    <3>2. ledger'[n + (i - n)] = s.rows[i - n]
      BY <1>3, <3>1
    <3>3. QED
      BY <1>4, <3>1, <3>2
  <2>2. 1 .. n \subseteq 1 .. n + Len(s.rows)
    BY <1>3
  <2>3. QED
    BY <1>3, <2>1, <2>2 DEF RowsOf
<1>5. CASE s.payment = None
  <2>1. ~s.online /\ \A i \in 1 .. Len(s.rows) : s.rows[i].payment = None
    BY <1>1, <1>3, <1>5 DEF SessionOK
  <2>2. gross' = gross /\ online' = online
    BY <1>2, <1>5, <2>1
  <2>3. \A p \in Payments : RowsOf(p)' = RowsOf(p) /\ \A i \in RowsOf(p) : ledger'[i] = ledger[i]
    BY <1>4, <2>1, PaymentAssumption
  <2>4. CreditAndFeeMakeGross'
    BY <2>2, <2>3 DEF Inv, CreditAndFeeMakeGross
  <2>5. \A v \in Workers \ {w} : session[v].payment # None => gross'[session[v].payment] = 0
    BY <2>2 DEF Inv, SessionOK
  <2>6. QED
    BY <1>2, <1>3, <2>2, <2>3, <2>4, <2>5, EndKeepsSessions DEF Inv
<1>6. CASE s.payment # None
  <2>0. PICK q \in Payments : q = s.payment
    BY <1>1, <1>6 DEF SessionOK
  <2>1. /\ q \in Payments /\ gross[q] = 0 /\ s.gross \in Nat \ {0}
        /\ MakeUp(s.rows, q, s.gross, s.online)
        /\ \A v \in Workers \ {w} : session[v].payment # q
    BY <1>1, <1>6, <2>0 DEF SessionOK
  <2>2. gross' = [gross EXCEPT ![q] = s.gross] /\ gross'[q] = s.gross /\ gross' \in [Payments -> Nat]
        /\ \A p \in Payments \ {q} : gross'[p] = gross[p]
    BY <1>2, <1>6, <2>0, <2>1 DEF Inv
  <2>3. \A i \in 1 .. Len(s.rows) : s.rows[i].payment = q
    BY <2>1 DEF MakeUp, Credits, Charges
  <2>4. \A p \in Payments \ {q} :
            RowsOf(p)' = RowsOf(p) /\ \A i \in RowsOf(p) : ledger'[i] = ledger[i]
    BY <1>4, <2>3
  <2>5. RowsOf(q)' = {n + i : i \in 1 .. Len(s.rows)}
    <3>1. \A i \in 1 .. n : ledger[i].payment # q
      BY <1>3, <2>1 DEF Inv, RowsOf
    <3>2. \A i \in 1 .. n + Len(s.rows) : i \in 1 .. n \/ \E k \in 1 .. Len(s.rows) : i = n + k
      <4>1. ASSUME NEW i \in 1 .. n + Len(s.rows), ~(i \in 1 .. n)
            PROVE  i - n \in 1 .. Len(s.rows) /\ i = n + (i - n)
        BY <1>3, <4>1
      <4>2. QED
        BY <4>1
    <3>3. \A k \in 1 .. Len(s.rows) : n + k \in 1 .. n + Len(s.rows)
      BY <1>3
    <3>4. \A k \in 1 .. Len(s.rows) : ledger'[n + k].payment = q
      BY <1>3, <2>3
    <3>5. RowsOf(q)' = {i \in 1 .. n + Len(s.rows) : ledger'[i].payment = q}
      BY <1>3 DEF RowsOf
    <3>6. \A i \in 1 .. n : ledger'[i].payment # q
      BY <1>3, <3>1
    <3>7. QED
      BY <3>2, <3>3, <3>4, <3>5, <3>6
  <2>6. \A p \in Payments \ {q} : p \in online' <=> p \in online
    BY <1>2, <2>0
  <2>7. ASSUME NEW p \in Payments, gross'[p] > 0
        PROVE  Settled(p)'
    <3>1. CASE p # q
      <4>1. gross'[p] = gross[p] /\ RowsOf(p)' = RowsOf(p) /\ (p \in online' <=> p \in online)
            /\ \A i \in RowsOf(p) : ledger'[i] = ledger[i]
        BY <2>2, <2>4, <2>6, <3>1
      <4>2. Settled(p)
        BY <2>7, <4>1, SettledIsMade DEF Inv
      <4>3. QED
        BY <4>1, <4>2 DEF Settled, IsCredit, Alone, WithFee
    <3>0. PICK c \in Nat, f \in Nat : c = n + 1 /\ f = n + 2
      BY <1>3
    <3>2. CASE p = q /\ Len(s.rows) = 1
      <4>1. RowsOf(q)' = {c} /\ ledger'[c] = s.rows[1]
        BY <1>3, <2>5, <3>0, <3>2
      <4>2. Credits(s.rows[1], q) /\ s.rows[1].amount = s.gross /\ (s.online => Fee(s.gross) = 0)
        BY <2>1, <3>2 DEF MakeUp
      <4>3. q \in online' => s.online
        BY <1>2, <2>0, <2>1 DEF Inv
      <4>4. IsCredit(q, c)'
        BY <4>1, <4>2 DEF IsCredit, Credits
      <4>5. Alone(q, c)'
        BY <2>2, <4>1, <4>2, <4>3 DEF Alone
      <4>6. c \in RowsOf(q)'
        BY <4>1
      <4>7. QED
        BY <3>2, <4>4, <4>5, <4>6 DEF Settled
    <3>3. CASE p = q /\ Len(s.rows) = 2
      <4>1. RowsOf(q)' = {c, f} /\ f # c
            /\ ledger'[c] = s.rows[1] /\ ledger'[f] = s.rows[2]
        BY <1>3, <2>5, <3>0, <3>3
      <4>2. /\ Credits(s.rows[1], q) /\ Charges(s.rows[2], q)
            /\ s.rows[1].amount - s.rows[2].amount = s.gross
        BY <2>1, <3>3 DEF MakeUp
      <4>3. IsCredit(q, c)'
        BY <4>1, <4>2 DEF IsCredit, Credits
      <4>4. WithFee(q, c, f)'
        BY <2>2, <4>1, <4>2 DEF WithFee, Charges
      <4>5. c \in RowsOf(q)'
        BY <4>1
      <4>6. QED
        BY <3>3, <4>3, <4>4, <4>5 DEF Settled
    <3>4. QED
      BY <2>1, <3>1, <3>2, <3>3 DEF MakeUp
  <2>8. CreditAndFeeMakeGross'
    <3>1. \A p \in Payments : gross'[p] > 0 => Settled(p)'
      BY <2>7
    <3>2. QED
      BY <3>1 DEF CreditAndFeeMakeGross, Settled, IsCredit, Alone, WithFee
  <2>9. \A p \in Payments : gross'[p] = 0 => RowsOf(p)' = {}
    BY <2>1, <2>2, <2>4 DEF Inv
  <2>10. \A p \in online' : p \in Payments /\ gross'[p] > 0
    BY <1>2, <2>0, <2>1, <2>2 DEF Inv
  <2>11. \A v \in Workers \ {w} : session[v].payment # None => gross'[session[v].payment] = 0
    BY <2>1, <2>2 DEF Inv, SessionOK
  <2>12. QED
    BY <1>2, <1>3, <2>2, <2>8, <2>9, <2>10, <2>11, EndKeepsSessions DEF Inv
<1>7. QED
  BY <1>5, <1>6

LEMMA InvariantKept == Inv /\ [Next]_vars => Inv'
<1> SUFFICES ASSUME Inv, [Next]_vars PROVE Inv'
  OBVIOUS
<1>1. ASSUME UNCHANGED <<ledger, gross, online, session>>
      PROVE  Inv'
  BY <1>1, BooksStay DEF Inv, SessionOK
<1>2. CASE Next
  BY <1>1, <1>2, RecordKeeps, AccrueKeeps, CommitKeeps, AbortKeeps
     DEF Next, SetOccupied, NextMonth
<1>3. QED
  BY <1>1, <1>2 DEF vars

\* For any number of requests at a time, any fee schedule and any amounts, a
\* committed payment has one credit and, when it was charged one, one fee row,
\* which make up its gross amount and neither of which is negative.
THEOREM CreditAndFeeAlwaysMakeGross == Spec => []CreditAndFeeMakeGross
<1>1. Inv => CreditAndFeeMakeGross
  BY DEF Inv
<1>2. QED
  BY <1>1, InitHolds, InvariantKept, PTL DEF Spec

-----------------------------------------------------------------------------
(* The monthly fee.                                                        *)

Bills(r) == r.type = "unit_subscription"

\* Nothing about to be committed, or one row of a month not billed so far.
Billing(w) ==
    LET rows == session[w].rows IN
    \/ \A i \in DOMAIN rows : ~Bills(rows[i])
    \/ /\ DOMAIN rows = {1} /\ rows[1].owner \in Owners
       /\ \A i \in DOMAIN ledger :
             Bills(ledger[i]) /\ ledger[i].owner = rows[1].owner
                 => ledger[i].period # rows[1].period

BillingInv == Inv /\ UnitFeeOncePerMonth /\ \A w \in Workers : Billing(w)

\* No two requests bill one landlord's units at the same time.
AccrualsApart ==
    \A v, w \in Workers, o \in Owners :
        /\ \E i \in DOMAIN session[v].rows :
              Bills(session[v].rows[i]) /\ session[v].rows[i].owner = o
        /\ \E i \in DOMAIN session[w].rows :
              Bills(session[w].rows[i]) /\ session[w].rows[i].owner = o
        => v = w

LEMMA EmptyBills ==
    ASSUME NEW w \in Workers, session[w] = Empty
    PROVE  Billing(w)
BY EmptyRows DEF Billing, Empty

\* Where nothing is committed, only the session that moves has to be looked at.
LEMMA SessionBills ==
    ASSUME BillingInv, Inv', NEW w \in Workers, UNCHANGED ledger,
           \A v \in Workers \ {w} : session'[v] = session[v],
           Billing(w)'
    PROVE  BillingInv'
<1>1. \A v \in Workers \ {w} : Billing(v)'
  BY DEF BillingInv, Billing
<1>2. UnitFeeOncePerMonth'
  BY DEF BillingInv, UnitFeeOncePerMonth
<1>3. QED
  BY <1>1, <1>2 DEF BillingInv

LEMMA RecordBills ==
    ASSUME BillingInv, Inv', NEW w \in Workers, NEW o \in Owners, NEW p \in Payments,
           NEW g \in Grosses, NEW m \in Methods, RecordSettlement(w, o, p, g, m)
    PROVE  BillingInv'
<1> DEFINE s == [rows |-> SettlementRows(o, p, g, IF m \in Online THEN Fee(g) ELSE 0),
                 payment |-> p, gross |-> g, online |-> m \in Online]
<1>1. session' = [session EXCEPT ![w] = s] /\ UNCHANGED ledger
  BY DEF RecordSettlement
<1>2. s.payment # None
  BY PaymentAssumption
<1> HIDE DEF s
<1>3. session'[w] = s /\ \A v \in Workers \ {w} : session'[v] = session[v]
  BY <1>1 DEF BillingInv, Inv
<1>4. SessionOK(w)'
  BY DEF Inv
<1>5. Rows(s.rows) /\ MakeUp(s.rows, s.payment, s.gross, s.online)
  BY <1>2, <1>3, <1>4 DEF SessionOK
<1>6. DOMAIN s.rows = 1 .. Len(s.rows)
  BY <1>5, LenProperties DEF Rows
<1>7. \A i \in DOMAIN s.rows : ~Bills(s.rows[i])
  BY <1>5, <1>6 DEF MakeUp, Credits, Charges, Bills
<1>8. Billing(w)'
  BY <1>3, <1>7 DEF Billing
<1>9. QED
  BY <1>1, <1>3, <1>8, SessionBills

LEMMA AccrueBills ==
    ASSUME BillingInv, Inv', NEW w \in Workers, NEW o \in Owners, AccrueUnitFees(w, o)
    PROVE  BillingInv'
<1> DEFINE r == [owner |-> o, type |-> "unit_subscription", amount |-> -(UnitFee * occupied[o]),
                 after |-> Balance(o, ledger \o <<>>) + (-(UnitFee * occupied[o])),
                 payment |-> None, period |-> month]
           rows == Append(<<>>, r)
<1>1. session' = [session EXCEPT ![w].rows = rows] /\ UNCHANGED ledger /\ ~Accrued(o)
  BY DEF AccrueUnitFees, AppendLedger
<1>2. r.owner = o /\ r.period = month
  OBVIOUS
<1>3. Rows(rows) /\ Len(rows) = 1 /\ rows[1] = r
  BY OneRow
<1>4. DOMAIN rows = {1}
  <2>1. DOMAIN rows = 1 .. 1
    BY <1>3, LenProperties DEF Rows
  <2>2. QED
    BY <2>1
<1> HIDE DEF rows, r
<1>5. DOMAIN session = Workers /\ \A v \in Workers \ {w} : session'[v] = session[v]
  BY <1>1 DEF BillingInv, Inv
<1>6. session[w] = [rows |-> session[w].rows, payment |-> session[w].payment,
                    gross |-> session[w].gross, online |-> session[w].online]
  BY DEF BillingInv, Inv, SessionOK
<1>7. session'[w].rows = rows
  BY <1>1, <1>5, <1>6, SessionWithRows
<1>8. \A i \in DOMAIN ledger : ledger[i].owner = rows[1].owner => ledger[i].period # rows[1].period
  BY <1>1, <1>2, <1>3 DEF Accrued
<1>9. Billing(w)'
  BY <1>1, <1>2, <1>3, <1>4, <1>7, <1>8 DEF Billing
<1>10. QED
  BY <1>1, <1>5, <1>9, SessionBills

LEMMA CommitBills ==
    ASSUME BillingInv, AccrualsApart, Inv', NEW w \in Workers, Commit(w)
    PROVE  BillingInv'
<1> DEFINE rows == session[w].rows
           n == Len(ledger)
<1>1. Rows(ledger) /\ Rows(rows) /\ Billing(w)
  BY DEF BillingInv, Inv, SessionOK
<1>2. ledger' = ledger \o rows /\ session' = [session EXCEPT ![w] = Empty]
  BY DEF Commit
<1>3. /\ n \in Nat /\ Len(rows) \in Nat
      /\ DOMAIN ledger = 1 .. n /\ DOMAIN rows = 1 .. Len(rows)
      /\ DOMAIN ledger' = 1 .. n + Len(rows)
      /\ \A i \in 1 .. n : ledger'[i] = ledger[i]
      /\ \A i \in 1 .. Len(rows) : ledger'[n + i] = rows[i]
  BY <1>1, <1>2, Joined
<1>4. session'[w] = Empty /\ \A v \in Workers \ {w} : session'[v] = session[v]
  BY <1>2 DEF BillingInv, Inv
<1>5. \A i \in DOMAIN ledger' :
          \/ i \in DOMAIN ledger /\ ledger'[i] = ledger[i]
          \/ i \notin DOMAIN ledger /\ \E k \in DOMAIN rows : i = n + k /\ ledger'[i] = rows[k]
  <2>1. ASSUME NEW i \in 1 .. n + Len(rows), ~(i \in 1 .. n)
        PROVE  i - n \in 1 .. Len(rows) /\ i = n + (i - n)
    BY <1>3, <2>1
  <2>2. ASSUME NEW i \in DOMAIN ledger', ~(i \in 1 .. n)
        PROVE  \E k \in DOMAIN rows : i = n + k /\ ledger'[i] = rows[k]
    <3>1. i - n \in 1 .. Len(rows) /\ i = n + (i - n)
      BY <1>3, <2>1, <2>2
    <3>2. ledger'[n + (i - n)] = rows[i - n]
      BY <1>3, <3>1
    <3>3. QED
      BY <1>3, <3>1, <3>2
  <2>3. QED
    BY <1>3, <2>2
<1>6. \A k, l \in DOMAIN rows : Bills(rows[k]) /\ Bills(rows[l]) => k = l
  BY <1>1 DEF Billing
<1>7. \A k \in DOMAIN rows, i \in DOMAIN ledger :
          /\ Bills(rows[k]) /\ Bills(ledger[i]) /\ ledger[i].owner = rows[k].owner
          => ledger[i].period # rows[k].period
  BY <1>1 DEF Billing
<1>8. UnitFeeOncePerMonth'
  <2> SUFFICES ASSUME NEW i \in DOMAIN ledger', NEW j \in DOMAIN ledger',
                      Bills(ledger'[i]), Bills(ledger'[j]),
                      ledger'[i].owner = ledger'[j].owner,
                      ledger'[i].period = ledger'[j].period
               PROVE  i = j
    BY DEF UnitFeeOncePerMonth, Bills
  <2>1. CASE i \in DOMAIN ledger /\ j \in DOMAIN ledger
    BY <1>5, <2>1 DEF BillingInv, UnitFeeOncePerMonth, Bills
  <2>2. CASE i \notin DOMAIN ledger /\ j \notin DOMAIN ledger
    BY <1>5, <1>6, <2>2
  <2>3. CASE ~(i \in DOMAIN ledger <=> j \in DOMAIN ledger)
    BY <1>5, <1>7, <2>3
  <2>4. QED
    BY <2>1, <2>2, <2>3
<1>9. ASSUME NEW v \in Workers \ {w}
      PROVE  Billing(v)'
  <2>1. Billing(v) /\ session'[v] = session[v]
    BY <1>4 DEF BillingInv
  <2>2. CASE \A i \in DOMAIN session[v].rows : ~Bills(session[v].rows[i])
    BY <2>1, <2>2 DEF Billing
  <2>3. CASE ~ \A i \in DOMAIN session[v].rows : ~Bills(session[v].rows[i])
    <3>1. /\ DOMAIN session[v].rows = {1} /\ session[v].rows[1].owner \in Owners
          /\ Bills(session[v].rows[1])
          /\ \A i \in DOMAIN ledger :
                Bills(ledger[i]) /\ ledger[i].owner = session[v].rows[1].owner
                    => ledger[i].period # session[v].rows[1].period
      BY <2>1, <2>3 DEF Billing
    <3>2. \A k \in DOMAIN rows : Bills(rows[k]) => rows[k].owner # session[v].rows[1].owner
      BY <3>1 DEF AccrualsApart
    <3>3. \A i \in DOMAIN ledger' :
              Bills(ledger'[i]) /\ ledger'[i].owner = session[v].rows[1].owner
                  => ledger'[i].period # session[v].rows[1].period
      BY <1>5, <3>1, <3>2
    <3>4. QED
      BY <2>1, <3>1, <3>3 DEF Billing
  <2>4. QED
    BY <2>2, <2>3
<1>10. Billing(w)'
  BY <1>4, EmptyRows DEF Billing, Empty
<1>11. QED
  BY <1>8, <1>9, <1>10 DEF BillingInv

LEMMA NextBills == BillingInv /\ AccrualsApart /\ [Next]_vars => BillingInv'
<1> SUFFICES ASSUME BillingInv, AccrualsApart, [Next]_vars PROVE BillingInv'
  OBVIOUS
<1>1. Inv'
  BY InvariantKept DEF BillingInv
<1>2. ASSUME NEW w \in Workers, Abort(w)
      PROVE  BillingInv'
  <2>1. /\ UNCHANGED ledger /\ session'[w] = Empty
        /\ \A v \in Workers \ {w} : session'[v] = session[v]
    BY <1>2 DEF Abort, BillingInv, Inv
  <2>2. Billing(w)'
    BY <2>1, EmptyRows DEF Billing, Empty
  <2>3. QED
    BY <1>1, <2>1, <2>2, SessionBills
<1>3. ASSUME UNCHANGED <<ledger, session>>
      PROVE  BillingInv'
  BY <1>1, <1>3 DEF BillingInv, UnitFeeOncePerMonth, Billing
<1>4. CASE Next
  BY <1>1, <1>2, <1>3, <1>4, RecordBills, AccrueBills, CommitBills DEF Next, SetOccupied, NextMonth
<1>5. QED
  BY <1>3, <1>4 DEF vars

\* A landlord is billed for the units of a month at most once, as long as no two
\* requests bill him at the same time, whatever else is settled meanwhile and
\* whether the month ends before the commit (accrue_monthly_unit_fees).
THEOREM AccrualsApartBillOnce == Spec /\ []AccrualsApart => []UnitFeeOncePerMonth
<1>1. Init => BillingInv
  <2> SUFFICES ASSUME Init PROVE BillingInv
    OBVIOUS
  <2>1. UnitFeeOncePerMonth
    BY EmptyRows DEF Init, UnitFeeOncePerMonth
  <2>2. \A w \in Workers : Billing(w)
    BY EmptyBills DEF Init
  <2>3. QED
    BY <2>1, <2>2, InitHolds DEF BillingInv
<1>2. BillingInv => UnitFeeOncePerMonth
  BY DEF BillingInv
<1>3. QED
  BY <1>1, <1>2, NextBills, PTL DEF Spec

\* One request at a time, a landlord is billed for the units of a month at most
\* once ("idempotent per month", routers/payments.py).
THEOREM SerialAccrualsBillOnce ==
    ASSUME \A v, w \in Workers : v = w
    PROVE  Spec => []UnitFeeOncePerMonth
<1>1. AccrualsApart
  BY DEF AccrualsApart
<1>2. QED
  BY <1>1, AccrualsApartBillOnce, PTL

-----------------------------------------------------------------------------
(* Balances.                                                               *)

\* The rows of a landlord among some rows.
Of(o, rows) == {j \in DOMAIN rows : rows[j].owner = o}

LEMMA EntryFields ==
    ASSUME NEW rows \in Seq(Entry)
    PROVE  /\ Len(rows) \in Nat /\ DOMAIN rows = 1 .. Len(rows)
           /\ \A i \in DOMAIN rows :
                /\ rows[i] \in Entry /\ rows[i].owner \in Owners /\ rows[i].type \in EntryTypes
                /\ rows[i].amount \in Int /\ rows[i].after \in Int
           /\ IsFiniteSet(DOMAIN rows)
           /\ \A o : Of(o, rows) \subseteq DOMAIN rows /\ IsFiniteSet(Of(o, rows))
<1>1. Len(rows) \in Nat /\ DOMAIN rows = 1 .. Len(rows) /\ \A i \in 1 .. Len(rows) : rows[i] \in Entry
  BY LenProperties, ElementOfSeq
<1>2. IsFiniteSet(1 .. Len(rows))
  BY <1>1, FS_Interval
<1>3. QED
  BY <1>1, <1>2, FS_Subset DEF Entry, Of

LEMMA BalanceIsSum ==
    ASSUME NEW o, NEW rows, NEW f, NEW S, IsFiniteSet(S), S = Of(o, rows),
           \A i \in S : f[i] \in Int /\ f[i] = rows[i].amount
    PROVE  Balance(o, rows) = SumFunctionOnSet(f, S)
<1> DEFINE g == [i \in S |-> rows[i].amount]
<1>1. Balance(o, rows) = SumFunction(g) /\ DOMAIN g = S
  BY DEF Balance, Of
<1>2. \A i \in S : f[i] \in Int /\ f[i] = g[i]
  OBVIOUS
<1> HIDE DEF g
<1>3. SumFunctionOnSet(f, S) = SumFunctionOnSet(g, S)
  BY <1>2, SumSame
<1>4. QED
  BY <1>1, <1>3, SumOfDomain

LEMMA BalanceType ==
    ASSUME NEW o, NEW rows \in Seq(Entry)
    PROVE  Balance(o, rows) \in Int
<1> DEFINE S == Of(o, rows)
           f == [i \in S |-> rows[i].amount]
<1>1. IsFiniteSet(S) /\ S \subseteq DOMAIN rows
  BY EntryFields
<1>2. \A i \in S : f[i] \in Int /\ f[i] = rows[i].amount
  BY <1>1, EntryFields
<1> HIDE DEF f
<1>3. Balance(o, rows) = SumFunctionOnSet(f, S)
  BY <1>1, <1>2, BalanceIsSum
<1>4. QED
  BY <1>1, <1>2, <1>3, SumType

\* Rows of other landlords do not count, and what does not change is not seen.
LEMMA BalanceSame ==
    ASSUME NEW o, NEW s \in Seq(Entry), NEW t, Of(o, t) = Of(o, s),
           \A i \in Of(o, s) : t[i].amount = s[i].amount
    PROVE  Balance(o, t) = Balance(o, s)
<1> DEFINE S == Of(o, s)
           f == [i \in S |-> s[i].amount]
<1>1. IsFiniteSet(S) /\ S \subseteq DOMAIN s
  BY EntryFields
<1>2. \A i \in S : f[i] \in Int /\ f[i] = s[i].amount /\ f[i] = t[i].amount
  BY <1>1, EntryFields
<1> HIDE DEF f
<1>3. S = Of(o, t)
  OBVIOUS
<1> HIDE DEF S
<1>4. Balance(o, t) = SumFunctionOnSet(f, S)
  BY <1>1, <1>2, <1>3, BalanceIsSum
<1>5. Balance(o, s) = SumFunctionOnSet(f, S)
  BY <1>1, <1>2, BalanceIsSum DEF S
<1>6. QED
  BY <1>4, <1>5

\* One more row adds its amount, if it is the landlord's.
LEMMA BalanceGrows ==
    ASSUME NEW o, NEW s \in Seq(Entry), NEW t \in Seq(Entry), Len(t) = Len(s) + 1,
           \A i \in 1 .. Len(s) : t[i] = s[i]
    PROVE  Balance(o, t) = Balance(o, s) + IF t[Len(t)].owner = o THEN t[Len(t)].amount ELSE 0
<1> DEFINE n == Len(t)
           S == Of(o, s)
           T == Of(o, t)
           f == [i \in T |-> t[i].amount]
<1>1. /\ Len(s) \in Nat /\ DOMAIN s = 1 .. Len(s) /\ S \subseteq DOMAIN s /\ IsFiniteSet(S)
      /\ DOMAIN t = 1 .. Len(s) + 1 /\ T \subseteq DOMAIN t /\ IsFiniteSet(T)
      /\ \A i \in DOMAIN t : t[i].amount \in Int
  BY EntryFields
<1>2. n = Len(s) + 1 /\ n \notin 1 .. Len(s) /\ 1 .. n = (1 .. Len(s)) \cup {n}
  BY <1>1
<1>3. T \ {n} = S /\ (n \in T <=> t[n].owner = o)
  BY <1>1, <1>2 DEF Of
<1>4. \A i \in T : f[i] \in Int /\ f[i] = t[i].amount
  BY <1>1
<1>5. \A i \in S : f[i] = s[i].amount
  BY <1>1, <1>3, <1>4
<1> HIDE DEF f, n
<1>6. Balance(o, t) = SumFunctionOnSet(f, T)
  <2> HIDE DEF T
  <2>1. QED
    BY <1>1, <1>4, BalanceIsSum DEF T
<1>7. Balance(o, s) = SumFunctionOnSet(f, S)
  <2> HIDE DEF S
  <2>1. QED
    BY <1>1, <1>3, <1>4, <1>5, BalanceIsSum DEF S
<1>8. CASE t[n].owner = o
  <2> HIDE DEF S, T
  <2>0. n \in T /\ IsFiniteSet(T) /\ (\A i \in T : f[i] \in Int) /\ S = T \ {n}
    BY <1>1, <1>3, <1>4, <1>8
  <2>1. SumFunctionOnSet(f, T) = f[n] + SumFunctionOnSet(f, S)
    <3>1. SumFunctionOnSet(f, T) = f[n] + SumFunctionOnSet(f, T \ {n})
      BY <2>0, SumRemove
    <3>2. QED
      BY <2>0, <3>1
  <2>2. SumFunctionOnSet(f, S) \in Int /\ f[n] \in Int /\ f[n] = t[n].amount
    BY <1>1, <1>3, <1>4, <1>8, SumType
  <2>3. QED
    BY <1>6, <1>7, <1>8, <2>1, <2>2 DEF n
<1>9. CASE t[n].owner # o
  <2>1. T = S
    BY <1>3, <1>9
  <2>2. Balance(o, s) \in Int
    BY BalanceType
  <2> HIDE DEF S, T
  <2>3. QED
    BY <1>6, <1>7, <1>9, <2>1, <2>2 DEF n
<1>10. QED
  BY <1>8, <1>9

LEMMA BalanceJoinsOne ==
    ASSUME NEW o, NEW s \in Seq(Entry), NEW one \in Seq(Entry), Len(one) = 1
    PROVE  Balance(o, s \o one) = Balance(o, s) + IF one[1].owner = o THEN one[1].amount ELSE 0
<1> DEFINE t == s \o one
<1>1. /\ t \in Seq(Entry) /\ Len(t) = Len(s) + Len(one)
      /\ \A i \in 1 .. Len(s) + Len(one) : t[i] = IF i <= Len(s) THEN s[i] ELSE one[i - Len(s)]
  BY ConcatProperties
<1>2. Len(s) \in Nat
  BY LenProperties
<1> HIDE DEF t
<1>3. /\ t \in Seq(Entry) /\ Len(t) = Len(s) + 1 /\ t[Len(t)] = one[1]
      /\ \A i \in 1 .. Len(s) : t[i] = s[i]
  BY <1>1, <1>2
<1>4. Balance(o, t) = Balance(o, s) + IF t[Len(t)].owner = o THEN t[Len(t)].amount ELSE 0
  BY <1>3, BalanceGrows
<1>5. QED
  BY <1>3, <1>4 DEF t

\* Sequences of the same rows.
LEMMA BalanceEqual ==
    ASSUME NEW o, NEW s \in Seq(Entry), NEW t \in Seq(Entry), Len(t) = Len(s),
           \A i \in 1 .. Len(s) : t[i] = s[i]
    PROVE  Balance(o, t) = Balance(o, s)
<1>1. DOMAIN s = 1 .. Len(s) /\ DOMAIN t = 1 .. Len(s)
  BY EntryFields
<1>2. Of(o, t) = Of(o, s) /\ \A i \in Of(o, s) : t[i].amount = s[i].amount
  BY <1>1 DEF Of
<1>3. QED
  BY <1>2, BalanceSame

\* Rows of other landlords do not count.
LEMMA BalanceApart ==
    ASSUME NEW o, NEW s \in Seq(Entry), NEW rows \in Seq(Entry),
           \A i \in DOMAIN rows : rows[i].owner # o
    PROVE  Balance(o, s \o rows) = Balance(o, s)
<1> DEFINE t == s \o rows
<1>1. /\ Len(t) = Len(s) + Len(rows) /\ t \in Seq(Entry)
      /\ \A i \in 1 .. Len(s) + Len(rows) : t[i] = IF i <= Len(s) THEN s[i] ELSE rows[i - Len(s)]
  BY ConcatProperties
<1> HIDE DEF t
<1>2. /\ Len(s) \in Nat /\ Len(rows) \in Nat /\ DOMAIN rows = 1 .. Len(rows)
      /\ DOMAIN s = 1 .. Len(s) /\ DOMAIN t = 1 .. Len(s) + Len(rows)
  BY <1>1, EntryFields
<1>3. \A i \in 1 .. Len(s) : i \in 1 .. Len(s) + Len(rows) /\ t[i] = s[i]
  BY <1>1, <1>2
<1>4. ASSUME NEW i \in 1 .. Len(s) + Len(rows), ~(i \in 1 .. Len(s))
      PROVE  t[i].owner # o
  <2>1. i - Len(s) \in 1 .. Len(rows) /\ ~(i <= Len(s))
    BY <1>2, <1>4
  <2>2. t[i] = rows[i - Len(s)]
    BY <1>1, <2>1
  <2>3. QED
    BY <1>2, <2>1, <2>2
<1>5. Of(o, t) = Of(o, s)
  BY <1>2, <1>3, <1>4 DEF Of
<1>6. \A i \in Of(o, s) : t[i].amount = s[i].amount
  BY <1>2, <1>3 DEF Of
<1>7. Balance(o, t) = Balance(o, s)
  BY <1>5, <1>6, BalanceSame
<1>8. QED
  BY <1>7 DEF t

LEMMA Prefix ==
    ASSUME NEW s \in Seq(Entry), NEW i \in 1 .. Len(s)
    PROVE  /\ SubSeq(s, 1, i) \in Seq(Entry) /\ Len(SubSeq(s, 1, i)) = i
           /\ \A j \in 1 .. i : SubSeq(s, 1, i)[j] = s[j]
<1>1. Len(s) \in Nat /\ \A j \in 1 .. Len(s) : s[j] \in Entry
  BY LenProperties, ElementOfSeq
<1>2. i \in Int /\ 1 \in Int /\ 1 <= i /\ i - 1 + 1 = i /\ \A j \in 1 .. i : s[j] \in Entry
  BY <1>1
<1>3. /\ SubSeq(s, 1, i) \in Seq(Entry)
      /\ Len(SubSeq(s, 1, i)) = IF 1 <= i THEN i - 1 + 1 ELSE 0
      /\ \A j \in 1 .. i - 1 + 1 : SubSeq(s, 1, i)[j] = s[1 + j - 1]
  BY <1>2, SubSeqProperties
<1>4. \A j \in 1 .. i : 1 + j - 1 = j
  BY <1>2
<1>5. QED
  BY <1>2, <1>3, <1>4

-----------------------------------------------------------------------------
(* What is written has its type, and its sign.                             *)

\* A credit is no charge, and a fee no gift.
Fits(type, amount) == IF type = "rent_credit" THEN amount >= 0 ELSE amount <= 0

Signed(r) == Fits(r.type, r.amount)

Typed ==
    /\ Inv
    /\ TypeOK
    /\ \A i \in DOMAIN ledger : Signed(ledger[i])
    /\ \A w \in Workers : \A i \in DOMAIN session[w].rows : Signed(session[w].rows[i])

SignedRows == {r \in Entry : Signed(r)}

LEMMA SignedSeq ==
    ASSUME NEW rows
    PROVE  (rows \in Seq(Entry) /\ \A i \in DOMAIN rows : Signed(rows[i])) <=> rows \in Seq(SignedRows)
<1>1. ASSUME rows \in Seq(Entry), \A i \in DOMAIN rows : Signed(rows[i])
      PROVE  rows \in Seq(SignedRows)
  <2>1. /\ rows \in [1 .. Len(rows) -> Entry] /\ Len(rows) \in Nat /\ DOMAIN rows = 1 .. Len(rows)
    BY <1>1, LenProperties
  <2>2. rows \in [1 .. Len(rows) -> SignedRows]
    BY <1>1, <2>1 DEF SignedRows
  <2>3. QED
    BY <2>1, <2>2, SeqDef
<1>2. ASSUME rows \in Seq(SignedRows)
      PROVE  rows \in Seq(Entry) /\ \A i \in DOMAIN rows : Signed(rows[i])
  <2>1. /\ rows \in [1 .. Len(rows) -> SignedRows] /\ Len(rows) \in Nat
        /\ DOMAIN rows = 1 .. Len(rows)
    BY <1>2, LenProperties
  <2>2. rows \in [1 .. Len(rows) -> Entry]
    BY <2>1 DEF SignedRows
  <2>3. \A i \in DOMAIN rows : Signed(rows[i])
    BY <2>1 DEF SignedRows
  <2>4. QED
    BY <2>1, <2>2, <2>3, SeqDef
<1>3. QED
  BY <1>1, <1>2

\* s is rows and one more, of landlord o and with this amount, which says what
\* the ledger and the rows before it add up to.
Continues(s, rows, o, amount) ==
    /\ s \in Seq(SignedRows) /\ Len(s) = Len(rows) + 1
    /\ \A i \in 1 .. Len(rows) : s[i] = rows[i]
    /\ s[Len(s)].owner = o /\ s[Len(s)].amount = amount
    /\ s[Len(s)].after = Balance(o, ledger \o rows) + amount

\* A row appended to a session is one of the ledger's, with the balance before
\* it and its amount.
LEMMA AppendedRow ==
    ASSUME TypeOK, NEW rows \in Seq(SignedRows), NEW o \in Owners, NEW type \in EntryTypes,
           NEW amount \in Int, NEW p \in Payments \cup {None}, NEW period \in Nat,
           Fits(type, amount),
           NEW s, s = AppendLedger(rows, o, type, amount, p, period)
    PROVE  Continues(s, rows, o, amount)
<1> DEFINE r == [owner |-> o, type |-> type, amount |-> amount,
                 after |-> Balance(o, ledger \o rows) + amount,
                 payment |-> p, period |-> period]
<1>1. s = Append(rows, r)
  BY DEF AppendLedger
<1>2. ledger \o rows \in Seq(Entry)
  BY SignedSeq, ConcatProperties DEF TypeOK
<1>3. Balance(o, ledger \o rows) \in Int
  BY <1>2, BalanceType
<1>4. r \in SignedRows
  BY <1>3 DEF SignedRows, Entry, Signed
<1>5. r.owner = o /\ r.amount = amount /\ r.after = Balance(o, ledger \o rows) + amount
  OBVIOUS
<1> HIDE DEF r
<1>6. /\ Append(rows, r) \in Seq(SignedRows) /\ Len(Append(rows, r)) = Len(rows) + 1
      /\ \A i \in 1 .. Len(rows) : Append(rows, r)[i] = rows[i]
      /\ Append(rows, r)[Len(rows) + 1] = r
  BY <1>4, AppendProperties
<1>7. QED
  BY <1>1, <1>5, <1>6 DEF Continues

\* What a session holds continues the ledger for one landlord.
Running(rows) ==
    /\ Len(rows) <= 2
    /\ Len(rows) >= 1 => rows[1].after = Balance(rows[1].owner, ledger) + rows[1].amount
    /\ Len(rows) = 2 => /\ rows[2].owner = rows[1].owner
                        /\ rows[2].after = rows[1].after + rows[2].amount

LEMMA NoRows == <<>> \in Seq(SignedRows) /\ Len(<<>>) = 0 /\ DOMAIN <<>> = {} /\ Running(<<>>)
<1>1. <<>> \in Seq(SignedRows) /\ Len(<<>>) = 0
  BY EmptySeq
<1>2. QED
  BY <1>1, EmptyRows DEF Running

\* A first row continues the ledger.
LEMMA FirstRow ==
    ASSUME TypeOK, NEW o \in Owners, NEW type \in EntryTypes,
           NEW amount \in Int, NEW p \in Payments \cup {None}, NEW period \in Nat,
           Fits(type, amount),
           NEW s, s = AppendLedger(<<>>, o, type, amount, p, period)
    PROVE  /\ s \in Seq(SignedRows) /\ Len(s) = 1 /\ Running(s)
           /\ s[1].owner = o /\ s[1].amount = amount
<1>1. /\ s \in Seq(SignedRows) /\ Len(s) = 1
      /\ s[1].owner = o /\ s[1].amount = amount
      /\ s[1].after = Balance(o, ledger \o <<>>) + amount
  <2> DEFINE none == <<>>
  <2>1. none \in Seq(SignedRows) /\ Len(none) = 0 /\ s = AppendLedger(none, o, type, amount, p, period)
    BY NoRows
  <2> HIDE DEF none
  <2>2. Continues(s, none, o, amount)
    BY <2>1, AppendedRow, Zenon
  <2>3. QED
    BY <2>1, <2>2 DEF none, Continues
<1>2. ledger \o <<>> = ledger
  BY ConcatEmptySeq DEF TypeOK
<1>3. Running(s)
  BY <1>1, <1>2 DEF Running
<1>4. QED
  BY <1>1, <1>3

\* So do the two rows of a settlement that is charged.
LEMMA SettlementRuns ==
    ASSUME TypeOK, NEW o \in Owners, NEW p \in Payments, NEW g \in Nat, NEW fee \in 0 .. g
    PROVE  /\ SettlementRows(o, p, g, fee) \in Seq(SignedRows)
           /\ Running(SettlementRows(o, p, g, fee))
<1> DEFINE one == AppendLedger(<<>>, o, "rent_credit", g - fee, p, 0)
           two == AppendLedger(one, o, "platform_fee", -fee, p, 0)
<1>1. /\ one \in Seq(SignedRows) /\ Len(one) = 1 /\ Running(one)
      /\ one[1].owner = o /\ one[1].amount = g - fee
  <2>1. "rent_credit" \in EntryTypes /\ g - fee \in Int /\ Fits("rent_credit", g - fee)
    BY DEF EntryTypes, Fits
  <2> HIDE DEF one
  <2>2. QED
    BY <2>1, FirstRow DEF one
<1>2. /\ two \in Seq(SignedRows) /\ Len(two) = 2 /\ two[1] = one[1]
      /\ two[2].owner = o /\ two[2].amount = -fee
      /\ two[2].after = Balance(o, ledger \o one) + (-fee)
  <2> HIDE DEF one
  <2>1. "platform_fee" \in EntryTypes /\ -fee \in Int /\ Fits("platform_fee", -fee)
    BY DEF EntryTypes, Fits
  <2>2. Continues(two, one, o, -fee)
    <3> HIDE DEF two
    <3>1. two = AppendLedger(one, o, "platform_fee", -fee, p, 0) /\ 0 \in Nat
      BY DEF two
    <3>2. QED
      BY <1>1, <2>1, <3>1, AppendedRow, Zenon
  <2> HIDE DEF two
  <2>3. QED
    BY <1>1, <2>2 DEF Continues
<1>3. Balance(o, ledger \o one) = Balance(o, ledger) + (g - fee)
  <2> HIDE DEF one
  <2>1. one \in Seq(Entry) /\ ledger \in Seq(Entry)
    BY <1>1, SignedSeq DEF TypeOK
  <2>2. Balance(o, ledger \o one)
           = Balance(o, ledger) + IF one[1].owner = o THEN one[1].amount ELSE 0
    BY <1>1, <2>1, BalanceJoinsOne
  <2>3. QED
    BY <1>1, <2>2
<1>4. Balance(o, ledger) \in Int
  BY BalanceType DEF TypeOK
<1> HIDE DEF one, two
<1>5. Running(two)
  BY <1>1, <1>2, <1>3, <1>4 DEF Running
<1>6. SettlementRows(o, p, g, fee) = IF fee > 0 THEN two ELSE one
  BY DEF SettlementRows, one, two
<1>7. QED
  BY <1>1, <1>2, <1>5, <1>6

\* Where nothing is committed, only the session that moves has to be looked at.
LEMMA SessionTyped ==
    ASSUME Typed, Inv', NEW w \in Workers, UNCHANGED <<ledger, gross, online, occupied, month>>,
           NEW s, session' = [session EXCEPT ![w] = s],
           s \in Session, s.rows \in Seq(SignedRows)
    PROVE  Typed'
<1>1. session' \in [Workers -> Session] /\ session'[w] = s
      /\ \A v \in Workers \ {w} : session'[v] = session[v]
  BY DEF Typed, TypeOK
<1>2. TypeOK'
  BY <1>1 DEF Typed, TypeOK
<1>3. \A i \in DOMAIN s.rows : Signed(s.rows[i])
  BY SignedSeq
<1>4. \A v \in Workers : \A i \in DOMAIN session'[v].rows : Signed(session'[v].rows[i])
  BY <1>1, <1>3 DEF Typed
<1>5. QED
  BY <1>2, <1>4 DEF Typed

LEMMA RecordTyped ==
    ASSUME Typed, Inv', NEW w \in Workers, NEW o \in Owners, NEW p \in Payments,
           NEW g \in Grosses, NEW m \in Methods, RecordSettlement(w, o, p, g, m)
    PROVE  Typed'
<1> DEFINE fee == IF m \in Online THEN Fee(g) ELSE 0
           rows == SettlementRows(o, p, g, fee)
           s == [rows |-> rows, payment |-> p, gross |-> g, online |-> m \in Online]
<1>1. g \in Nat
  BY GrossAssumption
<1>2. fee \in 0 .. g
  BY <1>1, FeeBounds
<1>3. rows \in Seq(SignedRows) /\ rows \in Seq(Entry)
  <2> HIDE DEF fee
  <2>1. rows \in Seq(SignedRows)
    BY <1>1, <1>2, SettlementRuns DEF Typed
  <2>2. QED
    BY <2>1, SignedSeq
<1>4. session' = [session EXCEPT ![w] = s] /\ UNCHANGED <<ledger, gross, online, occupied, month>>
  BY DEF RecordSettlement
<1> HIDE DEF rows
<1>5. s \in Session /\ s.rows \in Seq(SignedRows)
  BY <1>1, <1>3 DEF Session
<1> HIDE DEF s
<1>6. QED
  BY <1>4, <1>5, SessionTyped

LEMMA AccruedRow ==
    ASSUME Typed, NEW w \in Workers, NEW o \in Owners, AccrueUnitFees(w, o)
    PROVE  \E rows \in Seq(SignedRows) :
              /\ session' = [session EXCEPT ![w].rows = rows]
              /\ Len(rows) = 1 /\ Running(rows)
<1> DEFINE amount == -(UnitFee * occupied[o])
           rows == AppendLedger(<<>>, o, "unit_subscription", amount, None, month)
<1>1. occupied[o] \in Nat /\ month \in Nat /\ UnitFee \in Nat /\ TypeOK
  BY FeeAssumption, BoundAssumption DEF Typed, TypeOK
<1>2. UnitFee * occupied[o] \in Nat
  BY <1>1
<1>3. amount \in Int /\ Fits("unit_subscription", amount) /\ "unit_subscription" \in EntryTypes
  BY <1>2 DEF Fits, EntryTypes
<1>4. session' = [session EXCEPT ![w].rows = rows]
  BY DEF AccrueUnitFees
<1>5. rows \in Seq(SignedRows) /\ Len(rows) = 1 /\ Running(rows)
  <2> HIDE DEF amount
  <2>1. None \in Payments \cup {None} /\ rows = AppendLedger(<<>>, o, "unit_subscription", amount, None, month)
    OBVIOUS
  <2> HIDE DEF rows
  <2>2. QED
    BY <1>1, <1>3, <2>1, FirstRow
<1> HIDE DEF rows
<1>6. QED
  BY <1>4, <1>5

LEMMA AccrueTyped ==
    ASSUME Typed, Inv', NEW w \in Workers, NEW o \in Owners, AccrueUnitFees(w, o)
    PROVE  Typed'
<1>1. PICK rows \in Seq(SignedRows) : session' = [session EXCEPT ![w].rows = rows]
  BY AccruedRow
<1> DEFINE s == [session[w] EXCEPT !.rows = rows]
<1>2. rows \in Seq(Entry) /\ session[w] \in Session /\ DOMAIN session = Workers
  BY SignedSeq DEF Typed, TypeOK
<1>3. s \in Session /\ s.rows = rows
  BY <1>2 DEF Session
<1>4. session' = [session EXCEPT ![w] = s]
  BY <1>1, <1>2
<1>5. UNCHANGED <<ledger, gross, online, occupied, month>>
  BY DEF AccrueUnitFees
<1> HIDE DEF s
<1>6. QED
  BY <1>3, <1>4, <1>5, SessionTyped

LEMMA EmptyTyped == Empty \in Session /\ Empty.rows \in Seq(SignedRows)
<1>1. <<>> \in Seq(Entry) /\ <<>> \in Seq(SignedRows)
  BY EmptySeq
<1>2. QED
  BY <1>1 DEF Empty, Session

LEMMA CommitTyped ==
    ASSUME Typed, Inv', NEW w \in Workers, Commit(w)
    PROVE  Typed'
<1> DEFINE s == session[w]
<1>1. s \in Session /\ ledger \in Seq(SignedRows) /\ s.rows \in Seq(SignedRows)
  <2>1. s \in Session /\ ledger \in Seq(Entry) /\ s.rows \in Seq(Entry)
    BY DEF Typed, TypeOK, Session
  <2>2. (\A i \in DOMAIN ledger : Signed(ledger[i])) /\ \A i \in DOMAIN s.rows : Signed(s.rows[i])
    BY DEF Typed
  <2> HIDE DEF s
  <2>3. QED
    BY <2>1, <2>2, SignedSeq
<1>2. ledger' \in Seq(SignedRows)
  BY <1>1, ConcatProperties DEF Commit
<1>3. gross' \in [Payments -> Nat] /\ UNCHANGED <<occupied, month>>
  BY DEF Commit, Inv
<1>4. online' \subseteq Payments
  BY DEF Inv
<1>5. session' = [session EXCEPT ![w] = Empty]
  BY DEF Commit
<1>6. session' \in [Workers -> Session] /\ session'[w] = Empty
      /\ \A v \in Workers \ {w} : session'[v] = session[v]
  BY <1>5, EmptyTyped DEF Typed, TypeOK
<1>7. TypeOK'
  BY <1>2, <1>3, <1>4, <1>6, SignedSeq DEF Typed, TypeOK
<1>8. \A v \in Workers : \A i \in DOMAIN session'[v].rows : Signed(session'[v].rows[i])
  BY <1>6, EmptyTyped, SignedSeq DEF Typed
<1>9. QED
  BY <1>2, <1>7, <1>8, SignedSeq DEF Typed

LEMMA NextTyped == Typed /\ [Next]_vars => Typed'
<1> SUFFICES ASSUME Typed, [Next]_vars PROVE Typed'
  OBVIOUS
<1>1. Inv'
  BY InvariantKept DEF Typed
<1>2. ASSUME NEW w \in Workers, Abort(w)
      PROVE  Typed'
  <2>1. session' = [session EXCEPT ![w] = Empty] /\ UNCHANGED <<ledger, gross, online, occupied, month>>
    BY <1>2 DEF Abort
  <2>2. QED
    BY <1>1, <2>1, EmptyTyped, SessionTyped
<1>3. ASSUME NEW o \in Owners, NEW n \in 0 .. MaxUnits, SetOccupied(o, n)
      PROVE  Typed'
  BY <1>1, <1>3 DEF SetOccupied, Typed, TypeOK
<1>4. CASE NextMonth
  <2>1. month' \in 1 .. MaxMonth
    BY <1>4, BoundAssumption DEF NextMonth, Typed, TypeOK
  <2>2. QED
    BY <1>1, <1>4, <2>1 DEF NextMonth, Typed, TypeOK
<1>5. CASE UNCHANGED vars
  BY <1>1, <1>5 DEF vars, Typed, TypeOK
<1>6. CASE Next
  BY <1>1, <1>2, <1>3, <1>4, <1>6, RecordTyped, AccrueTyped, CommitTyped DEF Next
<1>7. QED
  BY <1>5, <1>6

LEMMA InitTyped == Init => Typed
<1> SUFFICES ASSUME Init PROVE Typed
  OBVIOUS
<1>1. <<>> \in Seq(Entry) /\ DOMAIN <<>> = {}
  BY NoRows, SignedSeq
<1>2. TypeOK
  BY <1>1, EmptyTyped, BoundAssumption DEF Init, TypeOK
<1>3. QED
  BY <1>1, <1>2, InitHolds DEF Init, Typed, Empty

-----------------------------------------------------------------------------
(* The summaries, which are sums over sets of rows.                        *)

Fees(type) ==
    [i \in DOMAIN ledger |-> IF ledger[i].type = type THEN Magnitude(ledger[i].amount) ELSE 0]

Credit == [i \in DOMAIN ledger |-> IF ledger[i].type = "rent_credit" THEN ledger[i].amount ELSE 0]

Amounts == [i \in DOMAIN ledger |-> ledger[i].amount]

BothFees == [i \in DOMAIN ledger |-> Fees("platform_fee")[i] + Fees("unit_subscription")[i]]

\* What each row adds to the figures of a summary.
LEMMA Shares ==
    ASSUME Typed
    PROVE  /\ IsFiniteSet(DOMAIN ledger)
           /\ \A i \in DOMAIN ledger :
                /\ Amounts[i] \in Int /\ Credit[i] \in Nat
                /\ \A type \in EntryTypes : Fees(type)[i] \in Nat
                /\ BothFees[i] \in Nat
                /\ BothFees[i] = Fees("platform_fee")[i] + Fees("unit_subscription")[i]
                /\ Credit[i] = Amounts[i] + BothFees[i]
<1>1. ledger \in Seq(Entry)
  BY DEF Typed, TypeOK
<1>2. IsFiniteSet(DOMAIN ledger)
  BY <1>1, EntryFields
<1>3. ASSUME NEW i \in DOMAIN ledger
      PROVE  /\ Amounts[i] \in Int /\ Credit[i] \in Nat
             /\ \A type \in EntryTypes : Fees(type)[i] \in Nat
             /\ BothFees[i] \in Nat
             /\ BothFees[i] = Fees("platform_fee")[i] + Fees("unit_subscription")[i]
             /\ Credit[i] = Amounts[i] + BothFees[i]
  <2>1. ledger[i].amount \in Int /\ ledger[i].type \in EntryTypes
    BY <1>1, EntryFields
  <2>2. Fits(ledger[i].type, ledger[i].amount)
    BY DEF Typed, Signed
  <2>3. PICK type \in EntryTypes, n \in Int : type = ledger[i].type /\ n = ledger[i].amount
    BY <2>1
  <2>4. /\ Amounts[i] = n /\ Credit[i] = IF type = "rent_credit" THEN n ELSE 0
        /\ \A other : Fees(other)[i] = IF type = other THEN Magnitude(n) ELSE 0
        /\ BothFees[i] = Fees("platform_fee")[i] + Fees("unit_subscription")[i]
    BY <2>3 DEF Amounts, Credit, Fees, BothFees
  <2>5. IF type = "rent_credit" THEN n >= 0 ELSE n <= 0
    BY <2>2, <2>3 DEF Fits
  <2>6. Magnitude(n) \in Nat /\ (n <= 0 => Magnitude(n) = -n)
    BY DEF Magnitude
  <2>7. Fees("platform_fee")[i] = (IF type = "platform_fee" THEN Magnitude(n) ELSE 0)
        /\ Fees("unit_subscription")[i] = (IF type = "unit_subscription" THEN Magnitude(n) ELSE 0)
    BY <2>4
  <2> HIDE DEF Magnitude
  <2>8. CASE type = "rent_credit"
    BY <2>4, <2>5, <2>6, <2>7, <2>8
  <2>9. CASE type = "platform_fee"
    BY <2>4, <2>5, <2>6, <2>7, <2>9
  <2>10. CASE type = "unit_subscription"
    BY <2>4, <2>5, <2>6, <2>7, <2>10
  <2>11. QED
    BY <2>8, <2>9, <2>10 DEF EntryTypes
<1>4. QED
  BY <1>2, <1>3

LEMMA FigureIsSum ==
    ASSUME NEW S, IsFiniteSet(S), NEW f, NEW g, g = [i \in S |-> g[i]],
           \A i \in S : f[i] \in Int /\ f[i] = g[i]
    PROVE  SumFunction(g) = SumFunctionOnSet(f, S)
<1>1. DOMAIN g = S
  OBVIOUS
<1>2. SumFunctionOnSet(f, S) = SumFunctionOnSet(g, S)
  BY SumSame
<1>3. QED
  BY <1>1, <1>2, SumOfDomain

\* A figure of a summary is the sum of the shares of the rows it looks at.
LEMMA FiguresAreSums ==
    ASSUME Typed, NEW S \in SUBSET DOMAIN ledger
    PROVE  /\ IsFiniteSet(S)
           /\ Credited(S) = SumFunctionOnSet(Credit, S)
           /\ \A type \in EntryTypes : Charged(type, S) = SumFunctionOnSet(Fees(type), S)
           /\ SumFunctionOnSet(BothFees, S)
                 = Charged("platform_fee", S) + Charged("unit_subscription", S)
           /\ SumFunctionOnSet(Credit, S)
                 = SumFunctionOnSet(Amounts, S) + SumFunctionOnSet(BothFees, S)
           /\ SumFunctionOnSet(Amounts, S) \in Int
           /\ Credited(S) \in Int
           /\ \A type \in EntryTypes : Charged(type, S) \in Int
<1>1. IsFiniteSet(S) /\ S \subseteq DOMAIN ledger
  BY Shares, FS_Subset
<1>2. \A i \in S :
          /\ Amounts[i] \in Int /\ Credit[i] \in Int
          /\ \A type \in EntryTypes : Fees(type)[i] \in Int
          /\ BothFees[i] \in Int
          /\ BothFees[i] = Fees("platform_fee")[i] + Fees("unit_subscription")[i]
          /\ Credit[i] = Amounts[i] + BothFees[i]
  BY <1>1, Shares
<1>3. Credited(S) = SumFunctionOnSet(Credit, S)
  <2> DEFINE g == [i \in S |-> IF ledger[i].type = "rent_credit" THEN ledger[i].amount ELSE 0]
  <2>1. g = [i \in S |-> g[i]] /\ \A i \in S : Credit[i] = g[i]
    BY <1>1 DEF Credit
  <2>2. Credited(S) = SumFunction(g)
    BY DEF Credited
  <2> HIDE DEF g
  <2>3. QED
    BY <1>1, <1>2, <2>1, <2>2, FigureIsSum
<1>4. ASSUME NEW type \in EntryTypes
      PROVE  Charged(type, S) = SumFunctionOnSet(Fees(type), S)
  <2> DEFINE f == Fees(type)
             g == [i \in S |-> IF ledger[i].type = type THEN Magnitude(ledger[i].amount) ELSE 0]
  <2>1. g = [i \in S |-> g[i]] /\ \A i \in S : f[i] \in Int /\ f[i] = g[i]
    BY <1>1, <1>2 DEF Fees
  <2>2. Charged(type, S) = SumFunction(g)
    BY DEF Charged
  <2> HIDE DEF f, g
  <2>3. SumFunction(g) = SumFunctionOnSet(f, S)
    BY <1>1, <2>1, FigureIsSum
  <2>4. QED
    BY <2>2, <2>3 DEF f
<1>5. "platform_fee" \in EntryTypes /\ "unit_subscription" \in EntryTypes
  BY DEF EntryTypes
<1>6. SumFunctionOnSet(BothFees, S)
         = SumFunctionOnSet(Fees("platform_fee"), S) + SumFunctionOnSet(Fees("unit_subscription"), S)
  <2> DEFINE f == Fees("platform_fee")
             g == Fees("unit_subscription")
             h == BothFees
  <2>1. \A i \in S : f[i] \in Int /\ g[i] \in Int /\ h[i] = f[i] + g[i]
    BY <1>2, <1>5
  <2> HIDE DEF f, g, h
  <2>2. SumFunctionOnSet(h, S) = SumFunctionOnSet(f, S) + SumFunctionOnSet(g, S)
    BY <1>1, <2>1, SumPlus
  <2>3. QED
    BY <2>2 DEF f, g, h
<1>7. SumFunctionOnSet(Credit, S) = SumFunctionOnSet(Amounts, S) + SumFunctionOnSet(BothFees, S)
  BY <1>1, <1>2, SumPlus
<1>8. SumFunctionOnSet(Amounts, S) \in Int /\ SumFunctionOnSet(Credit, S) \in Int
  BY <1>1, <1>2, SumType
<1>9. ASSUME NEW type \in EntryTypes
      PROVE  SumFunctionOnSet(Fees(type), S) \in Int
  <2> DEFINE f == Fees(type)
  <2>1. \A i \in S : f[i] \in Int
    BY <1>2
  <2> HIDE DEF f
  <2>2. SumFunctionOnSet(f, S) \in Int
    BY <1>1, <2>1, SumType
  <2>3. QED
    BY <2>2 DEF f
<1>10. QED
  BY <1>1, <1>3, <1>4, <1>5, <1>6, <1>7, <1>8, <1>9

\* What the landlords' summaries show of shares that are nowhere negative adds
\* up to no more than the shares of all rows, and to all of them when every
\* summary looks at all of its landlord's rows.
LEMMA ShownOfAll ==
    ASSUME Typed, NEW f, \A i \in DOMAIN ledger : f[i] \in Nat,
           NEW g, g = [o \in Owners |-> g[o]],
           \A o \in Owners : g[o] = SumFunctionOnSet(f, Newest(o))
    PROVE  /\ SumFunction(g) <= SumFunctionOnSet(f, DOMAIN ledger)
           /\ (\A o \in Owners : Newest(o) = RowsFor(o)) =>
                  SumFunction(g) = SumFunctionOnSet(f, DOMAIN ledger)
<1> DEFINE S == DOMAIN ledger
           k == [i \in S |-> ledger[i].owner]
           h == [o \in Owners |-> SumFunctionOnSet(f, RowsFor(o))]
<1>1. IsFiniteSet(S) /\ \A i \in S : k[i] \in Owners
  BY Shares, EntryFields DEF Typed, TypeOK
<1>2. ASSUME NEW o \in Owners
      PROVE  /\ RowsFor(o) = {i \in S : k[i] = o}
             /\ IsFiniteSet(RowsFor(o)) /\ Newest(o) \subseteq RowsFor(o)
             /\ SumFunctionOnSet(f, RowsFor(o)) \in Int /\ g[o] \in Int /\ g[o] <= h[o]
             /\ h[o] = SumFunctionOnSet(f, RowsFor(o))
  <2>1. RowsFor(o) = {i \in S : k[i] = o} /\ RowsFor(o) \subseteq DOMAIN ledger
    BY DEF RowsFor
  <2>2. Newest(o) \subseteq RowsFor(o)
    BY DEF Newest
  <2>3. IsFiniteSet(RowsFor(o)) /\ IsFiniteSet(Newest(o))
    BY <1>1, <2>1, <2>2, FS_Subset
  <2>4. \A i \in RowsFor(o) : f[i] \in Int /\ f[i] >= 0
    BY <2>1
  <2>5. SumFunctionOnSet(f, RowsFor(o)) \in Int
    BY <2>3, <2>4, SumType
  <2>6. SumFunctionOnSet(f, Newest(o)) \in Int
    BY <2>2, <2>3, <2>4, SumType
  <2>7. SumFunctionOnSet(f, Newest(o)) <= SumFunctionOnSet(f, RowsFor(o))
    BY <2>2, <2>3, <2>4, SumOfPart
  <2>8. QED
    BY <2>1, <2>2, <2>3, <2>5, <2>6, <2>7
<1>3. \A i \in S : f[i] \in Int
  OBVIOUS
<1>4. DOMAIN g = Owners
  OBVIOUS
<1> HIDE DEF S, k, h
<1>5. SumFunctionOnSet(f, S) = SumFunctionOnSet(h, Owners)
  <2> DEFINE part == [o \in Owners |-> RowsFor(o)]
  <2>1. \A o \in Owners : \A i : i \in part[o] <=> i \in S /\ k[i] = o
    BY <1>2
  <2>2. \A o \in Owners : h[o] = SumFunctionOnSet(f, part[o])
    BY <1>2
  <2> HIDE DEF part
  <2>3. QED
    BY <1>1, <1>3, <2>1, <2>2, OwnerAssumption, SumByClass
<1>6. SumFunctionOnSet(g, Owners) <= SumFunctionOnSet(h, Owners)
  BY <1>2, OwnerAssumption, SumAtMost
<1>7. ASSUME \A o \in Owners : Newest(o) = RowsFor(o)
      PROVE  SumFunctionOnSet(g, Owners) = SumFunctionOnSet(h, Owners)
  <2>1. \A o \in Owners : g[o] \in Int /\ g[o] = h[o]
    BY <1>2, <1>7
  <2>2. QED
    BY <2>1, OwnerAssumption, SumSame
<1>8. QED
  BY <1>4, <1>5, <1>6, <1>7, SumOfDomain DEF S

\* Whatever a landlord's summary looks at, and whoever writes meanwhile.
LEMMA TypedAgree == Typed => SummariesAgree
<1> SUFFICES ASSUME Typed PROVE SummariesAgree
  OBVIOUS
<1> DEFINE shown == [o \in Owners |-> BalanceSummary(o)]
           fees == [o \in Owners |-> shown[o].fees + shown[o].unitFees]
           credits == [o \in Owners |-> shown[o].credited]
           S == DOMAIN ledger
           revenue == RevenueSummary.fees + RevenueSummary.unitFees
<1>1. \A o \in Owners : RowsFor(o) \subseteq S /\ Newest(o) \subseteq S
  BY DEF RowsFor, Newest
<1>2. \A o \in Owners :
          /\ shown[o].available = Balance(o, ledger)
          /\ shown[o].credited = Credited(Newest(o))
          /\ shown[o].fees = Charged("platform_fee", Newest(o))
          /\ shown[o].unitFees = Charged("unit_subscription", Newest(o))
          /\ shown[o].whole <=> Newest(o) = RowsFor(o)
  BY DEF BalanceSummary
<1>3. /\ RevenueSummary.credited = Credited(S)
      /\ revenue = Charged("platform_fee", S) + Charged("unit_subscription", S)
  BY DEF RevenueSummary
<1>4. \A o \in Owners : fees[o] = shown[o].fees + shown[o].unitFees
                        /\ credits[o] = shown[o].credited
  OBVIOUS
<1>5. fees = [o \in Owners |-> fees[o]] /\ credits = [o \in Owners |-> credits[o]]
  OBVIOUS
<1> HIDE DEF shown, fees, credits, revenue
<1>6. ASSUME NEW o \in Owners, shown[o].whole
      PROVE  shown[o].available = shown[o].credited - shown[o].fees - shown[o].unitFees
  <2> DEFINE R == RowsFor(o)
  <2>1. /\ IsFiniteSet(R) /\ Credited(R) = SumFunctionOnSet(Credit, R)
        /\ SumFunctionOnSet(Credit, R) = SumFunctionOnSet(Amounts, R) + SumFunctionOnSet(BothFees, R)
        /\ SumFunctionOnSet(BothFees, R)
              = Charged("platform_fee", R) + Charged("unit_subscription", R)
        /\ SumFunctionOnSet(Amounts, R) \in Int
        /\ Charged("platform_fee", R) \in Int /\ Charged("unit_subscription", R) \in Int
    BY <1>1, FiguresAreSums DEF EntryTypes
  <2>2. R = Of(o, ledger) /\ \A i \in R : Amounts[i] \in Int /\ Amounts[i] = ledger[i].amount
    BY <1>1, Shares DEF RowsFor, Of, Amounts
  <2>3. Newest(o) = R
    BY <1>2, <1>6
  <2> HIDE DEF R
  <2>4. Balance(o, ledger) = SumFunctionOnSet(Amounts, R)
    BY <2>1, <2>2, BalanceIsSum
  <2>5. QED
    BY <1>2, <2>1, <2>3, <2>4
<1>7. /\ SumFunction(fees) <= revenue
      /\ (\A o \in Owners : shown[o].whole) => SumFunction(fees) = revenue
  <2>1. \A o \in Owners : fees[o] = SumFunctionOnSet(BothFees, Newest(o))
    BY <1>1, <1>2, <1>4, FiguresAreSums
  <2>2. revenue = SumFunctionOnSet(BothFees, S)
    BY <1>3, FiguresAreSums
  <2>3. \A i \in DOMAIN ledger : BothFees[i] \in Nat
    BY Shares
  <2>4. QED
    BY <1>2, <1>5, <2>1, <2>2, <2>3, ShownOfAll
<1>8. /\ SumFunction(credits) <= RevenueSummary.credited
      /\ (\A o \in Owners : shown[o].whole) => SumFunction(credits) = RevenueSummary.credited
  <2>1. \A o \in Owners : credits[o] = SumFunctionOnSet(Credit, Newest(o))
    BY <1>1, <1>2, <1>4, FiguresAreSums
  <2>2. RevenueSummary.credited = SumFunctionOnSet(Credit, S)
    BY <1>3, FiguresAreSums
  <2>3. \A i \in DOMAIN ledger : Credit[i] \in Nat
    BY Shares
  <2>4. QED
    BY <1>2, <1>5, <2>1, <2>2, <2>3, ShownOfAll
<1>9. QED
  BY <1>6, <1>7, <1>8 DEF SummariesAgree, shown, fees, credits, revenue

\* Whatever the requests, however they overlap, what landlords are shown and
\* what the platform is shown tell one story (landlord_balance_summary,
\* platform_revenue_summary).
THEOREM SummariesAlwaysAgree == Spec => [](TypeOK /\ SummariesAgree)
<1>1. Typed => TypeOK /\ SummariesAgree
  BY TypedAgree DEF Typed
<1>2. QED
  BY <1>1, InitTyped, NextTyped, PTL DEF Spec

-----------------------------------------------------------------------------
(* The balance in each row.                                                *)

\* No two requests write rows of one landlord at the same time.
RowsApart ==
    \A v, w \in Workers :
        \A i \in DOMAIN session[v].rows, j \in DOMAIN session[w].rows :
            session[v].rows[i].owner = session[w].rows[j].owner => v = w

Adding == Typed /\ RunningBalance /\ \A w \in Workers : Running(session[w].rows)

LEMMA RunningStays ==
    ASSUME NEW rows, Running(rows), UNCHANGED ledger
    PROVE  Running(rows)'
BY DEF Running, Balance

LEMMA SessionAdds ==
    ASSUME Adding, Typed', NEW w \in Workers, UNCHANGED ledger, NEW s,
           session' = [session EXCEPT ![w] = s], Running(s.rows)
    PROVE  Adding'
<1>1. session'[w] = s /\ \A v \in Workers \ {w} : session'[v] = session[v]
  BY DEF Adding, Typed, TypeOK
<1>2. RunningBalance'
  BY DEF Adding, RunningBalance, Balance
<1>3. \A v \in Workers : Running(session'[v].rows)
  BY <1>1 DEF Adding
<1>4. \A v \in Workers : Running(session[v].rows)'
  BY <1>3 DEF Running
<1>5. QED
  BY <1>2, <1>4 DEF Adding

LEMMA RecordAdds ==
    ASSUME Adding, Typed', NEW w \in Workers, NEW o \in Owners, NEW p \in Payments,
           NEW g \in Grosses, NEW m \in Methods, RecordSettlement(w, o, p, g, m)
    PROVE  Adding'
<1> DEFINE fee == IF m \in Online THEN Fee(g) ELSE 0
           rows == SettlementRows(o, p, g, fee)
           s == [rows |-> rows, payment |-> p, gross |-> g, online |-> m \in Online]
<1>1. g \in Nat
  BY GrossAssumption
<1>2. fee \in 0 .. g
  BY <1>1, FeeBounds
<1>3. Running(rows)
  <2> HIDE DEF fee
  <2>1. QED
    BY <1>1, <1>2, SettlementRuns DEF Adding, Typed
<1>4. session' = [session EXCEPT ![w] = s] /\ UNCHANGED ledger /\ s.rows = rows
  BY DEF RecordSettlement
<1> HIDE DEF s, rows
<1>5. QED
  BY <1>3, <1>4, SessionAdds

LEMMA AccrueAdds ==
    ASSUME Adding, Typed', NEW w \in Workers, NEW o \in Owners, AccrueUnitFees(w, o)
    PROVE  Adding'
<1>1. PICK rows \in Seq(SignedRows) :
          session' = [session EXCEPT ![w].rows = rows] /\ Running(rows)
  BY AccruedRow DEF Adding
<1> DEFINE s == [session[w] EXCEPT !.rows = rows]
<1>2. session[w] \in Session /\ DOMAIN session = Workers
  BY DEF Adding, Typed, TypeOK
<1>3. s.rows = rows
  BY <1>2 DEF Session
<1>4. session' = [session EXCEPT ![w] = s]
  BY <1>1, <1>2
<1>5. UNCHANGED ledger
  BY DEF AccrueUnitFees
<1> HIDE DEF s
<1>6. QED
  BY <1>1, <1>3, <1>4, <1>5, SessionAdds

\* Rows of one session carry the running balance on.
LEMMA CommitRuns ==
    ASSUME Adding, NEW rows \in Seq(Entry), Running(rows), ledger' = ledger \o rows
    PROVE  RunningBalance'
<1> DEFINE n == Len(ledger)
           k == Len(rows)
           l == ledger'
           Up(i) == SubSeq(l, 1, i)
<1>1. ledger \in Seq(Entry) /\ n \in Nat /\ DOMAIN ledger = 1 .. n
  BY LenProperties DEF Adding, Typed, TypeOK
<1>2. k \in 0 .. 2
  <2>1. k \in Nat
    BY LenProperties
  <2>2. k <= 2
    BY DEF Running
  <2> HIDE DEF k
  <2>3. QED
    BY <2>1, <2>2
<1>3. /\ l \in Seq(Entry) /\ Len(l) = n + k /\ DOMAIN l = 1 .. n + k
      /\ \A i \in 1 .. n : l[i] = ledger[i]
      /\ \A i \in 1 .. k : l[n + i] = rows[i]
  <2>1. /\ l \in Seq(Entry) /\ Len(l) = n + k
        /\ \A i \in 1 .. n + k : l[i] = IF i <= n THEN ledger[i] ELSE rows[i - n]
    BY <1>1, ConcatProperties
  <2>2. DOMAIN l = 1 .. n + k
    BY <2>1, LenProperties
  <2> HIDE DEF l, n, k
  <2>3. QED
    BY <1>1, <1>2, <2>1, <2>2
<1>4. ASSUME NEW i \in 1 .. n + k
      PROVE  Up(i) \in Seq(Entry) /\ Len(Up(i)) = i /\ \A j \in 1 .. i : Up(i)[j] = l[j]
  <2>1. i \in 1 .. Len(l)
    BY <1>3
  <2> HIDE DEF l, n, k
  <2>2. QED
    BY <1>3, <2>1, Prefix
<1> HIDE DEF l, n, k, Up
<1>5. ASSUME NEW i \in 1 .. n
      PROVE  l[i].after = Balance(l[i].owner, Up(i))
  <2>1. i \in 1 .. n + k
    BY <1>1, <1>2
  <2> DEFINE s == SubSeq(ledger, 1, i)
  <2>2. s \in Seq(Entry) /\ Len(s) = i /\ \A j \in 1 .. i : s[j] = ledger[j]
    BY <1>1, Prefix DEF n
  <2>3. i \in DOMAIN ledger /\ l[i] = ledger[i] /\ ledger[i].after = Balance(ledger[i].owner, s)
    BY <1>1, <1>3 DEF Adding, RunningBalance, n
  <2>4. \A j \in 1 .. i : j \in 1 .. n
    BY <1>1
  <2> DEFINE t == Up(i)
  <2>5. t \in Seq(Entry) /\ Len(t) = i /\ \A j \in 1 .. i : t[j] = s[j]
    BY <1>3, <1>4, <2>1, <2>2, <2>4
  <2> HIDE DEF s, t
  <2>6. \A o : Balance(o, t) = Balance(o, s)
    BY <2>2, <2>5, BalanceEqual
  <2>7. QED
    BY <2>3, <2>6 DEF t
<1>6. ASSUME k >= 1
      PROVE  l[n + 1].after = Balance(l[n + 1].owner, Up(n + 1))
  <2> DEFINE t == Up(n + 1)
             r == rows[1]
  <2>1. n + 1 \in 1 .. n + k /\ 1 \in 1 .. k
    BY <1>1, <1>2, <1>6
  <2>2. t \in Seq(Entry) /\ Len(t) = n + 1 /\ (\A j \in 1 .. n + 1 : t[j] = l[j]) /\ l[n + 1] = r
    BY <1>3, <1>4, <2>1
  <2>3. (\A j \in 1 .. n : t[j] = ledger[j]) /\ t[Len(t)] = r
    BY <1>1, <1>3, <2>2
  <2>4. r.after = Balance(r.owner, ledger) + r.amount
    BY <1>6 DEF Running, k
  <2> HIDE DEF t, r
  <2>5. Balance(r.owner, t) = Balance(r.owner, ledger) + r.amount
    BY <1>1, <2>2, <2>3, BalanceGrows DEF n
  <2>6. QED
    BY <2>2, <2>4, <2>5 DEF t
<1>7. ASSUME k = 2
      PROVE  l[n + 2].after = Balance(l[n + 2].owner, Up(n + 2))
  <2> DEFINE t == Up(n + 2)
             s == Up(n + 1)
             q == rows[1]
             r == rows[2]
  <2>1. n + 1 \in 1 .. n + k /\ n + 2 \in 1 .. n + k /\ 1 \in 1 .. k /\ 2 \in 1 .. k
    BY <1>1, <1>2, <1>7
  <2>2. /\ s \in Seq(Entry) /\ Len(s) = n + 1 /\ \A j \in 1 .. n + 1 : s[j] = l[j]
        /\ l[n + 1] = q
    BY <1>3, <1>4, <2>1
  <2>3. /\ t \in Seq(Entry) /\ Len(t) = n + 2 /\ \A j \in 1 .. n + 2 : t[j] = l[j]
        /\ l[n + 2] = r
    BY <1>3, <1>4, <2>1
  <2>4. (\A j \in 1 .. Len(s) : t[j] = s[j]) /\ t[Len(t)] = r /\ Len(t) = Len(s) + 1
        /\ s \in Seq(Entry) /\ t \in Seq(Entry)
    BY <1>1, <2>2, <2>3
  <2>5. q.after = Balance(q.owner, s)
    BY <1>6, <1>7, <2>2
  <2>6. r.owner = q.owner /\ r.after = q.after + r.amount
    BY <1>7 DEF Running, k
  <2> HIDE DEF t, s, q, r
  <2>7. Balance(r.owner, t) = Balance(r.owner, s) + r.amount
    BY <2>4, BalanceGrows
  <2>8. QED
    BY <2>3, <2>5, <2>6, <2>7 DEF t
<1>8. ASSUME NEW i \in 1 .. n + k
      PROVE  l[i].after = Balance(l[i].owner, Up(i))
  <2>1. i \in 1 .. n \/ (k >= 1 /\ i = n + 1) \/ (k = 2 /\ i = n + 2)
    BY <1>1, <1>2
  <2>2. QED
    BY <1>5, <1>6, <1>7, <2>1
<1>9. QED
  <2>1. \A i \in DOMAIN l : l[i].after = Balance(l[i].owner, SubSeq(l, 1, i))
    BY <1>3, <1>8 DEF Up
  <2>2. RunningBalance' <=> \A i \in DOMAIN l : l[i].after = Balance(l[i].owner, SubSeq(l, 1, i))
    BY DEF RunningBalance, Balance, l
  <2>3. QED
    BY <2>1, <2>2

LEMMA CommitAdds ==
    ASSUME Adding, RowsApart, Typed', NEW w \in Workers, Commit(w)
    PROVE  Adding'
<1> DEFINE rows == session[w].rows
           l == ledger'
<1>1. ledger' = ledger \o rows /\ session' = [session EXCEPT ![w] = Empty]
  BY DEF Commit
<1>2. rows \in Seq(Entry) /\ ledger \in Seq(Entry) /\ Running(rows)
  BY DEF Adding, Typed, TypeOK, Session
<1>3. session'[w] = Empty /\ \A v \in Workers \ {w} : session'[v] = session[v]
  BY <1>1 DEF Adding, Typed, TypeOK
<1>4. RunningBalance'
  <2> HIDE DEF rows
  <2>1. QED
    BY <1>1, <1>2, CommitRuns
<1>5. ASSUME NEW v \in Workers \ {w}
      PROVE  Running(session[v].rows)'
  <2> DEFINE own == session[v].rows
  <2>1. own \in Seq(Entry) /\ Running(own) /\ session'[v].rows = own
    BY <1>3 DEF Adding, Typed, TypeOK, Session
  <2>2. Len(own) \in Nat /\ DOMAIN own = 1 .. Len(own) /\ (Len(own) >= 1 => 1 \in DOMAIN own)
    BY <2>1, LenProperties
  <2>3. ASSUME Len(own) >= 1
        PROVE  Balance(own[1].owner, l) = Balance(own[1].owner, ledger)
    <3>1. \A i \in DOMAIN rows : rows[i].owner # own[1].owner
      BY <2>2, <2>3 DEF RowsApart
    <3> HIDE DEF rows, own
    <3>2. QED
      BY <1>1, <1>2, <3>1, BalanceApart
  <2>4. Running(own) /\ (Len(own) >= 1 => Balance(own[1].owner, l) = Balance(own[1].owner, ledger))
    BY <2>1, <2>3
  <2>5. QED
    BY <2>1, <2>4 DEF Running, Balance
<1>6. Running(session[w].rows)'
  BY <1>3, NoRows DEF Empty, Running
<1>7. QED
  BY <1>4, <1>5, <1>6 DEF Adding

LEMMA NextAdds == Adding /\ RowsApart /\ [Next]_vars => Adding'
<1> SUFFICES ASSUME Adding, RowsApart, [Next]_vars PROVE Adding'
  OBVIOUS
<1>1. Typed'
  BY NextTyped DEF Adding
<1>2. ASSUME NEW w \in Workers, Abort(w)
      PROVE  Adding'
  <2>1. session' = [session EXCEPT ![w] = Empty] /\ UNCHANGED ledger /\ Running(Empty.rows)
    BY <1>2, NoRows DEF Abort, Empty
  <2>2. QED
    BY <1>1, <2>1, SessionAdds
<1>3. ASSUME UNCHANGED <<ledger, session>>
      PROVE  Adding'
  BY <1>1, <1>3 DEF Adding, RunningBalance, Running, Balance
<1>4. CASE Next
  BY <1>1, <1>2, <1>3, <1>4, RecordAdds, AccrueAdds, CommitAdds DEF Next, SetOccupied, NextMonth
<1>5. QED
  BY <1>3, <1>4 DEF vars

LEMMA InitAdds == Init => Adding
<1> SUFFICES ASSUME Init PROVE Adding
  OBVIOUS
<1>1. RunningBalance
  BY NoRows DEF Init, RunningBalance
<1>2. \A w \in Workers : Running(session[w].rows)
  BY NoRows DEF Init, Empty
<1>3. QED
  BY <1>1, <1>2, InitTyped DEF Adding

\* As long as no two requests write rows of one landlord at the same time, the
\* ledger is a ledger: each row says what the landlord's rows up to it add up
\* to, whatever is committed for others in between (_append_ledger), and all
\* the summaries agree.
THEOREM RowsApartAdd == Spec /\ []RowsApart => []LedgerAdds
<1>1. Adding => LedgerAdds
  BY TypedAgree DEF Adding, Typed, LedgerAdds
<1>2. QED
  BY <1>1, InitAdds, NextAdds, PTL DEF Spec

\* One request at a time, the ledger is a ledger.
THEOREM SerialLedgerAdds ==
    ASSUME \A v, w \in Workers : v = w
    PROVE  Spec => []LedgerAdds
<1>1. RowsApart
  BY DEF RowsApart
<1>2. QED
  BY <1>1, RowsApartAdd, PTL
=============================================================================
