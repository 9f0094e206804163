------------------------------ MODULE MCFigures ------------------------------
(* An instance of Figures for TLC.                                         *)
EXTENDS Figures, TLC

CONSTANTS ann, bob, t1, t2, p1, p2

MCFirstDay == Day(2023, 11, 1)
MCLastDay == Day(2024, 3, 1)

Terms(start, end, rent) == [start |-> start, end |-> end, rent |-> rent]
Kind(type, method) == [type |-> type, method |-> method]
Momo == Kind("rent", "mtn_momo")
Bank == Kind("rent", "bank")

\* Leases that began, begin and end at different times; in hundredths.
Leases ==
    {Terms(Day(2023, 11, 2), None, 200), Terms(Day(2023, 9, 1), Day(2023, 12, 1), 100),
     Terms(Day(2024, 1, 1), Day(2024, 1, 2), 200)}

\* In the first world leases vary, in the second the payments, of one and
\* a half shillings.
MCWorlds ==
    {[terms |-> Leases, kinds |-> {Momo}, amounts |-> {100},
      periods |-> {Month(Day(2023, 12, 1))}],
     [terms |-> {Terms(Day(2023, 11, 2), None, 200)},
      kinds |-> {Momo, Bank, Kind("deposit", "mtn_momo")}, amounts |-> {150},
      periods |-> {Month(Day(y[1], y[2], 1)) :
                      y \in {<<2023, 7>>, <<2023, 12>>, <<2024, 2>>}}]}

Alike == Permutations(Landlords) \cup Permutations(Tenants) \cup Permutations(Payments)
=============================================================================
