------------------------------ MODULE MCInvoicing ------------------------------
(* Model values for checking Invoicing.                                    *)
EXTENDS Invoicing, TLC

CONSTANTS w1, w2, l1, l2

OneWorker == {w1}
TwoWorkers == {w1, w2}

\* The third day begins the next month.
Month == [d \in 1 .. MaxDay |-> IF d < 3 THEN 1 ELSE 2]
OneMonth == [d \in 1 .. MaxDay |-> 1]

Symmetry == Permutations(Workers) \cup Permutations(Leases)
=============================================================================
