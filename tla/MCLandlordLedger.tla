--------------------------- MODULE MCLandlordLedger ---------------------------
(* Model values for checking LandlordLedger.                               *)
EXTENDS LandlordLedger, TLC

CONSTANTS w1, w2, o1, o2, p1, p2

OneWorker == {w1}
TwoWorkers == {w1, w2}
Symmetry == Permutations(Workers) \cup Permutations(Owners) \cup Permutations(Payments)
=============================================================================
