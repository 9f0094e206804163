---------------------------- MODULE MCSettlement ----------------------------
(* Model values and symmetry for checking Settlement.                      *)
EXTENDS Settlement, FiniteSets, TLC

CONSTANTS c1, c2, i1, w1, w2

OneWorker == {w1}
TwoWorkers == {w1, w2}
OneInvoice == {i1}
TwoCheckouts == {c1, c2}
TotalTwo == [i \in {i1} |-> 2]
OneCheckout == {c1}
Momo == [c \in {c1} |-> "mtn_momo"]
Mock == [c \in {c1} |-> "mock"]
MockAndSui == (c1 :> "mock") @@ (c2 :> "sui")

WorkerSymmetry == Permutations(Workers)
=============================================================================
