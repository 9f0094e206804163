------------------------ MODULE MCSettlementRegimes ------------------------
(***************************************************************************)
(* Settlement under two regimes: where requests overlap, the approvals of  *)
(* one checkout delivered to two workers, under the fairness of FairSpec;  *)
(* where they do not, requests of every kind one at a time, which settle   *)
(* as InvoiceAccount says.                                                 *)
(***************************************************************************)
EXTENDS MCSettlement

\* The second checkout has no part in the deliveries, and a webhook is the
\* one caller of complete_checkout that has loaded nothing before the lock.
Deliveries ==
    /\ coStatus'[c2] = "none"
    /\ \A w \in Workers : job'[w].checkout # c2 /\ job'[w].seen = "unread"

RegimesSpec == Init /\ [][Next /\ (overlap => Deliveries)]_vars /\ Fairness

-----------------------------------------------------------------------------

\* Whatever the payer, the workers and the provider do, a checkout that the
\* payer approved is settled, as long as its invoice owes its amount
\* (handle_provider_webhook, complete_checkout).
DeliveriesSettle == overlap => ApprovalSettles
=============================================================================
