------------------------- MODULE MCInvoicingRegimes -------------------------
(***************************************************************************)
(* Invoicing under two regimes: where requests overlap, those of two       *)
(* workers bill two leases for one month; where they do not, requests one  *)
(* at a time bill one lease across months.                                 *)
(***************************************************************************)
EXTENDS MCInvoicing

Race == INSTANCE Invoicing WITH
    Periods <- {1}, PeriodOf <- OneMonth, Rent <- 1, Totals <- {1}, MaxDay <- 2

Serial == INSTANCE Invoicing WITH Workers <- OneWorker, Leases <- {l1}

RegimesNext ==
    \/ overlap /\ Race!Next
    \/ ~overlap /\ Serial!Next

RegimesSpec == Init /\ [][RegimesNext]_vars
=============================================================================
