------------------------------- MODULE Office -------------------------------
(***************************************************************************)
(* The parts of the platform that share nothing but the workers: receipts, *)
(* messages, the agent's records, tenant links, reminders, listings,       *)
(* payments in Sui, and what hangs on leases and units.  A workload        *)
(* belongs to one part, and an instance checks all of them at once.        *)
(***************************************************************************)
EXTENDS Receipts, Messages, Crm, TenantLinks, Reminders, Listings, SuiPay, Upkeep

vars == <<requests, receiptVars, messageVars, crmVars, linkVars, reminderVars,
          listingVars, suiVars, upkeepVars>>

\* A part that has no workload starts in the first of its states.
Init ==
    /\ RequestsInit
    /\ ReceiptsInit /\ MessagesInit /\ CrmInit
    /\ LinksInit
    /\ load.part # "links" => \A t \in Rentals : rental[t].email = None
    /\ RemindersInit
    /\ load.part # "reminders" => \A t \in Residents : loginOf[t] = None
    /\ ListingsInit
    /\ load.part # "listings" =>
          wallet = {} /\ \A e \in Estates : listing[e] = NoListing
    /\ SuiInit
    /\ load.part # "sui" => privy = {}
    /\ UpkeepInit

Except(part) ==
    /\ IF part = "receipts" THEN TRUE ELSE UNCHANGED receiptVars
    /\ IF part = "messages" THEN TRUE ELSE UNCHANGED messageVars
    /\ IF part = "crm" THEN TRUE ELSE UNCHANGED crmVars
    /\ IF part = "links" THEN TRUE ELSE UNCHANGED linkVars
    /\ IF part = "reminders" THEN TRUE ELSE UNCHANGED reminderVars
    /\ IF part = "listings" THEN TRUE ELSE UNCHANGED listingVars
    /\ IF part = "sui" THEN TRUE ELSE UNCHANGED suiVars
    /\ IF part = "upkeep" THEN TRUE ELSE UNCHANGED upkeepVars

Next ==
    /\ \/ load.part = "receipts" /\ ReceiptsNext
       \/ load.part = "messages" /\ MessagesNext
       \/ load.part = "crm" /\ CrmNext
       \/ load.part = "links" /\ LinksNext
       \/ load.part = "reminders" /\ RemindersNext
       \/ load.part = "listings" /\ ListingsNext
       \/ load.part = "sui" /\ SuiNext
       \/ load.part = "upkeep" /\ UpkeepNext
    /\ Except(load.part)
    /\ UNCHANGED load

Spec == Init /\ [][Next]_vars

TypeOK ==
    /\ ReceiptsTypeOK /\ MessagesTypeOK /\ CrmTypeOK /\ LinksTypeOK
    /\ RemindersTypeOK /\ ListingsTypeOK /\ SuiTypeOK /\ UpkeepTypeOK
=============================================================================
