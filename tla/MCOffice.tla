------------------------------ MODULE MCOffice ------------------------------
(* An instance of Office for TLC.                                          *)
EXTENDS Office, TLC

CONSTANTS w1, w2, pay1, pay2, ann, bob, agent, home, shop, th1, th2,
          l1, cl1, v1, d1, c1, c2, u1, u2, mailA, mailB, e1, e2, o1, here, there,
          co1, co2, b1, k1, k2, g1

MCWorkers == {w1, w2}

\* Receipts: two of the methods have one prefix.
MCPrefixOf == ("pesapal" :> "UGX") @@ ("card" :> "UGX") @@ ("sui" :> "SUI")

\* Messages: the agent has both units.
MCLandlordOf == (home :> agent) @@ (shop :> agent)

\* Reminders: leases that began on these days, through a leap February.
MCStartOf ==
    (1 :> Day(2023, 11, 15)) @@ (2 :> Day(2023, 12, 29)) @@ (3 :> Day(2023, 10, 31))
MCFirstDay == Day(2023, 12, 20)
MCLastDay == Day(2024, 3, 5)

\* Sui: two checkouts of one invoice, which takes either amount, or the small
\* one twice, but not both.
MCPayerOf == (co1 :> u1) @@ (co2 :> u1)
MCBillOf == (co1 :> b1) @@ (co2 :> b1)
MCAmountOf == (co1 :> 1) @@ (co2 :> 2)
MCOwed == b1 :> 2

\* Upkeep: the login has a tenants row for each of two leases.
MCRowOf == (k1 :> 1) @@ (k2 :> 2)

\* A workload of a part: its handlers, whether requests overlap, whether they die.
Load(part, handlers, overlap, fails) ==
    [part |-> part, uses |-> handlers, overlap |-> overlap, fails |-> fails,
     configured |-> FALSE, lossy |-> FALSE]

\* Whether Privy is configured and a node's answer may be lost.
Node(l, configured, lossy) == [l EXCEPT !.configured = configured, !.lossy = lossy]

\* One at a time requests of every handler; overlapping ones of those that
\* meet each other.
ReceiptLoads ==
    {Load("receipts", {"record_payment", "update_payment", "delete_payment"}, FALSE, FALSE),
     Load("receipts", {"record_payment", "complete_checkout", "email_receipt", "new_year"}, FALSE, FALSE),
     Load("receipts", {"record_payment", "delete_payment"}, TRUE, FALSE),
     Load("receipts", {"record_payment", "complete_checkout"}, TRUE, TRUE)}

MessageLoads ==
    {Load("messages", {"start", "post", "book_inspection", "call_session", "list_messages",
                       "mark_read", "archive"}, FALSE, FALSE)} \cup
    {Load("messages", {"start", "post", "list_messages"}, overlap, ~overlap) :
        overlap \in BOOLEAN}

Selling == {"create_lead", "update_lead", "delete_lead", "create_client", "create_schedule",
            "update_schedule", "create_deal"}
Earning == {"create_deal", "update_deal", "create_commission", "update_commission"}
CrmLoads ==
    {Load("crm", Selling, TRUE, FALSE), Load("crm", Earning, FALSE, TRUE),
     Load("crm", {"create_deal", "update_deal"}, TRUE, FALSE),
     Load("crm", {"create_commission", "update_commission"}, TRUE, FALSE)}

Linking == {"make_login", "delete_login", "send_invite", "accept_invite", "portal",
            "update_email", "expire"}
LinkLoads ==
    {Load("links", Linking, FALSE, TRUE),
     Load("links", {"make_login", "send_invite", "accept_invite"}, TRUE, TRUE),
     Load("links", {"make_login", "send_invite", "accept_rental"}, TRUE, FALSE),
     Load("links", {"make_login", "delete_login", "portal", "update_email", "update_profile"},
          FALSE, TRUE)}

ReminderLoads == {Load("reminders", {"reminders"}, FALSE, f) : f \in BOOLEAN}

Listing == {"create_property", "get_property", "update_property", "archive_property",
            "delete_property"}
Editing == {"create_property", "update_property", "restore_property", "kcca_decide"}
Deciding == {"get_property", "kcca_decide"}
Meeting == {"create_property", "get_property", "delete_property"}
ListingLoads ==
    {Load("listings", Listing, FALSE, TRUE), Load("listings", Editing, FALSE, FALSE),
     Load("listings", Meeting, TRUE, FALSE), Load("listings", Deciding, TRUE, FALSE)}

Paying == {"pay_privy", "pay_platform", "confirm", "link_wallet"}
SuiLoads ==
    {Node(Load("sui", Paying \cup {"pay_elsewhere"}, FALSE, FALSE), conf, FALSE) :
        conf \in BOOLEAN} \cup
    {Node(Load("sui", {"pay_privy", "pay_platform"}, TRUE, TRUE), TRUE, TRUE),
     Node(Load("sui", {"pay_privy", "pay_platform", "pay_elsewhere"}, TRUE, FALSE), TRUE, FALSE),
     Node(Load("sui", {"pay_platform", "confirm"}, TRUE, FALSE), TRUE, FALSE),
     Node(Load("sui", Paying \cup {"submit_privy", "confirm_bare"}, FALSE, FALSE), TRUE, FALSE)}

Leasing == {"create_lease", "update_lease", "terminate_lease"}
UpkeepLoads ==
    {Load("upkeep", Leasing \cup {"create_escrow", "delete_unit"}, FALSE, TRUE),
     Load("upkeep", Leasing, TRUE, FALSE),
     Load("upkeep", {"create_lease", "terminate_lease", "report", "update_ticket",
                     "delete_ticket", "next_day"}, FALSE, FALSE),
     Load("upkeep", {"report", "update_ticket", "delete_unit", "delete_premises"}, TRUE, FALSE)}

MCWorkloads ==
    ReceiptLoads \cup MessageLoads \cup CrmLoads \cup LinkLoads \cup ReminderLoads
        \cup ListingLoads \cup SuiLoads \cup UpkeepLoads

Alike == Permutations(MCWorkers) \cup Permutations({e1, e2}) \cup Permutations({here, there})
=============================================================================
