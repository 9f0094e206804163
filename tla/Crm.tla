-------------------------------- MODULE Crm --------------------------------
(***************************************************************************)
(* The agent's workspace (app/services/agent_crm_service.py): leads,       *)
(* clients, viewings, deals and commissions of one agent.  A deal that is  *)
(* won accrues the commission it has, unless the deal has one already; an  *)
(* update is computed from the row a session read and writes the columns   *)
(* it changes.                                                             *)
(***************************************************************************)
EXTENDS Requests

CONSTANTS
    Leads, Clients, Viewings, Deals, Commissions,   \* ids of rows of each table
    Stages,                                         \* the pipeline of a lead
    Fees                                            \* amounts of a commission; 0 is none

ASSUME StageAssumption == None \notin Stages

VARIABLES
    lead,         \* agent_leads: the stage of each row
    client,       \* agent_clients: the lead a client came from
    viewing,      \* agent_schedule_events rows
    deal,         \* agent_deals rows
    commission    \* agent_commissions rows

crmVars == <<lead, client, viewing, deal, commission>>

-----------------------------------------------------------------------------

DealStatuses == {"open", "won", "lost"}
CommissionStatuses == {"accrued", "paid", "held"}
LeadOrNone == Leads \cup {None}

Gone == [row |-> FALSE]
ClientRow == [row : {TRUE}, lead : LeadOrNone]
ViewingRow == [row : {TRUE}, lead : LeadOrNone,
               status : {"scheduled", "completed", "cancelled"}]
DealRow == [row : {TRUE}, status : DealStatuses, fee : Fees,
            lead : LeadOrNone, closed : BOOLEAN]
\* won marks a commission that update_deal accrued.
CommissionRow == [row : {TRUE}, deal : Deals \cup {None}, amount : Fees,
                  status : CommissionStatuses, paid : BOOLEAN, won : BOOLEAN]

CrmInit ==
    /\ lead = [l \in Leads |-> None]
    /\ client = [c \in Clients |-> Gone]
    /\ viewing = [v \in Viewings |-> Gone]
    /\ deal = [d \in Deals |-> Gone]
    /\ commission = [c \in Commissions |-> Gone]

CrmTypeOK ==
    /\ lead \in [Leads -> Stages \cup {None}]
    /\ client \in [Clients -> ClientRow \cup {Gone}]
    /\ viewing \in [Viewings -> ViewingRow \cup {Gone}]
    /\ deal \in [Deals -> DealRow \cup {Gone}]
    /\ commission \in [Commissions -> CommissionRow \cup {Gone}]

\* A foreign key to a lead: the row must exist when it is named.
LeadExists(l) == l # None => lead[l] # None

-----------------------------------------------------------------------------
(* Leads, clients and viewings.                                            *)

CreateLead(l, stage) ==
    /\ Served("create_lead")
    /\ lead[l] = None
    /\ lead' = [lead EXCEPT ![l] = stage]
    /\ UNCHANGED <<requests, client, viewing, deal, commission>>

UpdateLead(l, stage) ==
    /\ Served("update_lead")
    /\ lead[l] # None
    /\ lead' = [lead EXCEPT ![l] = stage]
    /\ UNCHANGED <<requests, client, viewing, deal, commission>>

\* ON DELETE SET NULL.
Unnamed(table, l) ==
    [r \in DOMAIN table |-> IF table[r].row /\ table[r].lead = l
                            THEN [table[r] EXCEPT !.lead = None] ELSE table[r]]

DeleteLead(l) ==
    /\ Served("delete_lead")
    /\ lead[l] # None
    /\ lead' = [lead EXCEPT ![l] = None]
    /\ client' = Unnamed(client, l)
    /\ viewing' = Unnamed(viewing, l)
    /\ deal' = Unnamed(deal, l)
    /\ UNCHANGED <<requests, commission>>

CreateClient(c, l) ==
    /\ Served("create_client")
    /\ ~client[c].row /\ LeadExists(l)
    /\ client' = [client EXCEPT ![c] = [row |-> TRUE, lead |-> l]]
    /\ UNCHANGED <<requests, lead, viewing, deal, commission>>

CreateSchedule(v, l) ==
    /\ Served("create_schedule")
    /\ ~viewing[v].row /\ LeadExists(l)
    /\ viewing' = [viewing EXCEPT ![v] = [row |-> TRUE, lead |-> l, status |-> "scheduled"]]
    /\ UNCHANGED <<requests, lead, client, deal, commission>>

UpdateSchedule(v, status) ==
    /\ Served("update_schedule")
    /\ viewing[v].row
    /\ viewing' = [viewing EXCEPT ![v].status = status]
    /\ UNCHANGED <<requests, lead, client, deal, commission>>

-----------------------------------------------------------------------------
(* Deals and commissions.                                                  *)

CreateDeal(d, l, fee) ==
    /\ Served("create_deal")
    /\ ~deal[d].row /\ LeadExists(l)
    /\ deal' = [deal EXCEPT ![d] = [row |-> TRUE, status |-> "open", fee |-> fee,
                                    lead |-> l, closed |-> FALSE]]
    /\ UNCHANGED <<requests, lead, client, viewing, commission>>

\* Mutant: a commission that was entered by hand does not count.
WonBefore(d) ==
    \E c \in Commissions : /\ commission[c].row
                           /\ commission[c].deal = d
                           /\ commission[c].won

Commissioned(d) == \E c \in Commissions : commission[c].row /\ commission[c].deal = d

Closes(status) == status \in {"won", "lost"}

\* update_deal reads the deal and whether a commission exists; a commission
\* amount in the same request is assigned after the one of a won deal was
\* taken from the row.
ReadDeal(w, d, status, fee) ==
    /\ Ready(w, "update_deal")
    /\ deal[d].row
    /\ Goto(w, "save_deal",
            [deal |-> d, seen |-> deal[d],
             set |-> [status |-> status, fee |-> fee,
                      closed |-> deal[d].closed \/ Closes(status)],
             accrue |-> status = "won" /\ deal[d].fee > 0 /\ ~Commissioned(d)])
    /\ UNCHANGED crmVars

Accrued(d, amount) ==
    \E c \in Commissions :
        /\ ~commission[c].row
        /\ commission' = [commission EXCEPT ![c] =
                            [row |-> TRUE, deal |-> d, amount |-> amount,
                             status |-> "accrued", paid |-> FALSE, won |-> TRUE]]

SaveDeal(w) ==
    LET j == job[w] IN
    /\ pc[w] = "save_deal"
    /\ deal' = [deal EXCEPT ![j.deal] = Written(@, j.seen, j.set)]
    /\ IF j.accrue THEN Accrued(j.deal, j.seen.fee) ELSE UNCHANGED commission
    /\ Respond(w)
    /\ UNCHANGED <<lead, client, viewing>>

CreateCommission(c, d, amount, status) ==
    /\ Served("create_commission")
    /\ ~commission[c].row
    /\ d # None => deal[d].row
    /\ commission' = [commission EXCEPT ![c] =
                        [row |-> TRUE, deal |-> d, amount |-> amount, status |-> status,
                         paid |-> status = "paid", won |-> FALSE]]
    /\ UNCHANGED <<requests, lead, client, viewing, deal>>

ReadCommission(w, c, status) ==
    /\ Ready(w, "update_commission")
    /\ commission[c].row
    /\ Goto(w, "save_commission",
            [commission |-> c, seen |-> commission[c],
             set |-> [status |-> status,
                      paid |-> commission[c].paid \/ status = "paid"]])
    /\ UNCHANGED crmVars

SaveCommission(w) ==
    LET j == job[w] IN
    /\ pc[w] = "save_commission"
    /\ commission' = [commission EXCEPT ![j.commission] = Written(@, j.seen, j.set)]
    /\ Respond(w)
    /\ UNCHANGED <<lead, client, viewing, deal>>

CrmNext ==
    \/ \E l \in Leads :
          \/ \E s \in Stages : CreateLead(l, s) \/ UpdateLead(l, s)
          \/ DeleteLead(l)
    \/ \E l \in LeadOrNone :
          \/ \E c \in Clients : CreateClient(c, l)
          \/ \E v \in Viewings : CreateSchedule(v, l)
          \/ \E d \in Deals, f \in Fees : CreateDeal(d, l, f)
    \/ \E w \in Workers :
          \/ \E d \in Deals, s \in DealStatuses, f \in Fees : ReadDeal(w, d, s, f)
          \/ \E c \in Commissions, s \in CommissionStatuses : ReadCommission(w, c, s)
          \/ SaveDeal(w)
          \/ SaveCommission(w)
          \/ Die(w) /\ UNCHANGED crmVars
    \/ \E v \in Viewings, s \in {"scheduled", "completed", "cancelled"} : UpdateSchedule(v, s)
    \/ \E c \in Commissions, d \in Deals \cup {None}, f \in Fees \ {0}, s \in CommissionStatuses :
          CreateCommission(c, d, f, s)

-----------------------------------------------------------------------------

\* A deal won or lost has a closing date and a commission paid has a paying
\* date, whatever updates overlap (update_deal, update_commission).
OutcomesAreDated ==
    /\ \A d \in Deals : deal[d].row /\ deal[d].status # "open" => deal[d].closed
    /\ \A c \in Commissions :
          commission[c].row /\ commission[c].status = "paid" => commission[c].paid

\* One request at a time, a deal won again and again accrues one commission
\* (update_deal).
OneCommissionPerWin ==
    ~load.overlap =>
        \A c, b \in Commissions :
            /\ commission[c].row /\ commission[b].row
            /\ commission[c].won /\ commission[b].won
            /\ commission[c].deal = commission[b].deal
            => c = b

\* Clients, viewings and deals name leads that exist, after any deletion of a
\* lead (delete_lead and the foreign keys of app/models/agent_crm.py).
LeadsOfRecordsExist ==
    /\ \A c \in Clients : client[c].row => LeadExists(client[c].lead)
    /\ \A v \in Viewings : viewing[v].row => LeadExists(viewing[v].lead)
    /\ \A d \in Deals : deal[d].row => LeadExists(deal[d].lead)

\* And it accrues none when the deal has a commission already, paid or not,
\* entered by hand or accrued (update_deal).
AccruesOnlyFirst ==
    [][~load.overlap =>
         \A c \in Commissions :
             ~commission[c].row /\ commission'[c].row /\ commission'[c].won =>
                 \A b \in Commissions :
                     commission[b].row => commission[b].deal # commission'[c].deal]_crmVars

RecordsHold == OutcomesAreDated /\ OneCommissionPerWin /\ LeadsOfRecordsExist

\* The agent's books hold: outcomes are dated, a win is paid once, and nothing
\* names a lead that is gone (update_deal, update_commission, delete_lead).
AgentsRecordsHold == []RecordsHold /\ AccruesOnlyFirst
=============================================================================
