------------------------------- MODULE Upkeep -------------------------------
(***************************************************************************)
(* What hangs on a lease and on a unit: the anchored agreement that the    *)
(* public page verifies (app/routers/leases.py, app/services/blockchain/   *)
(* walrus_anchor_service.py, app/services/verification_service.py), the    *)
(* escrow hold of a deposit (app/services/blockchain/blockchain_service.py)*)
(* and maintenance requests (app/services/maintenance_service.py,          *)
(* app/routers/maintenance.py).  The units are of one property, and the    *)
(* tenants rows of one login.                                              *)
(***************************************************************************)
EXTENDS Requests

CONSTANTS
    Premises,     \* units rows of the property
    Contracts,    \* ids of leases rows
    RowOf,        \* leases.tenant_id of each
    Terms,        \* rents and deposits a lease may state
    Tickets,      \* ids of maintenance_requests rows
    MaxHolds,     \* bound: escrow_holds rows
    MaxDay        \* bound: days that matter

ASSUME UpkeepAssumption == MaxDay \in Nat \ {0} /\ None \notin Terms

VARIABLES
    premises,     \* units rows that exist
    contract,     \* leases rows
    holds,        \* escrow_holds rows, in id order: all of them stay pending
    ticket,       \* maintenance_requests rows
    now

upkeepVars == <<premises, contract, holds, ticket, now>>

-----------------------------------------------------------------------------

\* proof is the terms whose hash was stored, None before the anchoring.
ContractRow == [status : {"active", "terminated"}, unit : Premises \cup {None},
                terms : Terms, proof : Terms \cup {None}]
NoContract == [status |-> "absent", unit |-> None, terms |-> None, proof |-> None]

TicketStatus == {"open", "in_progress", "resolved", "closed"}
TicketRow == [unit : Premises, by : {"tenant", "landlord"}, status : TicketStatus,
              resolved : 0 .. MaxDay]
NoTicket == [unit |-> None, by |-> None, status |-> "absent", resolved |-> 0]

UpkeepInit ==
    /\ premises = Premises
    /\ contract = [c \in Contracts |-> NoContract]
    /\ holds = <<>>
    /\ ticket = [k \in Tickets |-> NoTicket]
    /\ now = 1

UpkeepTypeOK ==
    /\ premises \subseteq Premises
    /\ contract \in [Contracts -> ContractRow \cup {NoContract}]
    /\ holds \in Seq([contract : Contracts, terms : Terms])
    /\ ticket \in [Tickets -> TicketRow \cup {NoTicket}]
    /\ now \in 1 .. MaxDay

Drawn(c) == contract[c] # NoContract
Filed(k) == ticket[k] # NoTicket

\* The active leases of a unit.
ActiveOf(u) == {c \in Contracts : contract[c].status = "active" /\ contract[c].unit = u}

-----------------------------------------------------------------------------
(* The lease and its agreement.                                            *)

\* create_lease commits the lease with no proof; who wins a unit is the
\* subject of Tenancy.
CreateContract(w, c, u, t) ==
    /\ Ready(w, "create_lease")
    /\ ~Drawn(c)
    /\ u \in premises
    /\ ActiveOf(u) = {}
    /\ contract' = [contract EXCEPT ![c] =
                      [status |-> "active", unit |-> u, terms |-> t, proof |-> None]]
    /\ Goto(w, "payload", [contract |-> c])
    /\ UNCHANGED <<premises, holds, ticket, now>>

\* Mutant: a lease is not anchored.
PayloadSkipped(w) ==
    /\ pc[w] = "payload"
    /\ Respond(w)
    /\ UNCHANGED upkeepVars

\* The lease is read again, and its terms sent to Walrus.
BuildPayload(w) ==
    /\ pc[w] = "payload"
    /\ Goto(w, "anchor", [contract |-> job[w].contract, terms |-> contract[job[w].contract].terms])
    /\ UNCHANGED upkeepVars

\* The hash and the verification token are stored in a second commit; when
\* Walrus does not answer the hash is computed here.
AnchorContract(w) ==
    /\ pc[w] = "anchor"
    /\ contract' = [contract EXCEPT ![job[w].contract].proof = job[w].terms]
    /\ Respond(w)
    /\ UNCHANGED <<premises, holds, ticket, now>>

\* update_lease changes the terms of an active lease and not its proof.
UpdateContract(c, t) ==
    /\ Served("update_lease")
    /\ contract[c].status = "active"
    /\ contract' = [contract EXCEPT ![c].terms = t]
    /\ UNCHANGED <<requests, premises, holds, ticket, now>>

TerminateContract(c) ==
    /\ Served("terminate_lease")
    /\ contract[c].status = "active"
    /\ contract' = [contract EXCEPT ![c].status = "terminated"]
    /\ UNCHANGED <<requests, premises, holds, ticket, now>>

\* verify_contract: a token finds the lease, its hash is there, and the lease
\* is not ended.
ContractVerifies(c) == contract[c].proof # None /\ contract[c].status = "active"

-----------------------------------------------------------------------------
(* Escrow.  Nothing sets a hold funded or held, so release_escrow refuses  *)
(* every hold and has no step here.                                        *)

\* Mutant: a pending hold is not found.
HoldsFunded(c) == {}

HoldsOf(c) == {h \in DOMAIN holds : holds[h].contract = c}

\* create_escrow_for_lease looks for an open hold, whatever the lease's status.
EscrowRead(w, c) ==
    /\ Ready(w, "create_escrow")
    /\ Drawn(c)
    /\ HoldsOf(c) = {}
    /\ Goto(w, "escrow", [contract |-> c, terms |-> contract[c].terms])
    /\ UNCHANGED upkeepVars

EscrowCommit(w) ==
    /\ pc[w] = "escrow"
    /\ Len(holds) < MaxHolds
    /\ holds' = Append(holds, job[w])
    /\ Respond(w)
    /\ UNCHANGED <<premises, contract, ticket, now>>

-----------------------------------------------------------------------------
(* Maintenance requests.                                                   *)

LivesIn(r, u) == \E c \in ActiveOf(u) : RowOf[c] = r

\* create_request takes whichever of the login's tenants rows comes first, and
\* the landlord for any unit.
Report(w, k, by, u) ==
    /\ Ready(w, "report")
    /\ ~Filed(k)
    /\ u \in premises
    /\ by = "tenant" => \E c \in Contracts : LivesIn(RowOf[c], u)
    /\ Goto(w, "report", [ticket |-> k, by |-> by, unit |-> u])
    /\ UNCHANGED upkeepVars

\* A unit deleted meanwhile, or an id another request took, refuses the row.
CommitReport(w) ==
    LET j == job[w] IN
    /\ pc[w] = "report"
    /\ IF j.unit \in premises /\ ~Filed(j.ticket)
       THEN ticket' = [ticket EXCEPT ![j.ticket] =
                         [unit |-> j.unit, by |-> j.by, status |-> "open", resolved |-> 0]]
       ELSE UNCHANGED ticket
    /\ Respond(w)
    /\ UNCHANGED <<premises, contract, holds, now>>

\* Mutant: every resolution is dated anew.
ResolvedAgain(seen, status) == IF status = "resolved" THEN now ELSE seen.resolved

\* update_request dates the first resolution, and keeps the date after that.
ResolvedOn(seen, status) ==
    IF status = "resolved" /\ seen.resolved = 0 THEN now ELSE seen.resolved

UpdateTicket(w, k, status) ==
    /\ Ready(w, "update_ticket")
    /\ Filed(k)
    /\ Goto(w, "update_ticket",
            [ticket |-> k, seen |-> ticket[k],
             set |-> [status |-> status, resolved |-> ResolvedOn(ticket[k], status)]])
    /\ UNCHANGED upkeepVars

\* A row deleted meanwhile is not updated, and the request fails.
CommitTicket(w) ==
    LET j == job[w] IN
    /\ pc[w] = "update_ticket"
    /\ IF Filed(j.ticket)
       THEN ticket' = [ticket EXCEPT ![j.ticket] = Written(@, j.seen, j.set)]
       ELSE UNCHANGED ticket
    /\ Respond(w)
    /\ UNCHANGED <<premises, contract, holds, now>>

DeleteTicket(k) ==
    /\ Served("delete_ticket")
    /\ Filed(k)
    /\ ticket' = [ticket EXCEPT ![k] = NoTicket]
    /\ UNCHANGED <<requests, premises, contract, holds, now>>

-----------------------------------------------------------------------------
(* The end of a unit.                                                      *)

TicketsOf(units) == {k \in Tickets : ticket[k].unit \in units}

\* Its leases stay, without a unit.
Detached(units) ==
    [c \in Contracts |-> [contract[c] EXCEPT !.unit = IF @ \in units THEN None ELSE @]]

\* delete_unit refuses an occupied one; the foreign key of a request refuses
\* it too, in the same transaction.
DeleteUnit(u) ==
    /\ Served("delete_unit")
    /\ u \in premises
    /\ ActiveOf(u) = {}
    /\ TicketsOf({u}) = {}
    /\ premises' = premises \ {u}
    /\ contract' = Detached({u})
    /\ UNCHANGED <<requests, holds, ticket, now>>

\* delete_property deletes the requests of its units first.
DeletePremises(w) ==
    /\ Ready(w, "delete_premises")
    /\ premises # {}
    /\ \A u \in premises : ActiveOf(u) = {}
    /\ Goto(w, "delete_premises", [units |-> premises, gone |-> TicketsOf(premises)])
    /\ UNCHANGED upkeepVars

\* A request made since then holds its unit, and all is rolled back.
CommitPremises(w) ==
    LET j == job[w] IN
    /\ pc[w] = "delete_premises"
    /\ IF TicketsOf(j.units) \subseteq j.gone
       THEN /\ premises' = premises \ j.units
            /\ contract' = Detached(j.units)
            /\ ticket' = [k \in Tickets |-> IF k \in j.gone THEN NoTicket ELSE ticket[k]]
       ELSE UNCHANGED <<premises, contract, ticket>>
    /\ Respond(w)
    /\ UNCHANGED <<holds, now>>

TimePasses ==
    /\ Served("next_day")
    /\ now < MaxDay
    /\ now' = now + 1
    /\ UNCHANGED <<requests, premises, contract, holds, ticket>>

UpkeepNext ==
    \/ \E w \in Workers, c \in Contracts :
          \/ \E u \in Premises, t \in Terms : CreateContract(w, c, u, t)
          \/ EscrowRead(w, c)
    \/ \E c \in Contracts : TerminateContract(c) \/ \E t \in Terms : UpdateContract(c, t)
    \/ \E w \in Workers, k \in Tickets :
          \/ \E by \in {"tenant", "landlord"}, u \in Premises : Report(w, k, by, u)
          \/ \E s \in TicketStatus : UpdateTicket(w, k, s)
    \/ \E k \in Tickets : DeleteTicket(k)
    \/ \E u \in Premises : DeleteUnit(u)
    \/ \E w \in Workers :
          \/ BuildPayload(w)
          \/ AnchorContract(w)
          \/ EscrowCommit(w)
          \/ CommitReport(w)
          \/ CommitTicket(w)
          \/ DeletePremises(w)
          \/ CommitPremises(w)
          \/ Die(w) /\ UNCHANGED upkeepVars
    \/ TimePasses

-----------------------------------------------------------------------------

\* The public page confirms a contract exactly while its lease is active: the
\* anchoring follows the lease in a commit of its own, and only a request that
\* dies between the two leaves an active lease that never verifies
\* (create_lease, verify_contract).
ContractsVerify ==
    ~load.fails =>
        \A c \in Contracts :
            \/ ContractVerifies(c) <=> contract[c].status = "active"
            \/ \E w \in Workers : pc[w] \in {"payload", "anchor"} /\ job[w].contract = c

\* "This rental agreement matches the anchored record" (verify_contract, the
\* message of a valid contract): what a contract that verifies states is what
\* was anchored.  update_lease changes the one and not the other.
VerifiedContractsMatch ==
    \A c \in Contracts : ContractVerifies(c) => contract[c].proof = contract[c].terms

\* One request at a time, a deposit is held once (create_escrow_for_lease).
OneOpenHold ==
    ~load.overlap =>
        \A c \in Contracts : Cardinality({h \in DOMAIN holds : holds[h].contract = c}) <= 1

\* Whatever is reported while a property is deleted, a request's unit exists
\* (delete_property, create_request).
TicketsHaveUnits == \A k \in Tickets : Filed(k) => ticket[k].unit \in premises

TicketStory ==
    ~load.overlap =>
        \A k \in Tickets :
            /\ ~Filed(k) /\ Filed(k)' /\ ticket'[k].by = "tenant" =>
                   ActiveOf(ticket'[k].unit) # {}
            /\ ticket[k].resolved # 0 /\ Filed(k)' => ticket'[k].resolved = ticket[k].resolved
            /\ ticket'[k].status = "resolved" => ticket'[k].resolved # 0

\* One request at a time, a tenant reports only what is wrong in a unit he has
\* a lease of, and the day of the first resolution stays, through reopening
\* and closing (create_request, update_request).
TicketsKeepTheirStory == [][TicketStory]_upkeepVars

\* Maintenance requests outlive neither their unit nor their history
\* (delete_property, create_request, update_request).
TicketsAreKept == []TicketsHaveUnits /\ TicketsKeepTheirStory
=============================================================================
