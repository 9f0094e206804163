------------------------------- MODULE Tenancy -------------------------------
(***************************************************************************)
(* Who lives where: a landlord's units, tenants and leases, which three    *)
(* services keep in step by hand (app/services/tenant_service.py,          *)
(* lease_service.py, property_service.py, app/routers/leases.py).          *)
(*                                                                         *)
(* A unit's occupancy is written down three times: in units.status, in the *)
(* active lease and in tenants.unit_id.  Each handler reads some of the    *)
(* three and writes some of the three.  A handler that decides on what it  *)
(* read is two steps here, with other requests in between; one that reads  *)
(* nothing it decides on is one step.                                      *)
(*                                                                         *)
(* A workload says which handlers are in use, whether their requests       *)
(* overlap, and what may go wrong; an instance checks several.             *)
(***************************************************************************)
EXTENDS Integers, Sequences

CONSTANTS
    Workers,       \* requests that may be in flight at once
    Properties,
    Units,         \* ids of units rows
    Tenants,       \* ids of tenants rows
    PropertyOf,    \* units.property_id
    Workloads,     \* the workloads of the instance
    None           \* no row

ASSUME PropertyAssumption == PropertyOf \in [Units -> Properties]
ASSUME NoneAssumption == None \notin Units /\ None \notin Tenants

\* repeats: a tenant who has left may be moved out again; halts: create_tenant
\* may stop between its two commits; maxLeases is a bound on leases rows.
ASSUME WorkloadAssumption ==
    \A l \in Workloads :
        /\ l.overlap \in BOOLEAN /\ l.repeats \in BOOLEAN /\ l.halts \in BOOLEAN
        /\ l.maxLeases \in Nat

VARIABLES
    load,          \* the workload, which never changes
    listed,        \* properties rows
    unit,          \* units.status, or "absent" before and "deleted" after the row
    tenant,        \* tenants.status and unit_id
    leases,        \* leases rows, in id order; none is ever deleted
    pc,            \* where each worker's request stands
    job            \* what each worker's session holds

rows == <<listed, unit, tenant, leases>>
vars == <<load, rows, pc, job>>

-----------------------------------------------------------------------------

UnitStatus   == {"vacant", "occupied", "maintenance"}
TenantStatus == {"active", "inactive"}
Phases == {"idle", "onboard", "occupy", "lease", "move_out", "terminate",
           "list", "backfill", "delete_unit", "delete_property"}

Tenant == [status : TenantStatus \cup {"absent"}, unit : Units \cup {None}]
Lease  == [tenant : Tenants, unit : Units \cup {None},
           status : {"active", "terminated"}]

\* lease is 0 when the session found none; todo is the tenants a listing has
\* still to look at.
Job == [tenant : Tenants \cup {None}, unit : Units \cup {None},
        lease : Nat, seen : UnitStatus, property : Properties \cup {None},
        todo : SUBSET Tenants]

Idle == [tenant |-> None, unit |-> None, lease |-> 0, seen |-> "vacant",
         property |-> None, todo |-> {}]

TypeOK ==
    /\ listed \subseteq Properties
    /\ unit \in [Units -> UnitStatus \cup {"absent", "deleted"}]
    /\ tenant \in [Tenants -> Tenant]
    /\ leases \in Seq(Lease)
    /\ pc \in [Workers -> Phases]
    /\ job \in [Workers -> Job]

Init ==
    /\ load \in Workloads
    /\ listed = Properties
    /\ unit = [u \in Units |-> "absent"]
    /\ tenant = [t \in Tenants |-> [status |-> "absent", unit |-> None]]
    /\ leases = <<>>
    /\ pc = [w \in Workers |-> "idle"]
    /\ job = [w \in Workers |-> Idle]

-----------------------------------------------------------------------------

Exists(u) == u \in Units /\ unit[u] \in UnitStatus
Known(t) == tenant[t].status # "absent"
Active(l) == leases[l].status = "active"

ActiveLeasesOf(t) == {l \in DOMAIN leases : leases[l].tenant = t /\ Active(l)}
ActiveLeasesOn(u) == {l \in DOMAIN leases : leases[l].unit = u /\ Active(l)}

\* No lease is ever draft or pending: the code creates only active ones.
HasOpenLease(t) == ActiveLeasesOf(t) # {}

StatusOf(u) == IF Exists(u) THEN unit[u] ELSE "vacant"

Goto(w, phase, j) ==
    /\ pc' = [pc EXCEPT ![w] = phase]
    /\ job' = [job EXCEPT ![w] = j]

Respond(w) == Goto(w, "idle", Idle)

Uses(handler) == handler \in load.uses

Served(handler) ==
    /\ Uses(handler)
    /\ load.overlap \/ \A w \in Workers : pc[w] = "idle"

Ready(w, handler) == pc[w] = "idle" /\ Served(handler)

\* An UPDATE leaves out a column whose new value is the one the session read.
WriteBack(assigned, loaded, current) ==
    IF assigned = loaded THEN current ELSE assigned

\* Mutant: the tenant is onboarded without a contract.
WithLeaseNone(t, u) == leases

\* leases after create_lease_for_tenant or create_lease.
WithLease(t, u) ==
    Append(leases, [tenant |-> t, unit |-> u, status |-> "active"])

\* leases after lease l, if there is one, is terminated.
Terminated(l) ==
    IF l = 0 THEN leases ELSE [leases EXCEPT ![l].status = "terminated"]

-----------------------------------------------------------------------------
(* create_tenant.  Anchoring the agreement commits the tenant and the      *)
(* lease (walrus_anchor_service.anchor_lease_agreement); the unit's status *)
(* is a second commit.                                                     *)

\* Mutant: an occupied unit is let too.
LettableAny(u) == Exists(u)

Lettable(u) == Exists(u) /\ unit[u] # "occupied"

OnboardRead(w, t, u) ==
    /\ Ready(w, "create_tenant")
    /\ ~Known(t)
    /\ \A v \in Workers : pc[v] \in {"onboard", "occupy"} => job[v].tenant # t
    /\ Lettable(u)
    /\ Goto(w, "onboard", [Idle EXCEPT !.tenant = t, !.unit = u])
    /\ UNCHANGED rows

InsertTenantAndLease(t, u) ==
    /\ Exists(u)
    /\ Len(leases) < load.maxLeases
    /\ tenant' = [tenant EXCEPT ![t] = [status |-> "active", unit |-> u]]
    /\ leases' = WithLease(t, u)
    /\ UNCHANGED listed

OnboardCommit(w) ==
    /\ pc[w] = "onboard"
    /\ InsertTenantAndLease(job[w].tenant, job[w].unit)
    /\ Goto(w, "occupy", job[w])
    /\ UNCHANGED unit

\* The anchor raised before its commit: one commit for everything.
OnboardUnanchored(w) ==
    LET j == job[w] IN
    /\ pc[w] = "onboard"
    /\ InsertTenantAndLease(j.tenant, j.unit)
    /\ unit' = [unit EXCEPT ![j.unit] = "occupied"]
    /\ Respond(w)

\* The first commit expired the unit, so the status is always written.
Occupy(w) ==
    /\ pc[w] = "occupy"
    /\ Exists(job[w].unit)
    /\ unit' = [unit EXCEPT ![job[w].unit] = "occupied"]
    /\ Respond(w)
    /\ UNCHANGED <<listed, tenant, leases>>

-----------------------------------------------------------------------------
(* create_lease and terminate_lease.                                       *)

\* Mutant: the unit may have an active lease already.
LeasableAny(u) == Exists(u)

Leasable(u) == Exists(u) /\ ActiveLeasesOn(u) = {}

LeaseRead(w, t, u) ==
    /\ Ready(w, "create_lease")
    /\ Known(t)
    /\ Leasable(u)
    /\ Goto(w, "lease", [Idle EXCEPT !.tenant = t, !.unit = u,
                                     !.seen = unit[u]])
    /\ UNCHANGED rows

LeaseCommit(w) ==
    LET j == job[w] IN
    /\ pc[w] = "lease"
    /\ Exists(j.unit)
    /\ Len(leases) < load.maxLeases
    /\ leases' = WithLease(j.tenant, j.unit)
    /\ unit' = [unit EXCEPT ![j.unit] = WriteBack("occupied", j.seen, @)]
    /\ Respond(w)
    /\ UNCHANGED <<listed, tenant>>

TerminateRead(w, l) ==
    /\ Ready(w, "terminate_lease")
    /\ Active(l)
    /\ Goto(w, "terminate", [Idle EXCEPT !.lease = l,
                                         !.unit = leases[l].unit,
                                         !.seen = StatusOf(leases[l].unit)])
    /\ UNCHANGED rows

\* The unit a session loaded is freed, unless it was vacant when read; an
\* UPDATE of a row deleted since fails the request.
FreeUnit(j) ==
    IF j.unit = None \/ j.seen = "vacant"
    THEN UNCHANGED unit
    ELSE /\ Exists(j.unit)
         /\ unit' = [unit EXCEPT ![j.unit] = "vacant"]

TerminateCommit(w) ==
    /\ pc[w] = "terminate"
    /\ leases' = Terminated(job[w].lease)
    /\ FreeUnit(job[w])
    /\ Respond(w)
    /\ UNCHANGED <<listed, tenant>>

-----------------------------------------------------------------------------
(* move_out_tenant: some active lease of the tenant ends, and the unit of  *)
(* the tenant's row, which is kept, becomes vacant.                        *)

MoveOutRead(w, t) ==
    /\ Ready(w, "move_out")
    /\ Known(t)
    /\ tenant[t].status = "active" \/ load.repeats
    /\ \E l \in IF HasOpenLease(t) THEN ActiveLeasesOf(t) ELSE {0} :
          Goto(w, "move_out", [Idle EXCEPT !.tenant = t, !.lease = l,
                                           !.unit = tenant[t].unit,
                                           !.seen = StatusOf(tenant[t].unit)])
    /\ UNCHANGED rows

MoveOutCommit(w) ==
    LET j == job[w] IN
    /\ pc[w] = "move_out"
    /\ tenant' = [tenant EXCEPT ![j.tenant].status = "inactive"]
    /\ leases' = Terminated(j.lease)
    /\ FreeUnit(j)
    /\ Respond(w)
    /\ UNCHANGED listed

-----------------------------------------------------------------------------
(* list_leases: sync_tenant_leases_for_owner goes over the active tenants  *)
(* who have a unit and gives a lease to each one without, a commit each.   *)

\* Mutant: those who have left are looked at too.
ResidentOrPast(t) == tenant[t].unit # None

Resident(t) == tenant[t].status = "active" /\ tenant[t].unit # None

ListRead(w) ==
    LET todo == {t \in Tenants : Resident(t)} IN
    /\ Ready(w, "list_leases")
    /\ todo # {}
    /\ Goto(w, "list", [Idle EXCEPT !.todo = todo])
    /\ UNCHANGED rows

Listed(w, t) ==
    LET left == job[w].todo \ {t}
    IN  IF left = {} THEN Respond(w) ELSE Goto(w, "list", [Idle EXCEPT !.todo = left])

BackfillSkip(w, t) ==
    /\ pc[w] = "list"
    /\ t \in job[w].todo
    /\ HasOpenLease(t)
    /\ Listed(w, t)
    /\ UNCHANGED rows

BackfillRead(w, t) ==
    /\ pc[w] = "list"
    /\ t \in job[w].todo
    /\ ~HasOpenLease(t)
    /\ tenant[t].unit # None
    /\ Goto(w, "backfill", [job[w] EXCEPT !.tenant = t, !.unit = tenant[t].unit])
    /\ UNCHANGED rows

BackfillCommit(w) ==
    /\ pc[w] = "backfill"
    /\ Exists(job[w].unit)
    /\ Len(leases) < load.maxLeases
    /\ leases' = WithLease(job[w].tenant, job[w].unit)
    /\ Listed(w, job[w].tenant)
    /\ UNCHANGED <<listed, unit, tenant>>

-----------------------------------------------------------------------------
(* Units and properties.                                                   *)

CreateUnit(u, s) ==
    /\ Served("create_unit")
    /\ PropertyOf[u] \in listed
    /\ unit[u] = "absent"
    /\ unit' = [unit EXCEPT ![u] = s]
    /\ UNCHANGED <<listed, tenant, leases, pc, job>>

UpdateUnitStatus(u, s) ==
    /\ Served("update_unit_status")
    /\ Exists(u)
    /\ unit[u] # s
    /\ unit' = [unit EXCEPT ![u] = s]
    /\ UNCHANGED <<listed, tenant, leases, pc, job>>

\* update_tenant with a unit_id.
UpdateTenantUnit(t, u) ==
    /\ Served("update_tenant")
    /\ Known(t)
    /\ Exists(u)
    /\ tenant[t].unit # u
    /\ tenant' = [tenant EXCEPT ![t].unit = u]
    /\ UNCHANGED <<listed, unit, leases, pc, job>>

Detached(r, gone) == IF r.unit \in gone THEN [r EXCEPT !.unit = None] ELSE r

\* The rows of units go; those that name them keep NULL.
DeleteUnits(gone) ==
    /\ unit' = [u \in Units |-> IF u \in gone THEN "deleted" ELSE unit[u]]
    /\ tenant' = [t \in Tenants |-> Detached(tenant[t], gone)]
    /\ leases' = [l \in DOMAIN leases |-> Detached(leases[l], gone)]

Deletable(u) == Exists(u) /\ unit[u] # "occupied"

DeleteUnitRead(w, u) ==
    /\ Ready(w, "delete_unit")
    /\ Deletable(u)
    /\ Goto(w, "delete_unit", [Idle EXCEPT !.unit = u])
    /\ UNCHANGED rows

DeleteUnitCommit(w) ==
    /\ pc[w] = "delete_unit"
    /\ Exists(job[w].unit)
    /\ DeleteUnits({job[w].unit})
    /\ Respond(w)
    /\ UNCHANGED listed

UnitsOf(p) == {u \in Units : Exists(u) /\ PropertyOf[u] = p}

HasActiveTenant(p) ==
    \E t \in Tenants : tenant[t].status = "active" /\ tenant[t].unit \in UnitsOf(p)

DeletePropertyRead(w, p) ==
    /\ Ready(w, "delete_property")
    /\ p \in listed
    /\ \A u \in UnitsOf(p) : unit[u] # "occupied"
    /\ ~HasActiveTenant(p)
    /\ Goto(w, "delete_property", [Idle EXCEPT !.property = p])
    /\ UNCHANGED rows

\* The database cascades to units added since.
DeletePropertyCommit(w) ==
    /\ pc[w] = "delete_property"
    /\ job[w].property \in listed
    /\ listed' = listed \ {job[w].property}
    /\ DeleteUnits(UnitsOf(job[w].property))
    /\ Respond(w)

\* A request fails, at a check, a constraint or a crash; what it has not
\* committed is rolled back.
Abort(w) ==
    /\ pc[w] # "idle"
    /\ pc[w] = "occupy" => load.halts \/ ~Exists(job[w].unit)
    /\ Respond(w)
    /\ UNCHANGED rows

-----------------------------------------------------------------------------

Arrive(w) ==
    \/ \E t \in Tenants, u \in Units : OnboardRead(w, t, u) \/ LeaseRead(w, t, u)
    \/ \E l \in DOMAIN leases : TerminateRead(w, l)
    \/ \E t \in Tenants : MoveOutRead(w, t)
    \/ ListRead(w)
    \/ \E u \in Units : DeleteUnitRead(w, u)
    \/ \E p \in Properties : DeletePropertyRead(w, p)

Proceed(w) ==
    \/ OnboardCommit(w) \/ OnboardUnanchored(w) \/ Occupy(w)
    \/ LeaseCommit(w) \/ TerminateCommit(w) \/ MoveOutCommit(w)
    \/ \E t \in Tenants : BackfillSkip(w, t) \/ BackfillRead(w, t)
    \/ BackfillCommit(w)
    \/ DeleteUnitCommit(w) \/ DeletePropertyCommit(w)

AtOnce ==
    \/ \E u \in Units, s \in UnitStatus : CreateUnit(u, s) \/ UpdateUnitStatus(u, s)
    \/ \E t \in Tenants, u \in Units : UpdateTenantUnit(t, u)

Next ==
    /\ \/ \E w \in Workers : Arrive(w) \/ Proceed(w) \/ Abort(w)
       \/ AtOnce
    /\ UNCHANGED load

Spec == Init /\ [][Next]_vars

-----------------------------------------------------------------------------
(* What holds whatever runs at the same time.                              *)

\* Whoever has been onboarded has a contract on record, however the request
\* that did it ended and whatever came after (create_lease_for_tenant:
\* "contracts list uses leases, not tenants alone").
TenantsHaveLeases ==
    \A t \in Tenants :
        Known(t) => \E l \in DOMAIN leases : leases[l].tenant = t

-----------------------------------------------------------------------------
(* What holds where the handlers in use agree with each other.             *)

\* A tenant who has moved out holds no active lease (move_out_tenant), where
\* no tenant is given a second one by create_lease, or by a listing that
\* overlaps the move-out.
MovedOutHasNoLease ==
    ~Uses("create_lease") /\ ~(load.overlap /\ Uses("list_leases")) =>
        \A t \in Tenants : tenant[t].status = "inactive" => ~HasOpenLease(t)

\* No unit is let twice ("Check unit is not already occupied by active
\* lease", routers/leases.py).
OneActiveLeasePerUnit ==
    \A u \in Units : \A k, l \in ActiveLeasesOn(u) : k = l

\* The marketplace, which offers the vacant units, offers none that is let.
VacantUnitsAreFree ==
    \A u \in Units : unit[u] = "vacant" /\ (\A w \in Workers : pc[w] # "occupy")
                     => ActiveLeasesOn(u) = {}

\* No unit is deleted from under a lease in effect (delete_unit).
ActiveLeasesKeepTheirUnit ==
    \A l \in DOMAIN leases : Active(l) => leases[l].unit # None

\* delete_property is "blocked when any unit is occupied or an active tenant
\* is assigned": an active tenant's home is never deleted with the property.
ActiveTenantsKeepTheirUnit ==
    \A t \in Tenants : tenant[t].status = "active" => Exists(tenant[t].unit)

\* The landlord ends tenancies in one way, by moving tenants out or by
\* terminating leases, sets no status by hand and loses no second commit.
EndsOneWay ==
    /\ ~Uses("update_unit_status") /\ ~load.repeats /\ ~load.halts
    /\ \/ load.uses \cap {"move_out", "list_leases"} = {}
       \/ load.uses \cap {"create_lease", "terminate_lease", "update_tenant"} = {}

\* One request at a time: a landlord who ends tenancies in one way never lets a
\* unit twice, what is listed as vacant is free, and no let unit is deleted;
\* and deleting a property takes no active tenant's home, however tenancies end
\* (create_tenant, create_lease, delete_unit, delete_property).
OccupancyAgrees ==
    ~load.overlap =>
        /\ EndsOneWay =>
              OneActiveLeasePerUnit /\ VacantUnitsAreFree /\ ActiveLeasesKeepTheirUnit
        /\ ~Uses("delete_unit") => ActiveTenantsKeepTheirUnit
=============================================================================
