---------------------------- MODULE Tenancy_proofs ----------------------------
(***************************************************************************)
(* Tenants and their leases, for every number of workers, units and        *)
(* tenants.                                                                *)
(*                                                                         *)
(* The first invariant, Base, needs nothing of the handlers in use.  The   *)
(* second, Homes, is for workloads where only create_tenant makes leases:  *)
(* with create_lease or the backfill of list_leases a tenant may hold two, *)
(* of which a move-out ends one.  The third, Serial, is for requests that  *)
(* come one at a time: what a session has read is still so when it         *)
(* commits, and the three records of a unit's occupancy agree.             *)
(***************************************************************************)
EXTENDS Tenancy, SequenceTheorems, TLAPS

USE PropertyAssumption, NoneAssumption

-----------------------------------------------------------------------------
(* The inductive invariants.                                               *)

\* A session that is going to write a tenant or a lease names a tenant, and
\* one that moves a tenant out has found the row.
SessionsNameTenants ==
    \A w \in Workers :
        /\ pc[w] \in {"onboard", "lease", "move_out", "backfill"}
              => job[w].tenant \in Tenants
        /\ pc[w] = "move_out" => Known(job[w].tenant)

Base == TypeOK /\ SessionsNameTenants /\ TenantsHaveLeases

OnlyOnboarding == load.uses \cap {"create_lease", "list_leases"} = {}

NoOtherLeases == \A w \in Workers : pc[w] \notin {"lease", "list", "backfill"}

\* Every lease is its tenant's only one.
OneLeaseEach ==
    /\ \A l \in DOMAIN leases : Known(leases[l].tenant)
    /\ \A k, l \in DOMAIN leases : leases[k].tenant = leases[l].tenant => k = l

\* A tenant is being onboarded by one request, and has no row yet.
Onboardings ==
    \A w \in Workers : pc[w] = "onboard" =>
        /\ ~Known(job[w].tenant)
        /\ \A v \in Workers :
              pc[v] = "onboard" /\ job[v].tenant = job[w].tenant => v = w

\* What a move-out has found is all there is to end, however long ago it
\* looked.
MoveOutsSeeAll ==
    \A w \in Workers : pc[w] = "move_out" =>
        \A l \in DOMAIN leases :
            leases[l].tenant = job[w].tenant /\ leases[l].status = "active"
                => l = job[w].lease

LeftHasNoLease == \A t \in Tenants : tenant[t].status = "inactive" => ~HasOpenLease(t)

Homes ==
    /\ Base
    /\ NoOtherLeases
    /\ OneLeaseEach
    /\ Onboardings
    /\ MoveOutsSeeAll
    /\ LeftHasNoLease

-----------------------------------------------------------------------------
(* Rows.                                                                   *)

LEMMA IdleIsJob == Idle \in Job
BY DEF Idle, Job, UnitStatus

\* Ending a lease leaves every lease its tenant.
LEMMA TerminatedRows ==
    ASSUME leases \in Seq(Lease), NEW l
    PROVE  /\ Terminated(l) \in Seq(Lease)
           /\ DOMAIN Terminated(l) = DOMAIN leases
           /\ \A k \in DOMAIN leases :
                 /\ Terminated(l)[k].tenant = leases[k].tenant
                 /\ Terminated(l)[k].unit = leases[k].unit
                 /\ k # l => Terminated(l)[k] = leases[k]
                 /\ Terminated(l)[k].status = "active" => leases[k].status = "active"
                 /\ l # 0 /\ k = l => Terminated(l)[k].status = "terminated"
<1>1. leases \in [1 .. Len(leases) -> Lease] /\ Len(leases) \in Nat
  OBVIOUS
<1>2. CASE l = 0
  BY <1>1, <1>2 DEF Terminated
<1>3. CASE l # 0
  <2>1. /\ Terminated(l) \in [1 .. Len(leases) -> Lease]
        /\ \A k \in DOMAIN leases :
              Terminated(l)[k] = IF k = l THEN [leases[k] EXCEPT !.status = "terminated"]
                                          ELSE leases[k]
    BY <1>1, <1>3 DEF Terminated, Lease
  <2>2. Terminated(l) \in Seq(Lease)
    BY <1>1, <2>1, SeqDef
  <2>3. QED
    BY <1>1, <2>1, <2>2 DEF Lease
<1>4. QED
  BY <1>2, <1>3

\* A new lease is the last row.
LEMMA NewRows ==
    ASSUME leases \in Seq(Lease), NEW t \in Tenants, NEW u \in Units
    PROVE  /\ WithLease(t, u) \in Seq(Lease)
           /\ Len(leases) + 1 \notin DOMAIN leases
           /\ DOMAIN WithLease(t, u) = DOMAIN leases \cup {Len(leases) + 1}
           /\ WithLease(t, u)[Len(leases) + 1].tenant = t
           /\ \A k \in DOMAIN leases : WithLease(t, u)[k] = leases[k]
BY DEF WithLease, Lease

\* Deleting units changes nothing but what rows say of their unit.
LEMMA DetachedRows ==
    ASSUME TypeOK, NEW gone, DeleteUnits(gone)
    PROVE  /\ unit' \in [Units -> UnitStatus \cup {"absent", "deleted"}]
           /\ tenant' \in [Tenants -> Tenant]
           /\ \A t \in Tenants : tenant'[t].status = tenant[t].status
           /\ leases' \in Seq(Lease)
           /\ DOMAIN leases' = DOMAIN leases
           /\ \A l \in DOMAIN leases :
                 /\ leases'[l].tenant = leases[l].tenant
                 /\ leases'[l].status = leases[l].status
<1>1. leases \in [1 .. Len(leases) -> Lease] /\ Len(leases) \in Nat
  BY DEF TypeOK
<1>2. \A r \in Lease : /\ Detached(r, gone) \in Lease
                       /\ Detached(r, gone).tenant = r.tenant
                       /\ Detached(r, gone).status = r.status
  BY DEF Detached, Lease
<1>3. \A r \in Tenant : /\ Detached(r, gone) \in Tenant
                        /\ Detached(r, gone).status = r.status
  BY DEF Detached, Tenant
<1>4. leases' \in [1 .. Len(leases) -> Lease]
  BY <1>1, <1>2 DEF DeleteUnits
<1>5. leases' \in Seq(Lease)
  BY <1>1, <1>4, SeqDef
<1>6. \A l \in DOMAIN leases :
          leases'[l].tenant = leases[l].tenant /\ leases'[l].status = leases[l].status
  BY <1>1, <1>2 DEF DeleteUnits
<1>7. /\ tenant' \in [Tenants -> Tenant]
      /\ \A t \in Tenants : tenant'[t].status = tenant[t].status
  BY <1>3 DEF DeleteUnits, TypeOK
<1>8. QED
  BY <1>1, <1>4, <1>5, <1>6, <1>7 DEF DeleteUnits, TypeOK

-----------------------------------------------------------------------------
(* Base: steps of the same effect.                                         *)

\* What every step does to the rows: they keep their types, no tenant and no
\* lease is lost, and a new tenant brings a lease.
RowsGrow ==
    /\ listed' \subseteq Properties
    /\ unit' \in [Units -> UnitStatus \cup {"absent", "deleted"}]
    /\ tenant' \in [Tenants -> Tenant]
    /\ leases' \in Seq(Lease)
    /\ DOMAIN leases \subseteq DOMAIN leases'
    /\ \A l \in DOMAIN leases : leases'[l].tenant = leases[l].tenant
    /\ \A t \in Tenants : tenant[t].status # "absent" => tenant'[t].status # "absent"
    /\ \A t \in Tenants :
          tenant[t].status = "absent" /\ tenant'[t].status # "absent"
              => \E l \in DOMAIN leases' : leases'[l].tenant = t

LEMMA SameRowsGrow ==
    ASSUME Base, UNCHANGED rows
    PROVE  RowsGrow
BY DEF Base, TypeOK, rows, RowsGrow

LEMMA GrowthKeepsTenants ==
    ASSUME Base, RowsGrow
    PROVE  TenantsHaveLeases'
<1> SUFFICES ASSUME NEW t \in Tenants, tenant'[t].status # "absent"
             PROVE  \E l \in DOMAIN leases' : leases'[l].tenant = t
  BY DEF TenantsHaveLeases, Known
<1>1. CASE tenant[t].status = "absent"
  BY <1>1 DEF RowsGrow
<1>2. CASE tenant[t].status # "absent"
  BY <1>2 DEF RowsGrow, Base, TenantsHaveLeases, Known
<1>3. QED
  BY <1>1, <1>2

\* A step that sends a worker to a phase, with the tenant the phase asks for.
LEMMA GotoKeepsBase ==
    ASSUME Base, RowsGrow,
           NEW w \in Workers, NEW phase \in Phases, NEW j \in Job,
           Goto(w, phase, j),
           phase \in {"onboard", "lease", "move_out", "backfill"} => j.tenant \in Tenants,
           phase = "move_out" => tenant[j.tenant].status # "absent"
    PROVE  Base'
<1>1. TypeOK'
  BY DEF Base, TypeOK, RowsGrow, Goto
<1>2. SessionsNameTenants'
  <2> SUFFICES ASSUME NEW v \in Workers
               PROVE  /\ pc'[v] \in {"onboard", "lease", "move_out", "backfill"}
                            => job'[v].tenant \in Tenants
                      /\ pc'[v] = "move_out" => tenant'[job'[v].tenant].status # "absent"
    BY DEF SessionsNameTenants, Known
  <2>1. CASE v = w
    BY <2>1 DEF Base, TypeOK, RowsGrow, Goto
  <2>2. CASE v # w
    BY <2>2 DEF Base, TypeOK, SessionsNameTenants, Known, RowsGrow, Goto
  <2>3. QED
    BY <2>1, <2>2
<1>3. QED
  BY <1>1, <1>2, GrowthKeepsTenants DEF Base

LEMMA RespondKeepsBase ==
    ASSUME Base, RowsGrow, NEW w \in Workers, Respond(w)
    PROVE  Base'
BY GotoKeepsBase, IdleIsJob DEF Respond, Phases

LEMMA AtOnceKeepsBase ==
    ASSUME Base, RowsGrow, UNCHANGED <<pc, job>>
    PROVE  Base'
<1>1. TypeOK'
  BY DEF Base, TypeOK, RowsGrow
<1>2. SessionsNameTenants'
  BY DEF Base, SessionsNameTenants, Known, RowsGrow
<1>3. QED
  BY <1>1, <1>2, GrowthKeepsTenants DEF Base

-----------------------------------------------------------------------------
(* Base: what each handler writes.                                         *)

\* The unit a session frees keeps a status.
LEMMA FreedUnit ==
    ASSUME TypeOK, NEW j \in Job, FreeUnit(j)
    PROVE  unit' \in [Units -> UnitStatus \cup {"absent", "deleted"}]
BY DEF TypeOK, FreeUnit, UnitStatus

LEMMA OccupiedUnit ==
    ASSUME TypeOK, NEW u, NEW s \in UnitStatus, unit' = [unit EXCEPT ![u] = s]
    PROVE  unit' \in [Units -> UnitStatus \cup {"absent", "deleted"}]
BY DEF TypeOK

\* A step that writes a unit's status and nothing else.
LEMMA UnitWriteGrows ==
    ASSUME Base, unit' \in [Units -> UnitStatus \cup {"absent", "deleted"}],
           UNCHANGED <<listed, tenant, leases>>
    PROVE  RowsGrow
BY DEF Base, TypeOK, RowsGrow

\* create_tenant.
LEMMA InsertGrows ==
    ASSUME Base, NEW t \in Tenants, NEW u, InsertTenantAndLease(t, u),
           unit' \in [Units -> UnitStatus \cup {"absent", "deleted"}]
    PROVE  RowsGrow
<1>1. u \in Units
  BY DEF InsertTenantAndLease, Exists
<1>2. /\ leases' = WithLease(t, u)
      /\ tenant' = [tenant EXCEPT ![t] = [status |-> "active", unit |-> u]]
      /\ UNCHANGED listed
  BY DEF InsertTenantAndLease
<1>3. [status |-> "active", unit |-> u] \in Tenant
  BY <1>1 DEF Tenant, TenantStatus
<1>4. /\ tenant' \in [Tenants -> Tenant]
      /\ tenant'[t].status = "active"
      /\ \A s \in Tenants : s # t => tenant'[s] = tenant[s]
  BY <1>2, <1>3 DEF Base, TypeOK
<1>5. leases \in Seq(Lease)
  BY DEF Base, TypeOK
<1>6. QED
  BY <1>1, <1>2, <1>4, <1>5, NewRows DEF Base, TypeOK, RowsGrow

\* create_lease and the backfill.
LEMMA NewLeaseGrows ==
    ASSUME Base, NEW t \in Tenants, NEW u \in Units,
           leases' = WithLease(t, u), UNCHANGED <<listed, tenant>>,
           unit' \in [Units -> UnitStatus \cup {"absent", "deleted"}]
    PROVE  RowsGrow
<1>1. leases \in Seq(Lease)
  BY DEF Base, TypeOK
<1>2. QED
  BY <1>1, NewRows DEF Base, TypeOK, RowsGrow

\* terminate_lease and move_out_tenant.
LEMMA TerminatedGrows ==
    ASSUME Base, NEW l, leases' = Terminated(l), UNCHANGED listed,
           unit' \in [Units -> UnitStatus \cup {"absent", "deleted"}],
           tenant' \in [Tenants -> Tenant],
           \A t \in Tenants :
               tenant'[t].status = "absent" <=> tenant[t].status = "absent"
    PROVE  RowsGrow
<1>1. leases \in Seq(Lease)
  BY DEF Base, TypeOK
<1>2. QED
  BY <1>1, TerminatedRows DEF Base, TypeOK, RowsGrow

LEMMA DeletionGrows ==
    ASSUME Base, NEW gone, DeleteUnits(gone), listed' \subseteq Properties
    PROVE  RowsGrow
BY DetachedRows DEF Base, RowsGrow

\* A listing goes on, or answers.
LEMMA ListedKeepsBase ==
    ASSUME Base, RowsGrow, NEW w \in Workers, NEW t, Listed(w, t)
    PROVE  Base'
<1>1. PICK left \in SUBSET Tenants :
          Respond(w) \/ Goto(w, "list", [Idle EXCEPT !.todo = left])
  BY DEF Listed, Base, TypeOK, Job
<1>2. [Idle EXCEPT !.todo = left] \in Job
  BY DEF Idle, Job, UnitStatus
<1>3. QED
  BY <1>1, <1>2, RespondKeepsBase, GotoKeepsBase DEF Phases

-----------------------------------------------------------------------------
(* Base: the actions.                                                      *)

LEMMA ArriveKeepsBase ==
    ASSUME Base, NEW w \in Workers, Arrive(w)
    PROVE  Base'
<1>1. ASSUME NEW t \in Tenants, NEW u \in Units, OnboardRead(w, t, u)
      PROVE  Base'
  <2>1. [Idle EXCEPT !.tenant = t, !.unit = u] \in Job
    BY DEF Idle, Job, UnitStatus
  <2>2. QED
    BY <1>1, <2>1, SameRowsGrow, GotoKeepsBase DEF OnboardRead, Idle, Phases
<1>2. ASSUME NEW t \in Tenants, NEW u \in Units, LeaseRead(w, t, u)
      PROVE  Base'
  <2>1. unit[u] \in UnitStatus
    BY <1>2 DEF LeaseRead, Leasable, Exists
  <2>2. [Idle EXCEPT !.tenant = t, !.unit = u, !.seen = unit[u]] \in Job
    BY <2>1 DEF Idle, Job
  <2>3. QED
    BY <1>2, <2>2, SameRowsGrow, GotoKeepsBase DEF LeaseRead, Idle, Phases
<1>3. ASSUME NEW l \in DOMAIN leases, TerminateRead(w, l)
      PROVE  Base'
  <2>0. leases \in [1 .. Len(leases) -> Lease] /\ Len(leases) \in Nat
    BY DEF Base, TypeOK
  <2>1. leases[l].unit \in Units \cup {None} /\ l \in Nat
    BY <2>0 DEF Lease
  <2>2. StatusOf(leases[l].unit) \in UnitStatus
    BY DEF StatusOf, Exists, UnitStatus
  <2>3. [Idle EXCEPT !.lease = l, !.unit = leases[l].unit,
                     !.seen = StatusOf(leases[l].unit)] \in Job
    BY <2>1, <2>2 DEF Idle, Job
  <2>4. QED
    BY <1>3, <2>3, SameRowsGrow, GotoKeepsBase DEF TerminateRead, Phases
<1>4. ASSUME NEW t \in Tenants, MoveOutRead(w, t)
      PROVE  Base'
  <2>1. PICK l \in IF HasOpenLease(t) THEN ActiveLeasesOf(t) ELSE {0} :
            Goto(w, "move_out", [Idle EXCEPT !.tenant = t, !.lease = l,
                                             !.unit = tenant[t].unit,
                                             !.seen = StatusOf(tenant[t].unit)])
    BY <1>4 DEF MoveOutRead
  <2>2. l \in Nat
    BY <2>1 DEF ActiveLeasesOf, Base, TypeOK
  <2>3. StatusOf(tenant[t].unit) \in UnitStatus /\ tenant[t].unit \in Units \cup {None}
    BY DEF StatusOf, Exists, UnitStatus, Base, TypeOK, Tenant
  <2>4. [Idle EXCEPT !.tenant = t, !.lease = l, !.unit = tenant[t].unit,
                     !.seen = StatusOf(tenant[t].unit)] \in Job
    BY <2>2, <2>3 DEF Idle, Job
  <2>5. QED
    BY <1>4, <2>1, <2>4, SameRowsGrow, GotoKeepsBase
       DEF MoveOutRead, Known, Idle, Phases
<1>5. ASSUME ListRead(w)
      PROVE  Base'
  <2>1. PICK todo \in SUBSET Tenants : Goto(w, "list", [Idle EXCEPT !.todo = todo])
    BY <1>5 DEF ListRead
  <2>2. [Idle EXCEPT !.todo = todo] \in Job
    BY DEF Idle, Job, UnitStatus
  <2>3. QED
    BY <1>5, <2>1, <2>2, SameRowsGrow, GotoKeepsBase DEF ListRead, Phases
<1>6. ASSUME NEW u \in Units, DeleteUnitRead(w, u)
      PROVE  Base'
  <2>1. [Idle EXCEPT !.unit = u] \in Job
    BY DEF Idle, Job, UnitStatus
  <2>2. QED
    BY <1>6, <2>1, SameRowsGrow, GotoKeepsBase DEF DeleteUnitRead, Phases
<1>7. ASSUME NEW p \in Properties, DeletePropertyRead(w, p)
      PROVE  Base'
  <2>1. [Idle EXCEPT !.property = p] \in Job
    BY DEF Idle, Job, UnitStatus
  <2>2. QED
    BY <1>7, <2>1, SameRowsGrow, GotoKeepsBase DEF DeletePropertyRead, Phases
<1>8. QED
  BY <1>1, <1>2, <1>3, <1>4, <1>5, <1>6, <1>7 DEF Arrive

LEMMA ProceedKeepsBase ==
    ASSUME Base, NEW w \in Workers, Proceed(w)
    PROVE  Base'
<1>a. job[w] \in Job
  BY DEF Base, TypeOK
<1>b. unit \in [Units -> UnitStatus \cup {"absent", "deleted"}]
  BY DEF Base, TypeOK
<1>1. CASE OnboardCommit(w)
  <2>1. job[w].tenant \in Tenants
    BY <1>1 DEF OnboardCommit, Base, SessionsNameTenants
  <2>2. RowsGrow
    BY <1>1, <1>b, <2>1, InsertGrows DEF OnboardCommit
  <2>3. QED
    BY <1>1, <1>a, <2>2, GotoKeepsBase DEF OnboardCommit, Phases
<1>2. CASE OnboardUnanchored(w)
  <2>1. job[w].tenant \in Tenants
    BY <1>2 DEF OnboardUnanchored, Base, SessionsNameTenants
  <2>2. unit' \in [Units -> UnitStatus \cup {"absent", "deleted"}]
    BY <1>2, <1>b DEF OnboardUnanchored, UnitStatus
  <2>3. RowsGrow
    BY <1>2, <2>1, <2>2, InsertGrows DEF OnboardUnanchored
  <2>4. QED
    BY <1>2, <2>3, RespondKeepsBase DEF OnboardUnanchored
<1>3. CASE Occupy(w)
  <2>1. unit' \in [Units -> UnitStatus \cup {"absent", "deleted"}]
    BY <1>3, <1>b DEF Occupy, UnitStatus
  <2>2. RowsGrow
    BY <1>3, <2>1, UnitWriteGrows DEF Occupy
  <2>3. QED
    BY <1>3, <2>2, RespondKeepsBase DEF Occupy
<1>4. CASE LeaseCommit(w)
  <2>1. job[w].tenant \in Tenants /\ job[w].unit \in Units
    BY <1>4 DEF LeaseCommit, Base, SessionsNameTenants, Exists
  <2>2. unit' \in [Units -> UnitStatus \cup {"absent", "deleted"}]
    BY <1>4, <1>b DEF LeaseCommit, WriteBack, UnitStatus
  <2>3. RowsGrow
    BY <1>4, <2>1, <2>2, NewLeaseGrows DEF LeaseCommit
  <2>4. QED
    BY <1>4, <2>3, RespondKeepsBase DEF LeaseCommit
<1>5. CASE TerminateCommit(w)
  <2>1. unit' \in [Units -> UnitStatus \cup {"absent", "deleted"}]
    BY <1>5, <1>a, FreedUnit DEF TerminateCommit, Base
  <2>2. tenant' \in [Tenants -> Tenant] /\ tenant' = tenant
    BY <1>5 DEF TerminateCommit, Base, TypeOK
  <2>3. RowsGrow
    BY <1>5, <2>1, <2>2, TerminatedGrows DEF TerminateCommit
  <2>4. QED
    BY <1>5, <2>3, RespondKeepsBase DEF TerminateCommit
<1>6. CASE MoveOutCommit(w)
  <2>1. unit' \in [Units -> UnitStatus \cup {"absent", "deleted"}]
    BY <1>6, <1>a, FreedUnit DEF MoveOutCommit, Base
  <2>2. job[w].tenant \in Tenants /\ tenant[job[w].tenant].status # "absent"
    BY <1>6 DEF MoveOutCommit, Base, SessionsNameTenants, Known
  <2>3. PICK t \in Tenants : t = job[w].tenant
    BY <2>2
  <2>4. tenant' = [tenant EXCEPT ![t].status = "inactive"]
    BY <1>6, <2>3 DEF MoveOutCommit
  <2>5. /\ tenant' \in [Tenants -> Tenant]
        /\ tenant'[t].status = "inactive"
        /\ \A s \in Tenants : s # t => tenant'[s] = tenant[s]
    BY <2>4 DEF Base, TypeOK, Tenant, TenantStatus
  <2>6. \A s \in Tenants : tenant'[s].status = "absent" <=> tenant[s].status = "absent"
    BY <2>2, <2>3, <2>5
  <2>7. RowsGrow
    BY <1>6, <2>1, <2>5, <2>6, TerminatedGrows DEF MoveOutCommit
  <2>8. QED
    BY <1>6, <2>7, RespondKeepsBase DEF MoveOutCommit
<1>7. ASSUME NEW t \in Tenants, BackfillSkip(w, t)
      PROVE  Base'
  BY <1>7, SameRowsGrow, ListedKeepsBase DEF BackfillSkip
<1>8. ASSUME NEW t \in Tenants, BackfillRead(w, t)
      PROVE  Base'
  <2>1. tenant[t].unit \in Units
    BY <1>8 DEF BackfillRead, Base, TypeOK, Tenant
  <2>2. [job[w] EXCEPT !.tenant = t, !.unit = tenant[t].unit] \in Job
    BY <1>a, <2>1 DEF Job
  <2>3. [job[w] EXCEPT !.tenant = t, !.unit = tenant[t].unit].tenant = t
    BY <1>a DEF Job
  <2>4. QED
    BY <1>8, <2>2, <2>3, SameRowsGrow, GotoKeepsBase DEF BackfillRead, Phases
<1>9. CASE BackfillCommit(w)
  <2>1. job[w].tenant \in Tenants /\ job[w].unit \in Units
    BY <1>9 DEF BackfillCommit, Base, SessionsNameTenants, Exists
  <2>2. RowsGrow
    BY <1>9, <1>b, <2>1, NewLeaseGrows DEF BackfillCommit
  <2>3. QED
    BY <1>9, <2>1, <2>2, ListedKeepsBase DEF BackfillCommit
<1>10. CASE DeleteUnitCommit(w)
  <2>1. RowsGrow
    BY <1>10, DeletionGrows DEF DeleteUnitCommit, Base, TypeOK
  <2>2. QED
    BY <1>10, <2>1, RespondKeepsBase DEF DeleteUnitCommit
<1>11. CASE DeletePropertyCommit(w)
  <2>1. listed' \subseteq Properties
    BY <1>11 DEF DeletePropertyCommit, Base, TypeOK
  <2>2. RowsGrow
    BY <1>11, <2>1, DeletionGrows DEF DeletePropertyCommit
  <2>3. QED
    BY <1>11, <2>2, RespondKeepsBase DEF DeletePropertyCommit
<1>12. QED
  BY <1>1, <1>2, <1>3, <1>4, <1>5, <1>6, <1>7, <1>8, <1>9, <1>10, <1>11 DEF Proceed

LEMMA AtOnceActionsKeepBase ==
    ASSUME Base, AtOnce
    PROVE  Base'
<1>1. ASSUME NEW u \in Units, NEW s \in UnitStatus,
             CreateUnit(u, s) \/ UpdateUnitStatus(u, s)
      PROVE  Base'
  <2>1. unit' \in [Units -> UnitStatus \cup {"absent", "deleted"}]
    BY <1>1, OccupiedUnit DEF CreateUnit, UpdateUnitStatus, Base
  <2>2. RowsGrow
    BY <1>1, <2>1, UnitWriteGrows DEF CreateUnit, UpdateUnitStatus
  <2>3. QED
    BY <1>1, <2>2, AtOnceKeepsBase DEF CreateUnit, UpdateUnitStatus
<1>2. ASSUME NEW t \in Tenants, NEW u \in Units, UpdateTenantUnit(t, u)
      PROVE  Base'
  <2>1. /\ tenant' \in [Tenants -> Tenant]
        /\ \A s \in Tenants : tenant'[s].status = tenant[s].status
    BY <1>2 DEF UpdateTenantUnit, Base, TypeOK, Tenant
  <2>2. RowsGrow
    BY <1>2, <2>1 DEF UpdateTenantUnit, Base, TypeOK, RowsGrow
  <2>3. QED
    BY <1>2, <2>2, AtOnceKeepsBase DEF UpdateTenantUnit
<1>3. QED
  BY <1>1, <1>2 DEF AtOnce

LEMMA InitIsBase == Init => Base
<1> SUFFICES ASSUME Init PROVE Base
  OBVIOUS
<1>1. <<>> \in Seq(Lease)
  BY EmptySeq
<1>2. TypeOK
  BY <1>1, IdleIsJob DEF Init, TypeOK, Phases, Tenant
<1>3. QED
  BY <1>2 DEF Init, Base, SessionsNameTenants, TenantsHaveLeases, Known

LEMMA NextKeepsBase == Base /\ [Next]_vars => Base'
<1> SUFFICES ASSUME Base, [Next]_vars PROVE Base'
  OBVIOUS
<1>1. ASSUME NEW w \in Workers, Abort(w) PROVE Base'
  BY <1>1, SameRowsGrow, RespondKeepsBase DEF Abort
<1>2. CASE UNCHANGED vars
  BY <1>2, SameRowsGrow, AtOnceKeepsBase DEF vars
<1>3. QED
  BY <1>1, <1>2, ArriveKeepsBase, ProceedKeepsBase, AtOnceActionsKeepBase DEF Next

LEMMA BaseHolds == Spec => []Base
BY InitIsBase, NextKeepsBase, PTL DEF Spec

\* Every row and every session keeps its type: a lease that is ended is
\* terminated, and never takes a status of another table's.
THEOREM TypeCorrect == Spec => []TypeOK
<1>1. Base => TypeOK
  BY DEF Base
<1>2. QED
  BY <1>1, BaseHolds, PTL

\* No tenant is ever on the books without a contract: not after a failed
\* second commit of create_tenant, a deleted unit or a concurrent move-out.
THEOREM TenantsStayOnRecord == Spec => []TenantsHaveLeases
<1>1. Base => TenantsHaveLeases
  BY DEF Base
<1>2. QED
  BY <1>1, BaseHolds, PTL

-----------------------------------------------------------------------------
(* Homes: steps of the same effect.                                        *)

\* No lease is made or revived, and no tenant changes status.
RowsQuiet ==
    /\ DOMAIN leases' = DOMAIN leases
    /\ \A l \in DOMAIN leases :
          /\ leases'[l].tenant = leases[l].tenant
          /\ leases'[l].status = "active" => leases[l].status = "active"
    /\ \A t \in Tenants : tenant'[t].status = tenant[t].status

\* Lease rows name tenants.
LEMMA LeasesNameTenants ==
    ASSUME TypeOK, NEW l \in DOMAIN leases
    PROVE  leases[l].tenant \in Tenants /\ leases[l].status \in {"active", "terminated"}
<1>1. leases \in [1 .. Len(leases) -> Lease]
  BY DEF TypeOK
<1>2. QED
  BY <1>1 DEF Lease

LEMMA QuietRowsKeepHomes ==
    ASSUME Homes, RowsQuiet
    PROVE  OneLeaseEach' /\ LeftHasNoLease'
<1>1. OneLeaseEach'
  BY LeasesNameTenants DEF Homes, Base, OneLeaseEach, Known, RowsQuiet
<1>2. LeftHasNoLease'
  BY DEF Homes, LeftHasNoLease, HasOpenLease, ActiveLeasesOf, Active, RowsQuiet
<1>3. QED
  BY <1>1, <1>2

LEMMA QuietGotoKeepsHomes ==
    ASSUME Homes, Base', RowsQuiet,
           NEW w \in Workers, NEW phase \in Phases, NEW j \in Job,
           Goto(w, phase, j), phase \notin {"lease", "list", "backfill"},
           phase = "onboard" =>
               /\ tenant[j.tenant].status = "absent"
               /\ \A v \in Workers : pc[v] = "onboard" => job[v].tenant # j.tenant,
           phase = "move_out" =>
               \A l \in DOMAIN leases :
                   leases[l].tenant = j.tenant /\ leases[l].status = "active"
                       => l = j.lease
    PROVE  Homes'
<1>1. /\ pc'[w] = phase /\ job'[w] = j
      /\ \A v \in Workers : v # w => pc'[v] = pc[v] /\ job'[v] = job[v]
  BY DEF Homes, Base, TypeOK, Goto
<1>2. NoOtherLeases'
  BY <1>1 DEF Homes, NoOtherLeases
<1>3. \A v \in Workers : pc'[v] = "onboard" => job'[v].tenant \in Tenants
  BY DEF Base, SessionsNameTenants
<1>4. Onboardings'
  BY <1>1, <1>3 DEF Homes, Onboardings, Known, RowsQuiet
<1>5. MoveOutsSeeAll'
  BY <1>1 DEF Homes, MoveOutsSeeAll, RowsQuiet
<1>6. QED
  BY <1>2, <1>4, <1>5, QuietRowsKeepHomes DEF Homes

LEMMA QuietRespondKeepsHomes ==
    ASSUME Homes, Base', RowsQuiet, NEW w \in Workers, Respond(w)
    PROVE  Homes'
BY QuietGotoKeepsHomes, IdleIsJob DEF Respond, Phases

LEMMA QuietAtOnceKeepsHomes ==
    ASSUME Homes, Base', RowsQuiet, UNCHANGED <<pc, job>>
    PROVE  Homes'
<1>1. \A v \in Workers : pc[v] = "onboard" => job[v].tenant \in Tenants
  BY DEF Homes, Base, SessionsNameTenants
<1>2. Onboardings' /\ NoOtherLeases'
  BY <1>1 DEF Homes, Onboardings, NoOtherLeases, Known, RowsQuiet
<1>3. MoveOutsSeeAll'
  BY DEF Homes, MoveOutsSeeAll, RowsQuiet
<1>4. QED
  BY <1>2, <1>3, QuietRowsKeepHomes DEF Homes

LEMMA SameRowsAreQuiet ==
    ASSUME UNCHANGED <<tenant, leases>>
    PROVE  RowsQuiet
BY DEF RowsQuiet

LEMMA DeletionIsQuiet ==
    ASSUME TypeOK, NEW gone, DeleteUnits(gone)
    PROVE  RowsQuiet
BY DetachedRows DEF RowsQuiet

LEMMA TerminationIsQuiet ==
    ASSUME TypeOK, NEW l, leases' = Terminated(l), UNCHANGED tenant
    PROVE  RowsQuiet
BY TerminatedRows DEF TypeOK, RowsQuiet

\* The first commit of create_tenant: a tenant without leases gets one.
LEMMA InsertKeepsHomes ==
    ASSUME Homes, Base', NEW w \in Workers, NEW phase \in {"occupy", "idle"}, NEW j,
           pc[w] = "onboard", InsertTenantAndLease(job[w].tenant, job[w].unit),
           Goto(w, phase, j)
    PROVE  Homes'
<1>1. PICK t \in Tenants : t = job[w].tenant
  BY DEF Homes, Base, SessionsNameTenants
<1>2. PICK u \in Units : u = job[w].unit
  BY DEF InsertTenantAndLease, Exists
<1>3. /\ tenant[t].status = "absent"
      /\ \A v \in Workers : v # w /\ pc[v] = "onboard" => job[v].tenant # t
  BY <1>1 DEF Homes, Onboardings, Known
<1>4. tenant' = [tenant EXCEPT ![t] = [status |-> "active", unit |-> u]]
  BY <1>1, <1>2 DEF InsertTenantAndLease
<1>5. /\ tenant'[t].status = "active"
      /\ \A s \in Tenants : s # t => tenant'[s] = tenant[s]
  BY <1>4 DEF Homes, Base, TypeOK
<1>6. PICK n : /\ n \notin DOMAIN leases
               /\ DOMAIN leases' = DOMAIN leases \cup {n}
               /\ leases'[n].tenant = t
               /\ \A k \in DOMAIN leases : leases'[k] = leases[k]
  <2>1. leases' = WithLease(t, u)
    BY <1>1, <1>2 DEF InsertTenantAndLease
  <2>2. leases \in Seq(Lease)
    BY DEF Homes, Base, TypeOK
  <2>3. /\ Len(leases) + 1 \notin DOMAIN leases
        /\ DOMAIN WithLease(t, u) = DOMAIN leases \cup {Len(leases) + 1}
        /\ WithLease(t, u)[Len(leases) + 1].tenant = t
        /\ \A k \in DOMAIN leases : WithLease(t, u)[k] = leases[k]
    BY <2>2, NewRows
  <2>4. QED
    BY <2>1, <2>3, Zenon
<1>7. \A l \in DOMAIN leases : leases[l].tenant \in Tenants /\ leases[l].tenant # t
  BY <1>3, LeasesNameTenants DEF Homes, Base, OneLeaseEach, Known
<1>8. /\ pc'[w] = phase
      /\ \A v \in Workers : v # w => pc'[v] = pc[v] /\ job'[v] = job[v]
  BY DEF Homes, Base, TypeOK, Goto
<1>9. NoOtherLeases'
  BY <1>8 DEF Homes, NoOtherLeases
<1>10. OneLeaseEach'
  BY <1>5, <1>6, <1>7 DEF Homes, OneLeaseEach, Known
<1>11. Onboardings'
  <2>1. \A v \in Workers : pc[v] = "onboard" => job[v].tenant \in Tenants
    BY DEF Homes, Base, SessionsNameTenants
  <2>2. QED
    BY <1>3, <1>5, <1>8, <2>1 DEF Homes, Onboardings, Known
<1>12. MoveOutsSeeAll'
  <2>1. \A v \in Workers : pc[v] = "move_out" => job[v].tenant # t
    BY <1>3 DEF Homes, Base, SessionsNameTenants, Known
  <2>2. QED
    BY <1>6, <1>8, <2>1 DEF Homes, MoveOutsSeeAll
<1>13. LeftHasNoLease'
  BY <1>5, <1>6, <1>7
     DEF Homes, LeftHasNoLease, HasOpenLease, ActiveLeasesOf, Active
<1>14. QED
  BY <1>9, <1>10, <1>11, <1>12, <1>13 DEF Homes

\* move_out_tenant ends the one lease the tenant can have.
LEMMA MoveOutKeepsHomes ==
    ASSUME Homes, Base', NEW w \in Workers, MoveOutCommit(w)
    PROVE  Homes'
<1>1. PICK t \in Tenants : t = job[w].tenant
  BY DEF Homes, Base, SessionsNameTenants, MoveOutCommit
<1>2. tenant[t].status # "absent" /\ pc[w] = "move_out"
  BY <1>1 DEF Homes, Base, SessionsNameTenants, Known, MoveOutCommit
<1>3. tenant' = [tenant EXCEPT ![t].status = "inactive"]
  BY <1>1 DEF MoveOutCommit
<1>4. /\ tenant'[t].status = "inactive"
      /\ \A s \in Tenants : s # t => tenant'[s] = tenant[s]
  BY <1>3 DEF Homes, Base, TypeOK, Tenant
<1>5. PICK m : m = job[w].lease
  OBVIOUS
<1>6. /\ DOMAIN leases' = DOMAIN leases
      /\ \A l \in DOMAIN leases :
            /\ leases'[l].tenant = leases[l].tenant
            /\ leases'[l].status = "active" => leases[l].status = "active"
            /\ m # 0 /\ l = m => leases'[l].status = "terminated"
  BY <1>5, TerminatedRows DEF MoveOutCommit, Homes, Base, TypeOK
<1>7. \A l \in DOMAIN leases :
          leases[l].tenant = t /\ leases[l].status = "active" => l = m /\ m # 0
  BY <1>1, <1>2, <1>5 DEF Homes, MoveOutsSeeAll, Base, TypeOK
<1>8. \A l \in DOMAIN leases : leases'[l].tenant = t => leases'[l].status # "active"
  BY <1>6, <1>7
<1>9. /\ pc'[w] = "idle"
      /\ \A v \in Workers : v # w => pc'[v] = pc[v] /\ job'[v] = job[v]
  BY DEF MoveOutCommit, Respond, Homes, Base, TypeOK, Goto
<1>10. NoOtherLeases'
  BY <1>9 DEF Homes, NoOtherLeases
<1>11. OneLeaseEach'
  BY <1>2, <1>4, <1>6, LeasesNameTenants DEF Homes, Base, OneLeaseEach, Known
<1>12. Onboardings'
  <2>1. \A v \in Workers : pc[v] = "onboard" => job[v].tenant \in Tenants
    BY DEF Homes, Base, SessionsNameTenants
  <2>2. QED
    BY <1>2, <1>4, <1>9, <2>1 DEF Homes, Onboardings, Known
<1>13. MoveOutsSeeAll'
  BY <1>6, <1>9 DEF Homes, MoveOutsSeeAll
<1>14. LeftHasNoLease'
  BY <1>4, <1>6, <1>8
     DEF Homes, LeftHasNoLease, HasOpenLease, ActiveLeasesOf, Active
<1>15. QED
  BY <1>10, <1>11, <1>12, <1>13, <1>14 DEF Homes

-----------------------------------------------------------------------------
(* Homes: the actions.                                                     *)

LEMMA ArriveKeepsHomes ==
    ASSUME OnlyOnboarding, Homes, Base', NEW w \in Workers, Arrive(w)
    PROVE  Homes'
<1>1. ASSUME NEW t \in Tenants, NEW u \in Units, OnboardRead(w, t, u)
      PROVE  Homes'
  <2>1. [Idle EXCEPT !.tenant = t, !.unit = u] \in Job
    BY DEF Idle, Job, UnitStatus
  <2>2. [Idle EXCEPT !.tenant = t, !.unit = u].tenant = t
    BY DEF Idle
  <2>3. RowsQuiet
    BY <1>1, SameRowsAreQuiet DEF OnboardRead, rows
  <2>4. QED
    BY <1>1, <2>1, <2>2, <2>3, QuietGotoKeepsHomes DEF OnboardRead, Known, Phases
<1>2. ASSUME NEW l \in DOMAIN leases, TerminateRead(w, l)
      PROVE  Homes'
  <2>1. leases \in [1 .. Len(leases) -> Lease] /\ Len(leases) \in Nat
    BY DEF Homes, Base, TypeOK
  <2>2. leases[l].unit \in Units \cup {None} /\ l \in Nat
    BY <2>1 DEF Lease
  <2>3. StatusOf(leases[l].unit) \in UnitStatus
    BY DEF StatusOf, Exists, UnitStatus
  <2>4. [Idle EXCEPT !.lease = l, !.unit = leases[l].unit,
                     !.seen = StatusOf(leases[l].unit)] \in Job
    BY <2>2, <2>3 DEF Idle, Job
  <2>5. RowsQuiet
    BY <1>2, SameRowsAreQuiet DEF TerminateRead, rows
  <2>6. QED
    BY <1>2, <2>4, <2>5, QuietGotoKeepsHomes DEF TerminateRead, Phases
<1>3. ASSUME NEW t \in Tenants, MoveOutRead(w, t)
      PROVE  Homes'
  <2>1. PICK m \in IF HasOpenLease(t) THEN ActiveLeasesOf(t) ELSE {0} :
            Goto(w, "move_out", [Idle EXCEPT !.tenant = t, !.lease = m,
                                             !.unit = tenant[t].unit,
                                             !.seen = StatusOf(tenant[t].unit)])
    BY <1>3 DEF MoveOutRead
  <2>2. m \in Nat
    BY <2>1 DEF ActiveLeasesOf, Homes, Base, TypeOK
  <2>3. StatusOf(tenant[t].unit) \in UnitStatus /\ tenant[t].unit \in Units \cup {None}
    BY DEF StatusOf, Exists, UnitStatus, Homes, Base, TypeOK, Tenant
  <2>4. PICK j \in Job : /\ j.tenant = t /\ j.lease = m
                         /\ Goto(w, "move_out", j)
    <3>1. PICK j : j = [Idle EXCEPT !.tenant = t, !.lease = m,
                                    !.unit = tenant[t].unit,
                                    !.seen = StatusOf(tenant[t].unit)]
      OBVIOUS
    <3>2. j \in Job /\ j.tenant = t /\ j.lease = m
      BY <2>2, <2>3, <3>1 DEF Idle, Job
    <3>3. QED
      BY <2>1, <3>1, <3>2
  <2>5. \A l \in DOMAIN leases :
            leases[l].tenant = t /\ leases[l].status = "active" => l = m
    BY <2>1 DEF Homes, OneLeaseEach, HasOpenLease, ActiveLeasesOf, Active
  <2>6. RowsQuiet
    BY <1>3, SameRowsAreQuiet DEF MoveOutRead, rows
  <2>7. QED
    BY <2>4, <2>5, <2>6, QuietGotoKeepsHomes DEF Phases
<1>4. ASSUME NEW u \in Units, DeleteUnitRead(w, u)
      PROVE  Homes'
  <2>1. [Idle EXCEPT !.unit = u] \in Job
    BY DEF Idle, Job, UnitStatus
  <2>2. RowsQuiet
    BY <1>4, SameRowsAreQuiet DEF DeleteUnitRead, rows
  <2>3. QED
    BY <1>4, <2>1, <2>2, QuietGotoKeepsHomes DEF DeleteUnitRead, Phases
<1>5. ASSUME NEW p \in Properties, DeletePropertyRead(w, p)
      PROVE  Homes'
  <2>1. [Idle EXCEPT !.property = p] \in Job
    BY DEF Idle, Job, UnitStatus
  <2>2. RowsQuiet
    BY <1>5, SameRowsAreQuiet DEF DeletePropertyRead, rows
  <2>3. QED
    BY <1>5, <2>1, <2>2, QuietGotoKeepsHomes DEF DeletePropertyRead, Phases
<1>6. ~ListRead(w) /\ \A t \in Tenants, u \in Units : ~LeaseRead(w, t, u)
  BY DEF OnlyOnboarding, ListRead, LeaseRead, Ready, Served, Uses
<1>7. QED
  BY <1>1, <1>2, <1>3, <1>4, <1>5, <1>6 DEF Arrive

LEMMA ProceedKeepsHomes ==
    ASSUME Homes, Base', NEW w \in Workers, Proceed(w)
    PROVE  Homes'
<1>1. CASE OnboardCommit(w)
  BY <1>1, InsertKeepsHomes DEF OnboardCommit
<1>2. CASE OnboardUnanchored(w)
  BY <1>2, InsertKeepsHomes DEF OnboardUnanchored, Respond
<1>3. CASE Occupy(w)
  BY <1>3, SameRowsAreQuiet, QuietRespondKeepsHomes DEF Occupy
<1>4. CASE TerminateCommit(w)
  <2>1. RowsQuiet
    BY <1>4, TerminationIsQuiet DEF TerminateCommit, Homes, Base
  <2>2. QED
    BY <1>4, <2>1, QuietRespondKeepsHomes DEF TerminateCommit
<1>5. CASE MoveOutCommit(w)
  BY <1>5, MoveOutKeepsHomes
<1>6. CASE DeleteUnitCommit(w)
  <2>1. RowsQuiet
    BY <1>6, DeletionIsQuiet DEF DeleteUnitCommit, Homes, Base
  <2>2. QED
    BY <1>6, <2>1, QuietRespondKeepsHomes DEF DeleteUnitCommit
<1>7. CASE DeletePropertyCommit(w)
  <2>1. RowsQuiet
    BY <1>7, DeletionIsQuiet DEF DeletePropertyCommit, Homes, Base
  <2>2. QED
    BY <1>7, <2>1, QuietRespondKeepsHomes DEF DeletePropertyCommit
<1>8. /\ ~LeaseCommit(w) /\ ~BackfillCommit(w)
      /\ \A t \in Tenants : ~BackfillSkip(w, t) /\ ~BackfillRead(w, t)
  BY DEF Homes, NoOtherLeases, LeaseCommit, BackfillCommit, BackfillSkip, BackfillRead
<1>9. QED
  BY <1>1, <1>2, <1>3, <1>4, <1>5, <1>6, <1>7, <1>8 DEF Proceed

LEMMA AtOnceActionsKeepHomes ==
    ASSUME Homes, Base', AtOnce
    PROVE  Homes'
<1>1. RowsQuiet
  <2>1. ASSUME NEW t \in Tenants, NEW u \in Units, UpdateTenantUnit(t, u)
        PROVE  RowsQuiet
    BY <2>1 DEF UpdateTenantUnit, Homes, Base, TypeOK, Tenant, RowsQuiet
  <2>2. QED
    BY <2>1, SameRowsAreQuiet
       DEF AtOnce, CreateUnit, UpdateUnitStatus
<1>2. UNCHANGED <<pc, job>>
  BY DEF AtOnce, CreateUnit, UpdateUnitStatus, UpdateTenantUnit
<1>3. QED
  BY <1>1, <1>2, QuietAtOnceKeepsHomes

LEMMA InitIsHomes == Init => Homes
<1> SUFFICES ASSUME Init PROVE Homes
  OBVIOUS
<1>1. NoOtherLeases /\ OneLeaseEach /\ Onboardings /\ MoveOutsSeeAll
  BY DEF Init, NoOtherLeases, OneLeaseEach, Onboardings, MoveOutsSeeAll
<1>2. LeftHasNoLease
  BY DEF Init, LeftHasNoLease
<1>3. QED
  BY <1>1, <1>2, InitIsBase DEF Homes

LEMMA NextKeepsHomes ==
    ASSUME OnlyOnboarding, Homes, [Next]_vars
    PROVE  Homes' /\ OnlyOnboarding'
<1>1. Base'
  BY NextKeepsBase DEF Homes
<1>2. ASSUME NEW w \in Workers, Abort(w) PROVE Homes'
  BY <1>1, <1>2, SameRowsAreQuiet, QuietRespondKeepsHomes DEF Abort, rows
<1>3. CASE UNCHANGED vars
  BY <1>1, <1>3, SameRowsAreQuiet, QuietAtOnceKeepsHomes DEF vars, rows, OnlyOnboarding
<1>4. OnlyOnboarding'
  BY DEF OnlyOnboarding, Next, vars
<1>5. QED
  BY <1>1, <1>2, <1>3, <1>4, ArriveKeepsHomes, ProceedKeepsHomes, AtOnceActionsKeepHomes
     DEF Next

-----------------------------------------------------------------------------
(* Requests one at a time.                                                 *)

Alone == \A v, w \in Workers : pc[v] # "idle" /\ pc[w] # "idle" => v = w

\* What a session has read is still so.
AsRead(w) ==
    LET j == job[w] IN
    /\ pc[w] = "onboard" => ~Known(j.tenant) /\ Lettable(j.unit)
    /\ pc[w] = "occupy" => Exists(j.unit)
    /\ pc[w] = "lease" =>
          Uses("create_lease") /\ Leasable(j.unit) /\ j.seen = unit[j.unit]
    /\ pc[w] = "terminate" =>
          /\ Uses("terminate_lease")
          /\ j.lease \in DOMAIN leases /\ Active(j.lease)
          /\ j.unit = leases[j.lease].unit /\ j.seen = StatusOf(j.unit)
    /\ pc[w] = "move_out" =>
          /\ Uses("move_out")
          /\ tenant[j.tenant].status = "active" \/ load.repeats
          /\ j.lease \in IF HasOpenLease(j.tenant) THEN ActiveLeasesOf(j.tenant) ELSE {0}
          /\ j.unit = tenant[j.tenant].unit /\ j.seen = StatusOf(j.unit)
    /\ pc[w] \in {"list", "backfill"} =>
          Uses("list_leases") /\ \A t \in j.todo : Resident(t)
    /\ pc[w] = "backfill" => Resident(j.tenant) /\ ~HasOpenLease(j.tenant)
    /\ pc[w] = "delete_unit" => Uses("delete_unit") /\ Deletable(j.unit)
    /\ pc[w] = "delete_property" =>
          /\ \A u \in UnitsOf(j.property) : unit[u] # "occupied"
          /\ ~HasActiveTenant(j.property)

\* A unit that is let is occupied, or about to be.
Occupying(u) == \E w \in Workers : pc[w] = "occupy" /\ job[w].unit = u

InUse(u) == Exists(u) /\ (unit[u] = "occupied" \/ Occupying(u))

\* Tenancies end by moving tenants out, and tenants stay where they moved in.
MovingOut == load.uses \cap {"create_lease", "terminate_lease", "update_tenant"} = {}

OneWayRows ==
    EndsOneWay =>
        /\ OneActiveLeasePerUnit
        /\ \A l \in DOMAIN leases : Active(l) => InUse(leases[l].unit)
        /\ MovingOut =>
              /\ \A l \in DOMAIN leases : Active(l) =>
                    tenant[leases[l].tenant] = [status |-> "active", unit |-> leases[l].unit]
              /\ \A t \in Tenants : Resident(t) => HasOpenLease(t)

\* A tenant has one active lease at most, and none once moved out.
OpenLeaseRows ==
    ~Uses("create_lease") =>
        /\ \A l \in DOMAIN leases : Known(leases[l].tenant)
        /\ \A t \in Tenants : \A k, l \in ActiveLeasesOf(t) : k = l
        /\ LeftHasNoLease

DeletionRows == ~Uses("delete_unit") => ActiveTenantsKeepTheirUnit

RowsAgree == OneWayRows /\ OpenLeaseRows /\ DeletionRows

Serial ==
    /\ Base /\ ~load.overlap
    /\ Alone
    /\ \A w \in Workers : AsRead(w)
    /\ RowsAgree

\* Of the worker that moves the others are idle, before and after.
MovesAlone(w) ==
    /\ pc' \in [Workers -> Phases] /\ load' = load
    /\ \A v \in Workers : v # w => pc[v] = "idle" /\ pc'[v] = "idle"

LEMMA GotoMovesAlone ==
    ASSUME Serial, NEW w \in Workers, NEW phase \in Phases, NEW j, Goto(w, phase, j),
           load' = load, pc[w] # "idle" \/ \A v \in Workers : pc[v] = "idle"
    PROVE  MovesAlone(w) /\ pc'[w] = phase /\ job'[w] = j
BY DEF Serial, Base, TypeOK, Alone, Goto, MovesAlone

LEMMA MovesKeepSerial ==
    ASSUME Serial, Base', NEW w \in Workers, MovesAlone(w), AsRead(w)', RowsAgree'
    PROVE  Serial'
<1>1. Alone' /\ ~load'.overlap
  BY DEF Serial, MovesAlone, Alone
<1>2. \A v \in Workers : v # w => AsRead(v)'
  BY DEF MovesAlone, AsRead
<1>3. QED
  BY <1>1, <1>2 DEF Serial

LEMMA IdleAsRead ==
    ASSUME NEW w, pc'[w] = "idle"
    PROVE  AsRead(w)'
BY DEF AsRead

\* The rows stay as they are, and who is to occupy a unit still is.
LEMMA SameRowsAgree ==
    ASSUME Serial, UNCHANGED rows, load' = load,
           EndsOneWay => \A u \in Units : Occupying(u) => Occupying(u)'
    PROVE  RowsAgree'
<1>1. UNCHANGED <<listed, unit, tenant, leases>>
  BY DEF rows
<1>2. OpenLeaseRows' /\ DeletionRows'
  BY <1>1 DEF Serial, RowsAgree, OpenLeaseRows, DeletionRows, Uses, Known, ActiveLeasesOf, Active,
              LeftHasNoLease, HasOpenLease, ActiveTenantsKeepTheirUnit, Exists
<1>3. OneWayRows'
  <2> SUFFICES ASSUME EndsOneWay
               PROVE  /\ OneActiveLeasePerUnit'
                      /\ \A l \in DOMAIN leases : Active(l) => InUse(leases[l].unit)'
                      /\ MovingOut =>
                            /\ \A l \in DOMAIN leases : Active(l) =>
                                  tenant[leases[l].tenant]
                                     = [status |-> "active", unit |-> leases[l].unit]
                            /\ \A t \in Tenants : Resident(t) => HasOpenLease(t)
    BY <1>1 DEF OneWayRows, EndsOneWay, Uses, MovingOut, Active, Resident, HasOpenLease, ActiveLeasesOf
  <2>1. OneActiveLeasePerUnit'
    BY <1>1 DEF Serial, RowsAgree, OneWayRows, OneActiveLeasePerUnit, ActiveLeasesOn, Active
  <2>2. \A u : InUse(u) => InUse(u)'
    BY <1>1 DEF InUse, Exists
  <2>3. QED
    BY <1>1, <2>1, <2>2 DEF Serial, RowsAgree, OneWayRows
<1>4. QED
  BY <1>2, <1>3 DEF RowsAgree

\* A step that reads, and one that answers without a commit.
LEMMA ReadKeepsSerial ==
    ASSUME Serial, Base', NEW w \in Workers, UNCHANGED rows, MovesAlone(w), AsRead(w)',
           EndsOneWay => pc[w] # "occupy"
    PROVE  Serial'
<1>1. EndsOneWay => \A u \in Units : ~Occupying(u)
  BY DEF Occupying, MovesAlone
<1>2. RowsAgree'
  BY <1>1, SameRowsAgree DEF MovesAlone
<1>3. QED
  BY <1>2, MovesKeepSerial


LEMMA ArriveKeepsSerial ==
    ASSUME Serial, Base', load' = load, NEW w \in Workers, Arrive(w)
    PROVE  Serial'
<1>1. /\ pc[w] = "idle" /\ \A v \in Workers : pc[v] = "idle"
      /\ UNCHANGED rows /\ UNCHANGED <<listed, unit, tenant, leases>>
  BY DEF Serial, Arrive, OnboardRead, LeaseRead, TerminateRead, MoveOutRead, ListRead,
         DeleteUnitRead, DeletePropertyRead, Ready, Served, rows
<1>2. ASSUME NEW phase \in Phases, NEW j, Goto(w, phase, j),
             pc'[w] = phase /\ job'[w] = j => AsRead(w)'
      PROVE  Serial'
  <2>1. MovesAlone(w) /\ AsRead(w)'
    BY <1>1, <1>2, GotoMovesAlone
  <2>2. QED
    BY <1>1, <2>1, ReadKeepsSerial
<1>3. ASSUME NEW t \in Tenants, NEW u \in Units, OnboardRead(w, t, u)
      PROVE  Serial'
  <2> DEFINE j == [Idle EXCEPT !.tenant = t, !.unit = u]
  <2>1. j.tenant = t /\ j.unit = u
    BY DEF Idle
  <2>2. Goto(w, "onboard", j) /\ ~Known(t) /\ Lettable(u)
    BY <1>3 DEF OnboardRead
  <2> HIDE DEF j
  <2>3. pc'[w] = "onboard" /\ job'[w] = j => AsRead(w)'
    BY <1>1, <2>1, <2>2 DEF AsRead, Known, Lettable, Exists
  <2>4. QED
    BY <1>2, <2>2, <2>3 DEF Phases
<1>4. ASSUME NEW t \in Tenants, NEW u \in Units, LeaseRead(w, t, u)
      PROVE  Serial'
  <2> DEFINE j == [Idle EXCEPT !.tenant = t, !.unit = u, !.seen = unit[u]]
  <2>1. j.tenant = t /\ j.unit = u /\ j.seen = unit[u]
    BY DEF Idle
  <2>2. Goto(w, "lease", j) /\ Leasable(u) /\ Uses("create_lease")
    BY <1>4 DEF LeaseRead, Ready, Served
  <2> HIDE DEF j
  <2>3. pc'[w] = "lease" /\ job'[w] = j => AsRead(w)'
    BY <1>1, <2>1, <2>2 DEF AsRead, Leasable, ActiveLeasesOn, Active, Exists, Uses
  <2>4. QED
    BY <1>2, <2>2, <2>3 DEF Phases
<1>5. ASSUME NEW l \in DOMAIN leases, TerminateRead(w, l)
      PROVE  Serial'
  <2> DEFINE j == [Idle EXCEPT !.lease = l, !.unit = leases[l].unit,
                               !.seen = StatusOf(leases[l].unit)]
  <2>1. j.lease = l /\ j.unit = leases[l].unit /\ j.seen = StatusOf(j.unit)
    BY DEF Idle
  <2>2. Goto(w, "terminate", j) /\ Active(l) /\ Uses("terminate_lease")
    BY <1>5 DEF TerminateRead, Ready, Served
  <2> HIDE DEF j
  <2>3. pc'[w] = "terminate" /\ job'[w] = j => AsRead(w)'
    BY <1>1, <2>1, <2>2 DEF AsRead, Active, StatusOf, Exists, Uses
  <2>4. QED
    BY <1>2, <2>2, <2>3 DEF Phases
<1>6. ASSUME NEW t \in Tenants, MoveOutRead(w, t)
      PROVE  Serial'
  <2>0. PICK m \in IF HasOpenLease(t) THEN ActiveLeasesOf(t) ELSE {0} :
            Goto(w, "move_out", [Idle EXCEPT !.tenant = t, !.lease = m,
                                             !.unit = tenant[t].unit,
                                             !.seen = StatusOf(tenant[t].unit)])
    BY <1>6 DEF MoveOutRead
  <2> DEFINE j == [Idle EXCEPT !.tenant = t, !.lease = m, !.unit = tenant[t].unit,
                               !.seen = StatusOf(tenant[t].unit)]
  <2>1. j.tenant = t /\ j.lease = m /\ j.unit = tenant[t].unit /\ j.seen = StatusOf(j.unit)
    BY DEF Idle
  <2>2. /\ Goto(w, "move_out", j) /\ Uses("move_out")
        /\ tenant[t].status = "active" \/ load.repeats
    BY <1>6, <2>0 DEF MoveOutRead, Ready, Served
  <2> HIDE DEF j
  <2>3. m \in IF HasOpenLease(t)' THEN ActiveLeasesOf(t)' ELSE {0}
    BY <1>1, <2>0 DEF HasOpenLease, ActiveLeasesOf, Active
  <2>4. \A x : StatusOf(x)' = StatusOf(x)
    BY <1>1 DEF StatusOf, Exists
  <2>5. pc'[w] = "move_out" /\ job'[w] = j => AsRead(w)'
    BY <1>1, <2>1, <2>2, <2>3, <2>4 DEF AsRead, Uses
  <2>6. QED
    BY <1>2, <2>2, <2>5 DEF Phases
<1>7. ASSUME ListRead(w)
      PROVE  Serial'
  <2> DEFINE todo == {t \in Tenants : Resident(t)}
             j == [Idle EXCEPT !.todo = todo]
  <2>1. j.todo = todo
    BY DEF Idle
  <2>2. Goto(w, "list", j) /\ Uses("list_leases")
    BY <1>7 DEF ListRead, Ready, Served
  <2>3. \A t \in todo : Resident(t)'
    BY <1>1 DEF Resident
  <2> HIDE DEF j, todo
  <2>4. pc'[w] = "list" /\ job'[w] = j => AsRead(w)'
    BY <2>1, <2>2, <2>3 DEF AsRead, Uses
  <2>5. QED
    BY <1>2, <2>2, <2>4 DEF Phases
<1>8. ASSUME NEW u \in Units, DeleteUnitRead(w, u)
      PROVE  Serial'
  <2> DEFINE j == [Idle EXCEPT !.unit = u]
  <2>1. j.unit = u
    BY DEF Idle
  <2>2. Goto(w, "delete_unit", j) /\ Deletable(u) /\ Uses("delete_unit")
    BY <1>8 DEF DeleteUnitRead, Ready, Served
  <2> HIDE DEF j
  <2>3. pc'[w] = "delete_unit" /\ job'[w] = j => AsRead(w)'
    BY <1>1, <2>1, <2>2 DEF AsRead, Deletable, Exists, Uses
  <2>4. QED
    BY <1>2, <2>2, <2>3 DEF Phases
<1>9. ASSUME NEW p \in Properties, DeletePropertyRead(w, p)
      PROVE  Serial'
  <2> DEFINE j == [Idle EXCEPT !.property = p]
  <2>1. j.property = p
    BY DEF Idle
  <2>2. /\ Goto(w, "delete_property", j)
        /\ \A u \in UnitsOf(p) : unit[u] # "occupied"
        /\ ~HasActiveTenant(p)
    BY <1>9 DEF DeletePropertyRead
  <2> HIDE DEF j
  <2>3. UnitsOf(p)' = UnitsOf(p) /\ HasActiveTenant(p)' = HasActiveTenant(p)
    BY <1>1 DEF UnitsOf, HasActiveTenant, Exists
  <2>4. pc'[w] = "delete_property" /\ job'[w] = j => AsRead(w)'
    BY <1>1, <2>1, <2>2, <2>3 DEF AsRead
  <2>5. QED
    BY <1>2, <2>2, <2>4 DEF Phases
<1>10. QED
  BY <1>3, <1>4, <1>5, <1>6, <1>7, <1>8, <1>9 DEF Arrive

\* A listing goes on to the tenants that are left, or answers.
LEMMA ListedMoves ==
    ASSUME Serial, NEW w \in Workers, NEW t, Listed(w, t), load' = load, UNCHANGED tenant,
           pc[w] \in {"list", "backfill"}
    PROVE  MovesAlone(w) /\ AsRead(w)'
<1>1. Uses("list_leases") /\ \A s \in job[w].todo : Resident(s)
  BY DEF Serial, AsRead
<1>2. PICK left \in SUBSET job[w].todo :
          Respond(w) \/ Goto(w, "list", [Idle EXCEPT !.todo = left])
  BY DEF Listed
<1>3. CASE Respond(w)
  BY <1>3, GotoMovesAlone, IdleAsRead DEF Respond, Phases
<1>4. CASE Goto(w, "list", [Idle EXCEPT !.todo = left])
  <2>1. /\ MovesAlone(w) /\ pc'[w] = "list"
        /\ job'[w] = [Idle EXCEPT !.todo = left]
    BY <1>4, GotoMovesAlone DEF Phases
  <2>2. job'[w].todo = left
    BY <2>1 DEF Idle
  <2>3. QED
    BY <1>1, <2>1, <2>2 DEF AsRead, Uses, Resident
<1>5. QED
  BY <1>2, <1>3, <1>4

LEMMA BackfillSkipKeepsSerial ==
    ASSUME Serial, Base', load' = load, NEW w \in Workers, NEW t \in Tenants, BackfillSkip(w, t)
    PROVE  Serial'
<1>1. pc[w] = "list" /\ UNCHANGED rows /\ UNCHANGED tenant
  BY DEF BackfillSkip, rows
<1>2. MovesAlone(w) /\ AsRead(w)'
  BY <1>1, ListedMoves DEF BackfillSkip
<1>3. QED
  BY <1>1, <1>2, ReadKeepsSerial

LEMMA BackfillReadKeepsSerial ==
    ASSUME Serial, Base', load' = load, NEW w \in Workers, NEW t \in Tenants, BackfillRead(w, t)
    PROVE  Serial'
<1> DEFINE j == [job[w] EXCEPT !.tenant = t, !.unit = tenant[t].unit]
<1>1. pc[w] = "list" /\ UNCHANGED rows /\ UNCHANGED <<tenant, leases>> /\ ~HasOpenLease(t)
  BY DEF BackfillRead, rows
<1>2. j.tenant = t /\ j.todo = job[w].todo
  BY DEF Serial, Base, TypeOK, Job
<1>3. Uses("list_leases") /\ (\A s \in job[w].todo : Resident(s)) /\ t \in job[w].todo
  BY <1>1 DEF Serial, AsRead, BackfillRead
<1>4. Goto(w, "backfill", j)
  BY DEF BackfillRead
<1> HIDE DEF j
<1>5. MovesAlone(w) /\ pc'[w] = "backfill" /\ job'[w] = j
  BY <1>1, <1>4, GotoMovesAlone DEF Phases
<1>6. \A s : (Resident(s) => Resident(s)') /\ (HasOpenLease(s)' => HasOpenLease(s))
  BY <1>1 DEF Resident, HasOpenLease, ActiveLeasesOf, Active
<1>7. AsRead(w)'
  BY <1>1, <1>2, <1>3, <1>5, <1>6 DEF AsRead, Uses
<1>8. QED
  BY <1>1, <1>5, <1>7, ReadKeepsSerial

\* A second commit that nothing may lose is not lost.
LEMMA AbortKeepsSerial ==
    ASSUME Serial, Base', load' = load, NEW w \in Workers, Abort(w)
    PROVE  Serial'
<1>1. MovesAlone(w) /\ AsRead(w)'
  BY GotoMovesAlone, IdleAsRead DEF Abort, Respond, Phases
<1>2. EndsOneWay => pc[w] # "occupy"
  BY DEF EndsOneWay, Abort, Serial, AsRead
<1>3. QED
  BY <1>1, <1>2, ReadKeepsSerial DEF Abort

-----------------------------------------------------------------------------
(* Requests one at a time: what the commits write.                         *)

\* Units keep to themselves but for the one that is let.
LEMMA NewLeaseAgrees ==
    ASSUME Serial, NEW t \in Tenants, NEW u \in Units, leases' = WithLease(t, u), load' = load,
           \A x : Exists(x) => Exists(x)',
           \A x \in Units : x # u => unit'[x] = unit[x],
           EndsOneWay =>
               /\ ActiveLeasesOn(u) = {} /\ InUse(u)'
               /\ \A x \in Units : Occupying(x) => Occupying(x)'
               /\ MovingOut => tenant[t].status = "absent",
           ~Uses("create_lease") => ~HasOpenLease(t),
           \/ tenant' = tenant /\ (~Uses("create_lease") => tenant[t].status = "active")
           \/ /\ Exists(u) /\ tenant' = [tenant EXCEPT ![t] = [status |-> "active", unit |-> u]]
              /\ tenant[t].status = "absent",
           EndsOneWay /\ MovingOut => tenant' # tenant
    PROVE  RowsAgree'
<1>1. PICK n : /\ n \notin DOMAIN leases
               /\ DOMAIN leases' = DOMAIN leases \cup {n}
               /\ leases'[n].tenant = t /\ leases'[n].unit = u
               /\ leases'[n].status = "active"
               /\ \A k \in DOMAIN leases : leases'[k] = leases[k]
  <2>1. leases \in Seq(Lease)
    BY DEF Serial, Base, TypeOK
  <2>2. leases'[Len(leases) + 1] = [tenant |-> t, unit |-> u, status |-> "active"]
    BY <2>1 DEF WithLease
  <2>3. /\ leases'[Len(leases) + 1].tenant = t /\ leases'[Len(leases) + 1].unit = u
        /\ leases'[Len(leases) + 1].status = "active"
    BY <2>2
  <2>4. /\ Len(leases) + 1 \notin DOMAIN leases
        /\ DOMAIN WithLease(t, u) = DOMAIN leases \cup {Len(leases) + 1}
        /\ \A k \in DOMAIN leases : WithLease(t, u)[k] = leases[k]
    BY <2>1, NewRows
  <2>5. QED
    BY <2>3, <2>4, Zenon
<1>2. /\ \A s \in Tenants : s # t => tenant'[s] = tenant[s]
      /\ tenant' # tenant => tenant'[t] = [status |-> "active", unit |-> u]
      /\ ~Uses("create_lease") => tenant'[t].status = "active"
  BY DEF Serial, Base, TypeOK
<1>3. \A l \in DOMAIN leases : leases[l].tenant \in Tenants /\ leases[l].unit \in Units \cup {None}
  <2>1. leases \in [1 .. Len(leases) -> Lease]
    BY DEF Serial, Base, TypeOK
  <2>2. QED
    BY <2>1 DEF Lease
<1>4. OpenLeaseRows'
  <2> SUFFICES ASSUME ~Uses("create_lease")
               PROVE  /\ \A l \in DOMAIN leases' : tenant'[leases'[l].tenant].status # "absent"
                      /\ \A s \in Tenants : \A k, l \in ActiveLeasesOf(s)' : k = l
                      /\ LeftHasNoLease'
    BY DEF OpenLeaseRows, Known, Uses
  <2>1. /\ \A l \in DOMAIN leases : tenant[leases[l].tenant].status # "absent"
        /\ \A s \in Tenants : \A k, l \in ActiveLeasesOf(s) : k = l
        /\ LeftHasNoLease /\ ActiveLeasesOf(t) = {}
    BY DEF Serial, RowsAgree, OpenLeaseRows, Known, HasOpenLease
  <2>2. \A s \in Tenants : ActiveLeasesOf(s)' \subseteq IF s = t THEN {n} ELSE ActiveLeasesOf(s)
    BY <1>1, <2>1 DEF ActiveLeasesOf, Active
  <2>3. \A s \in Tenants : \A k, l \in ActiveLeasesOf(s)' : k = l
    BY <2>1, <2>2
  <2>4. \A l \in DOMAIN leases' : tenant'[leases'[l].tenant].status # "absent"
    BY <1>1, <1>2, <1>3, <2>1
  <2>5. LeftHasNoLease'
    BY <1>2, <2>1, <2>2 DEF LeftHasNoLease, HasOpenLease
  <2>6. QED
    BY <2>3, <2>4, <2>5
<1>5. DeletionRows'
  <2> SUFFICES ASSUME ~Uses("delete_unit"), NEW s \in Tenants, tenant'[s].status = "active"
               PROVE  Exists(tenant[s].unit)'
    BY DEF DeletionRows, ActiveTenantsKeepTheirUnit, Uses
  <2>1. tenant[s].status = "active" => Exists(tenant[s].unit)
    BY DEF Serial, RowsAgree, DeletionRows, ActiveTenantsKeepTheirUnit
  <2>2. CASE tenant'[s] = tenant[s]
    <3>1. \A x : x = tenant[s].unit => Exists(x)'
      BY <2>1, <2>2
    <3>2. QED
      BY <2>2, <3>1 DEF Exists
  <2>3. CASE tenant'[s] # tenant[s]
    <3>1. Exists(u)' /\ tenant'[s].unit = u
      BY <1>2, <2>3
    <3>2. QED
      BY <3>1 DEF Exists
  <2>4. QED
    BY <2>2, <2>3
<1>6. OneWayRows'
  <2> SUFFICES ASSUME EndsOneWay
               PROVE  /\ OneActiveLeasePerUnit'
                      /\ \A l \in DOMAIN leases' : Active(l)' => InUse(leases[l].unit)'
                      /\ MovingOut =>
                            /\ \A l \in DOMAIN leases' : Active(l)' =>
                                  tenant'[leases'[l].tenant]
                                      = [status |-> "active", unit |-> leases'[l].unit]
                            /\ \A s \in Tenants : Resident(s)' => HasOpenLease(s)'
    BY DEF OneWayRows, EndsOneWay, Uses, MovingOut, InUse, Exists, Occupying
  <2>1. /\ OneActiveLeasePerUnit
        /\ \A l \in DOMAIN leases : Active(l) => InUse(leases[l].unit)
        /\ MovingOut =>
              /\ \A l \in DOMAIN leases : Active(l) =>
                    tenant[leases[l].tenant] = [status |-> "active", unit |-> leases[l].unit]
              /\ \A s \in Tenants : Resident(s) => HasOpenLease(s)
    BY DEF Serial, RowsAgree, OneWayRows
  <2>2. \A x \in Units : ActiveLeasesOn(x)' \subseteq IF x = u THEN {n} ELSE ActiveLeasesOn(x)
    BY <1>1 DEF ActiveLeasesOn, Active
  <2>3. OneActiveLeasePerUnit'
    BY <2>1, <2>2 DEF OneActiveLeasePerUnit
  <2>4. \A x : InUse(x) => InUse(x)'
    <3> SUFFICES ASSUME NEW x, InUse(x) PROVE InUse(x)'
      OBVIOUS
    <3>1. CASE x = u
      BY <3>1
    <3>2. CASE x # u
      BY <3>2 DEF InUse, Exists
    <3>3. QED
      BY <3>1, <3>2
  <2>5. ASSUME NEW l \in DOMAIN leases', Active(l)'
        PROVE  InUse(leases[l].unit)'
    <3>1. CASE l = n
      BY <1>1, <3>1 DEF InUse, Exists, Occupying
    <3>2. CASE l # n
      <4>1. l \in DOMAIN leases /\ leases'[l] = leases[l] /\ Active(l)
        BY <1>1, <2>5, <3>2 DEF Active
      <4>2. \A x : x = leases[l].unit => InUse(x)'
        BY <2>1, <2>4, <4>1
      <4>3. QED
        BY <4>1, <4>2 DEF InUse, Exists, Occupying
    <3>3. QED
      BY <3>1, <3>2
  <2>6. ASSUME MovingOut
        PROVE  /\ \A l \in DOMAIN leases' : Active(l)' =>
                     tenant'[leases'[l].tenant] = [status |-> "active", unit |-> leases'[l].unit]
               /\ \A s \in Tenants : Resident(s)' => HasOpenLease(s)'
    <3>1. tenant'[t] = [status |-> "active", unit |-> u] /\ tenant[t].status = "absent"
      BY <1>2, <2>6
    <3>2. ASSUME NEW l \in DOMAIN leases', Active(l)'
          PROVE  tenant'[leases'[l].tenant] = [status |-> "active", unit |-> leases'[l].unit]
      <4>1. CASE l = n
        BY <1>1, <3>1, <4>1
      <4>2. CASE l # n
        <5>1. l \in DOMAIN leases /\ leases'[l] = leases[l] /\ Active(l)
          BY <1>1, <3>2, <4>2 DEF Active
        <5>2. tenant[leases[l].tenant] = [status |-> "active", unit |-> leases[l].unit]
          BY <2>1, <2>6, <5>1
        <5>3. leases[l].tenant # t
          BY <3>1, <5>2
        <5>4. QED
          BY <1>2, <1>3, <5>1, <5>2, <5>3
      <4>3. QED
        BY <4>1, <4>2
    <3>3. ASSUME NEW s \in Tenants, Resident(s)'
          PROVE  HasOpenLease(s)'
      <4>1. CASE s = t
        BY <1>1, <4>1 DEF HasOpenLease, ActiveLeasesOf, Active
      <4>2. CASE s # t
        <5>1. Resident(s)
          BY <1>2, <3>3, <4>2 DEF Resident
        <5>2. PICK l \in ActiveLeasesOf(s) : TRUE
          BY <2>1, <2>6, <5>1 DEF HasOpenLease
        <5>3. l \in ActiveLeasesOf(s)'
          BY <1>1, <5>2 DEF ActiveLeasesOf, Active
        <5>4. QED
          BY <5>3 DEF HasOpenLease
      <4>3. QED
        BY <4>1, <4>2
    <3>4. QED
      BY <3>2, <3>3
  <2>7. QED
    BY <2>3, <2>5, <2>6
<1>7. QED
  BY <1>4, <1>5, <1>6 DEF RowsAgree

\* The worker that moves is the only one there is.
LEMMA NobodyElseOccupies ==
    ASSUME Serial, NEW w \in Workers, pc[w] \notin {"idle", "occupy"}
    PROVE  \A x : ~Occupying(x)
BY DEF Serial, Alone, Occupying

LEMMA CommitKeepsSerial ==
    ASSUME Serial, Base', load' = load, NEW w \in Workers, pc[w] # "idle", Respond(w), RowsAgree'
    PROVE  Serial'
<1>1. MovesAlone(w) /\ AsRead(w)'
  BY GotoMovesAlone, IdleAsRead DEF Respond, Phases
<1>2. QED
  BY <1>1, MovesKeepSerial

\* Where only a unit's status is written, what is let must stay in use.
LEMMA UnitWriteAgrees ==
    ASSUME Serial, UNCHANGED <<tenant, leases>>, load' = load,
           \A x : Exists(x) => Exists(x)',
           EndsOneWay => \A x : InUse(x) => InUse(x)'
    PROVE  RowsAgree'
<1>1. OpenLeaseRows'
  BY DEF Serial, RowsAgree, OpenLeaseRows, Uses, Known, ActiveLeasesOf, Active,
         LeftHasNoLease, HasOpenLease
<1>2. DeletionRows'
  <2> SUFFICES ASSUME ~Uses("delete_unit"), NEW s \in Tenants, tenant[s].status = "active"
               PROVE  Exists(tenant[s].unit)'
    BY DEF DeletionRows, ActiveTenantsKeepTheirUnit, Uses
  <2>1. \A x : x = tenant[s].unit => Exists(x)'
    BY DEF Serial, RowsAgree, DeletionRows, ActiveTenantsKeepTheirUnit
  <2>2. QED
    BY <2>1 DEF Exists
<1>3. OneWayRows'
  <2> SUFFICES ASSUME EndsOneWay
               PROVE  /\ OneActiveLeasePerUnit'
                      /\ \A l \in DOMAIN leases : Active(l) => InUse(leases[l].unit)'
                      /\ MovingOut =>
                            /\ \A l \in DOMAIN leases : Active(l) =>
                                  tenant[leases[l].tenant]
                                     = [status |-> "active", unit |-> leases[l].unit]
                            /\ \A t \in Tenants : Resident(t) => HasOpenLease(t)
    BY DEF OneWayRows, EndsOneWay, Uses, MovingOut, Active, Resident, HasOpenLease, ActiveLeasesOf
  <2>1. OneActiveLeasePerUnit'
    BY DEF Serial, RowsAgree, OneWayRows, OneActiveLeasePerUnit, ActiveLeasesOn, Active
  <2>2. ASSUME NEW l \in DOMAIN leases, Active(l)
        PROVE  InUse(leases[l].unit)'
    <3>1. \A x : x = leases[l].unit => InUse(x)'
      BY <2>2 DEF Serial, RowsAgree, OneWayRows
    <3>2. QED
      BY <3>1 DEF InUse, Exists, Occupying
  <2>3. QED
    BY <2>1, <2>2 DEF Serial, RowsAgree, OneWayRows
<1>4. QED
  BY <1>1, <1>2, <1>3 DEF RowsAgree

\* create_tenant: the unit it found lettable is let to nobody, and the tenant
\* it is about to insert holds nothing.
LEMMA OnboardingFindsRoom ==
    ASSUME Serial, NEW w \in Workers, pc[w] = "onboard",
           NEW t \in Tenants, t = job[w].tenant, NEW u \in Units, u = job[w].unit
    PROVE  /\ tenant[t].status = "absent"
           /\ EndsOneWay => ActiveLeasesOn(u) = {}
           /\ ~Uses("create_lease") => ~HasOpenLease(t)
           /\ \A x : ~Occupying(x)
<1>1. tenant[t].status = "absent" /\ Lettable(u)
  BY DEF Serial, AsRead, Known
<1>2. \A x : ~Occupying(x)
  BY NobodyElseOccupies
<1>3. EndsOneWay => ActiveLeasesOn(u) = {}
  BY <1>1, <1>2 DEF Serial, RowsAgree, OneWayRows, ActiveLeasesOn, InUse, Lettable
<1>4. ~Uses("create_lease") => ~HasOpenLease(t)
  BY <1>1 DEF Serial, RowsAgree, OpenLeaseRows, HasOpenLease, ActiveLeasesOf, Known
<1>5. QED
  BY <1>1, <1>2, <1>3, <1>4

LEMMA InsertAgrees ==
    ASSUME Serial, NEW w \in Workers, pc[w] = "onboard", load' = load,
           NEW t \in Tenants, t = job[w].tenant, NEW u \in Units, u = job[w].unit,
           InsertTenantAndLease(t, u),
           \A x : Exists(x) => Exists(x)',
           \A x \in Units : x # u => unit'[x] = unit[x],
           InUse(u)'
    PROVE  RowsAgree'
<1>1. /\ tenant[t].status = "absent"
      /\ EndsOneWay => ActiveLeasesOn(u) = {}
      /\ ~Uses("create_lease") => ~HasOpenLease(t)
      /\ \A x : ~Occupying(x)
  BY OnboardingFindsRoom
<1>2. /\ Exists(u) /\ leases' = WithLease(t, u)
      /\ tenant' = [tenant EXCEPT ![t] = [status |-> "active", unit |-> u]]
  BY DEF InsertTenantAndLease
<1>3. tenant'[t].status = "active"
  BY <1>2 DEF Serial, Base, TypeOK
<1>4. tenant' # tenant
  BY <1>1, <1>3
<1>5. QED
  BY <1>1, <1>2, <1>4, NewLeaseAgrees

LEMMA OnboardKeepsSerial ==
    ASSUME Serial, Base', load' = load, NEW w \in Workers,
           OnboardCommit(w) \/ OnboardUnanchored(w)
    PROVE  Serial'
<1>1. PICK t \in Tenants, u \in Units : t = job[w].tenant /\ u = job[w].unit
  BY DEF Serial, Base, SessionsNameTenants, OnboardCommit, OnboardUnanchored,
         InsertTenantAndLease, Exists
<1>2. pc[w] = "onboard" /\ InsertTenantAndLease(t, u) /\ Exists(u)
  BY <1>1 DEF OnboardCommit, OnboardUnanchored, InsertTenantAndLease
<1>3. CASE OnboardCommit(w)
  <2>1. /\ MovesAlone(w) /\ pc'[w] = "occupy" /\ job'[w] = job[w]
        /\ unit' = unit
    BY <1>2, <1>3, GotoMovesAlone DEF OnboardCommit, Phases
  <2>2. \A x : Exists(x) => Exists(x)'
    BY <2>1 DEF Exists
  <2>3. InUse(u)'
    BY <1>1, <1>2, <2>1, <2>2 DEF InUse, Occupying
  <2>4. RowsAgree'
    BY <1>1, <1>2, <2>1, <2>2, <2>3, InsertAgrees
  <2>5. AsRead(w)'
    BY <1>1, <1>2, <2>1 DEF AsRead, Exists
  <2>6. QED
    BY <2>1, <2>4, <2>5, MovesKeepSerial
<1>4. CASE OnboardUnanchored(w)
  <2>1. unit' = [unit EXCEPT ![u] = "occupied"] /\ Respond(w)
    BY <1>1, <1>4 DEF OnboardUnanchored
  <2>2. unit'[u] = "occupied" /\ \A x \in Units : x # u => unit'[x] = unit[x]
    BY <2>1 DEF Serial, Base, TypeOK
  <2>3. /\ \A x : Exists(x) => Exists(x)'
        /\ InUse(u)'
    BY <2>2 DEF Exists, InUse, UnitStatus
  <2>4. RowsAgree'
    BY <1>1, <1>2, <2>2, <2>3, InsertAgrees
  <2>5. QED
    BY <1>2, <2>1, <2>4, CommitKeepsSerial
<1>5. QED
  BY <1>3, <1>4

LEMMA OccupyKeepsSerial ==
    ASSUME Serial, Base', load' = load, NEW w \in Workers, Occupy(w)
    PROVE  Serial'
<1>1. PICK u \in Units : u = job[w].unit
  BY DEF Occupy, Exists
<1>2. /\ pc[w] = "occupy" /\ Respond(w) /\ UNCHANGED <<tenant, leases>>
      /\ unit' = [unit EXCEPT ![u] = "occupied"]
  BY <1>1 DEF Occupy
<1>3. unit'[u] = "occupied" /\ \A x \in Units : x # u => unit'[x] = unit[x]
  BY <1>2 DEF Serial, Base, TypeOK
<1>4. \A x : Occupying(x) => x = u
  BY <1>1, <1>2 DEF Serial, Alone, Occupying
<1>5. \A x : Exists(x) => Exists(x)'
  BY <1>3 DEF Exists, UnitStatus
<1>6. \A x : InUse(x) => InUse(x)'
  BY <1>3, <1>4, <1>5 DEF InUse, Exists
<1>7. RowsAgree'
  BY <1>2, <1>5, <1>6, UnitWriteAgrees
<1>8. QED
  BY <1>2, <1>7, CommitKeepsSerial

\* create_lease: the unit it found without an active lease is occupied after.
LEMMA LeaseKeepsSerial ==
    ASSUME Serial, Base', load' = load, NEW w \in Workers, LeaseCommit(w)
    PROVE  Serial'
<1>1. PICK t \in Tenants, u \in Units : t = job[w].tenant /\ u = job[w].unit
  BY DEF Serial, Base, SessionsNameTenants, LeaseCommit, Exists
<1>2. /\ pc[w] = "lease" /\ Respond(w) /\ tenant' = tenant /\ Exists(u)
      /\ leases' = WithLease(t, u)
      /\ unit' = [unit EXCEPT ![u] = WriteBack("occupied", job[w].seen, @)]
  BY <1>1 DEF LeaseCommit
<1>3. /\ Uses("create_lease") /\ ActiveLeasesOn(u) = {} /\ job[w].seen = unit[u]
  BY <1>1, <1>2 DEF Serial, AsRead, Leasable
<1>4. unit'[u] = "occupied" /\ \A x \in Units : x # u => unit'[x] = unit[x]
  BY <1>2, <1>3 DEF Serial, Base, TypeOK, WriteBack
<1>5. (\A x : Exists(x) => Exists(x)') /\ InUse(u)'
  BY <1>4 DEF Exists, InUse, UnitStatus
<1>6. (\A x : ~Occupying(x)) /\ ~MovingOut
  BY <1>2, <1>3, NobodyElseOccupies DEF MovingOut, Uses
<1>7. RowsAgree'
  BY <1>2, <1>3, <1>4, <1>5, <1>6, NewLeaseAgrees
<1>8. QED
  BY <1>2, <1>7, CommitKeepsSerial

\* What freeing a unit leaves alone.
LEMMA FreedUnits ==
    ASSUME Serial, NEW j, FreeUnit(j)
    PROVE  /\ \A x : Exists(x) => Exists(x)'
           /\ \A x \in Units : x # j.unit => unit'[x] = unit[x]
BY DEF FreeUnit, Exists, UnitStatus, Serial, Base, TypeOK

\* A lease ends and its unit, which no other lease is on, may be freed; with it
\* the tenant may leave, who has no other.
LEMMA EndedLeaseAgrees ==
    ASSUME Serial, load' = load, NEW l, NEW u, leases' = Terminated(l),
           \A x : Exists(x) => Exists(x)',
           \A x \in Units : x # u => unit'[x] = unit[x],
           \A x : ~Occupying(x),
           EndsOneWay => \A k \in DOMAIN leases : Active(k) /\ leases[k].unit = u => k = l,
           \/ tenant' = tenant /\ ~MovingOut
           \/ \E t \in Tenants :
                 /\ tenant' = [tenant EXCEPT ![t].status = "inactive"]
                 /\ tenant[t].status # "absent"
                 /\ l # 0 => leases[l].tenant = t
                 /\ ~Uses("create_lease") => \A k \in ActiveLeasesOf(t) : k = l
    PROVE  RowsAgree'
<1>0. 0 \notin DOMAIN leases
  BY DEF Serial, Base, TypeOK
<1>1. /\ DOMAIN leases' = DOMAIN leases
      /\ \A k \in DOMAIN leases :
            /\ leases'[k].tenant = leases[k].tenant
            /\ leases'[k].unit = leases[k].unit
            /\ leases'[k].status = "active" => leases[k].status = "active" /\ k # l
            /\ k # l => leases'[k] = leases[k]
  <2>1. leases \in Seq(Lease)
    BY DEF Serial, Base, TypeOK
  <2>2. QED
    BY <1>0, <2>1, TerminatedRows
<1>2. /\ \A s \in Tenants : tenant'[s].unit = tenant[s].unit
      /\ \A s \in Tenants : tenant'[s].status = "absent" <=> tenant[s].status = "absent"
      /\ \A s \in Tenants : tenant'[s].status = "active" => tenant'[s] = tenant[s]
  <2>1. tenant \in [Tenants -> Tenant]
    BY DEF Serial, Base, TypeOK
  <2>2. CASE tenant' = tenant
    BY <2>2
  <2>3. ASSUME NEW t \in Tenants, tenant' = [tenant EXCEPT ![t].status = "inactive"],
               tenant[t].status # "absent"
        PROVE  \A s \in Tenants :
                   /\ tenant'[s].unit = tenant[s].unit
                   /\ tenant'[s].status = "absent" <=> tenant[s].status = "absent"
                   /\ tenant'[s].status = "active" => tenant'[s] = tenant[s]
    BY <2>1, <2>3 DEF Tenant
  <2>4. QED
    BY <2>2, <2>3
<1>3. \A k \in DOMAIN leases : leases[k].tenant \in Tenants /\ leases[k].unit \in Units \cup {None}
  <2>1. leases \in [1 .. Len(leases) -> Lease]
    BY DEF Serial, Base, TypeOK
  <2>2. QED
    BY <2>1 DEF Lease
<1>4. /\ \A s : ActiveLeasesOf(s)' \subseteq ActiveLeasesOf(s) \ {l}
      /\ \A x : ActiveLeasesOn(x)' \subseteq ActiveLeasesOn(x) \ {l}
  BY <1>1 DEF ActiveLeasesOf, ActiveLeasesOn, Active
<1>5. OpenLeaseRows'
  <2> SUFFICES ASSUME ~Uses("create_lease")
               PROVE  /\ \A k \in DOMAIN leases' : tenant'[leases'[k].tenant].status # "absent"
                      /\ \A s \in Tenants : \A j, k \in ActiveLeasesOf(s)' : j = k
                      /\ \A s \in Tenants : tenant'[s].status = "inactive"
                                               => ActiveLeasesOf(s)' = {}
    BY DEF OpenLeaseRows, Known, Uses, LeftHasNoLease, HasOpenLease
  <2>1. /\ \A k \in DOMAIN leases : tenant[leases[k].tenant].status # "absent"
        /\ \A s \in Tenants : \A j, k \in ActiveLeasesOf(s) : j = k
        /\ \A s \in Tenants : tenant[s].status = "inactive" => ActiveLeasesOf(s) = {}
    BY DEF Serial, RowsAgree, OpenLeaseRows, Known, LeftHasNoLease, HasOpenLease
  <2>2. \A k \in DOMAIN leases' : tenant'[leases'[k].tenant].status # "absent"
    BY <1>1, <1>2, <1>3, <2>1
  <2>3. \A s \in Tenants : tenant'[s].status = "inactive" =>
            tenant[s].status = "inactive" \/ ActiveLeasesOf(s) \subseteq {l}
    BY DEF Serial, Base, TypeOK
  <2>4. QED
    BY <1>4, <2>1, <2>2, <2>3
<1>6. DeletionRows'
  <2> SUFFICES ASSUME ~Uses("delete_unit"), NEW s \in Tenants, tenant'[s].status = "active"
               PROVE  Exists(tenant[s].unit)'
    BY DEF DeletionRows, ActiveTenantsKeepTheirUnit, Uses
  <2>1. tenant'[s] = tenant[s]
    BY <1>2
  <2>2. \A x : x = tenant[s].unit => Exists(x)'
    BY <2>1 DEF Serial, RowsAgree, DeletionRows, ActiveTenantsKeepTheirUnit
  <2>3. QED
    BY <2>1, <2>2 DEF Exists
<1>7. OneWayRows'
  <2> SUFFICES ASSUME EndsOneWay
               PROVE  /\ OneActiveLeasePerUnit'
                      /\ \A k \in DOMAIN leases' : Active(k)' => InUse(leases[k].unit)'
                      /\ MovingOut =>
                            /\ \A k \in DOMAIN leases' : Active(k)' =>
                                  tenant'[leases'[k].tenant]
                                      = [status |-> "active", unit |-> leases'[k].unit]
                            /\ \A s \in Tenants : Resident(s)' => HasOpenLease(s)'
    BY DEF OneWayRows, EndsOneWay, Uses, MovingOut, InUse, Exists, Occupying
  <2>1. /\ OneActiveLeasePerUnit
        /\ \A k \in DOMAIN leases : Active(k) => InUse(leases[k].unit)
        /\ MovingOut =>
              /\ \A k \in DOMAIN leases : Active(k) =>
                    tenant[leases[k].tenant] = [status |-> "active", unit |-> leases[k].unit]
              /\ \A s \in Tenants : Resident(s) => HasOpenLease(s)
    BY DEF Serial, RowsAgree, OneWayRows
  <2>2. OneActiveLeasePerUnit'
    BY <1>4, <2>1 DEF OneActiveLeasePerUnit
  <2>3. ASSUME NEW k \in DOMAIN leases', Active(k)'
        PROVE  k \in DOMAIN leases /\ Active(k) /\ k # l /\ leases'[k] = leases[k]
    BY <1>1, <2>3 DEF Active
  <2>4. ASSUME NEW k \in DOMAIN leases', Active(k)'
        PROVE  InUse(leases[k].unit)'
    <3>1. InUse(leases[k].unit) /\ leases[k].unit # u
      BY <2>1, <2>3, <2>4
    <3>2. \A x : x = leases[k].unit => InUse(x)'
      BY <3>1 DEF InUse, Exists
    <3>3. QED
      BY <2>3, <2>4, <3>2 DEF InUse, Exists, Occupying
  <2>5. ASSUME MovingOut
        PROVE  /\ \A k \in DOMAIN leases' : Active(k)' =>
                     tenant'[leases'[k].tenant] = [status |-> "active", unit |-> leases'[k].unit]
               /\ \A s \in Tenants : Resident(s)' => HasOpenLease(s)'
    <3>1. PICK t \in Tenants :
              /\ tenant' = [tenant EXCEPT ![t].status = "inactive"]
              /\ l # 0 => leases[l].tenant = t
              /\ ~Uses("create_lease") => \A k \in ActiveLeasesOf(t) : k = l
      BY <2>5
    <3>2. ~Uses("create_lease")
      BY <2>5 DEF MovingOut, Uses
    <3>3. \A s \in Tenants : s # t => tenant'[s] = tenant[s]
      BY <3>1
    <3>4. tenant'[t].status = "inactive"
      BY <3>1 DEF Serial, Base, TypeOK, Tenant
    <3>5. ASSUME NEW k \in DOMAIN leases', Active(k)'
          PROVE  tenant'[leases'[k].tenant] = [status |-> "active", unit |-> leases'[k].unit]
      <4>1. /\ k \in DOMAIN leases /\ Active(k) /\ k # l /\ leases'[k] = leases[k]
            /\ leases[k].tenant \in Tenants
        BY <1>3, <2>3, <3>5
      <4>2. leases[k].tenant # t
        BY <3>1, <3>2, <4>1 DEF ActiveLeasesOf
      <4>3. QED
        BY <2>1, <2>5, <3>3, <4>1, <4>2
    <3>6. ASSUME NEW s \in Tenants, Resident(s)'
          PROVE  HasOpenLease(s)'
      <4>1. s # t /\ Resident(s)
        BY <3>3, <3>4, <3>6 DEF Resident
      <4>2. PICK k \in ActiveLeasesOf(s) : TRUE
        BY <2>1, <2>5, <4>1 DEF HasOpenLease
      <4>3. k # l
        BY <1>0, <3>1, <4>1, <4>2 DEF ActiveLeasesOf
      <4>4. k \in ActiveLeasesOf(s)'
        BY <1>1, <4>2, <4>3 DEF ActiveLeasesOf, Active
      <4>5. QED
        BY <4>4 DEF HasOpenLease
    <3>7. QED
      BY <3>5, <3>6
  <2>6. QED
    BY <2>2, <2>4, <2>5
<1>8. QED
  BY <1>5, <1>6, <1>7 DEF RowsAgree

LEMMA TerminateKeepsSerial ==
    ASSUME Serial, Base', load' = load, NEW w \in Workers, TerminateCommit(w)
    PROVE  Serial'
<1>1. PICK l, u : l = job[w].lease /\ u = job[w].unit
  OBVIOUS
<1>2. /\ pc[w] = "terminate" /\ Respond(w) /\ tenant' = tenant
      /\ leases' = Terminated(l) /\ FreeUnit(job[w])
  BY <1>1 DEF TerminateCommit
<1>3. /\ Uses("terminate_lease")
      /\ l \in DOMAIN leases /\ Active(l) /\ u = leases[l].unit
  BY <1>1, <1>2 DEF Serial, AsRead
<1>4. (\A x : ~Occupying(x)) /\ ~MovingOut
  BY <1>2, <1>3, NobodyElseOccupies DEF MovingOut, Uses
<1>5. /\ \A x : Exists(x) => Exists(x)'
      /\ \A x \in Units : x # u => unit'[x] = unit[x]
  BY <1>1, <1>2, FreedUnits
<1>6. EndsOneWay => \A k \in DOMAIN leases : Active(k) /\ leases[k].unit = u => k = l
  BY <1>3 DEF Serial, RowsAgree, OneWayRows, OneActiveLeasePerUnit, ActiveLeasesOn, InUse, Exists
<1>7. RowsAgree'
  BY <1>2, <1>4, <1>5, <1>6, EndedLeaseAgrees
<1>8. QED
  BY <1>2, <1>7, CommitKeepsSerial

\* move_out_tenant: where tenancies end this way the tenant's unit is the one of
\* the lease that ends, and no other lease is on it.
LEMMA MoveOutKeepsSerial ==
    ASSUME Serial, Base', load' = load, NEW w \in Workers, MoveOutCommit(w)
    PROVE  Serial'
<1>1. PICK t \in Tenants : t = job[w].tenant
  BY DEF Serial, Base, SessionsNameTenants, MoveOutCommit
<1>2. PICK l, u : l = job[w].lease /\ u = job[w].unit
  OBVIOUS
<1>3. /\ pc[w] = "move_out" /\ Respond(w) /\ tenant' = [tenant EXCEPT ![t].status = "inactive"]
      /\ leases' = Terminated(l) /\ FreeUnit(job[w])
  BY <1>1, <1>2 DEF MoveOutCommit
<1>4. /\ Uses("move_out")
      /\ tenant[t].status = "active" \/ load.repeats
      /\ l \in IF HasOpenLease(t) THEN ActiveLeasesOf(t) ELSE {0}
      /\ u = tenant[t].unit
  BY <1>1, <1>2, <1>3 DEF Serial, AsRead
<1>5. tenant[t].status # "absent"
  BY <1>1, <1>3 DEF Serial, Base, SessionsNameTenants, Known
<1>6. \A x : ~Occupying(x)
  BY <1>3, NobodyElseOccupies
<1>7. /\ \A x : Exists(x) => Exists(x)'
      /\ \A x \in Units : x # u => unit'[x] = unit[x]
  BY <1>2, <1>3, FreedUnits
<1>8. l # 0 => leases[l].tenant = t
  BY <1>4 DEF ActiveLeasesOf
<1>9. ~Uses("create_lease") => \A k \in ActiveLeasesOf(t) : k = l
  <2>1. ~Uses("create_lease") => \A j, k \in ActiveLeasesOf(t) : j = k
    BY DEF Serial, RowsAgree, OpenLeaseRows
  <2>2. QED
    BY <1>4, <2>1 DEF HasOpenLease
<1>10. ASSUME EndsOneWay, NEW k \in DOMAIN leases, Active(k), leases[k].unit = u
       PROVE  k = l
  <2>1. MovingOut /\ tenant[t].status = "active"
    BY <1>4, <1>10 DEF EndsOneWay, MovingOut, Uses
  <2>2. u \in Units /\ \A j, m \in ActiveLeasesOn(u) : j = m
    BY <1>10 DEF Serial, RowsAgree, OneWayRows, InUse, Exists, OneActiveLeasePerUnit
  <2>3. HasOpenLease(t)
    BY <1>4, <1>10, <2>1, <2>2, NoneAssumption DEF Serial, RowsAgree, OneWayRows, Resident
  <2>4. l \in DOMAIN leases /\ leases[l].tenant = t /\ Active(l)
    BY <1>4, <2>3 DEF ActiveLeasesOf
  <2>5. tenant[t] = [status |-> "active", unit |-> leases[l].unit]
    BY <1>10, <2>1, <2>4 DEF Serial, RowsAgree, OneWayRows
  <2>6. leases[l].unit = u
    BY <1>4, <2>5
  <2>7. QED
    BY <1>10, <2>2, <2>4, <2>6 DEF ActiveLeasesOn
<1>11. RowsAgree'
  BY <1>3, <1>5, <1>6, <1>7, <1>8, <1>9, <1>10, EndedLeaseAgrees
<1>12. QED
  BY <1>3, <1>11, CommitKeepsSerial

\* The backfill: where tenancies end one way it finds nobody to give a lease to.
LEMMA BackfillKeepsSerial ==
    ASSUME Serial, Base', load' = load, NEW w \in Workers, BackfillCommit(w)
    PROVE  Serial'
<1>1. PICK t \in Tenants, u \in Units : t = job[w].tenant /\ u = job[w].unit
  BY DEF Serial, Base, SessionsNameTenants, BackfillCommit, Exists
<1>2. /\ pc[w] = "backfill" /\ leases' = WithLease(t, u) /\ Listed(w, t)
      /\ UNCHANGED <<unit, tenant>>
  BY <1>1 DEF BackfillCommit
<1>3. Uses("list_leases") /\ Resident(t) /\ ~HasOpenLease(t)
  BY <1>1, <1>2 DEF Serial, AsRead
<1>4. ~EndsOneWay
  BY <1>3 DEF EndsOneWay, Uses, Serial, RowsAgree, OneWayRows, MovingOut
<1>5. \A x : Exists(x) => Exists(x)'
  BY <1>2 DEF Exists
<1>6. RowsAgree'
  BY <1>2, <1>3, <1>4, <1>5, NewLeaseAgrees DEF Resident
<1>7. MovesAlone(w) /\ AsRead(w)'
  BY <1>2, ListedMoves
<1>8. QED
  BY <1>6, <1>7, MovesKeepSerial

\* Units that nobody lives in go; the rows that name others are as they were.
LEMMA DeletionAgrees ==
    ASSUME Serial, load' = load, NEW gone, DeleteUnits(gone),
           \A u \in gone : Exists(u) /\ unit[u] # "occupied",
           \A x : ~Occupying(x),
           ~Uses("delete_unit") =>
               \A t \in Tenants : tenant[t].status = "active" => tenant[t].unit \notin gone
    PROVE  RowsAgree'
<1>1. leases \in [1 .. Len(leases) -> Lease] /\ tenant \in [Tenants -> Tenant]
  BY DEF Serial, Base, TypeOK
<1>2. /\ DOMAIN leases' = DOMAIN leases
      /\ \A l \in DOMAIN leases :
            /\ leases'[l].tenant = leases[l].tenant
            /\ leases'[l].status = leases[l].status
            /\ leases'[l].unit = IF leases[l].unit \in gone THEN None ELSE leases[l].unit
  BY <1>1 DEF DeleteUnits, Detached, Lease
<1>3. \A t \in Tenants :
          /\ tenant'[t].status = tenant[t].status
          /\ tenant'[t].unit = IF tenant[t].unit \in gone THEN None ELSE tenant[t].unit
          /\ tenant[t].unit \notin gone => tenant'[t] = tenant[t]
  BY <1>1 DEF DeleteUnits, Detached, Tenant
<1>4. /\ \A x \in Units : x \notin gone => unit'[x] = unit[x]
      /\ \A x : Exists(x) /\ x \notin gone => Exists(x)'
  BY DEF DeleteUnits, Exists
<1>5. \A l \in DOMAIN leases : leases[l].tenant \in Tenants
  BY <1>1 DEF Lease
<1>6. OpenLeaseRows'
  BY <1>2, <1>3, <1>5 DEF Serial, RowsAgree, OpenLeaseRows, Uses, Known, ActiveLeasesOf, Active,
     LeftHasNoLease, HasOpenLease
<1>7. DeletionRows'
  <2> SUFFICES ASSUME ~Uses("delete_unit"), NEW s \in Tenants, tenant'[s].status = "active"
               PROVE  Exists(tenant[s].unit)'
    BY DEF DeletionRows, ActiveTenantsKeepTheirUnit, Uses
  <2>1. tenant[s].unit \notin gone /\ tenant'[s] = tenant[s]
    BY <1>3
  <2>2. \A x : x = tenant[s].unit => Exists(x)'
    BY <1>4, <2>1 DEF Serial, RowsAgree, DeletionRows, ActiveTenantsKeepTheirUnit
  <2>3. QED
    BY <2>1, <2>2 DEF Exists
<1>8. OneWayRows'
  <2> SUFFICES ASSUME EndsOneWay
               PROVE  /\ OneActiveLeasePerUnit'
                      /\ \A l \in DOMAIN leases' : Active(l)' => InUse(leases[l].unit)'
                      /\ MovingOut =>
                            /\ \A l \in DOMAIN leases' : Active(l)' =>
                                  tenant'[leases'[l].tenant]
                                      = [status |-> "active", unit |-> leases'[l].unit]
                            /\ \A s \in Tenants : Resident(s)' => HasOpenLease(s)'
    BY DEF OneWayRows, EndsOneWay, Uses, MovingOut, InUse, Exists, Occupying
  <2>1. /\ OneActiveLeasePerUnit
        /\ \A l \in DOMAIN leases : Active(l) => InUse(leases[l].unit)
        /\ MovingOut =>
              /\ \A l \in DOMAIN leases : Active(l) =>
                    tenant[leases[l].tenant] = [status |-> "active", unit |-> leases[l].unit]
              /\ \A s \in Tenants : Resident(s) => HasOpenLease(s)
    BY DEF Serial, RowsAgree, OneWayRows
  <2>2. \A l \in DOMAIN leases : Active(l)' => Active(l)
    BY <1>2 DEF Active
  <2>3. \A l \in DOMAIN leases : Active(l) => leases[l].unit \notin gone
    BY <2>1 DEF InUse
  <2>4. OneActiveLeasePerUnit'
    <3>1. \A x \in Units : ActiveLeasesOn(x)' \subseteq ActiveLeasesOn(x)
      BY <1>2, NoneAssumption DEF ActiveLeasesOn, Active
    <3>2. QED
      BY <2>1, <3>1 DEF OneActiveLeasePerUnit
  <2>5. ASSUME NEW l \in DOMAIN leases', Active(l)'
        PROVE  InUse(leases[l].unit)'
    <3>1. /\ l \in DOMAIN leases /\ InUse(leases[l].unit) /\ leases[l].unit \notin gone
          /\ leases'[l].unit = leases[l].unit
      BY <1>2, <2>1, <2>2, <2>3, <2>5
    <3>2. \A x : x = leases[l].unit => InUse(x)'
      BY <1>4, <3>1 DEF InUse, Exists
    <3>3. QED
      BY <3>1, <3>2 DEF InUse, Exists, Occupying
  <2>6. ASSUME MovingOut
        PROVE  /\ \A l \in DOMAIN leases' : Active(l)' =>
                     tenant'[leases'[l].tenant] = [status |-> "active", unit |-> leases'[l].unit]
               /\ \A s \in Tenants : Resident(s)' => HasOpenLease(s)'
    <3>1. ASSUME NEW l \in DOMAIN leases', Active(l)'
          PROVE  tenant'[leases'[l].tenant] = [status |-> "active", unit |-> leases'[l].unit]
      <4>1. /\ l \in DOMAIN leases /\ leases[l].unit \notin gone
            /\ tenant[leases[l].tenant] = [status |-> "active", unit |-> leases[l].unit]
        BY <1>2, <2>1, <2>2, <2>3, <2>6, <3>1
      <4>2. tenant[leases[l].tenant].unit \notin gone
        BY <4>1
      <4>3. QED
        BY <1>2, <1>3, <1>5, <4>1, <4>2
    <3>2. ASSUME NEW s \in Tenants, Resident(s)'
          PROVE  HasOpenLease(s)'
      <4>1. Resident(s)
        BY <1>3, <3>2, NoneAssumption DEF Resident
      <4>2. PICK l \in ActiveLeasesOf(s) : TRUE
        BY <2>1, <2>6, <4>1 DEF HasOpenLease
      <4>3. l \in ActiveLeasesOf(s)'
        BY <1>2, <4>2 DEF ActiveLeasesOf, Active
      <4>4. QED
        BY <4>3 DEF HasOpenLease
    <3>3. QED
      BY <3>1, <3>2
  <2>7. QED
    BY <2>4, <2>5, <2>6
<1>9. QED
  BY <1>6, <1>7, <1>8 DEF RowsAgree

LEMMA DeleteKeepsSerial ==
    ASSUME Serial, Base', load' = load, NEW w \in Workers,
           DeleteUnitCommit(w) \/ DeletePropertyCommit(w)
    PROVE  Serial'
<1>1. CASE DeleteUnitCommit(w)
  <2>1. PICK u : u = job[w].unit
    OBVIOUS
  <2>2. pc[w] = "delete_unit" /\ Respond(w) /\ DeleteUnits({u})
    BY <1>1, <2>1 DEF DeleteUnitCommit
  <2>3. Uses("delete_unit") /\ Exists(u) /\ unit[u] # "occupied"
    BY <2>1, <2>2 DEF Serial, AsRead, Deletable
  <2>4. \A x : ~Occupying(x)
    BY <2>2, NobodyElseOccupies
  <2>5. RowsAgree'
    BY <2>2, <2>3, <2>4, DeletionAgrees
  <2>6. QED
    BY <2>2, <2>5, CommitKeepsSerial
<1>2. CASE DeletePropertyCommit(w)
  <2>1. PICK p : p = job[w].property
    OBVIOUS
  <2>2. pc[w] = "delete_property" /\ Respond(w) /\ DeleteUnits(UnitsOf(p))
    BY <1>2, <2>1 DEF DeletePropertyCommit
  <2>3. (\A u \in UnitsOf(p) : unit[u] # "occupied") /\ ~HasActiveTenant(p)
    BY <2>1, <2>2 DEF Serial, AsRead
  <2>4. \A u \in UnitsOf(p) : Exists(u)
    BY DEF UnitsOf
  <2>5. \A t \in Tenants : tenant[t].status = "active" => tenant[t].unit \notin UnitsOf(p)
    BY <2>3 DEF HasActiveTenant
  <2>6. \A x : ~Occupying(x)
    BY <2>2, NobodyElseOccupies
  <2>7. RowsAgree'
    BY <2>2, <2>3, <2>4, <2>5, <2>6, DeletionAgrees
  <2>8. QED
    BY <2>2, <2>7, CommitKeepsSerial
<1>3. QED
  BY <1>1, <1>2

-----------------------------------------------------------------------------
(* Requests one at a time: the steps.                                      *)

\* update_tenant: the tenant keeps a unit that exists.
LEMMA MovedTenantAgrees ==
    ASSUME Serial, load' = load, UNCHANGED <<listed, unit, leases, pc, job>>,
           NEW t \in Tenants, NEW u \in Units, UpdateTenantUnit(t, u)
    PROVE  RowsAgree'
<1>1. tenant' = [tenant EXCEPT ![t].unit = u] /\ Exists(u) /\ Uses("update_tenant")
  BY DEF UpdateTenantUnit, Served
<1>2. \A s \in Tenants : /\ tenant'[s].status = tenant[s].status
                         /\ tenant'[s].unit = IF s = t THEN u ELSE tenant[s].unit
  BY <1>1 DEF Serial, Base, TypeOK, Tenant
<1>3. \A l \in DOMAIN leases : leases[l].tenant \in Tenants
  BY LeasesNameTenants DEF Serial, Base
<1>4. OpenLeaseRows'
  BY <1>2, <1>3 DEF Serial, RowsAgree, OpenLeaseRows, Uses, Known, ActiveLeasesOf, Active,
     LeftHasNoLease, HasOpenLease
<1>5. DeletionRows'
  <2> SUFFICES ASSUME ~Uses("delete_unit"), NEW s \in Tenants, tenant'[s].status = "active"
               PROVE  Exists(tenant[s].unit)'
    BY DEF DeletionRows, ActiveTenantsKeepTheirUnit, Uses
  <2>1. \A x : x = tenant'[s].unit => Exists(x)
    BY <1>1, <1>2 DEF Serial, RowsAgree, DeletionRows, ActiveTenantsKeepTheirUnit
  <2>2. QED
    BY <2>1 DEF Exists
<1>6. OneWayRows'
  <2>1. ~MovingOut /\ ~MovingOut'
    BY <1>1 DEF MovingOut, Uses
  <2>2. EndsOneWay' => EndsOneWay
    BY DEF EndsOneWay, Uses
  <2>3. OneActiveLeasePerUnit => OneActiveLeasePerUnit'
    BY DEF OneActiveLeasePerUnit, ActiveLeasesOn, Active
  <2>4. ASSUME NEW l \in DOMAIN leases, Active(l) => InUse(leases[l].unit), Active(l)'
        PROVE  InUse(leases[l].unit)'
    BY <2>4 DEF InUse, Exists, Occupying, Active
  <2>5. QED
    BY <2>1, <2>2, <2>3, <2>4 DEF Serial, RowsAgree, OneWayRows, Active
<1>7. QED
  BY <1>4, <1>5, <1>6 DEF RowsAgree

LEMMA AtOnceKeepsSerial ==
    ASSUME Serial, Base', load' = load, AtOnce
    PROVE  Serial'
<1>1. /\ UNCHANGED <<pc, job>>
      /\ \A w \in Workers : pc[w] = "idle"
  BY DEF Serial, AtOnce, CreateUnit, UpdateUnitStatus, UpdateTenantUnit, Served
<1>2. RowsAgree'
  <2>1. ASSUME NEW u \in Units, NEW s \in UnitStatus, CreateUnit(u, s)
        PROVE  RowsAgree'
    <3>1. UNCHANGED <<tenant, leases, pc, job>> /\ unit' = [unit EXCEPT ![u] = s] /\ ~Exists(u)
      BY <2>1 DEF CreateUnit, Exists, UnitStatus
    <3>2. \A x : Exists(x) => Exists(x)' /\ unit'[x] = unit[x]
      BY <3>1 DEF Exists, Serial, Base, TypeOK
    <3>3. \A x : InUse(x) => InUse(x)'
      BY <3>1, <3>2 DEF InUse, Occupying
    <3>4. QED
      BY <3>1, <3>2, <3>3, UnitWriteAgrees
  <2>2. ASSUME NEW u \in Units, NEW s \in UnitStatus, UpdateUnitStatus(u, s)
        PROVE  RowsAgree'
    <3>1. /\ UNCHANGED <<tenant, leases>> /\ unit' = [unit EXCEPT ![u] = s]
          /\ Uses("update_unit_status")
      BY <2>2 DEF UpdateUnitStatus, Served
    <3>2. \A x : Exists(x) => Exists(x)'
      BY <3>1 DEF Exists, Serial, Base, TypeOK
    <3>3. ~EndsOneWay
      BY <3>1 DEF EndsOneWay
    <3>4. QED
      BY <3>1, <3>2, <3>3, UnitWriteAgrees
  <2>3. ASSUME NEW t \in Tenants, NEW u \in Units, UpdateTenantUnit(t, u)
        PROVE  RowsAgree'
    BY <1>1, <2>3, MovedTenantAgrees DEF UpdateTenantUnit
  <2>4. QED
    BY <2>1, <2>2, <2>3 DEF AtOnce
<1>3. Alone' /\ ~load'.overlap
  BY <1>1 DEF Serial, Alone
<1>4. \A w \in Workers : AsRead(w)'
  BY <1>1 DEF AsRead
<1>5. QED
  BY <1>2, <1>3, <1>4 DEF Serial

SerialPart == ~load.overlap => Serial

LEMMA InitIsSerial == Init => SerialPart
<1> SUFFICES ASSUME Init PROVE Alone /\ (\A w \in Workers : AsRead(w)) /\ RowsAgree
  BY InitIsBase DEF SerialPart, Serial
<1>1. Alone /\ \A w \in Workers : AsRead(w)
  BY DEF Init, Alone, AsRead
<1>2. (\A t \in Tenants : tenant[t].status = "absent") /\ DOMAIN leases = {}
  BY DEF Init
<1>3. OneWayRows
  BY <1>2 DEF OneWayRows, OneActiveLeasePerUnit, ActiveLeasesOn, Resident
<1>4. OpenLeaseRows /\ DeletionRows
  BY <1>2 DEF OpenLeaseRows, ActiveLeasesOf, LeftHasNoLease, DeletionRows,
              ActiveTenantsKeepTheirUnit
<1>5. QED
  BY <1>1, <1>3, <1>4 DEF RowsAgree

LEMMA NextKeepsSerial ==
    ASSUME Base, SerialPart, [Next]_vars
    PROVE  SerialPart'
<1>1. Base' /\ load' = load
  BY NextKeepsBase DEF Next, vars
<1> SUFFICES ASSUME Serial PROVE Serial'
  BY <1>1 DEF SerialPart
<1>2. ASSUME NEW w \in Workers, Proceed(w) PROVE Serial'
  BY <1>1, <1>2, OnboardKeepsSerial, OccupyKeepsSerial, LeaseKeepsSerial, TerminateKeepsSerial,
     MoveOutKeepsSerial, BackfillSkipKeepsSerial, BackfillReadKeepsSerial, BackfillKeepsSerial,
     DeleteKeepsSerial
     DEF Proceed
<1>3. CASE UNCHANGED vars
  <2>1. UNCHANGED rows /\ UNCHANGED <<pc, job, listed, unit, tenant, leases>>
    BY <1>3 DEF vars, rows
  <2>2. RowsAgree'
    BY <1>1, <2>1, SameRowsAgree DEF Occupying
  <2>3. Alone' /\ ~load'.overlap
    BY <1>1, <2>1 DEF Serial, Alone
  <2>4. \A w \in Workers : AsRead(w)'
    <3> SUFFICES ASSUME NEW w \in Workers PROVE AsRead(w)'
      OBVIOUS
    <3>1. AsRead(w)
      BY DEF Serial
    <3>2. QED
      BY <1>1, <2>1, <3>1 DEF AsRead, Known, Lettable, Exists, Uses, Leasable, ActiveLeasesOn,
         ActiveLeasesOf, Active, StatusOf, HasOpenLease, Resident, Deletable, UnitsOf,
         HasActiveTenant
  <2>5. QED
    BY <1>1, <2>2, <2>3, <2>4 DEF Serial
<1>4. QED
  BY <1>1, <1>2, <1>3, ArriveKeepsSerial, AbortKeepsSerial, AtOnceKeepsSerial DEF Next

LEMMA SerialHolds == Spec => []SerialPart
BY InitIsSerial, NextKeepsSerial, BaseHolds, PTL DEF Spec

\* One request at a time, a landlord who ends tenancies in one way never lets a
\* unit twice, offers no let unit as vacant and deletes none; and deleting a
\* property takes no active tenant's home, however tenancies end
\* (create_tenant, create_lease, move_out_tenant, terminate_lease, delete_unit,
\* delete_property).
THEOREM OccupancyAlwaysAgrees == Spec => []OccupancyAgrees
<1>1. Base /\ SerialPart => OccupancyAgrees
  <2> SUFFICES ASSUME Serial PROVE OccupancyAgrees
    BY DEF SerialPart, OccupancyAgrees
  <2>1. ASSUME EndsOneWay
        PROVE  OneActiveLeasePerUnit /\ VacantUnitsAreFree /\ ActiveLeasesKeepTheirUnit
    <3>1. OneActiveLeasePerUnit /\ \A l \in DOMAIN leases : Active(l) => InUse(leases[l].unit)
      BY <2>1 DEF Serial, RowsAgree, OneWayRows
    <3>2. VacantUnitsAreFree
      BY <3>1 DEF VacantUnitsAreFree, ActiveLeasesOn, InUse, Occupying
    <3>3. ActiveLeasesKeepTheirUnit
      BY <3>1, NoneAssumption DEF ActiveLeasesKeepTheirUnit, InUse, Exists
    <3>4. QED
      BY <3>1, <3>2, <3>3
  <2>2. ~Uses("delete_unit") => ActiveTenantsKeepTheirUnit
    BY DEF Serial, RowsAgree, DeletionRows
  <2>3. QED
    BY <2>1, <2>2 DEF OccupancyAgrees
<1>2. QED
  BY <1>1, BaseHolds, SerialHolds, PTL

\* A tenant who has moved out holds no active lease, where only create_tenant
\* makes leases, or the listing's backfill does but no requests overlap: then
\* what move_out_tenant ends is all there is to end.
THEOREM MovedOutStaysOut == Spec => []MovedOutHasNoLease
<1> DEFINE Only == OnlyOnboarding => Homes
<1>1. Init => Only
  BY InitIsHomes
<1>2. Only /\ [Next]_vars => Only'
  <2> SUFFICES ASSUME Only, [Next]_vars, OnlyOnboarding' PROVE Homes'
    BY DEF Only
  <2>1. load' = load
    BY DEF Next, vars
  <2>2. OnlyOnboarding
    BY <2>1 DEF OnlyOnboarding
  <2>3. QED
    BY <2>2, NextKeepsHomes
<1>3. Only /\ SerialPart => MovedOutHasNoLease
  <2> SUFFICES ASSUME Only, SerialPart, ~Uses("create_lease"),
                      ~(load.overlap /\ Uses("list_leases"))
               PROVE  LeftHasNoLease
    BY DEF MovedOutHasNoLease, LeftHasNoLease
  <2>1. CASE ~Uses("list_leases")
    BY <2>1 DEF OnlyOnboarding, Uses, Homes
  <2>2. CASE ~load.overlap
    BY <2>2 DEF SerialPart, Serial, RowsAgree, OpenLeaseRows
  <2>3. QED
    BY <2>1, <2>2
<1> HIDE DEF Only
<1>4. Spec => []Only
  BY <1>1, <1>2, PTL DEF Spec
<1>5. QED
  BY <1>3, <1>4, SerialHolds, PTL
==============================================================================
