SPECIFICATION Spec
CONSTANTS
    w1 = w1
    w2 = w2
    p1 = p1
    p2 = p2
    u1 = u1
    u2 = u2
    t1 = t1
    t2 = t2
    t3 = t3
    None = None
    Workers <- MCWorkers
    Properties = {p1, p2}
    Units = {u1, u2}
    Tenants = {t1, t2, t3}
    PropertyOf <- MCPropertyOf
    Workloads <- MCWorkloads
SYMMETRY Symmetry
INVARIANT TenantsHaveLeases
INVARIANT MovedOutHasNoLease
INVARIANT OccupancyAgrees
CHECK_DEADLOCK FALSE
