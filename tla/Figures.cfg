SPECIFICATION Spec
CONSTANTS
    ann = ann
    bob = bob
    t1 = t1
    t2 = t2
    p1 = p1
    p2 = p2
    None = None
    Landlords = {ann, bob}
    Tenants = {t1, t2}
    Payments = {p1, p2}
    Worlds <- MCWorlds
    FirstDay <- MCFirstDay
    LastDay <- MCLastDay
SYMMETRY Alike
INVARIANTS
    FiguresAgree
PROPERTIES
    RentFallsDueMonthly
CHECK_DEADLOCK FALSE
