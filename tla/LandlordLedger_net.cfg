SPECIFICATION Spec
CONSTANTS
    w1 = w1
    w2 = w2
    o1 = o1
    o2 = o2
    p1 = p1
    p2 = p2
    None = None
    Workers <- OneWorker
    Owners = {o1}
    Payments = {p1}
    Grosses = {3, 1033}
    Methods = {"mtn_momo", "bank"}
    Online = {"mtn_momo"}
    Percent = 150
    Flat = 0
    Minimum = 5
    UnitFee = 8
    Recent = 3
    MaxUnits = 1
    MaxMonth = 1
INVARIANT LedgerCreditsNet
CHECK_DEADLOCK FALSE
