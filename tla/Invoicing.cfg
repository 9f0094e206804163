SPECIFICATION RegimesSpec
CONSTANTS
    w1 = w1
    w2 = w2
    l1 = l1
    l2 = l2
    Workers <- TwoWorkers
    Leases = {l1, l2}
    Periods = {1, 2}
    PeriodOf <- Month
    Rent = 2
    Totals = {0, 1}
    MaxDay = 3
    MaxInvoices = 3
SYMMETRY Symmetry
INVARIANT NextNumberIsFree
PROPERTY BillsHold
CHECK_DEADLOCK FALSE
