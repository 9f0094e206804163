SPECIFICATION RegimesSpec
CONSTANTS
    c1 = c1
    c2 = c2
    i1 = i1
    w1 = w1
    w2 = w2
    None = None
    Workers <- TwoWorkers
    Checkouts <- TwoCheckouts
    Invoices <- OneInvoice
    Total <- TotalTwo
    Amounts = {1, 2}
    Provider <- MockAndSui
    EntryPoints = {"webhook", "simulate", "confirm_sui"}
    MaxCollected = 2
INVARIANT SettledAtMostOnce
INVARIANT BooksAreComplete
PROPERTY DeliveriesSettle
PROPERTY ImplementsAccount
CHECK_DEADLOCK FALSE
