SPECIFICATION FairSpec
CONSTANTS
    c1 = c1
    c2 = c2
    i1 = i1
    w1 = w1
    w2 = w2
    None = None
    Workers <- OneWorker
    Checkouts <- OneCheckout
    Invoices <- OneInvoice
    Total <- TotalTwo
    Amounts = {1, 2}
    Provider <- Momo
    EntryPoints = {"webhook"}
    MaxCollected = 0
PROPERTY ApprovalSettles
CHECK_DEADLOCK FALSE
