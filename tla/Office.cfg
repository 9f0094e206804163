SPECIFICATION Spec
CONSTANTS
    w1 = w1
    w2 = w2
    pay1 = pay1
    pay2 = pay2
    ann = ann
    bob = bob
    agent = agent
    home = home
    shop = shop
    th1 = th1
    th2 = th2
    l1 = l1
    cl1 = cl1
    v1 = v1
    d1 = d1
    c1 = c1
    c2 = c2
    u1 = u1
    u2 = u2
    mailA = mailA
    mailB = mailB
    e1 = e1
    e2 = e2
    o1 = o1
    here = here
    there = there
    co1 = co1
    co2 = co2
    b1 = b1
    k1 = k1
    k2 = k2
    g1 = g1
    None = None
    Workers <- MCWorkers
    Workloads <- MCWorkloads
    Payments = {pay1, pay2}
    PrefixOf <- MCPrefixOf
    Amounts = {1, 2}
    MaxYear = 2
    People = {ann, agent}
    Units = {home, shop}
    LandlordOf <- MCLandlordOf
    Threads = {th1, th2}
    MaxMessages = 4
    MaxClock = 4
    Leads = {l1}
    Stages = {"new", "lost"}
    Clients = {cl1}
    Viewings = {v1}
    Deals = {d1}
    Commissions = {c1, c2}
    Fees = {0, 1}
    Rentals = {1, 2}
    Logins = {u1, u2}
    Mailboxes = {mailA, mailB}
    MaxTokens = 2
    Residents = {1, 2, 3}
    StartOf <- MCStartOf
    Readers = {u1}
    Landlord = agent
    FirstDay <- MCFirstDay
    LastDay <- MCLastDay
    MaxMissed = 3
    Estates = {e1, e2}
    Owners = {o1}
    Locations = {here, there}
    MaxDrawn = 2
    SuiCheckouts = {co1, co2}
    Payers = {u1}
    PayerOf <- MCPayerOf
    Bills = {b1}
    BillOf <- MCBillOf
    AmountOf <- MCAmountOf
    Owed <- MCOwed
    MaxTransfers = 2
    Premises = {home, shop}
    Contracts = {k1, k2}
    RowOf <- MCRowOf
    Terms = {1, 2}
    Tickets = {g1}
    MaxHolds = 2
    MaxDay = 2
SYMMETRY Alike
INVARIANTS
    TypeOK
    ReceiptsAreKept
    ConversationsAreOne
    MessagesArrive
    LinkedRentalsShareTheEmail
    RemindersKeepTime
    ListingsVerify
    IdentitiesAreUnique
    SuiSettlesOnce
    ContractsVerify
    OneOpenHold
PROPERTIES
    AgentsRecordsHold
    LinksAreKept
    IdentityIsKept
    PaymentsAreSettled
    TicketsAreKept
CHECK_DEADLOCK FALSE
