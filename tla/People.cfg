CONSTANTS
    w1 = w1
    w2 = w2
    inv1 = inv1
    inv2 = inv2
    boxA = boxA
    boxB = boxB
    None = None
    Workers <- MCWorkers
    Users <- MCUsers
    EmailOf <- MCEmailOf
    Invitations <- MCInvitations
    Addresses <- MCAddresses
    Workloads <- MCWorkloads
    MaxDraws = 4
    QueueLimit = 2
    LimitEach = 1
    Limit = 2
SPECIFICATION Spec
SYMMETRY WorkersAlike
INVARIANTS
    TypeOK
    CodesWorkOnce
    InvitationsMakeOfficers
    SanctionsHold
    TrustIsDecided
    DisconnectionsHold
    OfficersSeeEverybody
PROPERTIES
    DocumentsAreKept
CHECK_DEADLOCK FALSE
