SPECIFICATION MCSpec
CONSTANTS
    l2 = l2
    l3 = l3
    t0 = t0
    t1 = t1
    t2 = t2
    t3 = t3
    b1 = b1
    b2 = b2
    b3 = b3
    Tenants = {t0, t1, t2, t3}
    Leads = {l1, l2, l3}
    MissingLead = MissingLead
    NoLimit = NoLimit
    OpeningCredits <- MCOpening
    SaleLimit <- MCSaleLimit
    TierDefaultLimit <- MCDefaultLimit
    TierBasePaisa <- MCTierBase
    Buys = {b1, b2, b3}
    Topups = {u1, u2}
    Inits = {i1}
    Deltas = {2}
    MaxInt64 = 3
    MaxRetries = 2
    MaxDeliveries = 2
    NoRow = NoRow
    Free = Free
    NoCommand = NoCommand
CHECK_DEADLOCK FALSE
INVARIANTS
    SaleLimitRespected
    PurchaseIsAtomic
    LedgerMatchesBalance
PROPERTIES
    RefinesLeadMarket
    RequestsFinish
