SPECIFICATION GoodsSpec
CONSTANTS
    Creates = {}
    Updates = {}
    Deletes = {}
    Adds = {}
    Moves = {}
    Skus = {s}
    Numbers = {n}
    Quantities = {1, 3}
    Width = 3
    Limits = {1}
    NoRow = NoRow
    Free = Free
    None = None
    t1 = t1
    t2 = t2
    s1 = s1
    s2 = s2
    Tenants = {t1, t2}
    Subjects = {s1, s2}
    TenantOf <- MCTenantOf
    Jobs = {j1}
    BypassesRLS = FALSE
    MaxDay = 1
    MaxAttempts = 1
    MaxChanges = 1
    MaxStarted = 5
    Quotes = {q1}
    SaleIds = {g1}
    Lists <- MCLists
    Links = {i1}
    References = {r1}
    Months <- MCMonths
    MaxRevisions = 2
    MaxDocuments = 3
    Missing = Missing
    Notices = {n1, n2}
    Recipients = {p1}
    Categories = {k1}
    Sources = {x1}
    DedupWindow = 2
    MaxAge = 2
    NoSource = NoSource
    NoNotice = NoNotice
    LastId = 1
    LastTime = 0
    Callers = {e1}
    Nobody = Nobody
    RawSizes = {0, 9}
    DefaultPageSize = 1
    MaxPageSize = 2
    MaxWrites = 0
    Absent = Absent
    NoWalk = NoWalk
    NoCursor = NoCursor
    Blank = Blank
CHECK_DEADLOCK FALSE
INVARIANTS
    ScanIsComplete
