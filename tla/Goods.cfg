SPECIFICATION GoodsSpec
CONSTANTS
    Creates = {c1, c2}
    Updates = {u1}
    Deletes = {d1}
    Adds = {a1, a2}
    Moves = {m1, m2}
    Skus = {s}
    Numbers = {n}
    Quantities = {1, 3}
    Width = 3
    Limits = {1, 2}
    NoRow = NoRow
    Free = Free
    None = None
    t1 = t1
    t2 = t2
    s1 = s1
    s2 = s2
    Tenants = {t1, t2}
    Subjects = {s1, s2}
    TenantOf <- MCTenantOf
    Jobs = {j1, j2}
    BypassesRLS = TRUE
    MaxDay = 2
    MaxAttempts = 2
    MaxChanges = 1
    MaxStarted = 4
    Quotes = {q1}
    SaleIds = {g1}
    Lists <- MCLists
    Links = {i1}
    References = {r1}
    Months <- MCMonths
    MaxRevisions = 2
    MaxDocuments = 2
    Missing = Missing
    Notices = {n1, n2}
    Recipients = {p1}
    Categories = {k1}
    Sources = {x1}
    DedupWindow = 2
    MaxAge = 2
    NoSource = NoSource
    NoNotice = NoNotice
    LastId = 3
    LastTime = 1
    Callers = {m1, m2}
    Nobody = Nobody
    RawSizes = {0, 9}
    DefaultPageSize = 1
    MaxPageSize = 2
    MaxWrites = 1
    Absent = Absent
    NoWalk = NoWalk
    NoCursor = NoCursor
    Blank = Blank
SYMMETRY Symmetry
CONSTRAINT Scope
CHECK_DEADLOCK FALSE
INVARIANTS
    LedgerBalances
    ScanIsComplete
    OrderTellsItsPath
    DocumentsAreUnique
    OneNoticePerWindow
    WalkIsExact
PROPERTIES
    DeletedIsOver
