SPECIFICATION MCSpec
CONSTANTS
    d1 = d1
    d2 = d2
    o1 = o1
    e1 = e1
    e2 = e2
    e3 = e3
    Orders = {o1}
    Deliveries = {d1, d2}
    OrderOf <- MCOrderOf
    Edits = {e1, e2, e3}
    Texts = {t1, t2}
    MaxFailures = 1
    NoRow = NoRow
    None = None
CHECK_DEADLOCK FALSE
INVARIANTS
    OneNotePerOrder
    AnnouncedPath
PROPERTIES
    EveryCallIsAnswered
