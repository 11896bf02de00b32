SPECIFICATION LeadsSpec
CONSTANTS
    Purchases = {p1}
    Deliveries = {d1, d2}
    PurchaseOf <- MCPurchaseOf
    Edits = {e1, e2, e3}
    Members = {m1, m2}
    Limits = {1, 2}
    MaxFailures = 1
    MaxOverlapping = 3
    k1 = k1
    j1 = j1
    NoRow = NoRow
    None = None
    Contacts = {k1}
    Verifies = {d1, d2}
    Rejects = {j1}
    Calls = {m1, m2}
    VerifyLimits = {1, 2}
    NoContact = NoContact
    NoLead = NoLead
    Free = Free
    NoCommand = NoCommand
SYMMETRY Symmetry
CONSTRAINT Scope
CHECK_DEADLOCK FALSE
INVARIANTS
    DecisionIsWhole
    LeadTellsItsStory
PROPERTIES
    DecisionIsFinal
    EndIsFinal
    ClosedStaysClosed
