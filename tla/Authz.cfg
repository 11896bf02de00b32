SPECIFICATION BothSpec
CONSTANTS
    m1 = m1
    m2 = m2
    m3 = m3
    p1 = p1
    r1 = r1
    r2 = r2
    n1 = n1
    n2 = n2
    Members = {m1, m2, m3}
    PersonOf <- MCPersonOf
    TenantOf <- MCTenantOf
    Seeded = {m1, m2}
    ManagerOf <- MCManagerOf
    Roles = {r1}
    RolePermissions <- MCRolePermissions
    Permissions = {p1}
    Profiles = {x1}
    Edits = {e1, e2, e3}
    Limits = {1, 2}
    MaxTime = 1
    MaxFailures = 1
    Never = Never
    None = None
    Durations = {1}
    Operator = Operator
    MaxRequests = 2
    RoleIds = {r1, r2, r3}
    SystemRoles = {r1}
    SeededRoles = {r2}
    Names = {n1, n2, n3}
    NameOf <- MCNameOf
    Levels = {1, 2}
    Grants = {p1}
    Changes = {e1, e2, e3}
    RoleLimits = {1, 2}
    MaxEdges = 3
    MaxDepth = 3
    Nothing = Nothing
CONSTRAINT Scope
SYMMETRY Symmetry
CHECK_DEADLOCK FALSE
INVARIANTS
    EffectiveIsJustified
PROPERTIES
    ApprovalGrants
    HierarchyIsForest
