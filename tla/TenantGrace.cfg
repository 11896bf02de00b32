SPECIFICATION Spec
CONSTANTS
    TenantIds = {t0, t1, t2}
    Platform = t0
    Slugs = {s1, s2}
    Admins = {a1, a2}
    Catalogue <- MCCatalogue
    Owner = "CompanyOwner"
    Values = {v1}
    Edited = {"profile", "settings"}
    Calls = {1, 2, 3, 4}
    Limits = {1}
    Grace = 2
    MaxTime = 1
    MaxFailures = 0
    None = None
CONSTRAINT Scope
SYMMETRY Symmetry
CHECK_DEADLOCK FALSE
PROPERTIES
    GraceIsRespected
