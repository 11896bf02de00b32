SPECIFICATION PlatformSpec
CONSTANTS
    TenantIds = {t0, t1, t2}
    Platform = t0
    Slugs = {s1, s2}
    Admins = {a1, a2}
    Catalogue <- MCCatalogue
    Owner = "CompanyOwner"
    Values = {v1}
    Edited = {"profile", "statutory", "contact", "settings", "preferences"}
    Calls = {1, 2, 3, 4}
    Limits = {1, 2}
    Grace = 2
    MaxTime = 1
    MaxFailures = 1
    None = None
    People = {p1}
    Operators = {p1}
    HttpRequests = {t1, t2}
    MaxStamps = 1
    StampTTL = 1
    MaxFlight = 1
    AccessTokenTTL = 2
    SessionTTL = 1
    ClockSkew = 1
    MaxTokens = 3
    GateTime = 4
    MaxFaults = 1
    Nothing = Nothing
    Callers = {h1}
    Keys = {k1, k2}
    Bodies = {t1, t2}
    Attempts = {t1, t2}
    AttemptLimits = {1, 2}
    RecordTTL = 2
    MaxRuns = 2
    MaxTicks = 3
    MaxLosses = 1
    Absent = Absent
CONSTRAINT PlatformScope
SYMMETRY Symmetry
CHECK_DEADLOCK FALSE
INVARIANTS
    RegistrationIsWhole
    ImpersonationIsBounded
    RetryIsSafe
PROPERTIES
    TenantLifecycle
    StaleTokensAreRefused
