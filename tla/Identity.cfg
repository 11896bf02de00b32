SPECIFICATION IdentitySpec
CONSTANTS
    Tenants = {t1, t2}
    Logins = {l1, l2}
    Refreshes = {r1, r2}
    Logouts = {o1}
    SessionRevokes = {v1}
    SignOuts = {s1}
    Cascades = {c1}
    Limits = {1, 2}
    NoRow = NoRow
    Live = Live
    Free = Free
    None = None
    AccountRequests = {a1, a2, a3}
    AccountLimits = {1, 2}
    Initial = Initial
    NoToken = NoToken
    Unlocked = Unlocked
    NoPerson = NoPerson
    a1 = a1
    a2 = a2
    a3 = a3
    LoginRequests = {a1, a2, a3}
    LoginLimits = {1, 2}
    MaxFailedLogins = 2
    LockoutWindow = 2
    LockoutDuration = 2
    MaxTime = 6
SYMMETRY Symmetry
CONSTRAINT Scope
CHECK_DEADLOCK FALSE
INVARIANTS
    ChainIsLinked
    CompromiseEndsSessions
    LocksAtLimit
PROPERTIES
    EndedStaysEnded
    ErasureIsFinal
    CredentialChangeRotatesStamp
    OnlyNewestResetWorks
