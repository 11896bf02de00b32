SPECIFICATION GateSpec
CONSTANTS
    People = {p1}
    Operators = {p1}
    HttpRequests = {q1, q2}
    MaxStamps = 1
    StampTTL = 1
    MaxFlight = 1
    AccessTokenTTL = 2
    SessionTTL = 1
    ClockSkew = 1
    MaxTokens = 2
    GateTime = 4
    MaxFaults = 1
    Nothing = Nothing
SYMMETRY Symmetry
CHECK_DEADLOCK FALSE
INVARIANTS
    InvalidationHolds
