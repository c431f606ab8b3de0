SPECIFICATION Spec
CONSTANTS
    None = None
    Phone = {p1}
    Purpose = {k1, k2}
    Code = {c1, c2, c3}
    Issuer = {i1, i2}
    Verifier = {v1, v2}
    Limit = 2
    Interval = 1
    Ttl = 2
    MaxAttempts = 2
    Midnights = {3}
    MaxClock = 4
SYMMETRY Symmetry
INVARIANTS
    TypeOK
    RateLimited
    OneLiveCode
PROPERTIES
    ImplementsOneTimeCodes
CHECK_DEADLOCK FALSE
