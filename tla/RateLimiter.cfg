SPECIFICATION LimiterSpec
CONSTANTS
    None = None
    Users = {u1}
    Addresses = {i1}
    max_requests = 1
    window_seconds = 3
    MaxDelay = 1
    MaxRequests = 3
    MaxOutages = 1
    MaxTime = 4
INVARIANTS
    LimiterTypeOK
    LimitHolds
PROPERTY
    RefusalsHaveCause
CHECK_DEADLOCK FALSE
