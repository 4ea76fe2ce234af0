SPECIFICATION VelocitySpec
CONSTANTS
    None = None
    u1 = u1
    u2 = u2
    k1 = k1
    k2 = k2
    i1 = i1
    Asks <- CardsInTurn
    W_DISTINCT_CARDS = 2
    W_CARD_ACROSS_ACCOUNTS = 2
    W_DECLINES = 2
    W_OUTCOME_SEQUENCE = 3
    W_RAPID_BOOKINGS = 1
    W_SMALL_AMOUNTS = 2
    W_RISK_FLAG = 2
    T_DISTINCT_CARDS = 2
    T_DECLINES_PER_ACCOUNT = 2
    T_DECLINES_PER_IP = 2
    T_DECLINE_BURST = 1
    T_CARD_ACCOUNTS = 2
    T_RAPID_BOOKINGS = 2
    T_SMALL_AMOUNTS = 2
    MaxDelay = 1
    MaxPayments = 3
    MaxInFlight = 2
    MaxOutages = 1
    MaxTime = 2
INVARIANTS
    VelocityTypeOK
    RecentActivityIsRemembered
PROPERTIES
    CountsAreCurrent
    HotAccountIsChallenged
CHECK_DEADLOCK FALSE
