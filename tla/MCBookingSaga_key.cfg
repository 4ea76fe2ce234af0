CONSTANTS
    None = None
    u1 = u1  u2 = u2  s1 = s1  s2 = s2  b1 = b1  b2 = b2  k1 = k1  k2 = k2
    Users = {u1, u2}
    Seats = {s1, s2}
    Bookings = {b1, b2}
    HoldIds = {h1, h2}
    Keys = {k1, k2}
    HoldTTL = 1
    MaxActiveHolds = 2
    MaxTime = 1
    BookedBy <- TwoBuyers
    KeyOf <- SameKey
    FlightOf <- OneFlight
    Cards = {"approve"}
    Crashable = {}
    Faults = {}
SPECIFICATION Spec
INVARIANT AuthorizationNotShared
