CONSTANTS
    None = None
    u1 = u1  u2 = u2  s1 = s1  b1 = b1  b2 = b2  k1 = k1  k2 = k2
    Users = {u1, u2}
    Seats = {s1}
    Bookings = {b1, b2}
    HoldIds = {h1, h2}
    Keys = {k1, k2}
    HoldTTL = 1
    MaxActiveHolds = 2
    MaxTime = 0
    BookedBy <- TwoBuyers
    KeyOf <- OwnKeys
    FlightOf <- OneFlight
    Cards = {"approve"}
    Crashable = {}
    Faults = {}
    Cancels = {c1, c2}
    Patches = {c2}
    Mortal = {c1, c2}
    RefundFaults = TRUE
SPECIFICATION CancelSpec
INVARIANTS CancelTypeOK NeverOversold KeepsSeatOrMoney CancelledLetsGo LockedSeatsStaySold JournalNamesState
PROPERTY EveryoneAnswered
