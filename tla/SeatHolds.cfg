\* Two users, two seats, three hold requests, one live hold allowed per user.
CONSTANTS
    None = None
    Users = {u1, u2}
    Seats = {s1, s2}
    Bookings = {}
    HoldIds = {h1, h2, h3}
    HoldTTL = 1
    MaxActiveHolds = 1
    MaxTime = 3
SPECIFICATION HoldSpec
INVARIANTS HoldTypeOK HoldRowsSound
PROPERTIES HoldsImplementLease LapsedHoldsAreSwept
    CapHoldsOneAtATime
