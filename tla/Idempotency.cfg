\* Two keys, two bodies and three requests, so that a slot is claimed, lost and
\* claimed again while another request is between its INSERT and its SELECT.
CONSTANTS
    None = None
    Slots = {k1, k2}
    Bodies = {x, y}
    Requests = {r1, r2, r3}
    ClaimTTL = 1
    MaxTime = 3
SPECIFICATION IdemSpec
INVARIANTS IdemTypeOK RunsFarApart ReplayIsForThisRequest
CHECK_DEADLOCK FALSE
