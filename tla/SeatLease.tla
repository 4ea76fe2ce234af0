----------------------------- MODULE SeatLease -----------------------------
(***************************************************************************)
(* What a seat promises, with no rows, clock, sweep or saga: at any moment *)
(* a seat is free, leased to one user, or sold to one user.  A lease is    *)
(* never taken over while it lasts, and a seat is sold only when it is free *)
(* or leased to the buyer.                                                 *)
(***************************************************************************)
CONSTANTS Users, Seats, None

VARIABLE lease      \* lease[s]: who has seat s, and as what

Free    == [as |-> "free", by |-> None]
Held(u) == [as |-> "held", by |-> u]
Sold(u) == [as |-> "sold", by |-> u]

Init == lease = [s \in Seats |-> Free]

\* A user takes a free seat.
Take(s, u) ==
    /\ lease[s] = Free
    /\ lease' = [lease EXCEPT ![s] = Held(u)]

\* Leases end: given back, or lapsed as time passes (several at once).
Drop(S) ==
    /\ \A s \in S : lease[s].as = "held"
    /\ lease' = [s \in Seats |-> IF s \in S THEN Free ELSE lease[s]]

\* The seats of one booking are sold together to one user.
Sell(S, u) ==
    /\ \A s \in S : lease[s] \in {Free, Held(u)}
    /\ lease' = [s \in Seats |-> IF s \in S THEN Sold(u) ELSE lease[s]]

Next ==
    \/ \E s \in Seats, u \in Users : Take(s, u)
    \/ \E S \in SUBSET Seats : Drop(S)
    \/ \E S \in SUBSET Seats, u \in Users : Sell(S, u)

Spec == Init /\ [][Next]_lease
============================================================================
