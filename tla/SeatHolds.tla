----------------------------- MODULE SeatHolds -----------------------------
(***************************************************************************)
(* The seat_inventory table and everything that writes it without a        *)
(* booking: acquiring a hold, releasing it, and the sweep job              *)
(* (app/services/holds.py, app/jobs/sweep.py).                             *)
(*                                                                         *)
(* One committed statement is one step.  Acquiring is two: the count of    *)
(* active holds and the conditional UPDATE are separate statements of one  *)
(* READ COMMITTED transaction, and Postgres's now() is that transaction's  *)
(* start, so both use the same instant t0 however late the UPDATE runs.    *)
(***************************************************************************)
EXTENDS SkyLockDomain, Naturals, FiniteSets

CONSTANTS
    Users,
    Seats,
    Bookings,           \* booking ids, one per checkout request
    HoldIds,            \* hold ids, one per POST /holds request (uuid4)
    HoldTTL,            \* settings.hold_ttl_seconds
    MaxActiveHolds,     \* settings.max_active_holds_per_user
    MaxTime             \* bound: the clock stops here

ASSUME NoneAssumption ==
    None \notin Users \cup Seats \cup Bookings \cup HoldIds \cup Nat
ASSUME HoldAssumption ==
    /\ HoldTTL \in Nat \ {0}
    /\ MaxActiveHolds \in Nat
    /\ MaxTime \in Nat
    /\ IsFiniteSet(Seats) /\ IsFiniteSet(HoldIds)

VARIABLES
    seat,       \* seat[s]: the row of seat s
    now,        \* the clock
    hreq        \* hreq[h]: the POST /holds request whose hold id is h

holdVars == <<seat, now, hreq>>

Row ==
    [status     : SeatStatus,
     held_by    : Users \cup {None},
     hold_id    : HoldIds \cup {None},
     expires    : Nat \cup {None},
     booking_id : Bookings \cup {None}]

AvailableRow ==
    [status |-> "available", held_by |-> None, hold_id |-> None,
     expires |-> None, booking_id |-> None]

HoldOutcome == {"created", "seat_unavailable", "too_many_holds"}

HoldRequest ==
    [pc   : {"new", "counted"} \cup HoldOutcome,
     user : Users \cup {None},
     seat : Seats \cup {None},
     t0   : Nat]

NewRequest == [pc |-> "new", user |-> None, seat |-> None, t0 |-> 0]

(***************************************************************************)
(* Predicates of the SQL statements                                        *)
(***************************************************************************)

\* Mutant of Takeable: a hold can be taken at its very last instant.
TakeableAtExpiry(row, t) ==
    \/ row.status = "available"
    \/ row.status = "held" /\ row.expires <= t

\* takeable(): available, or held and past its expiry.
Takeable(row, t) ==
    \/ row.status = "available"
    \/ row.status = "held" /\ row.expires < t

\* The rows count_active_holds counts for user u at time t.
ActiveHolds(u, t) ==
    {s \in Seats : /\ seat[s].held_by = u
                   /\ seat[s].status = "held"
                   /\ seat[s].expires > t}

\* Mutant of ClearHold: the status column is left out of the UPDATE.
ClearHoldKeepsStatus(row) ==
    [row EXCEPT !.held_by = None, !.hold_id = None, !.expires = None]

\* The columns a release or a sweep writes; booking_id is not among them.
ClearHold(row) ==
    [row EXCEPT !.status = "available", !.held_by = None,
                !.hold_id = None, !.expires = None]

(***************************************************************************)
(* Operations                                                              *)
(***************************************************************************)

HoldInit ==
    /\ seat = [s \in Seats |-> AvailableRow]
    /\ now = 0
    /\ hreq = [h \in HoldIds |-> NewRequest]

\* Mutant of UnderCap: the hold about to be taken is left out.
UnderCapBeforeTaking(u) == Cardinality(ActiveHolds(u, now)) <= MaxActiveHolds

\* acquire_hold's test of the cap.
UnderCap(u) == Cardinality(ActiveHolds(u, now)) < MaxActiveHolds

\* acquire_hold, first statement: below the cap, so go on to the UPDATE.
CountHolds(h, u, s) ==
    /\ hreq[h].pc = "new"
    /\ UnderCap(u)
    /\ hreq' = [hreq EXCEPT ![h] = [pc |-> "counted", user |-> u, seat |-> s, t0 |-> now]]
    /\ UNCHANGED <<seat, now>>

\* acquire_hold, first statement: TooManyHolds.
TooManyHolds(h, u) ==
    /\ hreq[h].pc = "new"
    /\ ~ UnderCap(u)
    /\ hreq' = [hreq EXCEPT ![h].pc = "too_many_holds"]
    /\ UNCHANGED <<seat, now>>

\* Mutant of HeldRow: the user's id is written to hold_id.
HeldRowMixesIds(h) ==
    [status |-> "held", held_by |-> hreq[h].user, hold_id |-> hreq[h].user,
     expires |-> hreq[h].t0 + HoldTTL, booking_id |-> None]

\* The row the conditional UPDATE leaves behind; it also drops any booking pin.
HeldRow(h) ==
    [status |-> "held", held_by |-> hreq[h].user, hold_id |-> h,
     expires |-> hreq[h].t0 + HoldTTL, booking_id |-> None]

\* acquire_hold, second statement: the conditional UPDATE found the row, commit.
TakeSeat(h) ==
    /\ hreq[h].pc = "counted"
    /\ Takeable(seat[hreq[h].seat], hreq[h].t0)
    /\ seat' = [seat EXCEPT ![hreq[h].seat] = HeldRow(h)]
    /\ hreq' = [hreq EXCEPT ![h] = [NewRequest EXCEPT !.pc = "created"]]
    /\ UNCHANGED now

\* acquire_hold, second statement: zero rows, SeatUnavailable.
LoseSeat(h) ==
    /\ hreq[h].pc = "counted"
    /\ ~ Takeable(seat[hreq[h].seat], hreq[h].t0)
    /\ hreq' = [hreq EXCEPT ![h] = [NewRequest EXCEPT !.pc = "seat_unavailable"]]
    /\ UNCHANGED <<seat, now>>

\* release_hold: the owner gives the hold back.  A hold pinned by a running
\* booking can be released too: the UPDATE looks at neither booking_id nor expiry.
ReleaseHold(h) ==
    /\ \E s \in Seats : seat[s].hold_id = h /\ seat[s].status = "held"
    /\ seat' = [s \in Seats |->
                   IF seat[s].hold_id = h /\ seat[s].status = "held"
                   THEN ClearHold(seat[s])
                   ELSE seat[s]]
    /\ UNCHANGED <<now, hreq>>

\* The rows sweep_expired_holds matches: expired and not pinned to a booking.
Sweepable(row) ==
    /\ row.status = "held"
    /\ row.expires < now
    /\ row.booking_id = None

\* Mutant of Sweep: the UPDATE is rolled back instead of committed.
SweepWithoutCommit == UNCHANGED holdVars

\* The interval job; a run that matches no row changes nothing.
Sweep ==
    /\ seat' = [s \in Seats |-> IF Sweepable(seat[s]) THEN ClearHold(seat[s]) ELSE seat[s]]
    /\ UNCHANGED <<now, hreq>>

Tick ==
    /\ now < MaxTime
    /\ now' = now + 1
    /\ UNCHANGED <<seat, hreq>>

HoldStep(h) ==
    \/ \E u \in Users, s \in Seats : CountHolds(h, u, s)
    \/ \E u \in Users : TooManyHolds(h, u)
    \/ TakeSeat(h)
    \/ LoseSeat(h)
    \/ ReleaseHold(h)

HoldNext ==
    \/ \E h \in HoldIds : HoldStep(h)
    \/ Sweep
    \/ Tick

\* The scheduler runs the sweep at a fixed interval for as long as the process lives.
HoldSpec == HoldInit /\ [][HoldNext]_holdVars /\ WF_holdVars(Sweep)

(***************************************************************************)
(* Properties                                                              *)
(***************************************************************************)

\* Type invariant: every column has its type and every POST /holds request is
\* at a point of acquire_hold.
HoldTypeOK ==
    /\ seat \in [Seats -> Row]
    /\ now \in Nat
    /\ hreq \in [HoldIds -> HoldRequest]

\* A request between its two statements knows its user and seat, and its
\* transaction did not start in the future.
PendingRequestsSound ==
    \A h \in HoldIds :
        hreq[h].pc = "counted" =>
            /\ hreq[h].user \in Users
            /\ hreq[h].seat \in Seats
            /\ hreq[h].t0 <= now

\* ck_held_seat_has_holder, the CHECK of seat_inventory: no statement can
\* leave a held row without its holder, hold id and expiry.
HeldSeatHasHolder ==
    \A s \in Seats :
        seat[s].status = "held" =>
            /\ seat[s].held_by \in Users
            /\ seat[s].hold_id \in HoldIds
            /\ seat[s].expires \in Nat

\* A hold id names at most one seat, and only a request that was answered 201
\* has one: what lets booking_saga compare len(seats) with len(hold_ids).
HoldIdNamesOneSeat ==
    /\ \A s, t \in Seats :
           seat[s].hold_id = seat[t].hold_id /\ seat[s].hold_id # None => s = t
    /\ \A s \in Seats : \A h \in HoldIds :
           seat[s].hold_id = h => hreq[h].pc = "created"

\* No hold outlives its TTL, however late its UPDATE ran.
HoldsAreBounded ==
    \A s \in Seats : seat[s].status = "held" => seat[s].expires <= now + HoldTTL

\* What the hold rows promise together; inductive.
HoldRowsSound ==
    /\ PendingRequestsSound
    /\ HeldSeatHasHolder
    /\ HoldIdNamesOneSeat
    /\ HoldsAreBounded

\* Who has the seat, read off its row and the clock alone: an expired hold is
\* already not a hold, swept or not (ADR-0001).
HeldLease(row) ==
    IF row.status = "held" /\ row.expires >= now
    THEN [as |-> "held", by |-> row.held_by]
    ELSE [as |-> "free", by |-> None]

HoldLease == INSTANCE SeatLease WITH lease <- [s \in Seats |-> HeldLease(seat[s])]

\* Acquiring, releasing, sweeping and the passing of time implement the
\* abstract lease: a live hold is never taken over, and the sweep is invisible.
HoldsImplementLease == HoldLease!Spec

\* A row that still says held although its hold has run out.
Lapsed(row) == row.status = "held" /\ row.expires < now

\* Every lapsed hold is eventually normalised by the sweep, unless the seat is
\* taken again first: `status` ends up meaning what it says (sweep.py).
LapsedHoldsAreSwept ==
    \A s \in Seats : Lapsed(seat[s]) ~> ~ Lapsed(seat[s])

\* An account that makes its requests one at a time stays within the cap.
CapHoldsFor(u) ==
    [](Cardinality({h \in HoldIds : hreq[h].pc = "counted" /\ hreq[h].user = u}) <= 1)
      => [](Cardinality(ActiveHolds(u, now)) <= MaxActiveHolds)

\* README.md: "each account may hold only six seats at once".  The cap is checked
\* in one statement and spent in the next, so requests of one account that
\* overlap can exceed it; an account that makes them one at a time cannot,
\* whatever others take, release, let lapse or have swept.
CapHoldsOneAtATime == \A u \in Users : CapHoldsFor(u)
============================================================================
