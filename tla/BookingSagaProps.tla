-------------------------- MODULE BookingSagaProps --------------------------
(***************************************************************************)
(* What the booking saga must guarantee, over the state of BookingSaga.    *)
(***************************************************************************)
EXTENDS BookingSaga

JournalRow ==
    [event : AuditEventType,
     from  : BookingState \cup {None},
     to    : BookingState \cup {None}]

\* Type invariant: tables, journal and program counters have their types.
SagaTypeOK ==
    /\ HoldTypeOK
    /\ GwTypeOK
    /\ booking \in [Bookings -> [state : BookingState \cup {None},
                                 seats : SUBSET Seats,
                                 card  : Cards \cup {None}]]
    /\ payment \in [Bookings -> PaymentState \cup {None}]
    /\ live \in [Bookings -> SUBSET Seats]
    /\ journal \in [Bookings -> Seq(JournalRow)]
    /\ pc \in [Bookings -> {"new"} \cup InFlight \cup Finished]
    /\ mem \in [Bookings -> [Seats -> Row]]
    /\ pins \in [Bookings -> SUBSET Seats]

(***************************************************************************)
(* What holds of the code as it runs                                       *)
(***************************************************************************)

Sold(b) == booking[b].state \in {"TICKETED", "CONFIRMED"}

\* Never oversold: a sold booking holds a live ticket for every one of its
\* seats, and no seat belongs to two sold bookings, whatever holds expired,
\* were released, swept or taken over while the payments were under way.
NeverOversold ==
    /\ \A b \in Bookings : Sold(b) => booking[b].seats # {} /\ live[b] = booking[b].seats
    /\ \A b, c \in Bookings :
           b # c /\ Sold(b) /\ Sold(c) => booking[b].seats \cap booking[c].seats = {}

\* Seats never keep pointing at a booking that is over without a sale
\* (_fail_payment and release_seats_for_booking both let go of them).
NoPinToDeadBooking ==
    \A s \in Seats : \A b \in Bookings :
        seat[s].booking_id = b =>
            booking[b].state \notin {None, "PAYMENT_FAILED", "VOIDED", "NEEDS_MANUAL_REVIEW"}

\* The outcome on record agrees with the provider: a failed payment never kept
\* money, a voided booking gave it back, a confirmed one was captured and never
\* voided.  (Checkouts have keys of their own in the instances checked.)
OutcomeMatchesProvider ==
    \A b \in Bookings :
        LET k == KeyOf[b] IN
        /\ booking[b].state = "PAYMENT_FAILED" => ~ MoneyHeld(k)
        /\ booking[b].state = "VOIDED" => k \in gw.voided
        /\ booking[b].state \in {"CONFIRMED", "TICKETED"} => MoneyHeld(k)
        /\ booking[b].state = "CONFIRMED" => k \in gw.captured

\* The rows that move the booking; VOIDED has no row with a to_state, it is
\* carried by PAYMENT_VOIDED, and PASSENGER_UPDATED repeats a state it read.
MovesBooking(row) ==
    /\ row.event # "PASSENGER_UPDATED"
    /\ row.to # None \/ row.event = "PAYMENT_VOIDED"

\* The state such a row leaves the booking in.
StateAfter(row) == IF row.event = "PAYMENT_VOIDED" THEN "VOIDED" ELSE row.to

\* The first n rows leave the booking in state st: the last of them that moves
\* it moves it there, and without one there is no booking yet.
LeadsTo(rows, n, st) ==
    /\ (\A i \in 1 .. n : ~ MovesBooking(rows[i])) => st = None
    /\ \A i \in 1 .. n :
           MovesBooking(rows[i]) /\ (\A j \in (i + 1) .. n : ~ MovesBooking(rows[j])) =>
               st = StateAfter(rows[i])

\* Replaying the rows gives st, and no row's from_state is refused on the way:
\* each one names the state that the rows before it lead to.
ReplaysTo(rows, st) ==
    /\ LeadsTo(rows, Len(rows), st)
    /\ \A i \in 1 .. Len(rows) : rows[i].from # None => LeadsTo(rows, i - 1, rows[i].from)

\* The audit log is the saga journal: replaying it, after a crash at any point
\* too, gives exactly the state of the booking (ADR-0003).
JournalReplaysToState ==
    \A b \in Bookings : ReplaysTo(journal[b], booking[b].state)

\* No assert_can_transition of run() and its steps raises, and the moves that do
\* not call it, such as _compensate's escalation, are arrows of the diagram too.
TransitionsAreLegal ==
    [][\A b \in Bookings :
           LET from == booking[b].state
               to   == booking'[b].state
           IN  from \notin {None, to} => CanTransition(from, to)]_vars

\* The re-check of _issue_tickets finds nothing lost, whoever has the seats by
\* then: it looks at the objects of step 1, which say what step 1 wrote.
RecheckNeverRefuses ==
    \A b \in Bookings : pc[b] = "authorized" => LostSeats(b) = {}

(***************************************************************************)
(* What the saga's documentation promises; see the runs that check these.  *)
(***************************************************************************)

\* "From here on, every failure path must put it back": a checkout that was
\* answered keeps the customer's money only for a confirmed booking, or for one
\* flagged for manual review.
NoStrandedCharge ==
    \A b \in Bookings :
        pc[b] \in Finished \ {"crashed"} /\ MoneyHeld(KeyOf[b]) =>
            booking[b].state \in {"CONFIRMED", "NEEDS_MANUAL_REVIEW"}

\* Tickets and seat rows agree: the seat of a live ticket is booked, and booked
\* for the ticket's booking, so cancelling that booking frees that seat.
LiveTicketBacksSeat ==
    \A b \in Bookings : \A s \in live[b] :
        seat[s].status = "booked" /\ seat[s].booking_id = b

\* Who has seat s: the owner of its live ticket, else the holder of a live hold.
LeaseOf(s) ==
    IF \E b \in Bookings : s \in live[b]
    THEN [as |-> "sold", by |-> BookedBy[CHOOSE b \in Bookings : s \in live[b]]]
    ELSE HeldLease(seat[s])

SagaLease == INSTANCE SeatLease WITH lease <- [s \in Seats |-> LeaseOf(s)]

\* Checkouts implement the abstract lease: a seat is sold only while it is free
\* or held by the buyer, never over another customer's live hold.
SagaImplementsLease == SagaLease!Spec

(***************************************************************************)
(* What does hold of charges, tickets and leases                           *)
(***************************************************************************)

\* run() has pinned its seats and has neither sold nor given them up.
BeforeTickets ==
    {"locked", "charging", "timed_out", "retrying", "approved", "declined", "failing", "authorized"}

\* Nobody gets between a checkout and its seats: until its tickets are issued the
\* rows keep the hold it is paying for, lapsed or not (it is not released, and no
\* one takes the seat over), and no second checkout has the same seats.
Undisturbed ==
    /\ \A b \in Bookings : \A s \in booking[b].seats :
           pc[b] \in BeforeTickets => seat[s].hold_id = mem[b][s].hold_id
    /\ \A b, c \in Bookings :
           b # c /\ pc[b] \in BeforeTickets /\ pc[c] \in BeforeTickets =>
               booking[b].seats \cap booking[c].seats = {}

\* Every answered checkout that keeps the customer's money can say why: it is
\* ticketed or confirmed, flagged for review, or its payment is UNKNOWN.
ChargesExplained ==
    \A b \in Bookings :
        pc[b] \in Finished \ {"crashed"} /\ MoneyHeld(KeyOf[b]) =>
            \/ booking[b].state \in {"TICKETED", "CONFIRMED", "NEEDS_MANUAL_REVIEW"}
            \/ payment[b] = "UNKNOWN"

\* As long as checkouts are not disturbed, charges are explained, whatever lapses
\* and whichever cards, gateway calls and processes fail.
UndisturbedChargesExplained == []Undisturbed => []ChargesExplained

\* As long as checkouts are not disturbed, a live ticket's seat row is booked for
\* the ticket's booking, whatever earlier and later checkouts release or unpin.
UndisturbedTicketsBacked == []Undisturbed => []LiveTicketBacksSeat

\* As long as checkouts are not disturbed, they implement the abstract lease.
UndisturbedLease == []Undisturbed => SagaImplementsLease

\* Every charge has an authorization of its own at the provider.
AuthorizationNotShared ==
    \A b, c \in Bookings :
        b # c /\ payment[b] = "AUTHORIZED" /\ payment[c] = "AUTHORIZED" => KeyOf[b] # KeyOf[c]

(***************************************************************************)
(* The inductive invariant behind NeverOversold and NoPinToDeadBooking     *)
(***************************************************************************)

\* The states the booking row may be in while run() is at a given point; after
\* an uncaught exception or a crash it is in any state that exists.
StatesAt(label) ==
    CASE label \in {"new", "rejected"} -> {None}
      [] label \in {"locked", "charging", "timed_out", "retrying",
                    "approved", "declined", "failing"} -> {"PENDING"}
      [] label = "authorized" -> {"PAYMENT_AUTHORIZED"}
      [] label \in {"compensating", "reversed", "unreversed"} -> {"COMPENSATING"}
      [] label \in {"ticketed", "captured"} -> {"TICKETED"}
      [] label = "confirmed" -> {"CONFIRMED"}
      [] label = "payment_failed" -> {"PAYMENT_FAILED"}
      [] label = "compensated" -> {"VOIDED", "NEEDS_MANUAL_REVIEW"}
      [] OTHER -> BookingState

\* run() is where its booking's committed state says it is.
PcMatchesState == \A b \in Bookings : booking[b].state \in StatesAt(pc[b])

\* A booking that exists has seats.
BookingsHaveSeats == \A b \in Bookings : booking[b].state # None => booking[b].seats # {}

\* Live tickets exist for exactly the seats of sold bookings.
TicketsMatchState ==
    \A b \in Bookings : live[b] = IF Sold(b) THEN booking[b].seats ELSE {}

\* uq_ticket_live_per_seat.
OneLiveTicketPerSeat == \A b, c \in Bookings : b # c => live[b] \cap live[c] = {}

\* While _fail_payment is between its read and its commit, it has read every
\* seat that points at its booking.
FailingHasReadItsPins ==
    \A s \in Seats : \A b \in Bookings :
        seat[s].booking_id = b /\ pc[b] = "failing" => s \in pins[b]

SagaInv ==
    /\ SagaTypeOK
    /\ HoldRowsSound
    /\ PcMatchesState
    /\ BookingsHaveSeats
    /\ TicketsMatchState
    /\ OneLiveTicketPerSeat
    /\ NoPinToDeadBooking
    /\ FailingHasReadItsPins

(***************************************************************************)
(* The inductive invariants behind the agreement with the provider         *)
(***************************************************************************)

\* Checkouts have gateway keys of their own; see AuthorizationNotShared.
KeysAreOwn == \A b, c \in Bookings : b # c => KeyOf[b] # KeyOf[c]

\* Where the money of b's key is while run() is at a given point, and what each
\* committed state says of it.
MoneyMatchesProgress(b) ==
    LET k == KeyOf[b] IN
    /\ pc[b] \in {"new", "rejected", "locked"} => gw.authorizations[k] = "none"
    /\ pc[b] \in {"declined", "failing"} \/ booking[b].state = "PAYMENT_FAILED"
          => gw.authorizations[k] # "approved"
    /\ pc[b] = "approved" \/ booking[b].state \in {"PAYMENT_AUTHORIZED", "TICKETED", "CONFIRMED"}
          => gw.authorizations[k] = "approved"
    /\ k \in gw.voided => booking[b].state \in {"COMPENSATING", "VOIDED", "NEEDS_MANUAL_REVIEW"}
    /\ pc[b] = "reversed" \/ booking[b].state = "VOIDED" => k \in gw.voided
    /\ pc[b] = "captured" \/ booking[b].state = "CONFIRMED" => k \in gw.captured

MoneyInv == \A b \in Bookings : MoneyMatchesProgress(b)

(***************************************************************************)
(* The inductive invariants behind the re-check and undisturbed checkouts  *)
(***************************************************************************)

\* From step 1 on the session's objects say that the seats are the booking's.
MemSaysOurs ==
    \A b \in Bookings : \A s \in booking[b].seats : booking[b].state # None => StillOurs(b, s)

\* A row points only at a booking that has a passenger in the seat, and names no
\* holder but that booking's customer; _fail_payment reads only such rows.
PinsPointHome ==
    /\ \A s \in Seats : \A b \in Bookings :
           seat[s].booking_id = b => s \in booking[b].seats /\ seat[s].held_by \in {BookedBy[b], None}
    /\ \A b \in Bookings : pc[b] = "failing" => pins[b] \subseteq booking[b].seats

\* The rows of an undisturbed checkout stay pinned to it until the tickets.
PinsKept ==
    \A b \in Bookings : \A s \in booking[b].seats :
        pc[b] \in BeforeTickets => seat[s].booking_id = b

\* What an exception that left run() leaves with the provider; a retry is made
\* only of a payment that is UNKNOWN.
ErrorsExplained ==
    /\ \A b \in Bookings : pc[b] = "retrying" => payment[b] = "UNKNOWN"
    /\ \A b \in Bookings :
           pc[b] = "error" /\ gw.authorizations[KeyOf[b]] = "approved" =>
               booking[b].state = "TICKETED" \/ payment[b] = "UNKNOWN"
============================================================================
