---------------------------- MODULE BookingSaga ----------------------------
(***************************************************************************)
(* The booking saga of app/services/booking_saga.py: hold -> charge ->     *)
(* issue tickets -> confirm, as several short transactions, with holds     *)
(* being taken, released and swept around it.                              *)
(*                                                                         *)
(* One step is one committed transaction or one gateway call; several      *)
(* checkouts, hold requests, the sweep and the clock interleave between    *)
(* them.  A row lock never outlives a step: every FOR UPDATE of the saga   *)
(* is followed by its commit with no gateway call in between.              *)
(***************************************************************************)
EXTENDS SeatHolds, PaymentGateway, Sequences

CONSTANTS
    BookedBy,           \* BookedBy[b]: the user whose checkout is b
    KeyOf,              \* KeyOf[b]: gateway key, the Idempotency-Key and ":auth"
    FlightOf,           \* FlightOf[s]: the flight of seat s
    Cards,              \* behaviours the card tokens of this instance select
    Crashable           \* checkouts whose process may die

ASSUME SagaAssumption ==
    /\ BookedBy \in [Bookings -> Users]
    /\ KeyOf \in [Bookings -> Keys]
    /\ Cards \subseteq Trigger
    /\ Crashable \subseteq Bookings
    /\ None \notin BookingState \cup PaymentState

VARIABLES
    booking,    \* booking[b]: the row, its passengers' seats, the card token
    payment,    \* payment[b]: state of the payment row, None before it exists
    live,       \* live[b]: seats for which b has a ticket that is not voided
    journal,    \* journal[b]: booking_audit rows of b in seq order
    pc,         \* pc[b]: where run() is
    mem,        \* mem[b]: seat rows as the session's identity map caches them
    pins        \* pins[b]: seats _fail_payment has read and will write

sagaVars == <<booking, payment, live, journal, pc, mem, pins>>
vars == <<seat, now, hreq, gw, booking, payment, live, journal, pc, mem, pins>>

NoBooking == [state |-> None, seats |-> {}, card |-> None]

InFlight ==
    {"locked", "charging", "timed_out", "retrying", "approved", "declined", "failing",
     "authorized", "compensating", "reversed", "unreversed", "ticketed", "captured"}

\* How a checkout ends: an HTTP answer (error is a 500), or a dead process.
Finished ==
    {"rejected", "payment_failed", "compensated", "confirmed", "error", "crashed"}

(***************************************************************************)
(* Journal rows (audit.record, in the transaction of what they record)     *)
(***************************************************************************)

Event(e) == [event |-> e, from |-> None, to |-> None]
Moved(e, f, t) == [event |-> e, from |-> f, to |-> t]
Record(b, rows) == journal' = [journal EXCEPT ![b] = @ \o rows]

SetState(b, st) == booking' = [booking EXCEPT ![b].state = st]
Goto(b, label) == pc' = [pc EXCEPT ![b] = label]

\* The columns a checkout writes: booking_id alone, or the sale.
Pin(row, p) == [row EXCEPT !.booking_id = p]
Book(row) == [row EXCEPT !.status = "booked", !.hold_id = None, !.expires = None]

Init ==
    /\ HoldInit
    /\ GwInit
    /\ booking = [b \in Bookings |-> NoBooking]
    /\ payment = [b \in Bookings |-> None]
    /\ live = [b \in Bookings |-> {}]
    /\ journal = [b \in Bookings |-> <<>>]
    /\ pc = [b \in Bookings |-> "new"]
    /\ mem = [b \in Bookings |-> [s \in Seats |-> AvailableRow]]
    /\ pins = [b \in Bookings |-> {}]

(***************************************************************************)
(* Step 1: lock the seats and create the booking                           *)
(***************************************************************************)

\* Mutant of SeatsForHolds: the WHERE clause forgets the customer.
SeatsForAnyonesHolds(b, H) == {s \in Seats : seat[s].hold_id \in H}

\* _lock_seats_for_holds: neither status, expiry nor booking_id is filtered on.
SeatsForHolds(b, H) ==
    {s \in Seats : seat[s].hold_id \in H /\ seat[s].held_by = BookedBy[b]}

\* The three early exits: holds missing, holds expired, seats on two flights.
CheckoutAllowed(b, H) ==
    LET S == SeatsForHolds(b, H) IN
    /\ Cardinality(S) = Cardinality(H)
    /\ \A s \in S : seat[s].status = "held" /\ seat[s].expires > now
    /\ \A s, t \in S : FlightOf[s] = FlightOf[t]

RejectCheckout(b, H) ==
    /\ pc[b] = "new"
    /\ ~ CheckoutAllowed(b, H)
    /\ Goto(b, "rejected")
    /\ UNCHANGED <<holdVars, gw, booking, payment, live, journal, mem, pins>>

\* A seat already pinned to another booking of the same user is pinned again.
LockSeats(b, H, card) ==
    LET S == SeatsForHolds(b, H) IN
    /\ pc[b] = "new"
    /\ CheckoutAllowed(b, H)
    /\ booking' = [booking EXCEPT ![b] = [state |-> "PENDING", seats |-> S, card |-> card]]
    /\ seat' = [s \in Seats |-> IF s \in S THEN Pin(seat[s], b) ELSE seat[s]]
    /\ mem' = [mem EXCEPT ![b] = [s \in Seats |-> IF s \in S THEN seat'[s] ELSE AvailableRow]]
    /\ Record(b, <<Moved("BOOKING_CREATED", None, "PENDING"), Event("SEATS_LOCKED")>>)
    /\ Goto(b, "locked")
    /\ UNCHANGED <<now, hreq, gw, payment, live, pins>>

(***************************************************************************)
(* Steps 2 and 3: fraud controls, then authorize                           *)
(***************************************************************************)

\* _fail_payment reads the seats without a lock; the write comes with the commit.
ReadPins(b) ==
    /\ pins' = [pins EXCEPT ![b] = {s \in Seats : seat[s].booking_id = b}]
    /\ Goto(b, "failing")
    /\ UNCHANGED <<holdVars, gw, booking, payment, live, journal, mem>>

\* carding.assess_payment_attempt decides BLOCK (its counters are not modelled).
BlockPayment(b) == pc[b] = "locked" /\ ReadPins(b)

\* The payment row is committed before the gateway is called.
StartCharge(b) ==
    /\ pc[b] = "locked"
    /\ payment' = [payment EXCEPT ![b] = "PENDING"]
    /\ Goto(b, "charging")
    /\ UNCHANGED <<holdVars, gw, booking, live, journal, mem, pins>>

\* The gateway answers the first call, or the retry with the same key.
CallAuthorize(b) ==
    /\ pc[b] \in {"charging", "retrying"}
    /\ \E answer \in AuthResult :
           Authorize(KeyOf[b], booking[b].card, answer) /\ Goto(b, answer)
    /\ UNCHANGED <<holdVars, booking, payment, live, journal, mem, pins>>

\* PaymentTimeout is caught on the first call only; from the retry it escapes.
TimeOutAuthorize(b) ==
    /\ pc[b] \in {"charging", "retrying"}
    /\ \/ AuthorizeTimesOut(KeyOf[b], booking[b].card)
       \/ AuthorizeGoesSilent(KeyOf[b], booking[b].card)
    /\ Goto(b, IF pc[b] = "charging" THEN "timed_out" ELSE "error")
    /\ UNCHANGED <<holdVars, booking, payment, live, journal, mem, pins>>

RecordUnknown(b) ==
    /\ pc[b] = "timed_out"
    /\ payment' = [payment EXCEPT ![b] = "UNKNOWN"]
    /\ Record(b, <<Event("PAYMENT_UNKNOWN")>>)
    /\ Goto(b, "retrying")
    /\ UNCHANGED <<holdVars, gw, booking, live, mem, pins>>

DeclinePayment(b) == pc[b] = "declined" /\ ReadPins(b)

\* ck_booked_seat_has_booking refuses to unpin a seat sold since it was read.
UnpinRefused(b) == \E s \in pins[b] : seat[s].status = "booked"

\* Commit of _fail_payment: the seats keep their hold and lose their pin,
\* whatever booking_id the rows have by now.
FailPayment(b) ==
    /\ pc[b] = "failing"
    /\ ~ UnpinRefused(b)
    /\ payment' = [payment EXCEPT ![b] = IF @ = None THEN None ELSE "DECLINED"]
    /\ Record(b, <<Moved("PAYMENT_DECLINED", booking[b].state, "PAYMENT_FAILED")>>)
    /\ SetState(b, "PAYMENT_FAILED")
    /\ seat' = [s \in Seats |->
                   IF s \in pins[b] THEN Pin(seat[s], None) ELSE seat[s]]
    /\ Goto(b, "payment_failed")
    /\ UNCHANGED <<now, hreq, gw, live, mem, pins>>

\* The IntegrityError rolls back the whole of _fail_payment: 500, still PENDING.
UnpinConflict(b) ==
    /\ pc[b] = "failing"
    /\ UnpinRefused(b)
    /\ Goto(b, "error")
    /\ UNCHANGED <<holdVars, gw, booking, payment, live, journal, mem, pins>>

\* Mutant of AcceptPayment: the state moves without its journal row.
AcceptPaymentUnjournalled(b) ==
    /\ pc[b] = "approved"
    /\ payment' = [payment EXCEPT ![b] = "AUTHORIZED"]
    /\ SetState(b, "PAYMENT_AUTHORIZED")
    /\ Goto(b, "authorized")
    /\ UNCHANGED <<holdVars, gw, live, journal, mem, pins>>

AcceptPayment(b) ==
    /\ pc[b] = "approved"
    /\ payment' = [payment EXCEPT ![b] = "AUTHORIZED"]
    /\ Record(b, <<Moved("PAYMENT_AUTHORIZED", booking[b].state, "PAYMENT_AUTHORIZED")>>)
    /\ SetState(b, "PAYMENT_AUTHORIZED")
    /\ Goto(b, "authorized")
    /\ UNCHANGED <<holdVars, gw, live, mem, pins>>

(***************************************************************************)
(* Step 4: issue tickets                                                   *)
(***************************************************************************)

\* What _issue_tickets checks after re-taking the row locks.  The rows it selects
\* come back as the session's objects, mem[b]: neither the commits in between nor
\* this SELECT reload an object (expire_on_commit=False, no populate_existing).
StillOurs(b, s) == mem[b][s].booking_id = b /\ mem[b][s].held_by = BookedBy[b]

\* Seats found lost raise SeatUnavailable; there never are any, see RecheckNeverRefuses.
LostSeats(b) == {s \in booking[b].seats : ~ StillOurs(b, s)}

\* Ours, but with no time left: journalled once per seat, then reclaimed.
LapsedSeats(b) ==
    {s \in booking[b].seats :
        StillOurs(b, s) /\ (mem[b][s].expires = None \/ mem[b][s].expires <= now)}

LapseRows(b) == [i \in 1 .. Cardinality(LapsedSeats(b)) |-> Event("HOLD_LOST")]

\* Mutant of FlushRefused: the ticket index is not unique.
FlushRefusedByCheck(b) == \E s \in booking[b].seats : seat[s].booking_id = None

\* The flush is refused: ck_booked_seat_has_booking, for a row whose pin is
\* gone, or uq_ticket_live_per_seat, for a seat with another live ticket.
\* (booking_id is not part of the UPDATE: the cached object already has it.)
FlushRefused(b) ==
    \E s \in booking[b].seats :
        \/ seat[s].booking_id = None
        \/ \E c \in Bookings : s \in live[c]

ReadyToIssue(b) ==
    /\ pc[b] = "authorized"
    /\ LostSeats(b) = {}
    /\ booking[b].card # "ticketing_failure"

\* Tickets inserted, seats marked booked, one commit.
IssueTickets(b) ==
    /\ ReadyToIssue(b)
    /\ ~ FlushRefused(b)
    /\ live' = [live EXCEPT ![b] = booking[b].seats]
    /\ seat' = [s \in Seats |-> IF s \in booking[b].seats THEN Book(seat[s]) ELSE seat[s]]
    /\ Record(b, LapseRows(b) \o <<Moved("TICKETS_ISSUED", booking[b].state, "TICKETED")>>)
    /\ SetState(b, "TICKETED")
    /\ Goto(b, "ticketed")
    /\ UNCHANGED <<now, hreq, gw, payment, mem, pins>>

\* The IntegrityError is neither TicketingFailed nor SeatUnavailable: it leaves
\* run() uncompensated, create_booking rolls back, drops the idempotency claim
\* and answers 500.
IssueConflict(b) ==
    /\ ReadyToIssue(b)
    /\ FlushRefused(b)
    /\ Goto(b, "error")
    /\ UNCHANGED <<holdVars, gw, booking, payment, live, journal, mem, pins>>

\* Mutant of TicketingFails: TicketingFailed is not caught, nothing is compensated.
TicketingFailsUncaught(b) ==
    /\ pc[b] = "authorized"
    /\ booking[b].card = "ticketing_failure"
    /\ Goto(b, "error")
    /\ UNCHANGED <<holdVars, gw, booking, payment, live, journal, mem, pins>>

\* The failure and _compensate's first commit, which are one transaction.
TicketingFails(b) ==
    /\ pc[b] = "authorized"
    /\ LostSeats(b) = {}
    /\ booking[b].card = "ticketing_failure"
    /\ Record(b, LapseRows(b) \o
                 <<Event("TICKETING_FAILED"),
                   Moved("COMPENSATION_STARTED", booking[b].state, "COMPENSATING")>>)
    /\ SetState(b, "COMPENSATING")
    /\ Goto(b, "compensating")
    /\ UNCHANGED <<holdVars, gw, payment, live, mem, pins>>

(***************************************************************************)
(* Compensation                                                            *)
(***************************************************************************)

\* The charge is never captured before it is compensated, so it is voided;
\* arm_refund_failure arms refund() only and void() does not look at it.
CallVoid(b) ==
    /\ pc[b] = "compensating"
    /\ VoidCharge(KeyOf[b])
    /\ Goto(b, "reversed")
    /\ UNCHANGED <<holdVars, booking, payment, live, journal, mem, pins>>

VoidFails(b) ==
    /\ pc[b] = "compensating"
    /\ VoidRaises(KeyOf[b])
    /\ Goto(b, "unreversed")
    /\ UNCHANGED <<holdVars, booking, payment, live, journal, mem, pins>>

\* Mutant of ReleaseSeatsForBooking: booking_id is left out of the UPDATE.
ReleaseSeatsKeepsPin(b) ==
    /\ live' = [live EXCEPT ![b] = {}]
    /\ seat' = [s \in Seats |-> IF seat[s].booking_id = b THEN ClearHold(seat[s]) ELSE seat[s]]

\* Mutant of ReleaseSeatsForBooking: the rows are found through the passengers.
ReleaseSeatsOfPassengers(b) ==
    /\ live' = [live EXCEPT ![b] = {}]
    /\ seat' = [s \in Seats |-> IF s \in booking[b].seats THEN AvailableRow ELSE seat[s]]

\* release_seats_for_booking: void b's tickets, free the rows pinned to b.
ReleaseSeatsForBooking(b) ==
    /\ live' = [live EXCEPT ![b] = {}]
    /\ seat' = [s \in Seats |-> IF seat[s].booking_id = b THEN AvailableRow ELSE seat[s]]

\* Mutant of FinishCompensation: a failed reversal is swallowed.
FinishCompensationAnyway(b) ==
    /\ pc[b] \in {"reversed", "unreversed"}
    /\ payment' = [payment EXCEPT ![b] = "VOIDED"]
    /\ Record(b, <<Event("PAYMENT_VOIDED"), Event("SEATS_RELEASED")>>)
    /\ SetState(b, "VOIDED")
    /\ ReleaseSeatsForBooking(b)
    /\ Goto(b, "compensated")
    /\ UNCHANGED <<now, hreq, gw, mem, pins>>

FinishCompensation(b) ==
    /\ pc[b] = "reversed"
    /\ payment' = [payment EXCEPT ![b] = "VOIDED"]
    /\ Record(b, <<Event("PAYMENT_VOIDED"), Event("SEATS_RELEASED")>>)
    /\ SetState(b, "VOIDED")
    /\ ReleaseSeatsForBooking(b)
    /\ Goto(b, "compensated")
    /\ UNCHANGED <<now, hreq, gw, mem, pins>>

\* The reversal failed: seats are released all the same, the payment row is not
\* touched, and the booking waits for an operator.
EscalateCompensation(b) ==
    /\ pc[b] = "unreversed"
    /\ Record(b, <<Moved("COMPENSATION_FAILED", booking[b].state, "NEEDS_MANUAL_REVIEW"),
                   Event("SEATS_RELEASED")>>)
    /\ SetState(b, "NEEDS_MANUAL_REVIEW")
    /\ ReleaseSeatsForBooking(b)
    /\ Goto(b, "compensated")
    /\ UNCHANGED <<now, hreq, gw, payment, mem, pins>>

(***************************************************************************)
(* Step 5: confirm                                                         *)
(***************************************************************************)

CallCapture(b) ==
    /\ pc[b] = "ticketed"
    /\ CaptureCharge(KeyOf[b])
    /\ Goto(b, "captured")
    /\ UNCHANGED <<holdVars, booking, payment, live, journal, mem, pins>>

\* Nothing catches an exception of capture.
CaptureFails(b) ==
    /\ pc[b] = "ticketed"
    /\ CaptureRaises(KeyOf[b])
    /\ Goto(b, "error")
    /\ UNCHANGED <<holdVars, booking, payment, live, journal, mem, pins>>

\* Mutant of Confirm: the booking's state is written to the payment row.
ConfirmMixesRows(b) ==
    /\ pc[b] = "captured"
    /\ payment' = [payment EXCEPT ![b] = "CONFIRMED"]
    /\ Record(b, <<Moved("BOOKING_CONFIRMED", booking[b].state, "CONFIRMED")>>)
    /\ SetState(b, "CONFIRMED")
    /\ Goto(b, "confirmed")
    /\ UNCHANGED <<holdVars, gw, live, mem, pins>>

\* booking.state is the session's, which wrote TICKETED last; the row may say
\* something else by now, and is written over.
Confirm(b) ==
    /\ pc[b] = "captured"
    /\ payment' = [payment EXCEPT ![b] = "CAPTURED"]
    /\ Record(b, <<Moved("BOOKING_CONFIRMED", "TICKETED", "CONFIRMED")>>)
    /\ SetState(b, "CONFIRMED")
    /\ Goto(b, "confirmed")
    /\ UNCHANGED <<holdVars, gw, live, mem, pins>>

(***************************************************************************)
(* The specification                                                       *)
(***************************************************************************)

\* The process dies between two transactions; nothing resumes the saga.
Crash(b) ==
    /\ b \in Crashable
    /\ pc[b] \in InFlight
    /\ Goto(b, "crashed")
    /\ UNCHANGED <<holdVars, gw, booking, payment, live, journal, mem, pins>>

\* The client posts a checkout; it need not.
PostBooking(b) ==
    \E H \in (SUBSET HoldIds) \ {{}} :
        \/ RejectCheckout(b, H)
        \/ \E card \in Cards : LockSeats(b, H, card)

\* The running coroutine's next step.
SagaStep(b) ==
    \/ BlockPayment(b) \/ StartCharge(b)
    \/ CallAuthorize(b) \/ TimeOutAuthorize(b) \/ RecordUnknown(b)
    \/ DeclinePayment(b) \/ FailPayment(b) \/ UnpinConflict(b) \/ AcceptPayment(b)
    \/ IssueTickets(b) \/ IssueConflict(b) \/ TicketingFails(b)
    \/ CallVoid(b) \/ VoidFails(b) \/ FinishCompensation(b) \/ EscalateCompensation(b)
    \/ CallCapture(b) \/ CaptureFails(b) \/ Confirm(b)

Next ==
    \/ HoldNext /\ UNCHANGED <<gw, sagaVars>>
    \/ \E b \in Bookings : PostBooking(b) \/ SagaStep(b) \/ Crash(b)

\* The event loop runs a ready coroutine, and the scheduler runs the sweep.
Spec ==
    /\ Init
    /\ [][Next]_vars
    /\ \A b \in Bookings : WF_vars(SagaStep(b))
    /\ WF_vars(Sweep /\ UNCHANGED <<gw, sagaVars>>)
============================================================================
