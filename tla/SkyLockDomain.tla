--------------------------- MODULE SkyLockDomain ---------------------------
(***************************************************************************)
(* The vocabulary of app/domain: the enumerations the tables and the saga  *)
(* share, and the booking state machine of app/domain/states.py.           *)
(***************************************************************************)

CONSTANT None           \* SQL NULL / Python None

SeatStatus == {"available", "held", "booked"}

BookingState ==
    {"PENDING", "PAYMENT_AUTHORIZED", "TICKETED", "CONFIRMED", "PAYMENT_FAILED",
     "COMPENSATING", "VOIDED", "CANCELLED", "NEEDS_MANUAL_REVIEW"}

PaymentState ==
    {"PENDING", "AUTHORIZED", "CAPTURED", "DECLINED", "VOIDED", "REFUNDED", "UNKNOWN"}

AuditEventType ==
    {"BOOKING_CREATED", "SEATS_LOCKED", "PAYMENT_AUTHORIZED", "PAYMENT_DECLINED",
     "PAYMENT_UNKNOWN", "TICKETS_ISSUED", "TICKETING_FAILED", "BOOKING_CONFIRMED",
     "COMPENSATION_STARTED", "PAYMENT_VOIDED", "PAYMENT_REFUNDED", "COMPENSATION_FAILED",
     "SEATS_RELEASED", "HOLD_LOST", "BOOKING_CANCELLED", "PASSENGER_UPDATED"}

\* Mutant of ALLOWED_TRANSITIONS: the arrow from TICKETED to CONFIRMED is missing.
TransitionsWithoutConfirm ==
    [PENDING             |-> {"PAYMENT_AUTHORIZED", "PAYMENT_FAILED", "COMPENSATING"},
     PAYMENT_AUTHORIZED  |-> {"TICKETED", "COMPENSATING"},
     TICKETED            |-> {"COMPENSATING"},
     CONFIRMED           |-> {"CANCELLED"},
     COMPENSATING        |-> {"VOIDED", "NEEDS_MANUAL_REVIEW"},
     PAYMENT_FAILED      |-> {},
     VOIDED              |-> {},
     CANCELLED           |-> {},
     NEEDS_MANUAL_REVIEW |-> {"VOIDED", "CANCELLED"}]

\* The arrows of the diagram in BookingState's docstring.
ALLOWED_TRANSITIONS ==
    [PENDING             |-> {"PAYMENT_AUTHORIZED", "PAYMENT_FAILED", "COMPENSATING"},
     PAYMENT_AUTHORIZED  |-> {"TICKETED", "COMPENSATING"},
     TICKETED            |-> {"CONFIRMED", "COMPENSATING"},
     CONFIRMED           |-> {"CANCELLED"},
     COMPENSATING        |-> {"VOIDED", "NEEDS_MANUAL_REVIEW"},
     PAYMENT_FAILED      |-> {},
     VOIDED              |-> {},
     CANCELLED           |-> {},
     NEEDS_MANUAL_REVIEW |-> {"VOIDED", "CANCELLED"}]

\* assert_can_transition does not raise.
CanTransition(current, target) == target \in ALLOWED_TRANSITIONS[current]

\* What the last four characters of a card token select (demo_triggers.py).
Trigger ==
    {"approve", "decline", "ticketing_failure", "gateway_timeout_then_ok", "refund_failure"}
============================================================================
