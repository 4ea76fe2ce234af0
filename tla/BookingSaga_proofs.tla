------------------------- MODULE BookingSaga_proofs -------------------------
(***************************************************************************)
(* Proofs about BookingSaga: for any number of users, seats, hold requests *)
(* and checkouts, any cards and gateway faults, with or without crashes.   *)
(***************************************************************************)
EXTENDS BookingSagaProps, SeatHolds_proofs, FiniteSetTheorems

Labels == {"new"} \cup InFlight \cup Finished

\* The table of StatesAt, label by label.
LEMMA StatesAtTable ==
    /\ StatesAt("new") = {None} /\ StatesAt("rejected") = {None}
    /\ \A l \in {"locked", "charging", "timed_out", "retrying", "approved", "declined", "failing"} :
           StatesAt(l) = {"PENDING"}
    /\ StatesAt("authorized") = {"PAYMENT_AUTHORIZED"}
    /\ \A l \in {"compensating", "reversed", "unreversed"} : StatesAt(l) = {"COMPENSATING"}
    /\ \A l \in {"ticketed", "captured"} : StatesAt(l) = {"TICKETED"}
    /\ StatesAt("confirmed") = {"CONFIRMED"}
    /\ StatesAt("payment_failed") = {"PAYMENT_FAILED"}
    /\ StatesAt("compensated") = {"VOIDED", "NEEDS_MANUAL_REVIEW"}
    /\ StatesAt("error") = BookingState /\ StatesAt("crashed") = BookingState
BY DEF StatesAt

BookingRow ==
    [state : BookingState \cup {None}, seats : SUBSET Seats, card : Cards \cup {None}]

\* Everything of SagaInv that does not look at a program counter or the gateway.
RowsInv ==
    /\ HoldTypeOK /\ HoldRowsSound
    /\ booking \in [Bookings -> BookingRow]
    /\ payment \in [Bookings -> PaymentState \cup {None}]
    /\ live \in [Bookings -> SUBSET Seats]
    /\ journal \in [Bookings -> Seq(JournalRow)]
    /\ mem \in [Bookings -> [Seats -> Row]]
    /\ BookingsHaveSeats /\ TicketsMatchState /\ OneLiveTicketPerSeat /\ NoPinToDeadBooking

ControlInv ==
    /\ pc \in [Bookings -> Labels]
    /\ pins \in [Bookings -> SUBSET Seats]
    /\ PcMatchesState /\ FailingHasReadItsPins

LEMMA SagaInvParts == SagaInv <=> RowsInv /\ ControlInv /\ GwTypeOK
BY DEF SagaInv, SagaTypeOK, RowsInv, ControlInv, Labels, BookingRow

LEMMA SagaInvPartsNext == RowsInv' /\ ControlInv' /\ GwTypeOK' => SagaInv'
BY SagaInvParts, PTL

\* The gateway calls keep the gateway's tables typed.
LEMMA GatewayTyped ==
    ASSUME GwTypeOK, NEW k \in Keys, NEW trigger, NEW answer,
           \/ Authorize(k, trigger, answer) \/ AuthorizeTimesOut(k, trigger)
           \/ AuthorizeGoesSilent(k, trigger) \/ CaptureCharge(k) \/ CaptureRaises(k)
           \/ VoidCharge(k) \/ VoidRaises(k)
    PROVE  GwTypeOK'
BY DEF GwTypeOK, Authorize, AuthorizeTimesOut, AuthorizeGoesSilent, Authorized, Verdict,
       AuthResult, CaptureCharge, CaptureRaises, VoidCharge, VoidRaises

\* Moving one program counter to a label that fits the booking's state.
LEMMA GotoKeepsControl ==
    ASSUME ControlInv, NEW b \in Bookings, NEW l \in Labels, Goto(b, l), l # "failing",
           booking'[b].state \in StatesAt(l),
           \A c \in Bookings : c # b => booking'[c].state = booking[c].state,
           \A s \in Seats : \A c \in Bookings :
               c # b /\ seat'[s].booking_id = c => seat[s].booking_id = c,
           UNCHANGED pins
    PROVE  ControlInv'
BY DEF ControlInv, Goto, PcMatchesState, FailingHasReadItsPins

\* A step that touches no row: only where run() is, and the gateway.
LEMMA NoRowsTouched ==
    ASSUME RowsInv, UNCHANGED <<holdVars, booking, payment, live, journal, mem>>
    PROVE  RowsInv'
BY DEF RowsInv, holdVars, HoldTypeOK, HoldRowsSound, PendingRequestsSound, HeldSeatHasHolder,
       HoldIdNamesOneSeat, HoldsAreBounded, BookingsHaveSeats, TicketsMatchState, Sold,
       OneLiveTicketPerSeat, NoPinToDeadBooking

\* The initial state.
LEMMA SagaInvInit == Init => SagaInv
<1> SUFFICES ASSUME Init PROVE SagaInv
    OBVIOUS
<1>1. HoldTypeOK /\ HoldRowsSound /\ GwTypeOK
    BY HoldInvInit DEF Init, HoldInv, GwInit, GwTypeOK
<1>2. AvailableRow \in Row /\ \A s \in Seats : seat[s].booking_id = None
    BY DEF Init, HoldInit, AvailableRow, Row, SeatStatus
<1>3. SagaTypeOK
    BY <1>1, <1>2 DEF Init, SagaTypeOK, NoBooking
<1>4. PcMatchesState /\ BookingsHaveSeats /\ TicketsMatchState /\ OneLiveTicketPerSeat
    BY StatesAtTable, SagaAssumption
    DEF Init, PcMatchesState, BookingsHaveSeats, TicketsMatchState, OneLiveTicketPerSeat, NoBooking,
        Sold
<1>5. NoPinToDeadBooking /\ FailingHasReadItsPins
    BY <1>2, NoneAssumption DEF NoPinToDeadBooking, FailingHasReadItsPins
<1> QED
    BY <1>1, <1>3, <1>4, <1>5 DEF SagaInv

-----------------------------------------------------------------------------
(***************************************************************************)
(* Journal rows and the rows a booking's own transaction writes            *)
(***************************************************************************)

LEMMA JournalRowsTyped ==
    /\ \A e \in AuditEventType : Event(e) \in JournalRow
    /\ \A e \in AuditEventType : \A f \in BookingState \cup {None} : \A st \in BookingState :
           Moved(e, f, st) \in JournalRow
BY DEF Event, Moved, JournalRow

LEMMA RecordTyped ==
    ASSUME journal \in [Bookings -> Seq(JournalRow)], NEW b \in Bookings,
           NEW rows \in Seq(JournalRow), Record(b, rows)
    PROVE  journal' \in [Bookings -> Seq(JournalRow)]
BY DEF Record

LEMMA LapseRowsTyped == ASSUME NEW b \in Bookings, booking[b].seats \in SUBSET Seats
                        PROVE  LapseRows(b) \in Seq(JournalRow)
<1>1. IsFiniteSet(LapsedSeats(b))
    BY HoldAssumption, FS_Subset DEF LapsedSeats
<1>2. Cardinality(LapsedSeats(b)) \in Nat
    BY <1>1, FS_CardinalityType
<1>3. Event("HOLD_LOST") \in JournalRow
    BY JournalRowsTyped DEF AuditEventType
<1>4. LapseRows(b) \in [1 .. Cardinality(LapsedSeats(b)) -> JournalRow]
    BY <1>3, Zenon DEF LapseRows
<1> QED
    BY <1>2, <1>4

\* What SetState changes.
LEMMA SetStateEffect ==
    ASSUME booking \in [Bookings -> BookingRow], NEW b \in Bookings, NEW st \in BookingState,
           SetState(b, st)
    PROVE  /\ booking' \in [Bookings -> BookingRow]
           /\ booking'[b].state = st /\ booking'[b].seats = booking[b].seats
           /\ \A c \in Bookings : c # b => booking'[c] = booking[c]
BY DEF SetState, BookingRow

\* A booking that exists keeps its seats when its state changes.
LEMMA SeatsKept ==
    ASSUME BookingsHaveSeats, NEW b \in Bookings, booking[b].state # None,
           booking'[b].seats = booking[b].seats,
           \A c \in Bookings : c # b => booking'[c] = booking[c]
    PROVE  BookingsHaveSeats'
BY DEF BookingsHaveSeats

\* Hold ids stay where they were or are cleared.
LEMMA HoldIdsKept ==
    ASSUME HoldIdNamesOneSeat, UNCHANGED hreq,
           \A s \in Seats : seat'[s].hold_id \in {seat[s].hold_id, None}
    PROVE  HoldIdNamesOneSeat'
BY NoneAssumption DEF HoldIdNamesOneSeat

\* Rows rewritten so that a row that is held afterwards was held before, with
\* the same holder, hold id and expiry.
LEMMA HoldColumnsKept ==
    ASSUME HoldTypeOK, HoldRowsSound, UNCHANGED <<now, hreq>>, seat' \in [Seats -> Row],
           \A s \in Seats :
               /\ seat'[s].hold_id \in {seat[s].hold_id, None}
               /\ seat'[s].status = "held" =>
                     /\ seat[s].status = "held"
                     /\ seat'[s].held_by = seat[s].held_by
                     /\ seat'[s].hold_id = seat[s].hold_id
                     /\ seat'[s].expires = seat[s].expires
    PROVE  HoldTypeOK' /\ HoldRowsSound'
<1>1. HoldTypeOK'
    BY DEF HoldTypeOK
<1>2. PendingRequestsSound'
    BY DEF HoldRowsSound, PendingRequestsSound
<1>3. HeldSeatHasHolder' /\ HoldsAreBounded'
    BY DEF HoldRowsSound, HeldSeatHasHolder, HoldsAreBounded
<1>4. HoldIdNamesOneSeat'
    BY HoldIdsKept DEF HoldRowsSound
<1> QED
    BY <1>1, <1>2, <1>3, <1>4 DEF HoldRowsSound

\* Tickets still match the bookings when no booking is sold or unsold.
LEMMA TicketsKept ==
    ASSUME TicketsMatchState, OneLiveTicketPerSeat, UNCHANGED live,
           \A c \in Bookings : (Sold(c)' <=> Sold(c)) /\ booking'[c].seats = booking[c].seats
    PROVE  TicketsMatchState' /\ OneLiveTicketPerSeat'
BY DEF TicketsMatchState, OneLiveTicketPerSeat

\* Payment row and journal written, booking, seats and tickets untouched.
LEMMA PaymentStepKeepsRows ==
    ASSUME RowsInv, UNCHANGED <<holdVars, booking, live, mem>>,
           payment' \in [Bookings -> PaymentState \cup {None}],
           journal' \in [Bookings -> Seq(JournalRow)]
    PROVE  RowsInv'
BY DEF RowsInv, holdVars, HoldTypeOK, HoldRowsSound, PendingRequestsSound, HeldSeatHasHolder,
       HoldIdNamesOneSeat, HoldsAreBounded, BookingsHaveSeats, TicketsMatchState, Sold,
       OneLiveTicketPerSeat, NoPinToDeadBooking

Dead == {"PAYMENT_FAILED", "VOIDED", "NEEDS_MANUAL_REVIEW"}

\* The booking moves between two states that are both sold or both unsold, and
\* not to a dead one; seats and tickets untouched.
LEMMA StateStepKeepsRows ==
    ASSUME RowsInv, NEW b \in Bookings, NEW st \in BookingState \ Dead,
           booking[b].state # None, SetState(b, st),
           Sold(b) <=> st \in {"TICKETED", "CONFIRMED"},
           UNCHANGED <<holdVars, live, mem>>,
           payment' \in [Bookings -> PaymentState \cup {None}],
           journal' \in [Bookings -> Seq(JournalRow)]
    PROVE  RowsInv'
<1>1. /\ booking' \in [Bookings -> BookingRow]
      /\ booking'[b].state = st /\ booking'[b].seats = booking[b].seats
      /\ \A c \in Bookings : c # b => booking'[c] = booking[c]
    BY SetStateEffect DEF RowsInv
<1>2. HoldTypeOK' /\ HoldRowsSound'
    BY DEF RowsInv, holdVars, HoldTypeOK, HoldRowsSound, PendingRequestsSound, HeldSeatHasHolder,
           HoldIdNamesOneSeat, HoldsAreBounded
<1>3. BookingsHaveSeats' /\ TicketsMatchState' /\ OneLiveTicketPerSeat'
    BY <1>1 DEF RowsInv, BookingsHaveSeats, TicketsMatchState, OneLiveTicketPerSeat, Sold
<1>4. NoPinToDeadBooking'
    BY <1>1, SagaAssumption DEF RowsInv, holdVars, NoPinToDeadBooking, Dead
<1> QED
    BY <1>1, <1>2, <1>3, <1>4 DEF RowsInv

\* Unsold bookings: the rows whose pin a step drops or frees, its other rows
\* being left alone, keep the table sound and may end the booking.
LEMMA DeadStepKeepsRows ==
    ASSUME RowsInv, NEW b \in Bookings, NEW st \in Dead,
           booking[b].state # None, ~ Sold(b), SetState(b, st),
           seat' \in [Seats -> Row],
           \A s \in Seats :
               /\ seat'[s].booking_id \in {seat[s].booking_id, None}
               /\ seat'[s].booking_id # b
               /\ seat'[s].hold_id \in {seat[s].hold_id, None}
               /\ seat'[s].status = "held" =>
                     /\ seat[s].status = "held"
                     /\ seat'[s].held_by = seat[s].held_by
                     /\ seat'[s].hold_id = seat[s].hold_id
                     /\ seat'[s].expires = seat[s].expires,
           live' \in {live, [live EXCEPT ![b] = {}]},
           UNCHANGED <<now, hreq, mem>>,
           payment' \in [Bookings -> PaymentState \cup {None}],
           journal' \in [Bookings -> Seq(JournalRow)]
    PROVE  RowsInv'
<1>1. /\ booking' \in [Bookings -> BookingRow]
      /\ booking'[b].state = st /\ booking'[b].seats = booking[b].seats
      /\ \A c \in Bookings : c # b => booking'[c] = booking[c]
    <2>1. st \in BookingState
        BY DEF Dead, BookingState
    <2> QED
        BY <2>1, SetStateEffect DEF RowsInv
<1>3. HoldTypeOK' /\ HoldRowsSound'
    BY HoldColumnsKept DEF RowsInv
<1>5. live[b] = {} /\ live' = live
    BY DEF RowsInv, TicketsMatchState
<1>6. BookingsHaveSeats' /\ TicketsMatchState' /\ OneLiveTicketPerSeat'
    <2>1. \A c \in Bookings : (Sold(c)' <=> Sold(c)) /\ booking'[c].seats = booking[c].seats
        BY <1>1 DEF Sold, Dead
    <2>2. BookingsHaveSeats'
        BY <1>1, SeatsKept DEF RowsInv
    <2> QED
        BY <1>5, <2>1, <2>2, TicketsKept DEF RowsInv
<1>7. NoPinToDeadBooking'
    BY <1>1, NoneAssumption DEF RowsInv, NoPinToDeadBooking
<1> QED
    BY <1>1, <1>3, <1>5, <1>6, <1>7 DEF RowsInv

-----------------------------------------------------------------------------
(***************************************************************************)
(* Actions that write seat rows                                            *)
(***************************************************************************)

\* A checkout that passes step 1 has at least one seat.
LEMMA CheckoutHasSeats ==
    ASSUME NEW b \in Bookings, NEW H \in (SUBSET HoldIds) \ {{}}, CheckoutAllowed(b, H)
    PROVE  SeatsForHolds(b, H) # {}
<1>1. IsFiniteSet(H)
    BY HoldAssumption, FS_Subset
<1>2. Cardinality(H) # 0
    <2>1. H # {}
        OBVIOUS
    <2> QED
        BY <1>1, <2>1, FS_EmptySet
<1>3. Cardinality({}) = 0
    BY FS_EmptySet
<1> QED
    BY <1>2, <1>3 DEF CheckoutAllowed

\* A row pinned to a booking: only booking_id changes.
LEMMA PinnedRow ==
    ASSUME NEW row \in Row, NEW p \in Bookings \cup {None}
    PROVE  /\ Pin(row, p) \in Row
           /\ Pin(row, p).booking_id = p
           /\ Pin(row, p).status = row.status
           /\ Pin(row, p).held_by = row.held_by
           /\ Pin(row, p).hold_id = row.hold_id
           /\ Pin(row, p).expires = row.expires
BY DEF Pin, Row

\* A row marked booked: no hold id, no expiry, the same pin.
LEMMA BookedRow ==
    ASSUME NEW row \in Row
    PROVE  /\ Book(row) \in Row
           /\ Book(row).status = "booked"
           /\ Book(row).hold_id = None
           /\ Book(row).booking_id = row.booking_id
BY DEF Book, Row, SeatStatus

\* Pinning seats to a booking that is alive.
LEMMA PinsStayAlive ==
    ASSUME NoPinToDeadBooking, NEW b \in Bookings, booking'[b].state \notin {None} \cup Dead,
           \A c \in Bookings : c # b => booking'[c] = booking[c],
           \A s \in Seats : seat'[s].booking_id \in {b, seat[s].booking_id}
    PROVE  NoPinToDeadBooking'
BY DEF NoPinToDeadBooking, Dead

\* Step 1 of run().
LEMMA LockSeatsRows ==
    ASSUME RowsInv, ControlInv, NEW b \in Bookings, NEW H \in (SUBSET HoldIds) \ {{}},
           NEW card \in Cards, LockSeats(b, H, card)
    PROVE  RowsInv'
<1> DEFINE S == SeatsForHolds(b, H)
<1>1. S \in SUBSET Seats /\ S # {}
    BY CheckoutHasSeats DEF LockSeats, SeatsForHolds
<1>2. booking[b].state = None /\ ~ Sold(b) /\ live[b] = {}
    BY StatesAtTable, SagaAssumption
    DEF LockSeats, ControlInv, PcMatchesState, RowsInv, TicketsMatchState, Sold, BookingState
<1>3. /\ UNCHANGED <<now, hreq, payment, live>>
      /\ seat' = [s \in Seats |-> IF s \in S THEN Pin(seat[s], b) ELSE seat[s]]
      /\ mem' = [mem EXCEPT ![b] = [s \in Seats |-> IF s \in S THEN seat'[s] ELSE AvailableRow]]
      /\ booking' = [booking EXCEPT ![b] = [state |-> "PENDING", seats |-> S, card |-> card]]
    BY DEF LockSeats
<1> HIDE DEF S
<1>4. \A s \in Seats : /\ seat'[s] \in Row
                       /\ seat'[s].status = seat[s].status
                       /\ seat'[s].held_by = seat[s].held_by
                       /\ seat'[s].hold_id = seat[s].hold_id
                       /\ seat'[s].expires = seat[s].expires
                       /\ seat'[s].booking_id \in {b, seat[s].booking_id}
    <2>1. \A s \in Seats : seat[s] \in Row
        BY DEF RowsInv, HoldTypeOK
    <2>2. \A s \in Seats : seat'[s] = seat[s] \/ seat'[s] = Pin(seat[s], b)
        BY <1>3
    <2> QED
        BY <2>1, <2>2, PinnedRow
<1>5. seat' \in [Seats -> Row]
    BY <1>3, <1>4
<1>6. HoldTypeOK' /\ HoldRowsSound'
    BY <1>3, <1>4, <1>5, HoldColumnsKept DEF RowsInv
<1>7. /\ booking' \in [Bookings -> BookingRow]
      /\ booking'[b].state = "PENDING" /\ booking'[b].seats = S
      /\ \A c \in Bookings : c # b => booking'[c] = booking[c]
    BY <1>1, <1>3 DEF RowsInv, BookingRow, BookingState
<1>8. mem' \in [Bookings -> [Seats -> Row]]
    <2>1. AvailableRow \in Row
        BY DEF AvailableRow, Row, SeatStatus
    <2>2. [s \in Seats |-> IF s \in S THEN seat'[s] ELSE AvailableRow] \in [Seats -> Row]
        BY <1>4, <2>1
    <2> QED
        BY <1>3, <2>2 DEF RowsInv
<1>9. journal' \in [Bookings -> Seq(JournalRow)]
    <2>1. /\ Moved("BOOKING_CREATED", None, "PENDING") \in JournalRow
          /\ Event("SEATS_LOCKED") \in JournalRow
        BY JournalRowsTyped DEF AuditEventType, BookingState
    <2>2. <<Moved("BOOKING_CREATED", None, "PENDING"), Event("SEATS_LOCKED")>> \in Seq(JournalRow)
        BY <2>1
    <2> QED
        BY <2>2, RecordTyped DEF LockSeats, RowsInv
<1>10. BookingsHaveSeats'
    BY <1>1, <1>7 DEF RowsInv, BookingsHaveSeats
<1>11. TicketsMatchState' /\ OneLiveTicketPerSeat'
    BY <1>2, <1>3, <1>7 DEF RowsInv, TicketsMatchState, OneLiveTicketPerSeat, Sold
<1>12. NoPinToDeadBooking'
    <2>1. booking'[b].state \notin {None} \cup Dead
        BY <1>7, SagaAssumption DEF Dead, BookingState
    <2> QED
        BY <1>4, <1>7, <2>1, PinsStayAlive DEF RowsInv
<1> QED
    BY <1>3, <1>6, <1>7, <1>8, <1>9, <1>10, <1>11, <1>12 DEF RowsInv

\* Commit of _issue_tickets: the unique index keeps live tickets apart.
LEMMA IssueTicketsRows ==
    ASSUME RowsInv, ControlInv, NEW b \in Bookings, IssueTickets(b)
    PROVE  RowsInv'
<1> DEFINE S == booking[b].seats
<1>1. /\ booking[b].state = "PAYMENT_AUTHORIZED" /\ ~ Sold(b) /\ live[b] = {}
      /\ S \in SUBSET Seats /\ S # {}
    BY StatesAtTable, SagaAssumption
    DEF IssueTickets, ReadyToIssue, ControlInv, PcMatchesState, RowsInv, TicketsMatchState, Sold,
        BookingsHaveSeats, BookingRow, BookingState
<1>2. \A c \in Bookings : live[c] \cap S = {}
    BY <1>1 DEF IssueTickets, FlushRefused
<1>3. /\ UNCHANGED <<now, hreq, payment, mem>>
      /\ live' = [live EXCEPT ![b] = S]
      /\ seat' = [s \in Seats |->
                     IF s \in S THEN Book(seat[s]) ELSE seat[s]]
      /\ SetState(b, "TICKETED")
    BY DEF IssueTickets
<1>4. \A s \in Seats : /\ seat'[s] \in Row
                       /\ seat'[s].booking_id = seat[s].booking_id
                       /\ seat'[s].hold_id \in {seat[s].hold_id, None}
                       /\ seat'[s].status = "held" => seat'[s] = seat[s]
    <2>1. \A s \in Seats : seat[s] \in Row
        BY DEF RowsInv, HoldTypeOK
    <2>2. \A s \in Seats :
              \/ seat'[s] = seat[s]
              \/ seat'[s] = Book(seat[s])
        BY <1>3
    <2> QED
        BY <2>1, <2>2, BookedRow
<1>5. seat' \in [Seats -> Row]
    BY <1>3, <1>4
<1>6. HoldTypeOK' /\ HoldRowsSound'
    BY <1>3, <1>4, <1>5, HoldColumnsKept DEF RowsInv
<1>7. /\ booking' \in [Bookings -> BookingRow]
      /\ booking'[b].state = "TICKETED" /\ booking'[b].seats = S
      /\ \A c \in Bookings : c # b => booking'[c] = booking[c]
    <2>1. "TICKETED" \in BookingState
        BY DEF BookingState
    <2> QED
        BY <1>3, <2>1, SetStateEffect DEF RowsInv
<1>8. journal' \in [Bookings -> Seq(JournalRow)]
    <2>1. Moved("TICKETS_ISSUED", booking[b].state, "TICKETED") \in JournalRow
        BY <1>1, JournalRowsTyped DEF AuditEventType, BookingState
    <2>2. LapseRows(b) \o <<Moved("TICKETS_ISSUED", booking[b].state, "TICKETED")>>
              \in Seq(JournalRow)
        BY <1>1, <2>1, LapseRowsTyped
    <2> QED
        BY <2>2, RecordTyped DEF IssueTickets, RowsInv
<1> HIDE DEF S
<1>9. BookingsHaveSeats'
    BY <1>1, <1>7 DEF RowsInv, BookingsHaveSeats
<1>10. live' \in [Bookings -> SUBSET Seats] /\ live'[b] = S
       /\ \A c \in Bookings : c # b => live'[c] = live[c]
    BY <1>1, <1>3 DEF RowsInv
<1>11. TicketsMatchState'
    BY <1>7, <1>10 DEF RowsInv, TicketsMatchState, Sold
<1>12. OneLiveTicketPerSeat'
    BY <1>2, <1>10 DEF RowsInv, OneLiveTicketPerSeat
<1>13. NoPinToDeadBooking'
    <2>1. booking'[b].state \notin {None} \cup Dead
        BY <1>7, SagaAssumption DEF Dead, BookingState
    <2> QED
        BY <1>4, <1>7, <2>1, PinsStayAlive DEF RowsInv
<1> QED
    BY <1>3, <1>6, <1>7, <1>8, <1>9, <1>10, <1>11, <1>12, <1>13 DEF RowsInv

-----------------------------------------------------------------------------
(***************************************************************************)
(* The remaining actions                                                   *)
(***************************************************************************)

\* Hold requests, the sweep and the clock never pin a seat to a booking.
LEMMA HoldStepKeepsPins ==
    ASSUME HoldTypeOK, HoldNext, NEW s \in Seats
    PROVE  seat'[s].booking_id \in {seat[s].booking_id, None}
<1>0. seat \in [Seats -> Row] /\ seat[s] \in Row
    BY DEF HoldTypeOK
<1>1. ASSUME NEW h \in HoldIds, TakeSeat(h)
      PROVE  seat'[s].booking_id \in {seat[s].booking_id, None}
    <2>1. HeldRow(h).booking_id = None
        BY DEF HeldRow
    <2>2. seat'[s] = seat[s] \/ seat'[s] = HeldRow(h)
        BY <1>0, <1>1 DEF TakeSeat
    <2> QED
        BY <2>1, <2>2
<1>2. ASSUME seat'[s] = seat[s] \/ seat'[s] = ClearHold(seat[s])
      PROVE  seat'[s].booking_id = seat[s].booking_id
    BY <1>0, <1>2, ClearHoldRow
<1>3. ASSUME NEW h \in HoldIds, ReleaseHold(h)
      PROVE  seat'[s] = seat[s] \/ seat'[s] = ClearHold(seat[s])
    BY <1>3 DEF ReleaseHold
<1>4. Sweep => seat'[s] = seat[s] \/ seat'[s] = ClearHold(seat[s])
    BY DEF Sweep
<1>5. UNCHANGED seat => seat'[s] = seat[s]
    OBVIOUS
<1> QED
    BY <1>1, <1>2, <1>3, <1>4, <1>5
    DEF HoldNext, HoldStep, CountHolds, TooManyHolds, LoseSeat, Tick

LEMMA HoldStepKeepsInv ==
    ASSUME SagaInv, HoldNext, UNCHANGED <<gw, sagaVars>>
    PROVE  SagaInv'
<1>1. RowsInv /\ ControlInv /\ GwTypeOK
    BY SagaInvParts
<1>2. HoldTypeOK' /\ HoldRowsSound'
    BY <1>1, HoldInvStep DEF RowsInv, HoldInv
<1>3. \A s \in Seats : seat'[s].booking_id \in {seat[s].booking_id, None}
    BY <1>1, HoldStepKeepsPins DEF RowsInv
<1>4. UNCHANGED <<gw, booking, payment, live, journal, pc, mem, pins>>
    BY DEF sagaVars
<1>5. NoPinToDeadBooking' /\ FailingHasReadItsPins'
    BY <1>1, <1>3, <1>4, NoneAssumption
    DEF RowsInv, ControlInv, NoPinToDeadBooking, FailingHasReadItsPins
<1>6. BookingsHaveSeats' /\ TicketsMatchState' /\ OneLiveTicketPerSeat' /\ PcMatchesState'
    BY <1>1, <1>4
    DEF RowsInv, ControlInv, BookingsHaveSeats, TicketsMatchState, OneLiveTicketPerSeat,
        PcMatchesState, Sold
<1>7. RowsInv'
    BY <1>1, <1>2, <1>4, <1>5, <1>6 DEF RowsInv
<1>8. ControlInv' /\ GwTypeOK'
    BY <1>1, <1>4, <1>5, <1>6 DEF ControlInv, GwTypeOK
<1> QED
    BY <1>7, <1>8, SagaInvPartsNext

\* A step of run() that changes only where it is, and perhaps the gateway.
LEMMA ControlStepKeepsInv ==
    ASSUME SagaInv, NEW b \in Bookings, NEW l \in Labels, l # "failing", Goto(b, l),
           booking[b].state \in StatesAt(l), GwTypeOK',
           UNCHANGED <<holdVars, booking, payment, live, journal, mem, pins>>
    PROVE  SagaInv'
<1>1. RowsInv /\ ControlInv
    BY SagaInvParts
<1>2. RowsInv'
    BY <1>1, NoRowsTouched
<1>3. UNCHANGED <<seat, booking, pins>>
    BY DEF holdVars
<1>4. ControlInv'
    BY <1>1, <1>3, GotoKeepsControl
<1> QED
    BY <1>2, <1>4, SagaInvPartsNext

\* Where the booking is when run() is inside a checkout: it exists.
LEMMA StateExists ==
    ASSUME SagaInv, NEW b \in Bookings, pc[b] \in InFlight
    PROVE  booking[b].state \in BookingState
BY StatesAtTable DEF SagaInv, PcMatchesState, InFlight, BookingState

\* What the booking's state is at each label of run().
LEMMA StateAtLabel ==
    ASSUME SagaInv, NEW b \in Bookings
    PROVE  /\ pc[b] = "new" => booking[b].state = None
           /\ pc[b] \in {"locked", "charging", "timed_out", "retrying",
                         "approved", "declined", "failing"} => booking[b].state = "PENDING"
           /\ pc[b] = "authorized" => booking[b].state = "PAYMENT_AUTHORIZED"
           /\ pc[b] \in {"compensating", "reversed", "unreversed"} =>
                  booking[b].state = "COMPENSATING"
           /\ pc[b] \in {"ticketed", "captured"} => booking[b].state = "TICKETED"
BY StatesAtTable DEF SagaInv, PcMatchesState

\* Actions of run() that write no row.
LEMMA ControlStepsKeepInv ==
    ASSUME SagaInv, NEW b \in Bookings, NEW H,
           \/ RejectCheckout(b, H) \/ CallAuthorize(b) \/ TimeOutAuthorize(b)
           \/ UnpinConflict(b) \/ IssueConflict(b) \/ CallVoid(b) \/ VoidFails(b)
           \/ CallCapture(b) \/ CaptureFails(b) \/ Crash(b)
    PROVE  SagaInv'
<1> DEFINE K == KeyOf[b]
           rows == <<holdVars, booking, payment, live, journal, mem, pins>>
<1>0. K \in Keys /\ GwTypeOK
    BY SagaAssumption, SagaInvParts
<1>1. UNCHANGED gw => GwTypeOK'
    BY <1>0 DEF GwTypeOK
<1>2. CASE RejectCheckout(b, H)
    <2>1. booking[b].state \in StatesAt("rejected")
        BY <1>2, StateAtLabel, StatesAtTable DEF RejectCheckout
    <2> QED
        BY <1>1, <1>2, <2>1, ControlStepKeepsInv DEF RejectCheckout, Labels, Finished
<1>3. CASE CallAuthorize(b)
    <2>1. PICK answer \in AuthResult : Authorize(K, booking[b].card, answer) /\ Goto(b, answer)
        BY <1>3 DEF CallAuthorize
    <2>2. answer \in Labels /\ answer # "failing" /\ booking[b].state \in StatesAt(answer)
        BY <1>3, StateAtLabel, StatesAtTable DEF CallAuthorize, AuthResult, Labels, InFlight
    <2>3. GwTypeOK'
        BY <1>0, <2>1, GatewayTyped
    <2>4. UNCHANGED rows
        BY <1>3 DEF CallAuthorize
    <2> QED
        BY <2>1, <2>2, <2>3, <2>4, ControlStepKeepsInv
<1>4. CASE TimeOutAuthorize(b)
    <2>1. PICK l \in {"timed_out", "error"} : Goto(b, l)
        BY <1>4 DEF TimeOutAuthorize
    <2>2. l \in Labels /\ l # "failing" /\ booking[b].state \in StatesAt(l)
        BY <1>4, StateAtLabel, StatesAtTable
        DEF TimeOutAuthorize, Labels, InFlight, Finished, BookingState
    <2>3. GwTypeOK'
        BY <1>0, <1>4, GatewayTyped DEF TimeOutAuthorize
    <2>4. UNCHANGED rows
        BY <1>4 DEF TimeOutAuthorize
    <2> QED
        BY <2>1, <2>2, <2>3, <2>4, ControlStepKeepsInv
<1>5. CASE UnpinConflict(b) \/ IssueConflict(b)
    <2>1. booking[b].state \in StatesAt("error") /\ "error" \in Labels
        BY <1>5, StateAtLabel, StatesAtTable
        DEF UnpinConflict, IssueConflict, ReadyToIssue, BookingState, Labels, Finished
    <2>2. Goto(b, "error") /\ UNCHANGED rows /\ UNCHANGED gw
        BY <1>5 DEF UnpinConflict, IssueConflict
    <2> QED
        BY <1>1, <2>1, <2>2, ControlStepKeepsInv
<1>6. CASE CallVoid(b) \/ VoidFails(b)
    <2>1. PICK l \in {"reversed", "unreversed"} : Goto(b, l)
        BY <1>6 DEF CallVoid, VoidFails
    <2>2. l \in Labels /\ l # "failing" /\ booking[b].state \in StatesAt(l)
        BY <1>6, StateAtLabel, StatesAtTable DEF CallVoid, VoidFails, Labels, InFlight
    <2>3. GwTypeOK'
        BY <1>0, <1>6, GatewayTyped DEF CallVoid, VoidFails
    <2>4. UNCHANGED rows
        BY <1>6 DEF CallVoid, VoidFails
    <2> QED
        BY <2>1, <2>2, <2>3, <2>4, ControlStepKeepsInv
<1>7. CASE CallCapture(b) \/ CaptureFails(b)
    <2>1. PICK l \in {"captured", "error"} : Goto(b, l)
        BY <1>7 DEF CallCapture, CaptureFails
    <2>2. l \in Labels /\ l # "failing" /\ booking[b].state \in StatesAt(l)
        BY <1>7, StateAtLabel, StatesAtTable
        DEF CallCapture, CaptureFails, Labels, InFlight, Finished, BookingState
    <2>3. GwTypeOK'
        BY <1>0, <1>7, GatewayTyped DEF CallCapture, CaptureFails
    <2>4. UNCHANGED rows
        BY <1>7 DEF CallCapture, CaptureFails
    <2> QED
        BY <2>1, <2>2, <2>3, <2>4, ControlStepKeepsInv
<1>8. CASE Crash(b)
    <2>1. booking[b].state \in StatesAt("crashed") /\ "crashed" \in Labels
        BY <1>8, StateExists, StatesAtTable DEF Crash, Labels, Finished
    <2> QED
        BY <1>1, <1>8, <2>1, ControlStepKeepsInv DEF Crash
<1> QED
    BY <1>2, <1>3, <1>4, <1>5, <1>6, <1>7, <1>8

\* _fail_payment's read: it sees every seat that points at its booking.
LEMMA ReadPinsKeepsInv ==
    ASSUME SagaInv, NEW b \in Bookings, BlockPayment(b) \/ DeclinePayment(b)
    PROVE  SagaInv'
<1>1. RowsInv /\ ControlInv /\ GwTypeOK
    BY SagaInvParts
<1>2. /\ Goto(b, "failing") /\ pins' = [pins EXCEPT ![b] = {s \in Seats : seat[s].booking_id = b}]
      /\ UNCHANGED <<holdVars, gw, booking, payment, live, journal, mem>>
    BY DEF BlockPayment, DeclinePayment, ReadPins
<1>3. booking[b].state \in StatesAt("failing") /\ "failing" \in Labels
    BY StateAtLabel, StatesAtTable DEF BlockPayment, DeclinePayment, Labels, InFlight
<1>4. RowsInv' /\ GwTypeOK'
    BY <1>1, <1>2, NoRowsTouched DEF GwTypeOK
<1>5. UNCHANGED <<seat, booking>>
    BY <1>2 DEF holdVars
<1>6. pc' \in [Bookings -> Labels] /\ pins' \in [Bookings -> SUBSET Seats] /\ PcMatchesState'
    BY <1>1, <1>2, <1>3, <1>5 DEF ControlInv, Goto, PcMatchesState
<1>7. FailingHasReadItsPins'
    BY <1>1, <1>2, <1>5 DEF ControlInv, Goto, FailingHasReadItsPins
<1> QED
    BY <1>4, <1>6, <1>7, SagaInvPartsNext DEF ControlInv

\* Steps that write the payment row, the journal, or both.
LEMMA PaymentStepsKeepInv ==
    ASSUME SagaInv, NEW b \in Bookings, StartCharge(b) \/ RecordUnknown(b)
    PROVE  SagaInv'
<1>1. RowsInv /\ ControlInv /\ GwTypeOK
    BY SagaInvParts
<1>2. PICK l \in {"charging", "retrying"} : Goto(b, l)
    BY DEF StartCharge, RecordUnknown
<1>3. booking[b].state \in StatesAt(l) /\ l \in Labels /\ l # "failing"
    BY StateAtLabel, StatesAtTable DEF StartCharge, RecordUnknown, Labels, InFlight
<1>4. UNCHANGED <<holdVars, gw, booking, live, mem, pins>>
    BY DEF StartCharge, RecordUnknown
<1>5. payment' \in [Bookings -> PaymentState \cup {None}]
    BY <1>1 DEF StartCharge, RecordUnknown, RowsInv, PaymentState
<1>6. journal' \in [Bookings -> Seq(JournalRow)]
    <2>1. CASE StartCharge(b)
        BY <1>1, <2>1 DEF StartCharge, RowsInv
    <2>2. CASE RecordUnknown(b)
        <3>1. Event("PAYMENT_UNKNOWN") \in JournalRow
            BY JournalRowsTyped DEF AuditEventType
        <3>2. <<Event("PAYMENT_UNKNOWN")>> \in Seq(JournalRow)
            BY <3>1
        <3> QED
            BY <1>1, <2>2, <3>2, RecordTyped DEF RecordUnknown, RowsInv
    <2> QED
        BY <2>1, <2>2
<1>7. RowsInv' /\ GwTypeOK'
    BY <1>1, <1>4, <1>5, <1>6, PaymentStepKeepsRows DEF GwTypeOK
<1>8. ControlInv'
    <2>1. UNCHANGED <<seat, booking, pins>>
        BY <1>4 DEF holdVars
    <2> QED
        BY <1>1, <1>2, <1>3, <2>1, GotoKeepsControl
<1> QED
    BY <1>7, <1>8, SagaInvPartsNext

\* The journal rows of a change of state, after the HOLD_LOST rows if any.
LEMMA MoveJournalled ==
    ASSUME RowsInv, NEW b \in Bookings, booking[b].state \in BookingState,
           \/ AcceptPayment(b) \/ TicketingFails(b) \/ FailPayment(b)
           \/ FinishCompensation(b) \/ EscalateCompensation(b) \/ Confirm(b)
    PROVE  journal' \in [Bookings -> Seq(JournalRow)]
<1> DEFINE st == booking[b].state
<1>0. st \in BookingState /\ journal \in [Bookings -> Seq(JournalRow)]
      /\ booking[b].seats \in SUBSET Seats
    BY DEF RowsInv, BookingRow
<1> HIDE DEF st
<1>1. /\ Moved("PAYMENT_AUTHORIZED", st, "PAYMENT_AUTHORIZED") \in JournalRow
      /\ Moved("COMPENSATION_STARTED", st, "COMPENSATING") \in JournalRow
      /\ Moved("PAYMENT_DECLINED", st, "PAYMENT_FAILED") \in JournalRow
      /\ Moved("COMPENSATION_FAILED", st, "NEEDS_MANUAL_REVIEW") \in JournalRow
      /\ Moved("BOOKING_CONFIRMED", "TICKETED", "CONFIRMED") \in JournalRow
    BY <1>0, JournalRowsTyped DEF AuditEventType, BookingState
<1>2. /\ Event("HOLD_LOST") \in JournalRow /\ Event("TICKETING_FAILED") \in JournalRow
      /\ Event("PAYMENT_VOIDED") \in JournalRow /\ Event("SEATS_RELEASED") \in JournalRow
    BY JournalRowsTyped DEF AuditEventType
<1>3. ASSUME NEW e \in JournalRow, NEW f \in JournalRow
      PROVE  /\ <<e>> \in Seq(JournalRow) /\ <<e, f>> \in Seq(JournalRow)
             /\ LapseRows(b) \o <<e, f>> \in Seq(JournalRow)
    BY <1>0, <1>3, LapseRowsTyped
<1>4. \E rows \in Seq(JournalRow) : Record(b, rows)
    <2>1. CASE AcceptPayment(b)
        BY <1>1, <1>3, <2>1 DEF AcceptPayment, st
    <2>2. CASE TicketingFails(b)
        BY <1>1, <1>2, <1>3, <2>2 DEF TicketingFails, st
    <2>3. CASE FailPayment(b)
        BY <1>1, <1>3, <2>3 DEF FailPayment, st
    <2>4. CASE FinishCompensation(b)
        BY <1>2, <1>3, <2>4 DEF FinishCompensation
    <2>5. CASE EscalateCompensation(b)
        BY <1>1, <1>2, <1>3, <2>5 DEF EscalateCompensation, st
    <2>6. CASE Confirm(b)
        BY <1>1, <1>3, <2>6 DEF Confirm
    <2> QED
        BY <2>1, <2>2, <2>3, <2>4, <2>5, <2>6
<1> QED
    BY <1>0, <1>4, RecordTyped

\* Steps that move the booking to another living state.
LEMMA StateStepsKeepInv ==
    ASSUME SagaInv, NEW b \in Bookings,
           AcceptPayment(b) \/ TicketingFails(b) \/ Confirm(b)
    PROVE  SagaInv'
<1>1. RowsInv /\ ControlInv /\ GwTypeOK
    BY SagaInvParts
<1>2. booking[b].state \in BookingState
    BY StateExists DEF AcceptPayment, TicketingFails, Confirm, InFlight
<1>3. PICK l \in {"authorized", "compensating", "confirmed"}, st \in BookingState \ Dead :
          /\ Goto(b, l) /\ SetState(b, st) /\ st \in StatesAt(l)
          /\ Sold(b) <=> st \in {"TICKETED", "CONFIRMED"}
    <2>1. CASE AcceptPayment(b)
        BY <2>1, StateAtLabel, StatesAtTable DEF AcceptPayment, Sold, Dead, BookingState
    <2>2. CASE TicketingFails(b)
        BY <2>2, StateAtLabel, StatesAtTable DEF TicketingFails, Sold, Dead, BookingState
    <2>3. CASE Confirm(b)
        BY <2>3, StateAtLabel, StatesAtTable DEF Confirm, Sold, Dead, BookingState
    <2> QED
        BY <2>1, <2>2, <2>3
<1>4. /\ UNCHANGED <<holdVars, gw, live, mem, pins>>
      /\ payment' \in [Bookings -> PaymentState \cup {None}]
    BY <1>1 DEF AcceptPayment, TicketingFails, Confirm, RowsInv, PaymentState
<1>5. journal' \in [Bookings -> Seq(JournalRow)]
    BY <1>1, <1>2, MoveJournalled
<1>6. RowsInv' /\ GwTypeOK'
    <2>1. booking[b].state # None
        BY <1>2, SagaAssumption
    <2> QED
        BY <1>1, <1>3, <1>4, <1>5, <2>1, StateStepKeepsRows DEF GwTypeOK
<1>7. ControlInv'
    <2>1. /\ booking'[b].state = st
          /\ \A c \in Bookings : c # b => booking'[c] = booking[c]
        BY <1>1, <1>3, SetStateEffect DEF RowsInv
    <2>2. UNCHANGED <<seat, pins>> /\ l \in Labels /\ l # "failing"
        BY <1>4 DEF holdVars, Labels, InFlight, Finished
    <2> QED
        BY <1>1, <1>3, <2>1, <2>2, GotoKeepsControl
<1> QED
    BY <1>6, <1>7, SagaInvPartsNext

\* What ends a booking without a sale leaves no seat pointing at it, and no row
\* held that was not held before.
LEMMA EndingRows ==
    ASSUME SagaInv, NEW b \in Bookings,
           FailPayment(b) \/ FinishCompensation(b) \/ EscalateCompensation(b)
    PROVE  /\ seat' \in [Seats -> Row]
           /\ \A s \in Seats :
                  /\ seat'[s].booking_id \in {seat[s].booking_id, None}
                  /\ seat'[s].booking_id # b
                  /\ seat'[s].hold_id \in {seat[s].hold_id, None}
                  /\ seat'[s].status = "held" =>
                        /\ seat[s].status = "held"
                        /\ seat'[s].held_by = seat[s].held_by
                        /\ seat'[s].hold_id = seat[s].hold_id
                        /\ seat'[s].expires = seat[s].expires
<1>1. \A s \in Seats : seat[s] \in Row
    BY DEF SagaInv, SagaTypeOK, HoldTypeOK
<1>2. b # None
    BY NoneAssumption
<1>3. CASE FailPayment(b)
    <2>1. seat' = [s \in Seats |-> IF s \in pins[b] THEN Pin(seat[s], None) ELSE seat[s]]
        BY <1>3 DEF FailPayment
    <2>2. \A s \in Seats : s \notin pins[b] => seat[s].booking_id # b
        BY <1>3 DEF FailPayment, SagaInv, FailingHasReadItsPins
    <2>3. \A s \in Seats : \/ seat'[s] = seat[s] /\ seat[s].booking_id # b
                           \/ seat'[s] = Pin(seat[s], None)
        BY <2>1, <2>2
    <2>4. \A s \in Seats : seat'[s] \in Row
        BY <1>1, <2>3, PinnedRow
    <2>5. seat' \in [Seats -> Row]
        BY <2>1, <2>4
    <2> QED
        BY <1>1, <1>2, <2>3, <2>5, PinnedRow
<1>4. CASE FinishCompensation(b) \/ EscalateCompensation(b)
    <2>1. seat' = [s \in Seats |-> IF seat[s].booking_id = b THEN AvailableRow ELSE seat[s]]
        BY <1>4 DEF FinishCompensation, EscalateCompensation, ReleaseSeatsForBooking
    <2>2. /\ AvailableRow \in Row /\ AvailableRow.booking_id = None
          /\ AvailableRow.hold_id = None /\ AvailableRow.status = "available"
        BY DEF AvailableRow, Row, SeatStatus
    <2>3. \A s \in Seats : \/ seat'[s] = seat[s] /\ seat[s].booking_id # b
                           \/ seat'[s] = AvailableRow
        BY <2>1
    <2> HIDE DEF AvailableRow
    <2>4. seat' \in [Seats -> Row]
        BY <1>1, <2>1, <2>2
    <2> QED
        BY <1>2, <2>2, <2>3, <2>4
<1> QED
    BY <1>3, <1>4

LEMMA DeadStepsKeepInv ==
    ASSUME SagaInv, NEW b \in Bookings,
           FailPayment(b) \/ FinishCompensation(b) \/ EscalateCompensation(b)
    PROVE  SagaInv'
<1>1. RowsInv /\ ControlInv /\ GwTypeOK
    BY SagaInvParts
<1>2. booking[b].state \in BookingState /\ booking[b].state # None /\ ~ Sold(b)
    BY StateAtLabel, SagaAssumption
    DEF FailPayment, FinishCompensation, EscalateCompensation, Sold, BookingState
<1>3. PICK l \in {"payment_failed", "compensated"}, st \in Dead :
          Goto(b, l) /\ SetState(b, st) /\ st \in StatesAt(l)
    <2>1. CASE FailPayment(b)
        BY <2>1, StatesAtTable DEF FailPayment, Dead
    <2>2. CASE FinishCompensation(b)
        BY <2>2, StatesAtTable DEF FinishCompensation, Dead
    <2>3. CASE EscalateCompensation(b)
        BY <2>3, StatesAtTable DEF EscalateCompensation, Dead
    <2> QED
        BY <2>1, <2>2, <2>3
<1>4. /\ UNCHANGED <<now, hreq, gw, mem, pins>>
      /\ live' \in {live, [live EXCEPT ![b] = {}]}
    BY DEF FailPayment, FinishCompensation, EscalateCompensation, ReleaseSeatsForBooking
<1>5. payment' \in [Bookings -> PaymentState \cup {None}]
    BY <1>1 DEF FailPayment, FinishCompensation, EscalateCompensation, RowsInv, PaymentState
<1>6. journal' \in [Bookings -> Seq(JournalRow)]
    BY <1>1, <1>2, MoveJournalled
<1>7. RowsInv' /\ GwTypeOK'
    BY <1>1, <1>2, <1>3, <1>4, <1>5, <1>6, EndingRows, DeadStepKeepsRows DEF GwTypeOK
<1>8. ControlInv'
    <2>1. st \in BookingState
        BY DEF Dead, BookingState
    <2>2. /\ booking'[b].state = st
          /\ \A c \in Bookings : c # b => booking'[c] = booking[c]
        BY <1>1, <1>3, <2>1, SetStateEffect DEF RowsInv
    <2>3. \A s \in Seats : seat'[s].booking_id \in {seat[s].booking_id, None}
        BY EndingRows
    <2>4. \A s \in Seats : \A c \in Bookings :
              c # b /\ seat'[s].booking_id = c => seat[s].booking_id = c
        BY <2>3, NoneAssumption
    <2>5. UNCHANGED pins /\ l \in Labels /\ l # "failing"
        BY <1>4 DEF Labels, Finished
    <2> QED
        BY <1>1, <1>3, <2>2, <2>4, <2>5, GotoKeepsControl
<1> QED
    BY <1>7, <1>8, SagaInvPartsNext

\* Step 1 and the sale: both pin or keep pins of their own booking only.
LEMMA LockSeatsKeepsInv ==
    ASSUME SagaInv, NEW b \in Bookings, NEW H \in (SUBSET HoldIds) \ {{}},
           NEW card \in Cards, LockSeats(b, H, card)
    PROVE  SagaInv'
<1>1. RowsInv /\ ControlInv /\ GwTypeOK
    BY SagaInvParts
<1>2. RowsInv'
    BY <1>1, LockSeatsRows
<1>3. Goto(b, "locked") /\ UNCHANGED <<gw, pins>> /\ "locked" \in Labels
    BY DEF LockSeats, Labels, InFlight
<1>4. /\ booking'[b].state \in StatesAt("locked")
      /\ \A c \in Bookings : c # b => booking'[c].state = booking[c].state
    BY <1>1, StatesAtTable DEF LockSeats, RowsInv
<1>5. \A s \in Seats : \A c \in Bookings :
          c # b /\ seat'[s].booking_id = c => seat[s].booking_id = c
    <2>1. \A s \in Seats : seat[s] \in Row
        BY <1>1 DEF RowsInv, HoldTypeOK
    <2>2. \A s \in Seats : seat'[s] = seat[s] \/ seat'[s] = Pin(seat[s], b)
        BY DEF LockSeats
    <2>3. \A s \in Seats : seat'[s] = seat[s] \/ seat'[s].booking_id = b
        BY <2>1, <2>2, PinnedRow
    <2> QED
        BY <2>3
<1>6. ControlInv'
    BY <1>1, <1>3, <1>4, <1>5, GotoKeepsControl
<1> QED
    BY <1>1, <1>2, <1>3, <1>6, SagaInvPartsNext DEF GwTypeOK

LEMMA IssueTicketsKeepsInv ==
    ASSUME SagaInv, NEW b \in Bookings, IssueTickets(b)
    PROVE  SagaInv'
<1>1. RowsInv /\ ControlInv /\ GwTypeOK
    BY SagaInvParts
<1>2. RowsInv'
    BY <1>1, IssueTicketsRows
<1>3. Goto(b, "ticketed") /\ UNCHANGED <<gw, pins>> /\ "ticketed" \in Labels
    BY DEF IssueTickets, Labels, InFlight
<1>4. /\ booking'[b].state \in StatesAt("ticketed")
      /\ \A c \in Bookings : c # b => booking'[c].state = booking[c].state
    <2>1. "TICKETED" \in BookingState
        BY DEF BookingState
    <2> QED
        BY <1>1, <2>1, StatesAtTable, SetStateEffect DEF IssueTickets, RowsInv
<1>5. \A s \in Seats : \A c \in Bookings :
          c # b /\ seat'[s].booking_id = c => seat[s].booking_id = c
    <2>1. \A s \in Seats : seat[s] \in Row
        BY <1>1 DEF RowsInv, HoldTypeOK
    <2>2. \A s \in Seats : seat'[s] = seat[s] \/ seat'[s] = Book(seat[s])
        BY DEF IssueTickets
    <2>3. \A s \in Seats : seat'[s].booking_id = seat[s].booking_id
        BY <2>1, <2>2, BookedRow
    <2> QED
        BY <2>3
<1>6. ControlInv'
    BY <1>1, <1>3, <1>4, <1>5, GotoKeepsControl
<1> QED
    BY <1>1, <1>2, <1>3, <1>6, SagaInvPartsNext DEF GwTypeOK

-----------------------------------------------------------------------------
(***************************************************************************)
(* The theorems                                                            *)
(***************************************************************************)

\* Every step of holds, sweep, clock and checkouts keeps SagaInv.
LEMMA SagaInvStep == SagaInv /\ [Next]_vars => SagaInv'
<1> SUFFICES ASSUME SagaInv, [Next]_vars PROVE SagaInv'
    OBVIOUS
<1>1. CASE HoldNext /\ UNCHANGED <<gw, sagaVars>>
    BY <1>1, HoldStepKeepsInv
<1>2. ASSUME NEW b \in Bookings, PostBooking(b)
      PROVE  SagaInv'
    <2>1. PICK H \in (SUBSET HoldIds) \ {{}} :
              RejectCheckout(b, H) \/ \E card \in Cards : LockSeats(b, H, card)
        BY <1>2 DEF PostBooking
    <2> QED
        BY <2>1, ControlStepsKeepInv, LockSeatsKeepsInv
<1>3. ASSUME NEW b \in Bookings, SagaStep(b)
      PROVE  SagaInv'
    BY <1>3, ControlStepsKeepInv, ReadPinsKeepsInv, PaymentStepsKeepInv, StateStepsKeepInv,
       DeadStepsKeepInv, IssueTicketsKeepsInv
    DEF SagaStep
<1>4. ASSUME NEW b \in Bookings, Crash(b)
      PROVE  SagaInv'
    BY <1>4, ControlStepsKeepInv
<1>5. CASE UNCHANGED vars
    BY <1>5, HoldInvStep
    DEF vars, SagaInv, SagaTypeOK, HoldInv, holdVars, GwTypeOK, HoldTypeOK, HoldRowsSound,
        PendingRequestsSound, HeldSeatHasHolder, HoldIdNamesOneSeat, HoldsAreBounded,
        PcMatchesState, BookingsHaveSeats, TicketsMatchState, Sold, OneLiveTicketPerSeat,
        NoPinToDeadBooking, FailingHasReadItsPins
<1> QED
    BY <1>1, <1>2, <1>3, <1>4, <1>5 DEF Next

\* SagaInv holds in every reachable state.
LEMMA SagaInvHolds == Spec => []SagaInv
BY SagaInvInit, SagaInvStep, PTL DEF Spec

\* Tables, journal, gateway and program counters keep their types through every
\* interleaving of checkouts, holds, sweep, crashes and gateway faults.
THEOREM SagaTypeCorrect == Spec => []SagaTypeOK
<1>1. SagaInv => SagaTypeOK
    BY DEF SagaInv
<1> QED
    BY <1>1, SagaInvHolds, PTL

\* No seat is ever sold to two bookings and every sold booking has its live
\* tickets, for any number of customers, seats and holds, even though run()
\* trusts rows it read before the gateway call: the unique index of tickets
\* refuses the second sale.
THEOREM NeverOversoldThm == Spec => []NeverOversold
<1>1. SagaInv => NeverOversold
    <2> SUFFICES ASSUME SagaInv PROVE NeverOversold
        OBVIOUS
    <2>1. \A b \in Bookings : Sold(b) => booking[b].seats # {} /\ live[b] = booking[b].seats
        BY SagaAssumption
        DEF SagaInv, BookingsHaveSeats, TicketsMatchState, Sold, BookingState
    <2> QED
        BY <2>1 DEF SagaInv, OneLiveTicketPerSeat, NeverOversold
<1> QED
    BY <1>1, SagaInvHolds, PTL

\* A booking that failed, was voided or was escalated never keeps a seat, even
\* when its unlocked read of its seats and its commit are far apart.
THEOREM NoPinToDeadBookingThm == Spec => []NoPinToDeadBooking
<1>1. SagaInv => NoPinToDeadBooking
    BY DEF SagaInv
<1> QED
    BY <1>1, SagaInvHolds, PTL

-----------------------------------------------------------------------------
(***************************************************************************)
(* The saga and the provider                                               *)
(***************************************************************************)

\* The provider's books for one key are as they were.
SameBooks(k) ==
    /\ gw'.authorizations[k] = gw.authorizations[k]
    /\ k \in gw'.voided <=> k \in gw.voided
    /\ k \in gw'.captured <=> k \in gw.captured

\* A gateway call writes the books of its own key only.
LEMMA GatewayTouchesOneKey ==
    ASSUME GwTypeOK, NEW k \in Keys, NEW other \in Keys, other # k, NEW trigger, NEW answer,
           \/ Authorize(k, trigger, answer) \/ AuthorizeTimesOut(k, trigger)
           \/ AuthorizeGoesSilent(k, trigger) \/ CaptureCharge(k) \/ CaptureRaises(k)
           \/ VoidCharge(k) \/ VoidRaises(k)
    PROVE  SameBooks(other)
BY DEF GwTypeOK, Authorize, AuthorizeTimesOut, AuthorizeGoesSilent, Authorized,
       CaptureCharge, CaptureRaises, VoidCharge, VoidRaises, SameBooks

\* A booking that does not move and whose key is not called keeps its money
\* where it was.
LEMMA OthersKeepMoney ==
    ASSUME MoneyInv, NEW c \in Bookings, SameBooks(KeyOf[c]),
           pc'[c] = pc[c], booking'[c].state = booking[c].state
    PROVE  MoneyMatchesProgress(c)'
BY DEF MoneyInv, MoneyMatchesProgress, SameBooks

\* A checkout moves on and writes its booking; the gateway is not called.
LEMMA QuietStepKeepsMoney ==
    ASSUME SagaInv, MoneyInv, NEW b \in Bookings, UNCHANGED gw, NEW l, Goto(b, l),
           \A c \in Bookings : c # b => booking'[c] = booking[c],
           MoneyMatchesProgress(b)'
    PROVE  MoneyInv'
<1>1. \A c \in Bookings : c # b => pc'[c] = pc[c]
    BY DEF Goto, SagaInv, SagaTypeOK
<1>2. \A k : SameBooks(k)
    BY DEF SameBooks
<1>3. ASSUME NEW c \in Bookings, c # b PROVE MoneyMatchesProgress(c)'
    BY <1>1, <1>2, <1>3, OthersKeepMoney
<1> QED
    BY <1>3 DEF MoneyInv

\* A checkout calls the gateway under its own key; no row is written.
LEMMA GatewayStepKeepsMoney ==
    ASSUME SagaInv, MoneyInv, KeysAreOwn, NEW b \in Bookings, NEW l, Goto(b, l),
           UNCHANGED booking, NEW trigger, NEW answer,
           \/ Authorize(KeyOf[b], trigger, answer) \/ AuthorizeTimesOut(KeyOf[b], trigger)
           \/ AuthorizeGoesSilent(KeyOf[b], trigger)
           \/ CaptureCharge(KeyOf[b]) \/ CaptureRaises(KeyOf[b])
           \/ VoidCharge(KeyOf[b]) \/ VoidRaises(KeyOf[b]),
           MoneyMatchesProgress(b)'
    PROVE  MoneyInv'
<1>1. \A c \in Bookings : c # b => pc'[c] = pc[c]
    BY DEF Goto, SagaInv, SagaTypeOK
<1>2. ASSUME NEW c \in Bookings, c # b PROVE MoneyMatchesProgress(c)'
    <2>1. KeyOf[b] \in Keys /\ KeyOf[c] \in Keys /\ KeyOf[c] # KeyOf[b]
        BY <1>2, SagaAssumption DEF KeysAreOwn
    <2>2. SameBooks(KeyOf[c])
        BY <2>1, GatewayTouchesOneKey DEF SagaInv, SagaTypeOK
    <2> QED
        BY <1>1, <1>2, <2>2, OthersKeepMoney
<1> QED
    BY <1>2 DEF MoneyInv

\* Before any call, no key has been used.
LEMMA MoneyInit == Init => MoneyInv
<1> SUFFICES ASSUME Init, NEW b \in Bookings PROVE MoneyMatchesProgress(b)
    BY DEF MoneyInv
<1>1. KeyOf[b] \in Keys /\ booking[b].state = None /\ pc[b] = "new"
    BY SagaAssumption DEF Init, NoBooking
<1>2. /\ gw.authorizations[KeyOf[b]] = "none"
      /\ KeyOf[b] \notin gw.voided
    BY <1>1 DEF Init, GwInit
<1> QED
    BY <1>1, <1>2, SagaAssumption DEF MoneyMatchesProgress, BookingState

\* Steps that neither call the gateway nor change the booking's state.
LEMMA WaitingKeepsMoney ==
    ASSUME SagaInv, MoneyInv, NEW b \in Bookings, NEW H,
           \/ RejectCheckout(b, H) \/ BlockPayment(b) \/ StartCharge(b) \/ RecordUnknown(b)
           \/ DeclinePayment(b) \/ UnpinConflict(b) \/ IssueConflict(b) \/ Crash(b)
    PROVE  MoneyInv'
<1>1. UNCHANGED <<gw, booking>>
    BY DEF RejectCheckout, BlockPayment, StartCharge, RecordUnknown, DeclinePayment, ReadPins,
           UnpinConflict, IssueConflict, Crash
<1>2. PICK l \in {"rejected", "failing", "charging", "retrying", "error", "crashed"} :
          /\ Goto(b, l)
          /\ l = "failing" => pc[b] \in {"locked", "declined"}
          /\ l = "rejected" => pc[b] = "new"
    BY DEF RejectCheckout, BlockPayment, StartCharge, RecordUnknown, DeclinePayment, ReadPins,
           UnpinConflict, IssueConflict, Crash
<1>3. pc'[b] = l
    BY <1>2 DEF Goto, SagaInv, SagaTypeOK
<1>4. MoneyMatchesProgress(b)'
    BY <1>1, <1>2, <1>3 DEF MoneyInv, MoneyMatchesProgress
<1> QED
    BY <1>1, <1>2, <1>4, QuietStepKeepsMoney

\* Steps that commit a new state of the booking.
LEMMA CommitKeepsMoney ==
    ASSUME SagaInv, MoneyInv, NEW b \in Bookings,
           \/ FailPayment(b) \/ AcceptPayment(b) \/ IssueTickets(b) \/ TicketingFails(b)
           \/ FinishCompensation(b) \/ EscalateCompensation(b) \/ Confirm(b)
    PROVE  MoneyInv'
<1>1. UNCHANGED gw
    BY DEF FailPayment, AcceptPayment, IssueTickets, TicketingFails,
           FinishCompensation, EscalateCompensation, Confirm
<1>2. PICK from \in {"failing", "approved", "authorized", "reversed", "unreversed", "captured"},
           l \in {"payment_failed", "authorized", "ticketed", "compensating", "compensated",
                  "confirmed"},
           st \in BookingState :
          /\ pc[b] = from /\ Goto(b, l) /\ SetState(b, st)
          /\ <<from, st>> \in {<<"failing", "PAYMENT_FAILED">>, <<"approved", "PAYMENT_AUTHORIZED">>,
                               <<"authorized", "TICKETED">>, <<"authorized", "COMPENSATING">>,
                               <<"reversed", "VOIDED">>, <<"unreversed", "NEEDS_MANUAL_REVIEW">>,
                               <<"captured", "CONFIRMED">>}
    <2>1. CASE FailPayment(b)
        BY <2>1 DEF FailPayment, BookingState
    <2>2. CASE AcceptPayment(b)
        BY <2>2 DEF AcceptPayment, BookingState
    <2>3. CASE IssueTickets(b)
        BY <2>3 DEF IssueTickets, ReadyToIssue, BookingState
    <2>4. CASE TicketingFails(b)
        BY <2>4 DEF TicketingFails, BookingState
    <2>5. CASE FinishCompensation(b)
        BY <2>5 DEF FinishCompensation, BookingState
    <2>6. CASE EscalateCompensation(b)
        BY <2>6 DEF EscalateCompensation, BookingState
    <2>7. CASE Confirm(b)
        BY <2>7 DEF Confirm, BookingState
    <2> QED
        BY <2>1, <2>2, <2>3, <2>4, <2>5, <2>6, <2>7
<1>3. pc'[b] = l
    BY <1>2 DEF Goto, SagaInv, SagaTypeOK
<1>4. booking'[b].state = st /\ \A c \in Bookings : c # b => booking'[c] = booking[c]
    BY <1>2, SetStateEffect DEF SagaInv, SagaTypeOK, BookingRow
<1>5. MoneyMatchesProgress(b)'
    BY <1>1, <1>2, <1>3, <1>4, StateAtLabel DEF MoneyInv, MoneyMatchesProgress
<1> QED
    BY <1>1, <1>2, <1>4, <1>5, QuietStepKeepsMoney

\* Step 1 commits a PENDING booking before its key is ever used.
LEMMA LockSeatsKeepsMoney ==
    ASSUME SagaInv, MoneyInv, NEW b \in Bookings, NEW H, NEW card, LockSeats(b, H, card)
    PROVE  MoneyInv'
<1>1. UNCHANGED gw /\ Goto(b, "locked") /\ pc[b] = "new"
    BY DEF LockSeats
<1>2. /\ pc'[b] = "locked" /\ booking'[b].state = "PENDING" /\ booking[b].state = None
      /\ \A c \in Bookings : c # b => booking'[c] = booking[c]
    BY <1>1, StateAtLabel DEF LockSeats, Goto, SagaInv, SagaTypeOK
<1>3. MoneyMatchesProgress(b)'
    BY <1>1, <1>2, SagaAssumption DEF MoneyInv, MoneyMatchesProgress, BookingState
<1> QED
    BY <1>1, <1>2, <1>3, QuietStepKeepsMoney

\* Steps that call the gateway, answered or not.
LEMMA CallKeepsMoney ==
    ASSUME SagaInv, MoneyInv, KeysAreOwn, NEW b \in Bookings,
           \/ CallAuthorize(b) \/ TimeOutAuthorize(b) \/ CallVoid(b) \/ VoidFails(b)
           \/ CallCapture(b) \/ CaptureFails(b)
    PROVE  MoneyInv'
<1> DEFINE k == KeyOf[b]
<1>0. UNCHANGED booking
    BY DEF CallAuthorize, TimeOutAuthorize, CallVoid, VoidFails, CallCapture, CaptureFails
<1>1. k \in Keys /\ GwTypeOK
    BY SagaAssumption DEF SagaInv, SagaTypeOK
<1>2. ASSUME NEW l, Goto(b, l) PROVE pc'[b] = l
    BY <1>2 DEF Goto, SagaInv, SagaTypeOK
<1>3. CASE CallAuthorize(b)
    <2>1. PICK answer \in AuthResult : Authorize(k, booking[b].card, answer) /\ Goto(b, answer)
        BY <1>3 DEF CallAuthorize
    <2>2. booking[b].state = "PENDING" /\ pc'[b] = answer /\ k \notin gw.voided
        BY <1>2, <1>3, <2>1, StateAtLabel DEF CallAuthorize, MoneyInv, MoneyMatchesProgress
    <2>3. /\ gw'.authorizations[k] = answer
          /\ gw'.voided = gw.voided
        BY <1>1, <2>1 DEF GwTypeOK, Authorize, Authorized
    <2>4. MoneyMatchesProgress(b)'
        BY <1>0, <2>2, <2>3 DEF MoneyMatchesProgress, AuthResult
    <2> QED
        BY <1>0, <2>1, <2>4, GatewayStepKeepsMoney
<1>4. CASE TimeOutAuthorize(b)
    <2>1. PICK l \in {"timed_out", "error"} : Goto(b, l)
        BY <1>4 DEF TimeOutAuthorize
    <2>2. booking[b].state = "PENDING" /\ pc'[b] = l /\ k \notin gw.voided
        BY <1>2, <1>4, <2>1, StateAtLabel DEF TimeOutAuthorize, MoneyInv, MoneyMatchesProgress
    <2>3. gw'.voided = gw.voided
        BY <1>1, <1>4
        DEF TimeOutAuthorize, AuthorizeTimesOut, AuthorizeGoesSilent, Authorized, GwTypeOK
    <2>4. MoneyMatchesProgress(b)'
        BY <1>0, <2>2, <2>3 DEF MoneyMatchesProgress
    <2> QED
        BY <1>0, <1>4, <2>1, <2>4, GatewayStepKeepsMoney DEF TimeOutAuthorize
<1>5. CASE CallVoid(b) \/ VoidFails(b)
    <2>1. PICK l \in {"reversed", "unreversed"} :
              Goto(b, l) /\ (l = "reversed" => VoidCharge(k))
        BY <1>5 DEF CallVoid, VoidFails
    <2>2. booking[b].state = "COMPENSATING" /\ pc'[b] = l
        BY <1>2, <1>5, <2>1, StateAtLabel DEF CallVoid, VoidFails
    <2>3. l = "reversed" => k \in gw'.voided
        BY <1>1, <2>1 DEF VoidCharge, GwTypeOK
    <2>4. MoneyMatchesProgress(b)'
        BY <1>0, <2>1, <2>2, <2>3 DEF MoneyMatchesProgress
    <2> QED
        BY <1>0, <1>5, <2>1, <2>4, GatewayStepKeepsMoney DEF CallVoid, VoidFails
<1>6. CASE CallCapture(b) \/ CaptureFails(b)
    <2>1. PICK l \in {"captured", "error"} :
              Goto(b, l) /\ (l = "captured" => CaptureCharge(k))
        BY <1>6 DEF CallCapture, CaptureFails
    <2>2. booking[b].state = "TICKETED" /\ pc'[b] = l
        BY <1>2, <1>6, <2>1, StateAtLabel DEF CallCapture, CaptureFails
    <2>3. /\ l = "captured" => k \in gw'.captured
          /\ gw'.voided = gw.voided /\ gw'.authorizations = gw.authorizations
        BY <1>1, <1>6, <2>1
        DEF CallCapture, CaptureFails, CaptureRaises, CaptureCharge, GwTypeOK
    <2>4. MoneyMatchesProgress(b)'
        BY <1>0, <2>1, <2>2, <2>3 DEF MoneyInv, MoneyMatchesProgress
    <2> QED
        BY <1>0, <1>6, <2>1, <2>4, GatewayStepKeepsMoney DEF CallCapture, CaptureFails
<1> QED
    BY <1>3, <1>4, <1>5, <1>6

\* Every step keeps the money where the checkouts' progress says it is.
LEMMA MoneyStep == KeysAreOwn /\ SagaInv /\ MoneyInv /\ [Next]_vars => MoneyInv'
<1> SUFFICES ASSUME KeysAreOwn, SagaInv, MoneyInv, [Next]_vars PROVE MoneyInv'
    OBVIOUS
<1>1. CASE UNCHANGED <<gw, sagaVars>>
    BY <1>1 DEF sagaVars, MoneyInv, MoneyMatchesProgress
<1>2. ASSUME NEW b \in Bookings, PostBooking(b) PROVE MoneyInv'
    BY <1>2, WaitingKeepsMoney, LockSeatsKeepsMoney DEF PostBooking
<1>3. ASSUME NEW b \in Bookings, SagaStep(b) PROVE MoneyInv'
    BY <1>3, WaitingKeepsMoney, CommitKeepsMoney, CallKeepsMoney DEF SagaStep
<1>4. ASSUME NEW b \in Bookings, Crash(b) PROVE MoneyInv'
    BY <1>4, WaitingKeepsMoney
<1>5. UNCHANGED vars => UNCHANGED <<gw, sagaVars>>
    BY DEF vars, sagaVars
<1> QED
    BY <1>1, <1>2, <1>3, <1>4, <1>5 DEF Next

\* What the invariant says at the end of a checkout.
LEMMA MoneyImpliesOutcome == MoneyInv => OutcomeMatchesProvider
BY DEF MoneyInv, MoneyMatchesProgress, OutcomeMatchesProvider, MoneyHeld

\* As long as checkouts have gateway keys of their own, the outcome on record
\* agrees with the provider's books, for any number of checkouts, any timeouts,
\* failed voids and captures, and crashes between any two steps.
THEOREM OutcomeMatchesProviderThm == KeysAreOwn => (Spec => []OutcomeMatchesProvider)
<1> SUFFICES ASSUME KeysAreOwn PROVE Spec => []OutcomeMatchesProvider
    OBVIOUS
<1>1. SagaInv /\ MoneyInv /\ [Next]_vars => MoneyInv'
    BY MoneyStep
<1> QED
    BY <1>1, SagaInvHolds, MoneyInit, MoneyImpliesOutcome, PTL DEF Spec

-----------------------------------------------------------------------------
(***************************************************************************)
(* What run() finds when it comes back from the gateway                    *)
(***************************************************************************)

\* A step that leaves the rows, the bookings' seats and the session's objects
\* alone, and takes no checkout back before its tickets or into _fail_payment.
QuietStep(b) ==
    /\ UNCHANGED <<seat, mem>>
    /\ \A c \in Bookings : booking'[c].seats = booking[c].seats
    /\ booking[b].state # None
    /\ \A c \in Bookings : c # b => pc'[c] = pc[c] /\ booking'[c].state = booking[c].state
    /\ pc'[b] \in BeforeTickets => pc[b] \in BeforeTickets

\* Every step of run() but step 1 and those that write seat rows is quiet.
LEMMA QuietSteps ==
    ASSUME SagaInv, NEW b \in Bookings,
           \/ BlockPayment(b) \/ StartCharge(b) \/ CallAuthorize(b) \/ TimeOutAuthorize(b)
           \/ RecordUnknown(b) \/ DeclinePayment(b) \/ UnpinConflict(b) \/ AcceptPayment(b)
           \/ IssueConflict(b) \/ TicketingFails(b) \/ CallVoid(b) \/ VoidFails(b)
           \/ CallCapture(b) \/ CaptureFails(b) \/ Confirm(b) \/ Crash(b)
    PROVE  QuietStep(b)
<1>0. pc \in [Bookings -> Labels] /\ booking \in [Bookings -> BookingRow]
    BY SagaInvParts DEF RowsInv, ControlInv
<1>1. UNCHANGED <<seat, mem>>
    BY DEF BlockPayment, ReadPins, StartCharge, CallAuthorize, TimeOutAuthorize, RecordUnknown,
           DeclinePayment, UnpinConflict, AcceptPayment, IssueConflict, TicketingFails, CallVoid,
           VoidFails, CallCapture, CaptureFails, Confirm, Crash, holdVars
<1>2. pc[b] \in InFlight
    BY DEF BlockPayment, StartCharge, CallAuthorize, TimeOutAuthorize, RecordUnknown,
           DeclinePayment, UnpinConflict, AcceptPayment, IssueConflict, ReadyToIssue,
           TicketingFails, CallVoid, VoidFails, CallCapture, CaptureFails, Confirm, Crash, InFlight
<1>3. booking[b].state # None
    BY <1>2, StateExists, SagaAssumption
<1>4. PICK l \in Labels : Goto(b, l) /\ (l \in BeforeTickets => pc[b] \in BeforeTickets)
    BY DEF BlockPayment, ReadPins, StartCharge, CallAuthorize, TimeOutAuthorize, RecordUnknown,
           DeclinePayment, UnpinConflict, AcceptPayment, IssueConflict, ReadyToIssue,
           TicketingFails, CallVoid, VoidFails, CallCapture, CaptureFails, Confirm, Crash,
           AuthResult, Labels, InFlight, Finished, BeforeTickets
<1>5. UNCHANGED booking \/ \E st \in BookingState : SetState(b, st)
    BY DEF BlockPayment, ReadPins, StartCharge, CallAuthorize, TimeOutAuthorize, RecordUnknown,
           DeclinePayment, UnpinConflict, AcceptPayment, IssueConflict, TicketingFails, CallVoid,
           VoidFails, CallCapture, CaptureFails, Confirm, Crash, BookingState
<1>6. /\ \A c \in Bookings : booking'[c].seats = booking[c].seats
      /\ \A c \in Bookings : c # b => booking'[c].state = booking[c].state
    BY <1>0, <1>5, SetStateEffect
<1>7. pc'[b] = l /\ \A c \in Bookings : c # b => pc'[c] = pc[c]
    BY <1>0, <1>4 DEF Goto
<1> QED
    BY <1>1, <1>3, <1>4, <1>6, <1>7 DEF QuietStep

\* The steps that write seat rows, and those that leave them alone.
LEMMA StepKinds ==
    ASSUME SagaInv, [Next]_vars
    PROVE  \/ HoldNext /\ UNCHANGED <<gw, sagaVars>>
           \/ \E b \in Bookings : \E H \in (SUBSET HoldIds) \ {{}} :
                  RejectCheckout(b, H) \/ \E card \in Cards : LockSeats(b, H, card)
           \/ \E b \in Bookings :
                  \/ QuietStep(b) \/ FailPayment(b) \/ IssueTickets(b)
                  \/ FinishCompensation(b) \/ EscalateCompensation(b)
           \/ UNCHANGED vars
<1>1. ASSUME NEW b \in Bookings, SagaStep(b) \/ Crash(b)
      PROVE  \/ QuietStep(b) \/ FailPayment(b) \/ IssueTickets(b)
             \/ FinishCompensation(b) \/ EscalateCompensation(b)
    BY <1>1, QuietSteps DEF SagaStep
<1> QED
    BY <1>1 DEF Next, PostBooking

\* _fail_payment and compensation clear the pin of a row or leave the row alone.
LEMMA EndingPins ==
    ASSUME SagaInv, NEW b \in Bookings,
           FailPayment(b) \/ FinishCompensation(b) \/ EscalateCompensation(b)
    PROVE  /\ \A s \in Seats : seat'[s] = seat[s] \/ seat'[s].booking_id = None
           /\ UNCHANGED mem
           /\ \A c \in Bookings : booking'[c].seats = booking[c].seats
           /\ \A c \in Bookings : c # b => pc'[c] = pc[c] /\ booking'[c].state = booking[c].state
           /\ booking[b].state # None /\ pc'[b] \notin BeforeTickets
<1>0. /\ pc \in [Bookings -> Labels] /\ booking \in [Bookings -> BookingRow]
      /\ \A s \in Seats : seat[s] \in Row
    BY SagaInvParts DEF RowsInv, ControlInv, HoldTypeOK
<1>1. \A s \in Seats : seat'[s] = seat[s] \/ seat'[s].booking_id = None
    <2>1. CASE FailPayment(b)
        <3>1. \A s \in Seats : seat'[s] = seat[s] \/ seat'[s] = Pin(seat[s], None)
            BY <2>1 DEF FailPayment
        <3> QED
            BY <1>0, <3>1, PinnedRow
    <2>2. CASE FinishCompensation(b) \/ EscalateCompensation(b)
        <3>1. \A s \in Seats : seat'[s] = seat[s] \/ seat'[s] = AvailableRow
            BY <2>2 DEF FinishCompensation, EscalateCompensation, ReleaseSeatsForBooking
        <3> QED
            BY <3>1 DEF AvailableRow
    <2> QED
        BY <2>1, <2>2
<1>2. UNCHANGED mem /\ pc[b] \in InFlight
    BY DEF FailPayment, FinishCompensation, EscalateCompensation, InFlight
<1>3. booking[b].state # None
    BY <1>2, StateExists, SagaAssumption
<1>4. \E st \in BookingState : SetState(b, st)
    BY DEF FailPayment, FinishCompensation, EscalateCompensation, BookingState
<1>5. PICK l \in {"payment_failed", "compensated"} : Goto(b, l)
    BY DEF FailPayment, FinishCompensation, EscalateCompensation
<1>6. pc'[b] = l /\ \A c \in Bookings : c # b => pc'[c] = pc[c]
    BY <1>0, <1>5 DEF Goto
<1>7. /\ \A c \in Bookings : booking'[c].seats = booking[c].seats
      /\ \A c \in Bookings : c # b => booking'[c].state = booking[c].state
    BY <1>0, <1>4, SetStateEffect
<1> QED
    BY <1>1, <1>2, <1>3, <1>6, <1>7 DEF BeforeTickets

\* The sale keeps the pins and the holder's name.
LEMMA IssuePins ==
    ASSUME SagaInv, NEW b \in Bookings, IssueTickets(b)
    PROVE  /\ \A s \in Seats : /\ seat'[s].booking_id = seat[s].booking_id
                               /\ seat'[s].held_by = seat[s].held_by
           /\ UNCHANGED mem
           /\ \A c \in Bookings : booking'[c].seats = booking[c].seats
           /\ \A c \in Bookings : c # b => pc'[c] = pc[c] /\ booking'[c].state = booking[c].state
           /\ booking[b].state # None /\ pc'[b] \notin BeforeTickets
<1>0. /\ pc \in [Bookings -> Labels] /\ booking \in [Bookings -> BookingRow]
      /\ \A s \in Seats : seat[s] \in Row
    BY SagaInvParts DEF RowsInv, ControlInv, HoldTypeOK
<1>1. \A s \in Seats : seat'[s].booking_id = seat[s].booking_id /\ seat'[s].held_by = seat[s].held_by
    <2>1. \A s \in Seats : seat'[s] = seat[s] \/ seat'[s] = Book(seat[s])
        BY DEF IssueTickets
    <2> QED
        BY <1>0, <2>1 DEF Book, Row
<1>2. UNCHANGED mem /\ pc[b] \in InFlight /\ Goto(b, "ticketed") /\ SetState(b, "TICKETED")
    BY DEF IssueTickets, ReadyToIssue, InFlight
<1>3. booking[b].state # None
    BY <1>2, StateExists, SagaAssumption
<1>4. /\ \A c \in Bookings : booking'[c].seats = booking[c].seats
      /\ \A c \in Bookings : c # b => booking'[c].state = booking[c].state
    BY <1>0, <1>2, SetStateEffect DEF BookingState
<1>5. pc'[b] = "ticketed" /\ \A c \in Bookings : c # b => pc'[c] = pc[c]
    BY <1>0, <1>2 DEF Goto
<1> QED
    BY <1>1, <1>2, <1>3, <1>4, <1>5 DEF BeforeTickets

\* Step 1: the rows it pins, the booking it creates, the objects it keeps.
LEMMA LockPins ==
    ASSUME SagaInv, NEW b \in Bookings, NEW H, NEW card, LockSeats(b, H, card)
    PROVE  /\ \A s \in Seats :
                  \/ s \notin booking'[b].seats /\ seat'[s] = seat[s]
                  \/ /\ s \in booking'[b].seats
                     /\ seat'[s].booking_id = b /\ seat'[s].held_by = BookedBy[b]
                     /\ seat'[s].hold_id = seat[s].hold_id
                     /\ mem'[b][s] = seat'[s]
           /\ booking'[b].seats \in SUBSET Seats
           /\ \A c \in Bookings : c # b =>
                  booking'[c] = booking[c] /\ pc'[c] = pc[c] /\ mem'[c] = mem[c]
           /\ booking[b].state = None /\ pc'[b] = "locked"
<1>0. /\ pc \in [Bookings -> Labels] /\ booking \in [Bookings -> BookingRow]
      /\ mem \in [Bookings -> [Seats -> Row]] /\ \A s \in Seats : seat[s] \in Row
    BY SagaInvParts DEF RowsInv, ControlInv, HoldTypeOK
<1> DEFINE S == SeatsForHolds(b, H)
<1>1. S \in SUBSET Seats /\ \A s \in S : seat[s].held_by = BookedBy[b]
    BY DEF SeatsForHolds
<1>2. /\ booking' = [booking EXCEPT ![b] = [state |-> "PENDING", seats |-> S, card |-> card]]
      /\ seat' = [s \in Seats |-> IF s \in S THEN Pin(seat[s], b) ELSE seat[s]]
      /\ mem' = [mem EXCEPT ![b] = [s \in Seats |-> IF s \in S THEN seat'[s] ELSE AvailableRow]]
      /\ Goto(b, "locked") /\ pc[b] = "new"
    BY DEF LockSeats
<1> HIDE DEF S
<1>3. booking'[b].seats = S /\ \A c \in Bookings : c # b => booking'[c] = booking[c]
    BY <1>0, <1>2
<1>4. /\ \A s \in Seats : s \in S => mem'[b][s] = seat'[s]
      /\ \A c \in Bookings : c # b => mem'[c] = mem[c]
    BY <1>0, <1>2
<1>5. /\ \A s \in Seats : s \notin S => seat'[s] = seat[s]
      /\ \A s \in S : seat'[s] = Pin(seat[s], b)
    BY <1>1, <1>2
<1>6. \A s \in S : /\ seat'[s].booking_id = b /\ seat'[s].held_by = BookedBy[b]
                   /\ seat'[s].hold_id = seat[s].hold_id
    <2> SUFFICES ASSUME NEW s \in S
                 PROVE  /\ seat'[s].booking_id = b /\ seat'[s].held_by = BookedBy[b]
                        /\ seat'[s].hold_id = seat[s].hold_id
        OBVIOUS
    <2>1. seat[s] \in Row /\ seat[s].held_by = BookedBy[b] /\ seat'[s] = Pin(seat[s], b)
        BY <1>0, <1>1, <1>5
    <2> QED
        BY <2>1, PinnedRow
<1>7. pc'[b] = "locked" /\ \A c \in Bookings : c # b => pc'[c] = pc[c]
    BY <1>0, <1>2 DEF Goto
<1>8. booking[b].state = None
    BY <1>2, StateAtLabel
<1> QED
    BY <1>1, <1>3, <1>4, <1>5, <1>6, <1>7, <1>8

\* Nothing but step 1 changes what the session's objects say.
LEMMA MemStep == SagaInv /\ MemSaysOurs /\ [Next]_vars => MemSaysOurs'
<1> SUFFICES ASSUME SagaInv, MemSaysOurs, [Next]_vars PROVE MemSaysOurs'
    OBVIOUS
<1>1. CASE UNCHANGED <<booking, mem>>
    BY <1>1 DEF MemSaysOurs, StillOurs
<1>2. ASSUME NEW b \in Bookings, UNCHANGED mem,
             \A c \in Bookings : booking'[c].seats = booking[c].seats,
             \A c \in Bookings : c # b => booking'[c].state = booking[c].state,
             booking[b].state # None
      PROVE  MemSaysOurs'
    BY <1>2 DEF MemSaysOurs, StillOurs
<1>3. ASSUME NEW b \in Bookings, NEW H, NEW card, LockSeats(b, H, card) PROVE MemSaysOurs'
    BY <1>3, LockPins DEF MemSaysOurs, StillOurs
<1>4. ASSUME NEW b \in Bookings,
             \/ QuietStep(b) \/ FailPayment(b) \/ IssueTickets(b)
             \/ FinishCompensation(b) \/ EscalateCompensation(b)
      PROVE  MemSaysOurs'
    BY <1>2, <1>4, EndingPins, IssuePins DEF QuietStep
<1> QED
    BY <1>1, <1>3, <1>4, StepKinds DEF sagaVars, vars, RejectCheckout

LEMMA MemSaysOursHolds == Spec => []MemSaysOurs
<1>1. Init => MemSaysOurs
    BY DEF Init, NoBooking, MemSaysOurs
<1> QED
    BY <1>1, MemStep, SagaInvHolds, PTL DEF Spec

\* The re-check under the row locks never finds a seat lost, whoever released,
\* swept, took or bought it while the payment was under way: run() compares what
\* it wrote in step 1 with itself.
THEOREM RecheckNeverRefusesThm == Spec => []RecheckNeverRefuses
<1>1. SagaInv /\ MemSaysOurs => RecheckNeverRefuses
    <2> SUFFICES ASSUME SagaInv, MemSaysOurs, NEW b \in Bookings, pc[b] = "authorized"
                 PROVE  LostSeats(b) = {}
        BY DEF RecheckNeverRefuses
    <2>1. booking[b].state # None
        BY StateAtLabel, SagaAssumption DEF BookingState
    <2> QED
        BY <2>1 DEF MemSaysOurs, LostSeats
<1> QED
    BY <1>1, SagaInvHolds, MemSaysOursHolds, PTL

\* Every change of state run() commits is an arrow of the diagram: none of its
\* assertions raises, and _compensate, which does not assert, needs none.
THEOREM TransitionsAreLegalThm == Spec => TransitionsAreLegal
<1> DEFINE Legal == \A b \in Bookings :
                        LET from == booking[b].state
                            to   == booking'[b].state
                        IN  from \notin {None, to} => CanTransition(from, to)
<1>1. SagaInv /\ [Next]_vars => Legal
    <2> SUFFICES ASSUME SagaInv, [Next]_vars PROVE Legal
        OBVIOUS
    <2>0. booking \in [Bookings -> BookingRow]
        BY SagaInvParts DEF RowsInv
    <2>1. CASE UNCHANGED booking
        BY <2>1
    <2>2. ASSUME NEW b \in Bookings, NEW st \in BookingState, SetState(b, st),
                 CanTransition(booking[b].state, st)
          PROVE  Legal
        BY <2>0, <2>2, SetStateEffect
    <2>3. ASSUME NEW b \in Bookings, NEW H, NEW card, LockSeats(b, H, card) PROVE Legal
        BY <2>3, LockPins
    <2>4. ASSUME NEW b \in Bookings,
                 \/ FailPayment(b) \/ AcceptPayment(b) \/ IssueTickets(b) \/ TicketingFails(b)
                 \/ FinishCompensation(b) \/ EscalateCompensation(b) \/ Confirm(b)
          PROVE  \E st \in BookingState : SetState(b, st) /\ CanTransition(booking[b].state, st)
        BY <2>4, StateAtLabel
        DEF FailPayment, AcceptPayment, IssueTickets, ReadyToIssue, TicketingFails, FinishCompensation,
            EscalateCompensation, Confirm, CanTransition, ALLOWED_TRANSITIONS, BookingState
    <2> HIDE DEF Legal
    <2>5. ASSUME NEW b \in Bookings, PostBooking(b) PROVE Legal
        BY <2>1, <2>3, <2>5 DEF PostBooking, RejectCheckout
    <2>6. ASSUME NEW b \in Bookings, SagaStep(b) PROVE Legal
        BY <2>1, <2>2, <2>4, <2>6
        DEF SagaStep, BlockPayment, ReadPins, StartCharge, CallAuthorize, TimeOutAuthorize,
            RecordUnknown, DeclinePayment, UnpinConflict, IssueConflict, CallVoid, VoidFails,
            CallCapture, CaptureFails
    <2>7. ASSUME NEW b \in Bookings, Crash(b) PROVE Legal
        BY <2>1, <2>7 DEF Crash
    <2> QED
        BY <2>1, <2>5, <2>6, <2>7 DEF Next, vars, sagaVars
<1>2. SagaInv /\ [Next]_vars => [Legal]_vars
    BY <1>1
<1> QED
    BY <1>2, SagaInvHolds, PTL DEF Spec, TransitionsAreLegal

-----------------------------------------------------------------------------
(***************************************************************************)
(* Undisturbed checkouts: pins and tickets                                 *)
(***************************************************************************)

\* Hold requests and the sweep keep a pin with the holder's name or without one.
LEMMA HoldStepKeepsHome ==
    ASSUME HoldTypeOK, HoldNext, NEW s \in Seats
    PROVE  \/ seat'[s].booking_id = None
           \/ seat'[s].booking_id = seat[s].booking_id /\ seat'[s].held_by \in {seat[s].held_by, None}
<1>0. seat \in [Seats -> Row] /\ seat[s] \in Row
    BY DEF HoldTypeOK
<1>1. ASSUME NEW h \in HoldIds, TakeSeat(h)
      PROVE  seat'[s] = seat[s] \/ seat'[s].booking_id = None
    <2>1. seat'[s] = seat[s] \/ seat'[s] = HeldRow(h)
        BY <1>0, <1>1 DEF TakeSeat
    <2> QED
        BY <2>1 DEF HeldRow
<1>2. ASSUME seat'[s] = seat[s] \/ seat'[s] = ClearHold(seat[s])
      PROVE  seat'[s].booking_id = seat[s].booking_id /\ seat'[s].held_by \in {seat[s].held_by, None}
    BY <1>0, <1>2, ClearHoldRow
<1>3. ASSUME NEW h \in HoldIds, ReleaseHold(h)
      PROVE  seat'[s] = seat[s] \/ seat'[s] = ClearHold(seat[s])
    BY <1>3 DEF ReleaseHold
<1>4. Sweep => seat'[s] = seat[s] \/ seat'[s] = ClearHold(seat[s])
    BY DEF Sweep
<1> QED
    BY <1>1, <1>2, <1>3, <1>4 DEF HoldNext, HoldStep, CountHolds, TooManyHolds, LoseSeat, Tick

\* A seat taken over gets another hold id; otherwise it keeps its pin.
LEMMA HoldStepKeepsPinOrChangesId ==
    ASSUME HoldTypeOK, HoldRowsSound, HoldNext, NEW s \in Seats
    PROVE  seat'[s].booking_id = seat[s].booking_id \/ seat'[s].hold_id # seat[s].hold_id
<1>0. seat \in [Seats -> Row] /\ seat[s] \in Row
    BY DEF HoldTypeOK
<1>1. ASSUME NEW h \in HoldIds, TakeSeat(h)
      PROVE  seat'[s] = seat[s] \/ seat'[s].hold_id # seat[s].hold_id
    <2>1. seat'[s] = seat[s] \/ seat'[s] = HeldRow(h)
        BY <1>0, <1>1 DEF TakeSeat
    <2>2. seat[s].hold_id # h
        BY <1>1 DEF TakeSeat, HoldRowsSound, HoldIdNamesOneSeat
    <2> QED
        BY <2>1, <2>2 DEF HeldRow
<1>2. ASSUME seat'[s] = seat[s] \/ seat'[s] = ClearHold(seat[s])
      PROVE  seat'[s].booking_id = seat[s].booking_id
    BY <1>0, <1>2, ClearHoldRow
<1>3. ASSUME NEW h \in HoldIds, ReleaseHold(h)
      PROVE  seat'[s] = seat[s] \/ seat'[s] = ClearHold(seat[s])
    BY <1>3 DEF ReleaseHold
<1>4. Sweep => seat'[s] = seat[s] \/ seat'[s] = ClearHold(seat[s])
    BY DEF Sweep
<1> QED
    BY <1>1, <1>2, <1>3, <1>4 DEF HoldNext, HoldStep, CountHolds, TooManyHolds, LoseSeat, Tick

\* _fail_payment at its commit has read only seats of its own passengers.
PinsReadAtHome == \A b \in Bookings : pc[b] = "failing" => pins[b] \subseteq booking[b].seats

RowsPointHome ==
    \A s \in Seats : \A b \in Bookings :
        seat[s].booking_id = b => s \in booking[b].seats /\ seat[s].held_by \in {BookedBy[b], None}

LEMMA RowsHomeStep == SagaInv /\ RowsPointHome /\ [Next]_vars => RowsPointHome'
<1> SUFFICES ASSUME SagaInv, RowsPointHome, [Next]_vars PROVE RowsPointHome'
    OBVIOUS
<1>1. ASSUME \A c \in Bookings : booking'[c].seats = booking[c].seats,
             \A s \in Seats :
                 \/ seat'[s].booking_id = None
                 \/ /\ seat'[s].booking_id = seat[s].booking_id
                    /\ seat'[s].held_by \in {seat[s].held_by, None}
      PROVE  RowsPointHome'
    BY <1>1, NoneAssumption DEF RowsPointHome
<1>2. CASE HoldNext /\ UNCHANGED <<gw, sagaVars>>
    BY <1>1, <1>2, HoldStepKeepsHome DEF sagaVars, SagaInv, SagaTypeOK
<1>3. ASSUME NEW b \in Bookings, NEW H, NEW card, LockSeats(b, H, card) PROVE RowsPointHome'
    <2>1. \A s \in Seats : seat[s].booking_id # b
        BY <1>3, LockPins DEF SagaInv, NoPinToDeadBooking
    <2> QED
        BY <1>3, <2>1, LockPins DEF RowsPointHome
<1>4. ASSUME NEW b \in Bookings,
             \/ QuietStep(b) \/ FailPayment(b) \/ IssueTickets(b)
             \/ FinishCompensation(b) \/ EscalateCompensation(b)
      PROVE  RowsPointHome'
    BY <1>1, <1>4, EndingPins, IssuePins DEF QuietStep
<1>5. CASE UNCHANGED <<seat, booking>>
    BY <1>5 DEF RowsPointHome
<1> QED
    BY <1>2, <1>3, <1>4, <1>5, StepKinds DEF vars, RejectCheckout, holdVars

\* Only ReadPins enters _fail_payment, and it reads rows that point home.
LEMMA PinsReadStep ==
    SagaInv /\ RowsPointHome /\ PinsReadAtHome /\ [Next]_vars => PinsReadAtHome'
<1> SUFFICES ASSUME SagaInv, RowsPointHome, PinsReadAtHome, [Next]_vars PROVE PinsReadAtHome'
    OBVIOUS
<1>0. /\ pc \in [Bookings -> Labels] /\ booking \in [Bookings -> BookingRow]
      /\ pins \in [Bookings -> SUBSET Seats]
    BY SagaInvParts DEF RowsInv, ControlInv
<1>1. CASE UNCHANGED <<booking, pc, pins>>
    BY <1>1 DEF PinsReadAtHome
<1>2. ASSUME NEW b \in Bookings, NEW l, Goto(b, l), l # "failing", UNCHANGED pins,
             \A c \in Bookings : c # b => booking'[c] = booking[c]
      PROVE  PinsReadAtHome'
    <2>1. pc'[b] = l /\ \A c \in Bookings : c # b => pc'[c] = pc[c]
        BY <1>0, <1>2 DEF Goto
    <2> QED
        BY <1>2, <2>1 DEF PinsReadAtHome
<1>3. ASSUME NEW b \in Bookings, BlockPayment(b) \/ DeclinePayment(b) PROVE PinsReadAtHome'
    <2>1. /\ UNCHANGED booking
          /\ pins' = [pins EXCEPT ![b] = {s \in Seats : seat[s].booking_id = b}]
          /\ Goto(b, "failing")
        BY <1>3 DEF BlockPayment, DeclinePayment, ReadPins
    <2>2. \A c \in Bookings : c # b => pc'[c] = pc[c] /\ pins'[c] = pins[c]
        BY <1>0, <2>1 DEF Goto
    <2>3. pins'[b] = {s \in Seats : seat[s].booking_id = b}
        BY <1>0, <2>1
    <2>4. pins'[b] \subseteq booking[b].seats
        BY <2>3 DEF RowsPointHome
    <2> QED
        BY <2>1, <2>2, <2>4 DEF PinsReadAtHome
<1>4. ASSUME NEW b \in Bookings,
             \/ StartCharge(b) \/ CallAuthorize(b) \/ TimeOutAuthorize(b) \/ RecordUnknown(b)
             \/ UnpinConflict(b) \/ IssueConflict(b) \/ CallVoid(b) \/ VoidFails(b)
             \/ CallCapture(b) \/ CaptureFails(b) \/ Crash(b) \/ \E H : RejectCheckout(b, H)
      PROVE  PinsReadAtHome'
    <2>1. UNCHANGED <<booking, pins>> /\ \E l : l # "failing" /\ Goto(b, l)
        BY <1>4
        DEF StartCharge, CallAuthorize, TimeOutAuthorize, RecordUnknown, UnpinConflict,
            IssueConflict, CallVoid, VoidFails, CallCapture, CaptureFails, Crash, RejectCheckout,
            AuthResult
    <2> QED
        BY <1>2, <2>1
<1>5. ASSUME NEW b \in Bookings,
             \/ FailPayment(b) \/ AcceptPayment(b) \/ IssueTickets(b) \/ TicketingFails(b)
             \/ FinishCompensation(b) \/ EscalateCompensation(b) \/ Confirm(b)
      PROVE  PinsReadAtHome'
    <2>1. /\ UNCHANGED pins /\ \E l : l # "failing" /\ Goto(b, l)
          /\ \E st \in BookingState : SetState(b, st)
        BY <1>5
        DEF FailPayment, AcceptPayment, IssueTickets, TicketingFails, FinishCompensation,
            EscalateCompensation, Confirm, BookingState
    <2>2. \A c \in Bookings : c # b => booking'[c] = booking[c]
        BY <1>0, <2>1, SetStateEffect
    <2> QED
        BY <1>2, <2>1, <2>2
<1>6. ASSUME NEW b \in Bookings, NEW H, NEW card, LockSeats(b, H, card) PROVE PinsReadAtHome'
    <2>1. Goto(b, "locked") /\ UNCHANGED pins
        BY <1>6 DEF LockSeats
    <2> QED
        BY <1>2, <1>6, <2>1, LockPins
<1>7. ASSUME NEW b \in Bookings, PostBooking(b) \/ SagaStep(b) \/ Crash(b) PROVE PinsReadAtHome'
    BY <1>3, <1>4, <1>5, <1>6, <1>7 DEF PostBooking, SagaStep
<1> QED
    BY <1>1, <1>7 DEF Next, vars, sagaVars

\* Rows point home in every reachable state, disturbed or not.
LEMMA PinsPointHomeHolds == Spec => []PinsPointHome
<1>1. Init => RowsPointHome /\ PinsReadAtHome
    BY NoneAssumption DEF Init, HoldInit, AvailableRow, RowsPointHome, PinsReadAtHome
<1>2. RowsPointHome /\ PinsReadAtHome => PinsPointHome
    BY DEF RowsPointHome, PinsReadAtHome, PinsPointHome
<1> QED
    BY <1>1, <1>2, RowsHomeStep, PinsReadStep, SagaInvHolds, PTL DEF Spec

\* Between two undisturbed states, nobody unpins a seat of a checkout that has
\* not sold it yet.
LEMMA PinsKeptStep ==
    SagaInv /\ PinsPointHome /\ PinsKept /\ Undisturbed /\ Undisturbed' /\ [Next]_vars => PinsKept'
<1> SUFFICES ASSUME SagaInv, PinsPointHome, PinsKept, Undisturbed, Undisturbed', [Next]_vars,
                    NEW b \in Bookings, NEW s \in booking'[b].seats, pc'[b] \in BeforeTickets
             PROVE  seat'[s].booking_id = b
    BY DEF PinsKept
<1>0. /\ booking \in [Bookings -> BookingRow]
      /\ \A c \in Bookings : booking[c].seats \in SUBSET Seats
    BY SagaInvParts DEF RowsInv, BookingRow
<1>1. CASE HoldNext /\ UNCHANGED <<gw, sagaVars>>
    <2>1. s \in booking[b].seats /\ pc[b] \in BeforeTickets /\ mem'[b][s] = mem[b][s]
        BY <1>1 DEF sagaVars
    <2>2. seat[s].booking_id = b /\ s \in Seats
        BY <1>0, <2>1 DEF PinsKept
    <2>3. seat[s].hold_id = mem[b][s].hold_id /\ seat'[s].hold_id = mem'[b][s].hold_id
        BY <2>1 DEF Undisturbed
    <2> QED
        BY <1>1, <2>1, <2>2, <2>3, HoldStepKeepsPinOrChangesId DEF SagaInv, SagaTypeOK
<1>2. ASSUME NEW c \in Bookings, NEW H, NEW card, LockSeats(c, H, card)
      PROVE  seat'[s].booking_id = b
    <2>1. CASE c = b
        BY <1>2, <2>1, LockPins
    <2>2. CASE c # b
        <3>1. /\ booking'[b] = booking[b] /\ pc'[b] = pc[b] /\ pc'[c] = "locked"
              /\ \A t \in Seats : t \notin booking'[c].seats => seat'[t] = seat[t]
            BY <1>2, <2>2, LockPins
        <3>2. s \notin booking'[c].seats
            BY <2>2, <3>1 DEF Undisturbed, BeforeTickets
        <3>3. s \in Seats /\ seat[s].booking_id = b
            BY <1>0, <3>1 DEF PinsKept
        <3> QED
            BY <3>1, <3>2, <3>3
    <2> QED
        BY <2>1, <2>2
<1>3. ASSUME NEW c \in Bookings, c # b,
             booking'[b].seats = booking[b].seats, pc'[b] = pc[b]
      PROVE  s \in Seats /\ seat[s].booking_id = b /\ s \in booking[b].seats
             /\ (pc[c] \in BeforeTickets => s \notin booking[c].seats)
    BY <1>0, <1>3 DEF PinsKept, Undisturbed
<1>4. ASSUME NEW c \in Bookings, FailPayment(c) PROVE seat'[s].booking_id = b
    <2>1. c # b /\ pc'[b] = pc[b] /\ booking'[b].seats = booking[b].seats
        BY <1>4, EndingPins
    <2>2. s \notin pins[c]
        BY <1>3, <1>4, <2>1 DEF FailPayment, PinsPointHome, BeforeTickets
    <2> QED
        BY <1>3, <1>4, <2>1, <2>2 DEF FailPayment
<1>5. ASSUME NEW c \in Bookings, FinishCompensation(c) \/ EscalateCompensation(c)
      PROVE  seat'[s].booking_id = b
    <2>1. c # b /\ pc'[b] = pc[b] /\ booking'[b].seats = booking[b].seats
        BY <1>5, EndingPins
    <2> QED
        BY <1>3, <1>5, <2>1 DEF FinishCompensation, EscalateCompensation, ReleaseSeatsForBooking
<1>6. ASSUME NEW c \in Bookings, IssueTickets(c) PROVE seat'[s].booking_id = b
    <2>1. c # b /\ pc'[b] = pc[b] /\ booking'[b].seats = booking[b].seats
        BY <1>6, IssuePins
    <2> QED
        BY <1>3, <1>6, <2>1, IssuePins
<1>7. ASSUME NEW c \in Bookings, QuietStep(c) PROVE seat'[s].booking_id = b
    BY <1>7 DEF QuietStep, PinsKept
<1>8. CASE UNCHANGED <<seat, booking, pc>>
    BY <1>8 DEF PinsKept
<1>9. ASSUME NEW c \in Bookings, NEW H, RejectCheckout(c, H) PROVE seat'[s].booking_id = b
    <2>1. UNCHANGED <<seat, booking>> /\ Goto(c, "rejected")
        BY <1>9 DEF RejectCheckout, holdVars
    <2>2. pc[b] \in BeforeTickets
        BY <2>1 DEF Goto, BeforeTickets, SagaInv, SagaTypeOK
    <2> QED
        BY <2>1, <2>2 DEF PinsKept
<1> QED
    BY <1>1, <1>2, <1>4, <1>5, <1>6, <1>7, <1>8, <1>9, StepKinds DEF vars

\* Holds, releases and the sweep never write a booked row.
LEMMA HoldStepKeepsBooked ==
    ASSUME HoldTypeOK, HoldRowsSound, HoldNext, NEW s \in Seats, seat[s].status = "booked"
    PROVE  seat'[s] = seat[s]
<1>0. seat \in [Seats -> Row]
    BY DEF HoldTypeOK
<1>1. ASSUME NEW h \in HoldIds, TakeSeat(h)
      PROVE  seat'[s] = seat[s]
    <2>1. hreq[h].seat # s
        BY <1>1 DEF TakeSeat, Takeable
    <2> QED
        BY <1>0, <1>1, <2>1 DEF TakeSeat
<1>2. ASSUME NEW h \in HoldIds, ReleaseHold(h)
      PROVE  seat'[s] = seat[s]
    BY <1>2 DEF ReleaseHold
<1>3. Sweep => seat'[s] = seat[s]
    BY DEF Sweep, Sweepable
<1> QED
    BY <1>1, <1>2, <1>3 DEF HoldNext, HoldStep, CountHolds, TooManyHolds, LoseSeat, Tick

\* No checkout rewrites a row that a live ticket of another booking backs.
LEMMA BackedSeatsKept ==
    ASSUME SagaInv, LiveTicketBacksSeat, NEW b \in Bookings, NEW H,
           \/ FailPayment(b) \/ FinishCompensation(b) \/ EscalateCompensation(b)
           \/ \E card : LockSeats(b, H, card),
           NEW c \in Bookings, NEW s \in live[c], c # b
    PROVE  seat'[s] = seat[s]
<1>1. s \in Seats /\ seat[s].status = "booked" /\ seat[s].booking_id = c
    BY DEF SagaInv, SagaTypeOK, LiveTicketBacksSeat
<1>2. CASE FailPayment(b)
    BY <1>1, <1>2 DEF FailPayment, UnpinRefused
<1>3. CASE FinishCompensation(b) \/ EscalateCompensation(b)
    BY <1>1, <1>3 DEF FinishCompensation, EscalateCompensation, ReleaseSeatsForBooking
<1>4. CASE \E card : LockSeats(b, H, card)
    BY <1>1, <1>4 DEF LockSeats, CheckoutAllowed
<1> QED
    BY <1>2, <1>3, <1>4

\* A booking has live tickets only while it is sold.
LEMMA UnsoldHasNoTicket ==
    ASSUME SagaInv, NEW b \in Bookings,
           pc[b] \in {"new", "failing", "authorized", "reversed", "unreversed"}
    PROVE  live[b] = {}
<1>1. ~ Sold(b)
    BY StateAtLabel, SagaAssumption DEF Sold, BookingState
<1> QED
    BY <1>1 DEF SagaInv, TicketsMatchState

\* The rows an undisturbed _issue_tickets writes are pinned to its booking, name
\* no other holder and carry no live ticket: the flush is not refused.
LEMMA SeatsToIssueAreOurs ==
    ASSUME SagaInv, LiveTicketBacksSeat, PinsPointHome, PinsKept, NEW b \in Bookings, ReadyToIssue(b)
    PROVE  /\ \A s \in booking[b].seats :
                 /\ s \in Seats /\ seat[s].booking_id = b /\ seat[s].held_by \in {BookedBy[b], None}
                 /\ \A c \in Bookings : s \notin live[c]
           /\ ~ FlushRefused(b)
<1>1. \A s \in booking[b].seats :
          s \in Seats /\ seat[s].booking_id = b /\ seat[s].held_by \in {BookedBy[b], None}
    BY DEF ReadyToIssue, BeforeTickets, PinsKept, PinsPointHome, SagaInv, SagaTypeOK
<1>2. live[b] = {}
    BY UnsoldHasNoTicket DEF ReadyToIssue
<1>3. \A s \in booking[b].seats : \A c \in Bookings : s \notin live[c]
    BY <1>1, <1>2 DEF LiveTicketBacksSeat
<1>4. b # None
    BY NoneAssumption
<1> QED
    BY <1>1, <1>3, <1>4 DEF FlushRefused

\* No step of undisturbed checkouts, of holds or of the sweep parts a live
\* ticket from its seat.
LEMMA BackingStep ==
    SagaInv /\ PinsPointHome /\ PinsKept /\ LiveTicketBacksSeat /\ [Next]_vars => LiveTicketBacksSeat'
<1> SUFFICES ASSUME SagaInv, PinsPointHome, PinsKept, LiveTicketBacksSeat, [Next]_vars
             PROVE  LiveTicketBacksSeat'
    OBVIOUS
<1>0. /\ live \in [Bookings -> SUBSET Seats]
      /\ \A s \in Seats : seat[s] \in Row
    BY DEF SagaInv, SagaTypeOK, HoldTypeOK
<1>1. CASE HoldNext /\ UNCHANGED <<gw, sagaVars>>
    <2>1. \A c \in Bookings : \A s \in live[c] : seat'[s] = seat[s]
        BY <1>0, <1>1, HoldStepKeepsBooked DEF SagaInv, SagaTypeOK, LiveTicketBacksSeat
    <2> QED
        BY <1>1, <2>1 DEF LiveTicketBacksSeat, sagaVars
<1>2. ASSUME UNCHANGED <<seat, live>> PROVE LiveTicketBacksSeat'
    BY <1>2 DEF LiveTicketBacksSeat
<1>3. ASSUME NEW b \in Bookings, NEW H,
             \/ FailPayment(b) \/ FinishCompensation(b) \/ EscalateCompensation(b)
             \/ \E card : LockSeats(b, H, card)
      PROVE  LiveTicketBacksSeat'
    <2>1. pc[b] \in {"new", "failing", "reversed", "unreversed"}
        BY <1>3 DEF FailPayment, FinishCompensation, EscalateCompensation, LockSeats
    <2>2. live[b] = {}
        BY <2>1, UnsoldHasNoTicket
    <2>3. live' = live
        BY <1>0, <1>3, <2>2
        DEF FailPayment, FinishCompensation, EscalateCompensation, LockSeats, ReleaseSeatsForBooking
    <2>4. \A c \in Bookings : \A s \in live[c] : seat'[s] = seat[s]
        BY <1>3, <2>2, BackedSeatsKept
    <2> QED
        BY <2>3, <2>4 DEF LiveTicketBacksSeat
<1>4. ASSUME NEW b \in Bookings, IssueTickets(b) PROVE LiveTicketBacksSeat'
    <2> DEFINE S == booking[b].seats
    <2>1. \A s \in S : s \in Seats /\ seat[s].booking_id = b /\ \A c \in Bookings : s \notin live[c]
        BY <1>4, SeatsToIssueAreOurs DEF IssueTickets
    <2>2. /\ live' = [live EXCEPT ![b] = S]
          /\ seat' = [s \in Seats |-> IF s \in S THEN Book(seat[s]) ELSE seat[s]]
        BY <1>4 DEF IssueTickets
    <2>3. live[b] = {}
        BY <1>4, UnsoldHasNoTicket DEF IssueTickets, ReadyToIssue
    <2>4. \A s \in S : seat'[s].status = "booked" /\ seat'[s].booking_id = b
        <3>1. \A s \in S : seat'[s] = Book(seat[s])
            BY <2>1, <2>2
        <3> QED
            BY <1>0, <2>1, <3>1, BookedRow
    <2>5. \A c \in Bookings : c # b => \A s \in live[c] : seat'[s] = seat[s]
        BY <1>0, <2>1, <2>2
    <2> HIDE DEF S
    <2> QED
        BY <1>0, <2>2, <2>4, <2>5 DEF LiveTicketBacksSeat
<1>5. ASSUME NEW b \in Bookings, PostBooking(b) PROVE LiveTicketBacksSeat'
    BY <1>2, <1>3, <1>5 DEF PostBooking, RejectCheckout, holdVars
<1>6. ASSUME NEW b \in Bookings, SagaStep(b) PROVE LiveTicketBacksSeat'
    BY <1>2, <1>3, <1>4, <1>6
    DEF SagaStep, holdVars, BlockPayment, ReadPins, StartCharge, CallAuthorize, TimeOutAuthorize,
        RecordUnknown, DeclinePayment, UnpinConflict, AcceptPayment, IssueConflict,
        TicketingFails, CallVoid, VoidFails, CallCapture, CaptureFails, Confirm
<1>7. ASSUME NEW b \in Bookings, Crash(b) PROVE LiveTicketBacksSeat'
    BY <1>2, <1>7 DEF Crash, holdVars
<1>8. UNCHANGED vars => UNCHANGED <<seat, live>>
    BY DEF vars
<1> QED
    BY <1>1, <1>2, <1>5, <1>6, <1>7, <1>8 DEF Next

\* The first state has no ticket.
LEMMA BackingInit == Init => LiveTicketBacksSeat
BY DEF Init, LiveTicketBacksSeat

\* As long as no hold under a checkout is released or taken over and no two
\* checkouts share a seat, the seat of a live ticket is booked for the ticket's
\* booking, for any number of checkouts, lapsed holds, gateway faults and crashes.
THEOREM UndisturbedTicketsBackedThm == Spec => UndisturbedTicketsBacked
<1>1. Init => PinsKept
    BY DEF Init, NoBooking, PinsKept
<1> QED
    BY <1>1, PinsKeptStep, BackingStep, SagaInvHolds, PinsPointHomeHolds, BackingInit, PTL
    DEF Spec, UndisturbedTicketsBacked

-----------------------------------------------------------------------------
(***************************************************************************)
(* Undisturbed checkouts: charges                                          *)
(***************************************************************************)

\* A step of one checkout that leaves the others' keys and rows alone.
LEMMA OwnStepKeepsErrors ==
    ASSUME SagaInv, ErrorsExplained, KeysAreOwn, NEW b \in Bookings, NEW l, Goto(b, l),
           \A k \in Keys : k # KeyOf[b] => SameBooks(k),
           \A c \in Bookings : c # b =>
               booking'[c].state = booking[c].state /\ payment'[c] = payment[c],
           l = "retrying" => payment'[b] = "UNKNOWN",
           l = "error" /\ gw'.authorizations[KeyOf[b]] = "approved" =>
               booking'[b].state = "TICKETED" \/ payment'[b] = "UNKNOWN"
    PROVE  ErrorsExplained'
<1>1. pc'[b] = l /\ \A c \in Bookings : c # b => pc'[c] = pc[c]
    BY DEF Goto, SagaInv, SagaTypeOK
<1>2. ASSUME NEW c \in Bookings, pc'[c] = "retrying" PROVE payment'[c] = "UNKNOWN"
    BY <1>1, <1>2 DEF ErrorsExplained
<1>3. ASSUME NEW c \in Bookings, pc'[c] = "error", gw'.authorizations[KeyOf[c]] = "approved"
      PROVE  booking'[c].state = "TICKETED" \/ payment'[c] = "UNKNOWN"
    <2>1. CASE c # b
        <3>1. KeyOf[c] \in Keys /\ KeyOf[c] # KeyOf[b]
            BY <2>1, SagaAssumption DEF KeysAreOwn
        <3> QED
            BY <1>1, <1>3, <2>1, <3>1 DEF ErrorsExplained, SameBooks
    <2> QED
        BY <1>1, <1>3, <2>1
<1> QED
    BY <1>2, <1>3 DEF ErrorsExplained

\* Of the ways out of run() by an exception, each leaves no authorization, a
\* TICKETED booking or an UNKNOWN payment.
LEMMA ErrorStep ==
    ASSUME KeysAreOwn, SagaInv, MoneyInv, PinsPointHome, PinsKept, LiveTicketBacksSeat,
           ErrorsExplained, [Next]_vars
    PROVE  ErrorsExplained'
<1>0. booking \in [Bookings -> BookingRow] /\ payment \in [Bookings -> PaymentState \cup {None}]
    BY SagaInvParts DEF RowsInv
<1>1. CASE UNCHANGED <<gw, sagaVars>>
    BY <1>1 DEF sagaVars, ErrorsExplained
<1>2. ASSUME NEW b \in Bookings, NEW l, Goto(b, l), l \notin {"error", "retrying"}, UNCHANGED gw,
             \A c \in Bookings : c # b =>
                 booking'[c].state = booking[c].state /\ payment'[c] = payment[c]
      PROVE  ErrorsExplained'
    BY <1>2, OwnStepKeepsErrors DEF SameBooks
<1>3. ASSUME NEW b \in Bookings, NEW l, Goto(b, l), UNCHANGED <<booking, payment>>,
             NEW trigger, NEW answer,
             \/ Authorize(KeyOf[b], trigger, answer) \/ AuthorizeTimesOut(KeyOf[b], trigger)
             \/ AuthorizeGoesSilent(KeyOf[b], trigger) \/ CaptureCharge(KeyOf[b])
             \/ CaptureRaises(KeyOf[b]) \/ VoidCharge(KeyOf[b]) \/ VoidRaises(KeyOf[b]),
             l # "retrying",
             l = "error" => booking[b].state = "TICKETED" \/ payment[b] = "UNKNOWN"
      PROVE  ErrorsExplained'
    <2>1. KeyOf[b] \in Keys /\ GwTypeOK
        BY SagaAssumption DEF SagaInv, SagaTypeOK
    <2>2. \A k \in Keys : k # KeyOf[b] => SameBooks(k)
        BY <1>3, <2>1, GatewayTouchesOneKey
    <2> QED
        BY <1>3, <2>2, OwnStepKeepsErrors
<1>4. ASSUME NEW b \in Bookings, CallAuthorize(b) PROVE ErrorsExplained'
    <2>1. PICK answer \in AuthResult :
              Authorize(KeyOf[b], booking[b].card, answer) /\ Goto(b, answer)
        BY <1>4 DEF CallAuthorize
    <2>2. answer \notin {"error", "retrying"} /\ UNCHANGED <<booking, payment>>
        BY <1>4 DEF AuthResult, CallAuthorize
    <2> QED
        BY <1>3, <2>1, <2>2
<1>5. ASSUME NEW b \in Bookings, TimeOutAuthorize(b) PROVE ErrorsExplained'
    <2>1. PICK l \in {"timed_out", "error"} : Goto(b, l) /\ (l = "error" => pc[b] = "retrying")
        BY <1>5 DEF TimeOutAuthorize
    <2>2. UNCHANGED <<booking, payment>> /\ (l = "error" => payment[b] = "UNKNOWN")
        BY <1>5, <2>1 DEF TimeOutAuthorize, ErrorsExplained
    <2>3. \/ AuthorizeTimesOut(KeyOf[b], booking[b].card)
          \/ AuthorizeGoesSilent(KeyOf[b], booking[b].card)
        BY <1>5 DEF TimeOutAuthorize
    <2> QED
        BY <1>3, <2>1, <2>2, <2>3
<1>6. ASSUME NEW b \in Bookings, CallVoid(b) \/ VoidFails(b) \/ CallCapture(b)
      PROVE  ErrorsExplained'
    BY <1>3, <1>6 DEF CallVoid, VoidFails, CallCapture
<1>7. ASSUME NEW b \in Bookings, CaptureFails(b) PROVE ErrorsExplained'
    <2>1. booking[b].state = "TICKETED"
        BY <1>7, StateAtLabel DEF CaptureFails
    <2> QED
        BY <1>3, <1>7, <2>1 DEF CaptureFails
<1>8. ASSUME NEW b \in Bookings, UnpinConflict(b) PROVE ErrorsExplained'
    <2>1. /\ UNCHANGED <<gw, booking, payment>> /\ Goto(b, "error")
          /\ gw.authorizations[KeyOf[b]] # "approved"
        BY <1>8 DEF UnpinConflict, MoneyInv, MoneyMatchesProgress
    <2> QED
        BY <2>1, OwnStepKeepsErrors DEF SameBooks
<1>9. ASSUME NEW b \in Bookings, IssueConflict(b) PROVE FALSE
    BY <1>9, SeatsToIssueAreOurs DEF IssueConflict
<1>10. ASSUME NEW b \in Bookings, RecordUnknown(b) PROVE ErrorsExplained'
    <2>1. UNCHANGED <<gw, booking>> /\ Goto(b, "retrying") /\ payment' = [payment EXCEPT ![b] = "UNKNOWN"]
        BY <1>10 DEF RecordUnknown
    <2>2. payment'[b] = "UNKNOWN" /\ \A c \in Bookings : c # b => payment'[c] = payment[c]
        BY <1>0, <2>1
    <2> QED
        BY <2>1, <2>2, OwnStepKeepsErrors DEF SameBooks
<1>11. ASSUME NEW b \in Bookings, NEW H, NEW card, RejectCheckout(b, H) \/ LockSeats(b, H, card)
       PROVE  ErrorsExplained'
    <2>1. UNCHANGED <<gw, payment>> /\ \E l : l \notin {"error", "retrying"} /\ Goto(b, l)
        BY <1>11 DEF RejectCheckout, LockSeats
    <2>2. \A c \in Bookings : c # b => booking'[c].state = booking[c].state
        BY <1>11, LockPins DEF RejectCheckout
    <2> QED
        BY <1>2, <2>1, <2>2
<1>12. ASSUME NEW b \in Bookings,
              \/ BlockPayment(b) \/ StartCharge(b) \/ DeclinePayment(b) \/ FailPayment(b)
              \/ AcceptPayment(b) \/ IssueTickets(b) \/ TicketingFails(b) \/ FinishCompensation(b)
              \/ EscalateCompensation(b) \/ Confirm(b) \/ Crash(b)
       PROVE  ErrorsExplained'
    <2>1. UNCHANGED gw /\ \E l : l \notin {"error", "retrying"} /\ Goto(b, l)
        BY <1>12
        DEF BlockPayment, ReadPins, StartCharge, DeclinePayment, FailPayment, AcceptPayment,
            IssueTickets, TicketingFails, FinishCompensation, EscalateCompensation, Confirm, Crash
    <2>2. UNCHANGED payment \/ \E st : payment' = [payment EXCEPT ![b] = st]
        BY <1>12
        DEF BlockPayment, ReadPins, StartCharge, DeclinePayment, FailPayment, AcceptPayment,
            IssueTickets, TicketingFails, FinishCompensation, EscalateCompensation, Confirm, Crash
    <2>3. UNCHANGED booking \/ \E st \in BookingState : SetState(b, st)
        BY <1>12
        DEF BlockPayment, ReadPins, StartCharge, DeclinePayment, FailPayment, AcceptPayment,
            IssueTickets, TicketingFails, FinishCompensation, EscalateCompensation, Confirm, Crash,
            BookingState
    <2>4. \A c \in Bookings : c # b =>
              booking'[c].state = booking[c].state /\ payment'[c] = payment[c]
        BY <1>0, <2>2, <2>3, SetStateEffect
    <2> QED
        BY <1>2, <2>1, <2>4
<1>13. UNCHANGED vars => UNCHANGED <<gw, sagaVars>>
    BY DEF vars, sagaVars
<1>14. ASSUME NEW b \in Bookings, PostBooking(b) \/ SagaStep(b) \/ Crash(b) PROVE ErrorsExplained'
    BY <1>4, <1>5, <1>6, <1>7, <1>8, <1>9, <1>10, <1>11, <1>12, <1>14 DEF PostBooking, SagaStep
<1> QED
    BY <1>1, <1>13, <1>14 DEF Next

\* Every way a checkout is answered accounts for the money.
LEMMA AnswersExplainCharges ==
    ASSUME SagaInv, MoneyInv, ErrorsExplained
    PROVE  ChargesExplained
<1> SUFFICES ASSUME NEW b \in Bookings, pc[b] \in Finished \ {"crashed"}, MoneyHeld(KeyOf[b])
             PROVE  \/ booking[b].state \in {"TICKETED", "CONFIRMED", "NEEDS_MANUAL_REVIEW"}
                    \/ payment[b] = "UNKNOWN"
    BY DEF ChargesExplained
<1>1. gw.authorizations[KeyOf[b]] = "approved" /\ KeyOf[b] \notin gw.voided
    BY DEF MoneyHeld
<1>2. booking[b].state \in StatesAt(pc[b])
    BY DEF SagaInv, PcMatchesState
<1>3. pc[b] \in {"payment_failed", "compensated", "confirmed", "error"}
    BY <1>1 DEF Finished, MoneyInv, MoneyMatchesProgress
<1>4. booking[b].state \notin {"PAYMENT_FAILED", "VOIDED"}
    BY <1>1 DEF MoneyInv, MoneyMatchesProgress
<1>5. CASE pc[b] = "error"
    BY <1>1, <1>5 DEF ErrorsExplained
<1> QED
    BY <1>2, <1>3, <1>4, <1>5, StatesAtTable

\* As long as checkouts are undisturbed and have gateway keys of their own, every
\* answered checkout that keeps the customer's money can say why, whatever holds
\* lapse and whichever calls of authorize, capture and void fail.
THEOREM UndisturbedChargesExplainedThm == KeysAreOwn => (Spec => UndisturbedChargesExplained)
<1> SUFFICES ASSUME KeysAreOwn PROVE Spec => UndisturbedChargesExplained
    OBVIOUS
<1>1. SagaInv /\ MoneyInv /\ [Next]_vars => MoneyInv'
    BY MoneyStep
<1>2. SagaInv /\ MoneyInv /\ PinsPointHome /\ PinsKept /\ LiveTicketBacksSeat /\ ErrorsExplained
          /\ [Next]_vars => ErrorsExplained'
    BY ErrorStep
<1>3. Init => PinsKept /\ ErrorsExplained
    BY DEF Init, NoBooking, PinsKept, ErrorsExplained
<1>4. SagaInv /\ MoneyInv /\ ErrorsExplained => ChargesExplained
    BY AnswersExplainCharges
<1> QED
    BY <1>1, <1>2, <1>3, <1>4, PinsKeptStep, BackingStep, SagaInvHolds, PinsPointHomeHolds,
       MoneyInit, BackingInit, PTL
    DEF Spec, UndisturbedChargesExplained

-----------------------------------------------------------------------------
(***************************************************************************)
(* Undisturbed checkouts implement SeatLease                               *)
(***************************************************************************)

SagaLeaseMap == [s \in Seats |-> LeaseOf(s)]

\* The lease of a seat with a live ticket, and of one without.
LEMMA LeaseReading ==
    ASSUME OneLiveTicketPerSeat, NEW s \in Seats
    PROVE  /\ \A b \in Bookings : s \in live[b] => LeaseOf(s) = [as |-> "sold", by |-> BookedBy[b]]
           /\ (\A b \in Bookings : s \notin live[b]) => LeaseOf(s) = HeldLease(seat[s])
<1>1. ASSUME NEW b \in Bookings, s \in live[b]
      PROVE  LeaseOf(s) = [as |-> "sold", by |-> BookedBy[b]]
    <2>1. \A c \in Bookings : s \in live[c] => c = b
        BY <1>1 DEF OneLiveTicketPerSeat
    <2>2. b = CHOOSE c \in Bookings : s \in live[c]
        BY <1>1, <2>1
    <2> QED
        BY <1>1, <2>2 DEF LeaseOf
<1> QED
    BY <1>1 DEF LeaseOf

LEMMA LeaseReadingNext ==
    ASSUME OneLiveTicketPerSeat', NEW s \in Seats
    PROVE  /\ \A b \in Bookings : s \in live'[b] => LeaseOf(s)' = [as |-> "sold", by |-> BookedBy[b]]
           /\ (\A b \in Bookings : s \notin live'[b]) => LeaseOf(s)' = HeldLease(seat[s])'
<1>1. ASSUME NEW b \in Bookings, s \in live'[b]
      PROVE  LeaseOf(s)' = [as |-> "sold", by |-> BookedBy[b]]
    <2>1. \A c \in Bookings : s \in live'[c] => c = b
        BY <1>1 DEF OneLiveTicketPerSeat
    <2>2. b = CHOOSE c \in Bookings : s \in live'[c]
        BY <1>1, <2>1
    <2> QED
        BY <1>1, <2>2 DEF LeaseOf
<1> QED
    BY <1>1 DEF LeaseOf

\* A step under which every seat keeps its lease or a hold ends.
LEMMA SagaEndingIsDrop ==
    ASSUME \A s \in Seats :
               \/ LeaseOf(s)' = LeaseOf(s)
               \/ LeaseOf(s).as = "held" /\ LeaseOf(s)' = SagaLease!Free
    PROVE  SagaLease!Next
<1> DEFINE S == {s \in Seats : SagaLeaseMap'[s] # SagaLeaseMap[s]}
<1>0. \A s \in Seats : SagaLeaseMap[s] = LeaseOf(s) /\ SagaLeaseMap'[s] = LeaseOf(s)'
    BY DEF SagaLeaseMap
<1>1. \A s \in S : SagaLeaseMap[s].as = "held"
    BY <1>0
<1>2. SagaLeaseMap' = [s \in Seats |-> IF s \in S THEN SagaLease!Free ELSE SagaLeaseMap[s]]
    <2>1. \A s \in Seats : SagaLeaseMap'[s] = IF s \in S THEN SagaLease!Free ELSE SagaLeaseMap[s]
        BY <1>0
    <2> QED
        BY <2>1, Zenon DEF SagaLeaseMap
<1>3. SagaLease!Drop(S)
    BY <1>1, <1>2 DEF SagaLease!Drop, SagaLeaseMap
<1> QED
    BY <1>3 DEF SagaLease!Next

\* Where the tickets stay, the leases are decided by the hold rows alone.
LEMMA SameTicketsLease ==
    ASSUME SagaInv, UNCHANGED live, NEW s \in Seats
    PROVE  \/ \E b \in Bookings : s \in live[b] /\ LeaseOf(s)' = LeaseOf(s)
                                 /\ LeaseOf(s) = [as |-> "sold", by |-> BookedBy[b]]
           \/ /\ \A b \in Bookings : s \notin live[b]
              /\ LeaseOf(s) = HeldLease(seat[s]) /\ LeaseOf(s)' = HeldLease(seat[s])'
<1>1. OneLiveTicketPerSeat /\ OneLiveTicketPerSeat'
    BY DEF SagaInv, OneLiveTicketPerSeat
<1>2. CASE \E b \in Bookings : s \in live[b]
    <2>1. PICK b \in Bookings : s \in live[b]
        BY <1>2
    <2>2. LeaseOf(s) = [as |-> "sold", by |-> BookedBy[b]]
        BY <1>1, <2>1, LeaseReading
    <2>3. LeaseOf(s)' = [as |-> "sold", by |-> BookedBy[b]]
        BY <1>1, <2>1, LeaseReadingNext
    <2> QED
        BY <2>1, <2>2, <2>3
<1>3. CASE \A b \in Bookings : s \notin live[b]
    <2>1. LeaseOf(s) = HeldLease(seat[s])
        BY <1>1, <1>3, LeaseReading
    <2>2. LeaseOf(s)' = HeldLease(seat[s])'
        BY <1>1, <1>3, LeaseReadingNext
    <2> QED
        BY <1>3, <2>1, <2>2
<1> QED
    BY <1>2, <1>3

\* Hold requests, the sweep and the clock under a running saga: what they do to
\* the hold rows' leases they do to the saga's.
LEMMA HoldStepLease ==
    ASSUME SagaInv, LiveTicketBacksSeat, HoldNext, UNCHANGED live
    PROVE  SagaLease!Next
<1>1. HoldInv
    BY DEF SagaInv, SagaTypeOK, HoldInv
<1>2. HoldLease!Next \/ LeaseMap' = LeaseMap
    BY <1>1, LeaseStep
<1>3. \A s \in Seats : LeaseMap[s] = HeldLease(seat[s]) /\ LeaseMap'[s] = HeldLease(seat[s])'
    BY DEF LeaseMap
<1>4. \A s \in Seats : /\ LeaseMap[s].as \in {"held", "free"}
                       /\ LeaseMap'[s].as \in {"held", "free"}
    <2>1. \A s \in Seats : HeldLease(seat[s]).as \in {"held", "free"}
        BY DEF HeldLease
    <2>2. \A s \in Seats : HeldLease(seat[s])'.as \in {"held", "free"}
        BY DEF HeldLease
    <2> QED
        BY <1>3, <2>1, <2>2
<1>5. ASSUME NEW s \in Seats, NEW b \in Bookings, s \in live[b]
      PROVE  LeaseMap[s].as = "free" /\ LeaseMap'[s].as = "free"
    <2>1. seat[s].status = "booked"
        BY <1>5 DEF LiveTicketBacksSeat
    <2>2. seat'[s] = seat[s]
        BY <1>1, <2>1, HoldStepKeepsBooked DEF HoldInv
    <2>3. HeldLease(seat[s]).as = "free"
        BY <2>1 DEF HeldLease
    <2>4. HeldLease(seat[s])'.as = "free"
        BY <2>1, <2>2 DEF HeldLease
    <2> QED
        BY <1>3, <2>3, <2>4
<1>6. ASSUME \A s \in Seats : \/ LeaseMap'[s] = LeaseMap[s]
                              \/ LeaseMap[s].as = "held" /\ LeaseMap'[s] = HoldLease!Free
      PROVE  SagaLease!Next
    <2>1. HoldLease!Free = SagaLease!Free
        BY DEF HoldLease!Free, SagaLease!Free
    <2>2. \A s \in Seats : \/ LeaseOf(s)' = LeaseOf(s)
                           \/ LeaseOf(s).as = "held" /\ LeaseOf(s)' = SagaLease!Free
        BY <1>3, <1>6, <2>1, SameTicketsLease
    <2> QED
        BY <2>2, SagaEndingIsDrop
<1>7. ASSUME NEW S \in SUBSET Seats, HoldLease!Drop(S) PROVE SagaLease!Next
    <2>1. /\ \A s \in S : LeaseMap[s].as = "held"
          /\ LeaseMap' = [s \in Seats |-> IF s \in S THEN HoldLease!Free ELSE LeaseMap[s]]
        BY <1>7 DEF HoldLease!Drop, LeaseMap
    <2> QED
        BY <1>6, <2>1
<1>8. ASSUME NEW S \in SUBSET Seats, NEW u \in Users, HoldLease!Sell(S, u) PROVE SagaLease!Next
    <2>1. LeaseMap' = [s \in Seats |-> IF s \in S THEN HoldLease!Sold(u) ELSE LeaseMap[s]]
        BY <1>8 DEF HoldLease!Sell, LeaseMap
    <2>2. S = {}
        BY <1>4, <2>1 DEF HoldLease!Sold
    <2> QED
        BY <1>6, <2>1, <2>2
<1>9. ASSUME NEW s0 \in Seats, NEW u \in Users, HoldLease!Take(s0, u) PROVE SagaLease!Next
    <2>1. /\ LeaseMap[s0] = HoldLease!Free
          /\ LeaseMap' = [LeaseMap EXCEPT ![s0] = HoldLease!Held(u)]
        BY <1>9 DEF HoldLease!Take, LeaseMap
    <2>2. DOMAIN LeaseMap = Seats
        BY DEF LeaseMap
    <2>3. LeaseMap'[s0] = HoldLease!Held(u) /\ \A s \in Seats : s # s0 => LeaseMap'[s] = LeaseMap[s]
        BY <2>1, <2>2
    <2>4. LeaseMap'[s0].as = "held"
        BY <2>3 DEF HoldLease!Held
    <2>5. \A b \in Bookings : s0 \notin live[b]
        BY <1>5, <2>4
    <2>6. LeaseOf(s0) = SagaLease!Free /\ LeaseOf(s0)' = SagaLease!Held(u)
        BY <1>3, <2>1, <2>3, <2>5, SameTicketsLease
        DEF HoldLease!Free, SagaLease!Free, HoldLease!Held, SagaLease!Held
    <2>7. \A s \in Seats : s # s0 => LeaseOf(s)' = LeaseOf(s)
        BY <1>3, <2>3, SameTicketsLease
    <2>8. \A s \in Seats : SagaLeaseMap'[s] = [SagaLeaseMap EXCEPT ![s0] = SagaLease!Held(u)][s]
        BY <2>6, <2>7 DEF SagaLeaseMap
    <2>9. SagaLeaseMap' = [SagaLeaseMap EXCEPT ![s0] = SagaLease!Held(u)]
        BY <2>8 DEF SagaLeaseMap
    <2>10. SagaLease!Take(s0, u)
        BY <2>6, <2>9 DEF SagaLease!Take, SagaLeaseMap
    <2> QED
        BY <2>10 DEF SagaLease!Next
<1> QED
    BY <1>2, <1>6, <1>7, <1>8, <1>9 DEF HoldLease!Next

\* Pinning and unpinning seats changes nobody's lease.
LEMMA PinningKeepsLease ==
    ASSUME SagaInv, UNCHANGED <<now, live>>,
           \A s \in Seats : seat'[s] = seat[s] \/ \E p \in Bookings \cup {None} : seat'[s] = Pin(seat[s], p)
    PROVE  SagaLeaseMap' = SagaLeaseMap
<1>1. \A s \in Seats : seat[s] \in Row
    BY DEF SagaInv, SagaTypeOK, HoldTypeOK
<1>2. \A s \in Seats : /\ seat'[s].status = seat[s].status
                       /\ seat'[s].held_by = seat[s].held_by
                       /\ seat'[s].expires = seat[s].expires
    BY <1>1, PinnedRow
<1>3. \A s \in Seats : HeldLease(seat[s])' = HeldLease(seat[s])
    BY <1>2 DEF HeldLease
<1>4. \A s \in Seats : LeaseOf(s)' = LeaseOf(s)
    BY <1>3, SameTicketsLease
<1> QED
    BY <1>4, Zenon DEF SagaLeaseMap

\* Compensation frees seats of its own booking: live holds end, no sale does.
LEMMA ReleaseIsDrop ==
    ASSUME SagaInv, LiveTicketBacksSeat, NEW b \in Bookings,
           FinishCompensation(b) \/ EscalateCompensation(b)
    PROVE  SagaLease!Next
<1>1. live[b] = {}
    BY UnsoldHasNoTicket DEF FinishCompensation, EscalateCompensation
<1>2. /\ now' = now /\ live' = [live EXCEPT ![b] = {}]
      /\ seat' = [s \in Seats |-> IF seat[s].booking_id = b THEN AvailableRow ELSE seat[s]]
    BY DEF FinishCompensation, EscalateCompensation, ReleaseSeatsForBooking
<1>3. live' = live
    BY <1>1, <1>2 DEF SagaInv, SagaTypeOK
<1>4. \A s \in Seats : seat'[s] = seat[s] \/ seat'[s].status = "available"
    BY <1>2 DEF AvailableRow
<1>5. ASSUME NEW s \in Seats
      PROVE  \/ HeldLease(seat[s])' = HeldLease(seat[s])
             \/ HeldLease(seat[s]).as = "held" /\ HeldLease(seat[s])' = SagaLease!Free
    BY <1>2, <1>4 DEF HeldLease, SagaLease!Free
<1>6. \A s \in Seats : \/ LeaseOf(s)' = LeaseOf(s)
                       \/ LeaseOf(s).as = "held" /\ LeaseOf(s)' = SagaLease!Free
    BY <1>3, <1>5, SameTicketsLease
<1> QED
    BY <1>6, SagaEndingIsDrop

\* The sale: each seat was free or held by the buyer, and all are sold together.
LEMMA IssueIsSell ==
    ASSUME SagaInv, SagaInv', LiveTicketBacksSeat, PinsPointHome, PinsKept,
           NEW b \in Bookings, IssueTickets(b)
    PROVE  SagaLease!Next
<1> DEFINE S == booking[b].seats
           u == BookedBy[b]
<1>1. /\ \A s \in S : /\ s \in Seats /\ seat[s].booking_id = b /\ seat[s].held_by \in {u, None}
                      /\ \A c \in Bookings : s \notin live[c]
      /\ u \in Users /\ S \in SUBSET Seats
    BY SeatsToIssueAreOurs, SagaAssumption DEF IssueTickets, SagaInv, SagaTypeOK
<1>2. /\ live' = [live EXCEPT ![b] = S] /\ now' = now
      /\ seat' = [s \in Seats |-> IF s \in S THEN Book(seat[s]) ELSE seat[s]]
      /\ live[b] = {}
    BY UnsoldHasNoTicket DEF IssueTickets, ReadyToIssue
<1>3. /\ live'[b] = S /\ \A c \in Bookings : c # b => live'[c] = live[c]
    BY <1>2 DEF SagaInv, SagaTypeOK
<1>4. OneLiveTicketPerSeat /\ OneLiveTicketPerSeat'
    BY DEF SagaInv
<1> HIDE DEF S, u
<1>5. \A s \in S : LeaseOf(s) \in {SagaLease!Free, SagaLease!Held(u)}
    <2>1. \A s \in S : LeaseOf(s) = HeldLease(seat[s])
        BY <1>1, <1>4, LeaseReading
    <2>2. \A s \in S : seat[s].status = "held" => seat[s].held_by = u
        BY <1>1, NoneAssumption DEF SagaInv, HoldRowsSound, HeldSeatHasHolder
    <2> QED
        BY <2>1, <2>2 DEF HeldLease, SagaLease!Free, SagaLease!Held
<1>6. \A s \in S : LeaseOf(s)' = SagaLease!Sold(u)
    BY <1>1, <1>3, <1>4, LeaseReadingNext DEF SagaLease!Sold, u
<1>7. ASSUME NEW s \in Seats, s \notin S PROVE LeaseOf(s)' = LeaseOf(s)
    <2>1. \A c \in Bookings : s \in live'[c] <=> s \in live[c]
        BY <1>2, <1>3, <1>7
    <2>2. HeldLease(seat[s])' = HeldLease(seat[s])
        BY <1>2, <1>7 DEF HeldLease
    <2>3. CASE \E c \in Bookings : s \in live[c]
        <3>1. PICK c \in Bookings : s \in live[c] /\ s \in live'[c]
            BY <2>1, <2>3
        <3>2. LeaseOf(s) = [as |-> "sold", by |-> BookedBy[c]]
            BY <1>4, <3>1, LeaseReading
        <3>3. LeaseOf(s)' = [as |-> "sold", by |-> BookedBy[c]]
            BY <1>4, <3>1, LeaseReadingNext
        <3> QED
            BY <3>2, <3>3
    <2>4. CASE \A c \in Bookings : s \notin live[c]
        <3>1. LeaseOf(s) = HeldLease(seat[s])
            BY <1>4, <2>4, LeaseReading
        <3>2. LeaseOf(s)' = HeldLease(seat[s])'
            BY <1>4, <2>1, <2>4, LeaseReadingNext
        <3> QED
            BY <2>2, <3>1, <3>2
    <2> QED
        BY <2>3, <2>4
<1>8. SagaLeaseMap' = [s \in Seats |-> IF s \in S THEN SagaLease!Sold(u) ELSE SagaLeaseMap[s]]
    <2>1. \A s \in Seats : LeaseOf(s)' = IF s \in S THEN SagaLease!Sold(u) ELSE SagaLeaseMap[s]
        BY <1>6, <1>7 DEF SagaLeaseMap
    <2> QED
        BY <2>1, Zenon DEF SagaLeaseMap
<1>9. SagaLease!Sell(S, u)
    BY <1>1, <1>5, <1>8 DEF SagaLease!Sell, SagaLeaseMap
<1> QED
    BY <1>1, <1>9 DEF SagaLease!Next

\* Every step of undisturbed checkouts and of what runs around it is a step of SeatLease or
\* changes no lease.
LEMMA SagaLeaseStep ==
    ASSUME SagaInv, SagaInv', LiveTicketBacksSeat, PinsPointHome, PinsKept, [Next]_vars
    PROVE  SagaLease!Next \/ SagaLeaseMap' = SagaLeaseMap
<1> DEFINE Goal == SagaLease!Next \/ SagaLeaseMap' = SagaLeaseMap
<1>1. CASE HoldNext /\ UNCHANGED <<gw, sagaVars>>
    BY <1>1, HoldStepLease DEF sagaVars
<1>2. ASSUME UNCHANGED <<seat, now, live>> PROVE Goal
    BY <1>2, PinningKeepsLease
<1>3. ASSUME NEW b \in Bookings, NEW H, NEW card, LockSeats(b, H, card) PROVE Goal
    <2>1. /\ UNCHANGED <<now, live>>
          /\ \A s \in Seats : seat'[s] = seat[s] \/ seat'[s] = Pin(seat[s], b)
        BY <1>3 DEF LockSeats
    <2> QED
        BY <2>1, PinningKeepsLease
<1>4. ASSUME NEW b \in Bookings, FailPayment(b) PROVE Goal
    <2>1. /\ UNCHANGED <<now, live>>
          /\ \A s \in Seats : seat'[s] = seat[s] \/ seat'[s] = Pin(seat[s], None)
        BY <1>4 DEF FailPayment
    <2> QED
        BY <2>1, PinningKeepsLease
<1>5. ASSUME NEW b \in Bookings, PostBooking(b) PROVE Goal
    BY <1>2, <1>3, <1>5 DEF PostBooking, RejectCheckout, holdVars
<1>6. ASSUME NEW b \in Bookings, SagaStep(b) PROVE Goal
    <2>1. ASSUME FinishCompensation(b) \/ EscalateCompensation(b) PROVE Goal
        BY <2>1, ReleaseIsDrop
    <2>2. ASSUME IssueTickets(b) PROVE Goal
        BY <2>2, IssueIsSell
    <2> HIDE DEF Goal
    <2> QED
        BY <1>2, <1>4, <1>6, <2>1, <2>2
        DEF SagaStep, holdVars, BlockPayment, ReadPins, StartCharge, CallAuthorize, TimeOutAuthorize,
            RecordUnknown, DeclinePayment, UnpinConflict, AcceptPayment, IssueConflict,
            TicketingFails, CallVoid, VoidFails, CallCapture, CaptureFails, Confirm
<1>7. ASSUME NEW b \in Bookings, Crash(b) PROVE Goal
    BY <1>2, <1>7 DEF Crash, holdVars
<1>8. UNCHANGED vars => UNCHANGED <<seat, now, live>>
    BY DEF vars
<1> QED
    BY <1>1, <1>2, <1>5, <1>6, <1>7, <1>8 DEF Next

\* Nothing is leased at first.
LEMMA SagaLeaseInit == Init => SagaLease!Init
<1> SUFFICES ASSUME Init PROVE SagaLease!Init
    OBVIOUS
<1>1. \A s \in Seats : LeaseOf(s) = SagaLease!Free
    BY DEF Init, HoldInit, LeaseOf, HeldLease, AvailableRow, SagaLease!Free
<1> QED
    BY <1>1, Zenon DEF SagaLease!Init

\* As long as no hold under a checkout is released or taken over and no two
\* checkouts share a seat, holds and checkouts together implement the abstract
\* lease, for any number of customers, seats, gateway faults and crashes: a seat
\* is sold only while it is free or held by the buyer.
THEOREM UndisturbedLeaseThm == Spec => UndisturbedLease
<1>1. Init => PinsKept
    BY DEF Init, NoBooking, PinsKept
<1>2. SagaInv /\ SagaInv' /\ LiveTicketBacksSeat /\ PinsPointHome /\ PinsKept /\ [Next]_vars
          => [SagaLease!Next]_[s \in Seats |-> LeaseOf(s)]
    BY SagaLeaseStep DEF SagaLeaseMap
<1> QED
    BY <1>1, <1>2, PinsKeptStep, BackingStep, SagaInvHolds, PinsPointHomeHolds, BackingInit,
       SagaLeaseInit, PTL
    DEF Spec, UndisturbedLease, SagaImplementsLease, SagaLease!Spec

-----------------------------------------------------------------------------
(***************************************************************************)
(* The journal                                                             *)
(***************************************************************************)

\* Rows appended together of which exactly one moves the booking, from a state
\* it names or leaves out, to st.
OneMove(rows, from, st) ==
    /\ rows \in Seq(JournalRow)
    /\ \E k \in 1 .. Len(rows) :
           /\ MovesBooking(rows[k]) /\ StateAfter(rows[k]) = st /\ rows[k].from \in {None, from}
           /\ \A j \in 1 .. Len(rows) : j # k => ~ MovesBooking(rows[j]) /\ rows[j].from = None

\* What the rows of a journal lead to is not changed by rows appended later.
LEMMA AppendingKeepsPast ==
    ASSUME NEW rows \in Seq(JournalRow), NEW new \in Seq(JournalRow),
           NEW n \in 0 .. Len(rows), NEW st, LeadsTo(rows, n, st)
    PROVE  LeadsTo(rows \o new, n, st)
<1>1. \A i \in 1 .. n : (rows \o new)[i] = rows[i]
    OBVIOUS
<1> DEFINE all == rows \o new
<1> HIDE DEF all
<1>2. \A i \in 1 .. n : \A j \in (i + 1) .. n : j \in 1 .. n
    OBVIOUS
<1>3. LeadsTo(all, n, st)
    BY <1>1, <1>2 DEF LeadsTo, all
<1> QED
    BY <1>3 DEF all

\* A journal to which one moving row is appended leads to that row's state,
\* whatever it led to before.
LEMMA AppendedMoveLeads ==
    ASSUME NEW rows \in Seq(JournalRow), NEW new, NEW from, NEW st, OneMove(new, from, st)
    PROVE  LeadsTo(rows \o new, Len(rows \o new), st)
<1>1. PICK k \in 1 .. Len(new) :
          /\ MovesBooking(new[k]) /\ StateAfter(new[k]) = st
          /\ \A j \in 1 .. Len(new) : j # k => ~ MovesBooking(new[j])
    BY DEF OneMove
<1> DEFINE all == rows \o new
           m == Len(rows) + k
<1>2. new \in Seq(JournalRow)
    BY DEF OneMove
<1>3. Len(all) = Len(rows) + Len(new) /\ Len(rows) \in Nat /\ Len(new) \in Nat
    BY <1>2
<1>4. m \in 1 .. Len(all) /\ all[m] = new[k]
    BY <1>2, <1>3
<1>5. ASSUME NEW j \in 1 .. Len(all), j > m
      PROVE  ~ MovesBooking(all[j])
    <2>1. j - Len(rows) \in 1 .. Len(new) /\ j - Len(rows) # k /\ all[j] = new[j - Len(rows)]
        BY <1>2, <1>3, <1>5
    <2> QED
        BY <1>1, <2>1
<1> HIDE DEF all, m
<1>6. ASSUME NEW i \in 1 .. Len(all), MovesBooking(all[i]),
             \A j \in (i + 1) .. Len(all) : ~ MovesBooking(all[j])
      PROVE  st = StateAfter(all[i])
    <2>1. ~ (i < m)
        BY <1>1, <1>4, <1>6, <1>3
    <2>2. ~ (i > m)
        BY <1>5, <1>6
    <2>3. i = m
        BY <1>3, <1>4, <2>1, <2>2
    <2> QED
        BY <1>1, <1>4, <2>3
<1>7. LeadsTo(all, Len(all), st)
    BY <1>1, <1>4, <1>6 DEF LeadsTo
<1> QED
    BY <1>7 DEF all

\* Rows that do not move the booking leave the journal where it was.
LEMMA AppendedEventsLead ==
    ASSUME NEW rows \in Seq(JournalRow), NEW new \in Seq(JournalRow), NEW st,
           \A i \in 1 .. Len(new) : ~ MovesBooking(new[i]), LeadsTo(rows, Len(rows), st)
    PROVE  LeadsTo(rows \o new, Len(rows \o new), st)
<1> DEFINE all == rows \o new
<1>1. Len(all) = Len(rows) + Len(new) /\ Len(rows) \in Nat /\ Len(new) \in Nat
    OBVIOUS
<1>2. \A i \in 1 .. Len(rows) : all[i] = rows[i]
    OBVIOUS
<1>3. ASSUME NEW i \in 1 .. Len(all), i > Len(rows)
      PROVE  ~ MovesBooking(all[i])
    <2>1. i - Len(rows) \in 1 .. Len(new) /\ all[i] = new[i - Len(rows)]
        BY <1>1, <1>3
    <2> QED
        BY <2>1
<1> HIDE DEF all
<1>4. (\A i \in 1 .. Len(all) : ~ MovesBooking(all[i])) => st = None
    BY <1>1, <1>2 DEF LeadsTo
<1>5. ASSUME NEW i \in 1 .. Len(all), MovesBooking(all[i]),
             \A j \in (i + 1) .. Len(all) : ~ MovesBooking(all[j])
      PROVE  st = StateAfter(all[i])
    <2>1. i \in 1 .. Len(rows)
        BY <1>1, <1>3, <1>5
    <2>2. \A j \in (i + 1) .. Len(rows) : ~ MovesBooking(rows[j])
        BY <1>1, <1>2, <1>5, <2>1
    <2> QED
        BY <1>2, <1>5, <2>1, <2>2 DEF LeadsTo
<1>6. LeadsTo(all, Len(all), st)
    BY <1>4, <1>5 DEF LeadsTo
<1> QED
    BY <1>6 DEF all

\* A journal that replays to the state the new rows start from replays to the
\* state they end in.
LEMMA AppendedMoveReplays ==
    ASSUME NEW rows \in Seq(JournalRow), NEW new, NEW from, NEW st,
           ReplaysTo(rows, from), OneMove(new, from, st)
    PROVE  ReplaysTo(rows \o new, st)
<1>1. PICK k \in 1 .. Len(new) :
          /\ new[k].from \in {None, from}
          /\ \A j \in 1 .. Len(new) : j # k => ~ MovesBooking(new[j]) /\ new[j].from = None
    BY DEF OneMove
<1> DEFINE all == rows \o new
           pre == SubSeq(new, 1, k - 1)
<1>2. new \in Seq(JournalRow) /\ k - 1 \in 0 .. Len(new)
    BY DEF OneMove
<1>3. Len(all) = Len(rows) + Len(new) /\ Len(rows) \in Nat /\ Len(new) \in Nat
    BY <1>2
<1>4. LeadsTo(all, Len(all), st)
    BY AppendedMoveLeads
<1>5. LeadsTo(all, Len(rows) + (k - 1), from)
    <2>1. pre \in Seq(JournalRow) /\ Len(pre) = k - 1
        BY <1>2
    <2>2. \A i \in 1 .. Len(pre) : pre[i] = new[i] /\ i # k /\ i \in 1 .. Len(new)
        BY <1>2, <2>1
    <2>3. \A i \in 1 .. Len(pre) : ~ MovesBooking(pre[i])
        BY <1>1, <2>2
    <2>4. LeadsTo(rows \o pre, Len(rows \o pre), from)
        BY <2>1, <2>3, AppendedEventsLead DEF ReplaysTo
    <2>5. Len(rows \o pre) = Len(rows) + (k - 1)
        BY <2>1
    <2>6. \A i \in 1 .. Len(rows) + (k - 1) : (rows \o pre)[i] = all[i]
        BY <1>2, <2>1, <2>2
    <2> DEFINE n == Len(rows) + (k - 1)
               part == rows \o pre
    <2>7. \A i \in 1 .. n : \A j \in (i + 1) .. n : j \in 1 .. n
        BY <1>2, <1>3
    <2> HIDE DEF n, part, all, pre
    <2>8. LeadsTo(part, n, from) /\ \A i \in 1 .. n : part[i] = all[i]
        BY <2>4, <2>5, <2>6 DEF n, part
    <2>9. LeadsTo(all, n, from)
        BY <2>7, <2>8 DEF LeadsTo
    <2> QED
        BY <2>9 DEF n
<1>6. ASSUME NEW i \in 1 .. Len(all), all[i].from # None
      PROVE  LeadsTo(all, i - 1, all[i].from)
    <2>1. CASE i \in 1 .. Len(rows)
        <3>1. all[i] = rows[i] /\ i - 1 \in 0 .. Len(rows)
            BY <2>1, <1>2
        <3>2. LeadsTo(rows, i - 1, rows[i].from)
            BY <1>6, <2>1, <3>1 DEF ReplaysTo
        <3> QED
            BY <1>2, <3>1, <3>2, AppendingKeepsPast
    <2>2. CASE i \notin 1 .. Len(rows)
        <3>1. i - Len(rows) \in 1 .. Len(new) /\ all[i] = new[i - Len(rows)]
            BY <1>2, <1>3, <2>2
        <3>2. i - Len(rows) = k /\ all[i].from = from
            BY <1>1, <1>6, <3>1
        <3>3. i - 1 = Len(rows) + (k - 1)
            BY <1>3, <3>2
        <3> QED
            BY <1>5, <3>2, <3>3
    <2> QED
        BY <2>1, <2>2
<1> HIDE DEF all
<1>7. ReplaysTo(all, st)
    BY <1>4, <1>6 DEF ReplaysTo
<1> QED
    BY <1>7 DEF all

\* Events without a state keep a journal replayable.
LEMMA AppendedEventsReplay ==
    ASSUME NEW rows \in Seq(JournalRow), NEW new \in Seq(JournalRow), NEW st,
           \A i \in 1 .. Len(new) : ~ MovesBooking(new[i]) /\ new[i].from = None,
           ReplaysTo(rows, st)
    PROVE  ReplaysTo(rows \o new, st)
<1> DEFINE all == rows \o new
<1>1. LeadsTo(all, Len(all), st)
    BY AppendedEventsLead DEF ReplaysTo
<1>2. ASSUME NEW i \in 1 .. Len(all), all[i].from # None
      PROVE  LeadsTo(all, i - 1, all[i].from)
    <2>1. CASE i \in 1 .. Len(rows)
        <3>1. all[i] = rows[i] /\ i - 1 \in 0 .. Len(rows)
            BY <2>1
        <3>2. LeadsTo(rows, i - 1, rows[i].from)
            BY <1>2, <2>1, <3>1 DEF ReplaysTo
        <3> QED
            BY <3>1, <3>2, AppendingKeepsPast
    <2>2. CASE i \notin 1 .. Len(rows)
        <3>1. i - Len(rows) \in 1 .. Len(new) /\ all[i] = new[i - Len(rows)]
            BY <2>2
        <3> QED
            BY <1>2, <3>1
    <2> QED
        BY <2>1, <2>2
<1> HIDE DEF all
<1>3. ReplaysTo(all, st)
    BY <1>1, <1>2 DEF ReplaysTo
<1> QED
    BY <1>3 DEF all

\* An event row moves nothing, but for PAYMENT_VOIDED; a row with a to_state does.
LEMMA RowKinds ==
    /\ \A e \in AuditEventType :
           /\ Event(e).from = None
           /\ e # "PAYMENT_VOIDED" => ~ MovesBooking(Event(e))
    /\ MovesBooking(Event("PAYMENT_VOIDED")) /\ StateAfter(Event("PAYMENT_VOIDED")) = "VOIDED"
    /\ \A e \in AuditEventType \ {"PAYMENT_VOIDED", "PASSENGER_UPDATED"} :
           \A f \in BookingState \cup {None} : \A st \in BookingState :
               /\ MovesBooking(Moved(e, f, st))
               /\ StateAfter(Moved(e, f, st)) = st /\ Moved(e, f, st).from = f
BY SagaAssumption DEF Event, Moved, MovesBooking, StateAfter, AuditEventType

\* A moving row alone, and with an event before or after it.
LEMMA MoveWithEvent ==
    ASSUME NEW m \in JournalRow, NEW e \in JournalRow, NEW from, NEW st,
           MovesBooking(m), StateAfter(m) = st, m.from \in {None, from},
           ~ MovesBooking(e), e.from = None
    PROVE  OneMove(<<m>>, from, st) /\ OneMove(<<m, e>>, from, st) /\ OneMove(<<e, m>>, from, st)
<1>1. OneMove(<<m>>, from, st)
    <2> DEFINE rows == <<m>>
    <2>1. rows \in Seq(JournalRow) /\ Len(rows) = 1 /\ rows[1] = m
        OBVIOUS
    <2> HIDE DEF rows
    <2>2. OneMove(rows, from, st)
        BY <2>1 DEF OneMove
    <2> QED
        BY <2>2 DEF rows
<1>2. OneMove(<<m, e>>, from, st)
    <2> DEFINE rows == <<m, e>>
    <2>1. rows \in Seq(JournalRow) /\ Len(rows) = 2 /\ rows[1] = m /\ rows[2] = e
        OBVIOUS
    <2> HIDE DEF rows
    <2>2. 1 \in 1 .. Len(rows) /\ \A j \in 1 .. Len(rows) : j # 1 => rows[j] = e
        BY <2>1
    <2>3. OneMove(rows, from, st)
        BY <2>1, <2>2 DEF OneMove
    <2> QED
        BY <2>3 DEF rows
<1>3. OneMove(<<e, m>>, from, st)
    <2> DEFINE rows == <<e, m>>
    <2>1. rows \in Seq(JournalRow) /\ Len(rows) = 2 /\ rows[1] = e /\ rows[2] = m
        OBVIOUS
    <2> HIDE DEF rows
    <2>2. 2 \in 1 .. Len(rows) /\ \A j \in 1 .. Len(rows) : j # 2 => rows[j] = e
        BY <2>1
    <2>3. OneMove(rows, from, st)
        BY <2>1, <2>2 DEF OneMove
    <2> QED
        BY <2>3 DEF rows
<1> QED
    BY <1>1, <1>2, <1>3

\* The HOLD_LOST rows before it do not matter.
LEMMA MoveAfterLapses ==
    ASSUME NEW b \in Bookings, booking[b].seats \in SUBSET Seats,
           NEW rows, NEW from, NEW st, OneMove(rows, from, st)
    PROVE  OneMove(LapseRows(b) \o rows, from, st)
<1>1. PICK k \in 1 .. Len(rows) :
          /\ MovesBooking(rows[k]) /\ StateAfter(rows[k]) = st /\ rows[k].from \in {None, from}
          /\ \A j \in 1 .. Len(rows) : j # k => ~ MovesBooking(rows[j]) /\ rows[j].from = None
    BY DEF OneMove
<1> DEFINE lapses == LapseRows(b)
           all == lapses \o rows
<1>2. lapses \in Seq(JournalRow) /\ rows \in Seq(JournalRow)
    BY LapseRowsTyped DEF OneMove
<1>3. \A i \in 1 .. Len(lapses) : lapses[i] = Event("HOLD_LOST")
    <2>1. Len(lapses) \in Nat /\ DOMAIN lapses = 1 .. Len(lapses)
        BY <1>2
    <2>2. DOMAIN lapses = 1 .. Cardinality(LapsedSeats(b))
        BY DEF LapseRows
    <2> QED
        BY <2>1, <2>2 DEF LapseRows
<1> HIDE DEF lapses
<1>4. /\ all \in Seq(JournalRow) /\ Len(all) = Len(lapses) + Len(rows)
      /\ Len(lapses) \in Nat /\ Len(rows) \in Nat
      /\ \A i \in 1 .. Len(lapses) : all[i] = lapses[i]
    BY <1>2
<1>5. Len(lapses) + k \in 1 .. Len(all) /\ all[Len(lapses) + k] = rows[k]
    BY <1>2, <1>4
<1>6. ASSUME NEW j \in 1 .. Len(all), j # Len(lapses) + k
      PROVE  ~ MovesBooking(all[j]) /\ all[j].from = None
    <2>1. CASE j \in 1 .. Len(lapses)
        <3>1. all[j] = Event("HOLD_LOST")
            BY <1>3, <1>4, <2>1
        <3> QED
            BY <3>1, RowKinds DEF AuditEventType
    <2>2. CASE j \notin 1 .. Len(lapses)
        <3>1. /\ j - Len(lapses) \in 1 .. Len(rows) /\ j - Len(lapses) # k
              /\ all[j] = rows[j - Len(lapses)]
            BY <1>2, <1>4, <1>6, <2>2
        <3> QED
            BY <1>1, <3>1
    <2> QED
        BY <2>1, <2>2
<1> HIDE DEF all
<1>7. OneMove(all, from, st)
    BY <1>1, <1>4, <1>5, <1>6 DEF OneMove
<1> QED
    BY <1>7 DEF all, lapses

\* Every action that changes a booking's state, but for Confirm, appends one row
\* that moves it from the state it was in to the one it is in now.
LEMMA ChangesAreJournalled ==
    ASSUME NEW b \in Bookings, booking[b].state \in BookingState, booking[b].seats \in SUBSET Seats,
           booking \in [Bookings -> BookingRow],
           \/ AcceptPayment(b) \/ IssueTickets(b) \/ TicketingFails(b)
           \/ FailPayment(b) \/ FinishCompensation(b) \/ EscalateCompensation(b)
    PROVE  /\ \A c \in Bookings : c # b => booking'[c] = booking[c]
           /\ \E rows : Record(b, rows) /\ OneMove(rows, booking[b].state, booking'[b].state)
<1> DEFINE st == booking[b].state
<1>0. /\ Event("TICKETING_FAILED") \in JournalRow /\ ~ MovesBooking(Event("TICKETING_FAILED"))
      /\ Event("SEATS_RELEASED") \in JournalRow /\ ~ MovesBooking(Event("SEATS_RELEASED"))
      /\ Event("TICKETING_FAILED").from = None /\ Event("SEATS_RELEASED").from = None
      /\ Event("PAYMENT_VOIDED") \in JournalRow /\ Event("PAYMENT_VOIDED").from = None
    BY JournalRowsTyped, RowKinds DEF AuditEventType
<1>1. ASSUME NEW ev \in AuditEventType \ {"PAYMENT_VOIDED", "PASSENGER_UPDATED"}, NEW to \in BookingState
      PROVE  /\ OneMove(<<Moved(ev, st, to)>>, st, to)
             /\ OneMove(<<Moved(ev, st, to), Event("SEATS_RELEASED")>>, st, to)
             /\ OneMove(<<Event("TICKETING_FAILED"), Moved(ev, st, to)>>, st, to)
    <2> DEFINE m == Moved(ev, st, to)
    <2>1. m \in JournalRow /\ MovesBooking(m) /\ StateAfter(m) = to /\ m.from = st
        BY JournalRowsTyped, RowKinds
    <2> HIDE DEF m
    <2>2. /\ OneMove(<<m>>, st, to) /\ OneMove(<<m, Event("SEATS_RELEASED")>>, st, to)
          /\ OneMove(<<Event("TICKETING_FAILED"), m>>, st, to)
        BY <1>0, <2>1, MoveWithEvent
    <2> QED
        BY <2>2 DEF m
<1>2. ASSUME NEW to \in BookingState, SetState(b, to)
      PROVE  booking'[b].state = to /\ \A c \in Bookings : c # b => booking'[c] = booking[c]
    BY <1>2, SetStateEffect
<1>3. CASE AcceptPayment(b)
    BY <1>1, <1>2, <1>3 DEF AcceptPayment, BookingState, AuditEventType
<1>4. CASE IssueTickets(b)
    <2>1. OneMove(LapseRows(b) \o <<Moved("TICKETS_ISSUED", st, "TICKETED")>>, st, "TICKETED")
        BY <1>1, MoveAfterLapses DEF BookingState, AuditEventType
    <2> QED
        BY <1>2, <1>4, <2>1 DEF IssueTickets, BookingState
<1>5. CASE TicketingFails(b)
    <2> DEFINE new == <<Event("TICKETING_FAILED"), Moved("COMPENSATION_STARTED", st, "COMPENSATING")>>
    <2>1. OneMove(new, st, "COMPENSATING")
        BY <1>1 DEF BookingState, AuditEventType
    <2>2. Record(b, LapseRows(b) \o new) /\ SetState(b, "COMPENSATING")
        BY <1>5 DEF TicketingFails
    <2> HIDE DEF new
    <2>3. OneMove(LapseRows(b) \o new, st, "COMPENSATING")
        BY <2>1, MoveAfterLapses
    <2> QED
        BY <1>2, <2>2, <2>3 DEF BookingState
<1>7. CASE FailPayment(b)
    BY <1>1, <1>2, <1>7 DEF FailPayment, BookingState, AuditEventType
<1>8. CASE FinishCompensation(b)
    <2>1. OneMove(<<Event("PAYMENT_VOIDED"), Event("SEATS_RELEASED")>>, st, "VOIDED")
        BY <1>0, RowKinds, MoveWithEvent
    <2> QED
        BY <1>2, <1>8, <2>1 DEF FinishCompensation, BookingState
<1>9. CASE EscalateCompensation(b)
    BY <1>1, <1>2, <1>9 DEF EscalateCompensation, BookingState, AuditEventType
<1> QED
    BY <1>3, <1>4, <1>5, <1>7, <1>8, <1>9

\* Confirm's row moves the booking from the state of the session, whatever the
\* row in the table says.
LEMMA ConfirmIsJournalled ==
    ASSUME NEW b \in Bookings, booking \in [Bookings -> BookingRow], Confirm(b)
    PROVE  /\ \A c \in Bookings : c # b => booking'[c] = booking[c]
           /\ \E rows : Record(b, rows) /\ OneMove(rows, "TICKETED", booking'[b].state)
<1> DEFINE m == Moved("BOOKING_CONFIRMED", "TICKETED", "CONFIRMED")
           e == Event("SEATS_RELEASED")
<1>1. /\ m \in JournalRow /\ MovesBooking(m) /\ StateAfter(m) = "CONFIRMED" /\ m.from = "TICKETED"
      /\ e \in JournalRow /\ ~ MovesBooking(e) /\ e.from = None
    BY JournalRowsTyped, RowKinds DEF BookingState, AuditEventType
<1>2. Record(b, <<m>>) /\ SetState(b, "CONFIRMED")
    BY DEF Confirm
<1> HIDE DEF m, e
<1>3. OneMove(<<m>>, "TICKETED", "CONFIRMED")
    BY <1>1, MoveWithEvent
<1>4. booking'[b].state = "CONFIRMED" /\ \A c \in Bookings : c # b => booking'[c] = booking[c]
    BY <1>2, SetStateEffect DEF BookingState
<1> QED
    BY <1>2, <1>3, <1>4

\* Step 1 of run() opens the journal.
LEMMA CreationIsJournalled ==
    ASSUME NEW b \in Bookings, NEW H, NEW card, LockSeats(b, H, card), booking \in [Bookings -> BookingRow]
    PROVE  /\ \A c \in Bookings : c # b => booking'[c] = booking[c]
           /\ \A from : \E rows : Record(b, rows) /\ OneMove(rows, from, booking'[b].state)
<1>1. booking'[b].state = "PENDING" /\ \A c \in Bookings : c # b => booking'[c] = booking[c]
    BY DEF LockSeats
<1> DEFINE m == Moved("BOOKING_CREATED", None, "PENDING")
<1>2. /\ m \in JournalRow /\ MovesBooking(m) /\ StateAfter(m) = "PENDING" /\ m.from = None
      /\ Event("SEATS_LOCKED") \in JournalRow
      /\ ~ MovesBooking(Event("SEATS_LOCKED")) /\ Event("SEATS_LOCKED").from = None
    BY JournalRowsTyped, RowKinds DEF BookingState, AuditEventType
<1>3. Record(b, <<m, Event("SEATS_LOCKED")>>)
    BY DEF LockSeats
<1> HIDE DEF m
<1>4. \A from : OneMove(<<m, Event("SEATS_LOCKED")>>, from, "PENDING")
    BY <1>2, MoveWithEvent
<1> QED
    BY <1>1, <1>3, <1>4

\* The journal of one booking gets one moving row, from the state it was in.
LEMMA MoveKeepsReplay ==
    ASSUME JournalReplaysToState, journal \in [Bookings -> Seq(JournalRow)], NEW b \in Bookings,
           NEW rows, Record(b, rows), OneMove(rows, booking[b].state, booking'[b].state),
           \A c \in Bookings : c # b => booking'[c] = booking[c]
    PROVE  JournalReplaysToState'
<1>1. journal'[b] = journal[b] \o rows /\ \A c \in Bookings : c # b => journal'[c] = journal[c]
    BY DEF Record
<1>2. ReplaysTo(journal[b] \o rows, booking'[b].state)
    BY AppendedMoveReplays DEF JournalReplaysToState
<1>3. ASSUME NEW c \in Bookings
      PROVE  ReplaysTo(journal'[c], booking'[c].state)
    <2>1. CASE c = b
        BY <1>1, <1>2, <2>1
    <2>2. CASE c # b
        BY <1>1, <2>2 DEF JournalReplaysToState
    <2> QED
        BY <2>1, <2>2
<1> QED
    BY <1>3 DEF JournalReplaysToState

\* PAYMENT_UNKNOWN is journalled without a state.
LEMMA UnknownIsAnEvent ==
    ASSUME journal \in [Bookings -> Seq(JournalRow)], NEW b \in Bookings, RecordUnknown(b)
    PROVE  /\ UNCHANGED booking
           /\ <<Event("PAYMENT_UNKNOWN")>> \in Seq(JournalRow)
           /\ \A i \in 1 .. Len(<<Event("PAYMENT_UNKNOWN")>>) :
                  LET row == <<Event("PAYMENT_UNKNOWN")>>[i] IN ~ MovesBooking(row) /\ row.from = None
           /\ journal'[b] = journal[b] \o <<Event("PAYMENT_UNKNOWN")>>
           /\ \A c \in Bookings : c # b => journal'[c] = journal[c]
<1>1. /\ Event("PAYMENT_UNKNOWN") \in JournalRow
      /\ ~ MovesBooking(Event("PAYMENT_UNKNOWN")) /\ Event("PAYMENT_UNKNOWN").from = None
    BY JournalRowsTyped, RowKinds DEF AuditEventType
<1> DEFINE e == Event("PAYMENT_UNKNOWN")
<1>2. UNCHANGED booking /\ Record(b, <<e>>)
    BY DEF RecordUnknown
<1> HIDE DEF e
<1>3. /\ <<e>> \in Seq(JournalRow) /\ \A i \in 1 .. Len(<<e>>) : <<e>>[i] = e
      /\ journal'[b] = journal[b] \o <<e>>
      /\ \A c \in Bookings : c # b => journal'[c] = journal[c]
    BY <1>1, <1>2 DEF Record, e
<1> QED
    BY <1>1, <1>2, <1>3 DEF e

\* Every step keeps the journals replayable.
LEMMA ReplayStep == SagaInv /\ JournalReplaysToState /\ [Next]_vars => JournalReplaysToState'
<1> SUFFICES ASSUME SagaInv, JournalReplaysToState, [Next]_vars PROVE JournalReplaysToState'
    OBVIOUS
<1>0. journal \in [Bookings -> Seq(JournalRow)] /\ booking \in [Bookings -> BookingRow]
    BY DEF SagaInv, SagaTypeOK, BookingRow
<1>1. CASE UNCHANGED <<booking, journal>>
    BY <1>1 DEF JournalReplaysToState
<1>2. ASSUME NEW b \in Bookings, NEW H \in (SUBSET HoldIds) \ {{}}, NEW card \in Cards,
             LockSeats(b, H, card)
      PROVE  JournalReplaysToState'
    BY <1>0, <1>2, CreationIsJournalled, MoveKeepsReplay
<1>3. ASSUME NEW b \in Bookings, RecordUnknown(b)
      PROVE  JournalReplaysToState'
    <2>1. ReplaysTo(journal[b], booking[b].state)
        BY DEF JournalReplaysToState
    <2> DEFINE new == <<Event("PAYMENT_UNKNOWN")>>
    <2>2. /\ UNCHANGED booking /\ new \in Seq(JournalRow)
          /\ \A i \in 1 .. Len(new) : ~ MovesBooking(new[i]) /\ new[i].from = None
          /\ journal'[b] = journal[b] \o new
          /\ \A c \in Bookings : c # b => journal'[c] = journal[c]
        BY <1>0, <1>3, UnknownIsAnEvent
    <2> HIDE DEF new
    <2>3. ReplaysTo(journal[b] \o new, booking[b].state)
        BY <1>0, <2>1, <2>2, AppendedEventsReplay
    <2> QED
        BY <2>2, <2>3 DEF JournalReplaysToState
<1>4. ASSUME NEW b \in Bookings,
             \/ AcceptPayment(b) \/ IssueTickets(b) \/ TicketingFails(b)
             \/ FailPayment(b) \/ FinishCompensation(b) \/ EscalateCompensation(b)
      PROVE  JournalReplaysToState'
    <2>1. booking[b].state \in BookingState /\ booking[b].seats \in SUBSET Seats
        <3>1. pc[b] \in InFlight
            BY <1>4 DEF AcceptPayment, IssueTickets, ReadyToIssue, TicketingFails,
                        FailPayment, FinishCompensation, EscalateCompensation, InFlight
        <3> QED
            BY <1>0, <3>1, StateExists DEF BookingRow
    <2> QED
        BY <1>0, <1>4, <2>1, ChangesAreJournalled, MoveKeepsReplay
<1>4a. ASSUME NEW b \in Bookings, Confirm(b) PROVE JournalReplaysToState'
    <2>1. booking[b].state = "TICKETED"
        BY <1>4a, StateAtLabel DEF Confirm
    <2> QED
        BY <1>0, <1>4a, <2>1, ConfirmIsJournalled, MoveKeepsReplay
<1>5. CASE HoldNext /\ UNCHANGED <<gw, sagaVars>>
    BY <1>1, <1>5 DEF sagaVars
<1>6. ASSUME NEW b \in Bookings, PostBooking(b)
      PROVE  JournalReplaysToState'
    <2>1. PICK H \in (SUBSET HoldIds) \ {{}} :
              RejectCheckout(b, H) \/ \E card \in Cards : LockSeats(b, H, card)
        BY <1>6 DEF PostBooking
    <2> QED
        BY <1>1, <1>2, <2>1 DEF RejectCheckout
<1>7. ASSUME NEW b \in Bookings, SagaStep(b)
      PROVE  JournalReplaysToState'
    <2>1. \/ UNCHANGED <<booking, journal>>
          \/ RecordUnknown(b)
          \/ AcceptPayment(b) \/ IssueTickets(b) \/ TicketingFails(b)
          \/ FailPayment(b) \/ FinishCompensation(b) \/ EscalateCompensation(b) \/ Confirm(b)
        BY <1>7
        DEF SagaStep, BlockPayment, DeclinePayment, ReadPins, StartCharge, CallAuthorize,
            TimeOutAuthorize, UnpinConflict, IssueConflict, CallVoid, VoidFails, CallCapture,
            CaptureFails
    <2> QED
        BY <1>1, <1>3, <1>4, <1>4a, <2>1
<1>8. ASSUME NEW b \in Bookings, Crash(b)
      PROVE  JournalReplaysToState'
    BY <1>1, <1>8 DEF Crash
<1>9. CASE UNCHANGED vars
    BY <1>1, <1>9 DEF vars
<1> QED
    BY <1>5, <1>6, <1>7, <1>8, <1>9 DEF Next

\* An empty journal replays to no booking.
LEMMA EmptyJournalReplays == ReplaysTo(<<>>, None)
<1> DEFINE rows == <<>>
<1>1. Len(rows) = 0
    OBVIOUS
<1> HIDE DEF rows
<1>2. ReplaysTo(rows, None)
    BY <1>1 DEF ReplaysTo, LeadsTo
<1> QED
    BY <1>2 DEF rows

\* The audit log is the saga journal (ADR-0003): in every reachable state, after
\* a crash between any two steps too, replaying a booking's rows is never refused
\* and ends in the state on its row, however long the journal and however many
\* seats had lapsed.
THEOREM JournalReplaysToStateThm == Spec => []JournalReplaysToState
<1>1. Init => JournalReplaysToState
    BY EmptyJournalReplays DEF Init, NoBooking, JournalReplaysToState
<1> QED
    BY <1>1, ReplayStep, SagaInvHolds, PTL DEF Spec
=============================================================================
