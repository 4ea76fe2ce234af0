------------------------ MODULE Cancellation_proofs ------------------------
(***************************************************************************)
(* Proofs about Cancellation: for any number of customers, seats,          *)
(* checkouts, cancels and PATCHes, with crashes of any of them, gateway    *)
(* faults and refunds that fail.                                           *)
(***************************************************************************)
EXTENDS Cancellation, BookingSaga_proofs

RequestRow ==
    [pc      : {"new", "done"} \cup RequestInFlight,
     booking : Bookings \cup {None},
     state   : Changeable \cup {None},
     charge  : BOOLEAN,
     locks   : SUBSET Seats,
     seq     : Nat]

\* Labels at which a checkout has committed its tickets, or may have.
Late == {"ticketed", "captured", "confirmed", "error", "crashed"}

\* The types, one by one.
LEMMA CancelTypes ==
    ASSUME CancelInv
    PROVE  /\ SagaTypeOK /\ HoldTypeOK /\ HoldRowsSound /\ GwTypeOK
           /\ seat \in [Seats -> Row]
           /\ booking \in [Bookings -> BookingRow]
           /\ payment \in [Bookings -> PaymentState \cup {None}]
           /\ live \in [Bookings -> SUBSET Seats]
           /\ journal \in [Bookings -> Seq(JournalRow)]
           /\ pc \in [Bookings -> Labels]
           /\ mem \in [Bookings -> [Seats -> Row]]
           /\ pins \in [Bookings -> SUBSET Seats]
           /\ req \in [Requests -> RequestRow]
           /\ refunded \subseteq Keys
           /\ confirmSeq \in [Bookings -> Nat]
BY DEF CancelInv, CancelTypeOK, SagaTypeOK, HoldTypeOK, BookingRow, Labels, RequestRow

\* The table of LateStates, label by label.
LEMMA LateStatesTable ==
    /\ LateStates("new") = {None} /\ LateStates("rejected") = {None}
    /\ \A l \in {"locked", "charging", "timed_out", "retrying", "approved", "declined", "failing"} :
           LateStates(l) = {"PENDING"}
    /\ LateStates("authorized") = {"PAYMENT_AUTHORIZED"}
    /\ \A l \in {"compensating", "reversed", "unreversed"} : LateStates(l) = {"COMPENSATING"}
    /\ \A l \in {"ticketed", "captured"} : LateStates(l) = {"TICKETED", "NEEDS_MANUAL_REVIEW"}
    /\ LateStates("confirmed") = {"CONFIRMED", "CANCELLED", "NEEDS_MANUAL_REVIEW"}
    /\ LateStates("payment_failed") = {"PAYMENT_FAILED"}
    /\ LateStates("compensated") = {"VOIDED", "NEEDS_MANUAL_REVIEW"}
    /\ \A l \in {"error", "crashed"} : LateStates(l) = BookingState \ {"CONFIRMED", "CANCELLED"}
BY StatesAtTable DEF LateStates

\* The states a booking can be in at each label of run().
LEMMA LateStateAt ==
    ASSUME CancelInv, NEW b \in Bookings
    PROVE  /\ pc[b] = "new" => booking[b].state = None
           /\ pc[b] \in {"locked", "charging", "timed_out", "retrying",
                         "approved", "declined", "failing"} => booking[b].state = "PENDING"
           /\ pc[b] = "authorized" => booking[b].state = "PAYMENT_AUTHORIZED"
           /\ pc[b] \in {"compensating", "reversed", "unreversed"} =>
                  booking[b].state = "COMPENSATING"
           /\ pc[b] \in {"ticketed", "captured"} =>
                  booking[b].state \in {"TICKETED", "NEEDS_MANUAL_REVIEW"}
           /\ pc[b] \in InFlight => booking[b].state \in BookingState
<1>1. booking[b].state \in LateStates(pc[b])
    BY DEF CancelInv, BookingFits
<1> QED
    BY <1>1, LateStatesTable DEF InFlight, BookingState

\* Every booking but b is left alone.
OthersAlone(b) ==
    \A c \in Bookings : c # b =>
        /\ booking'[c] = booking[c] /\ payment'[c] = payment[c]
        /\ live'[c] = live[c] /\ pc'[c] = pc[c]

\* Booked rows of other bookings stay as they are, and no row is given to one.
OthersKeepSeats(b) ==
    \A s \in Seats :
        /\ seat'[s].booking_id \in {seat[s].booking_id, None, b}
        /\ seat[s].status = "booked" /\ seat[s].booking_id # b =>
               seat'[s].status = "booked" /\ seat'[s].booking_id = seat[s].booking_id

LEMMA OthersFit ==
    ASSUME CancelInv, NEW b \in Bookings, OthersAlone(b), NEW c \in Bookings, c # b
    PROVE  BookingFits(c)'
<1>1. /\ booking'[c] = booking[c] /\ payment'[c] = payment[c]
      /\ live'[c] = live[c] /\ pc'[c] = pc[c]
    BY DEF OthersAlone
<1>2. BookingFits(c)
    BY DEF CancelInv
<1> QED
    BY <1>1, <1>2 DEF BookingFits, Sold

\* Rows of other bookings fit as before.
LEMMA OthersRows ==
    ASSUME CancelInv, NEW b \in Bookings, OthersAlone(b), OthersKeepSeats(b),
           NEW c \in Bookings, c # b, NEW s \in Seats
    PROVE  RowFits(s, c)'
<1>1. booking'[c] = booking[c]
    BY DEF OthersAlone
<1>2. RowFits(s, c)
    BY DEF CancelInv
<1>3. c # None
    BY NoneAssumption
<1> QED
    BY <1>1, <1>2, <1>3 DEF RowFits, OthersKeepSeats

\* The rows of a booking that has had tickets are booked, so another booking's
\* step leaves them exactly as they are.
LEMMA OthersSeats ==
    ASSUME CancelInv, NEW b \in Bookings, OthersKeepSeats(b),
           NEW c \in Bookings, c # b, booking[c].state \in Issued
    PROVE  SeatsOf(c)' = SeatsOf(c)
<1>1. c # None
    BY NoneAssumption
<1>2. \A s \in Seats : seat[s].booking_id = c => seat[s].status = "booked"
    BY DEF CancelInv, RowFits
<1>3. \A s \in Seats : seat'[s].booking_id = c <=> seat[s].booking_id = c
    BY <1>1, <1>2 DEF OthersKeepSeats
<1> QED
    BY <1>3 DEF SeatsOf

\* A request that is not under way has nothing to fit.
LEMMA IdleRequestsFit ==
    ASSUME CancelInv, NEW r \in Requests, req'[r] = req[r], req[r].pc \notin RequestInFlight
    PROVE  RequestFits(r)'
<1>1. RequestFits(r)
    BY DEF CancelInv
<1> QED
    BY <1>1 DEF RequestFits, RequestInFlight, Locking

\* Requests for other bookings fit as before.
LEMMA OthersRequests ==
    ASSUME CancelInv, NEW b \in Bookings, OthersAlone(b), OthersKeepSeats(b),
           NEW r \in Requests, req'[r] = req[r], req[r].booking # b
    PROVE  RequestFits(r)'
<1>1. RequestFits(r)
    BY DEF CancelInv
<1>2. CASE req[r].pc \in RequestInFlight
    <2> DEFINE c == req[r].booking
    <2>1. c \in Bookings /\ c # b /\ booking[c].state \in Issued
        BY <1>1, <1>2 DEF RequestFits
    <2>2. SeatsOf(c)' = SeatsOf(c)
        BY <2>1, OthersSeats
    <2>3. booking'[c] = booking[c] /\ payment'[c] = payment[c] /\ pc'[c] = pc[c]
        BY <2>1 DEF OthersAlone
    <2> QED
        BY <1>1, <2>2, <2>3 DEF RequestFits
<1>3. CASE req[r].pc \notin RequestInFlight
    BY <1>3, IdleRequestsFit
<1> QED
    BY <1>2, <1>3

\* Requests read bookings whose saga has committed its tickets.
LEMMA NoRequestBeforeTickets ==
    ASSUME CancelInv, NEW b \in Bookings, pc[b] \notin Late, NEW r \in Requests,
           req[r].pc \in RequestInFlight
    PROVE  req[r].booking # b
BY DEF CancelInv, RequestFits, Late

\* A step of checkout b keeps the invariant if it does for b itself.
LEMMA CheckoutKeepsInv ==
    ASSUME CancelInv, NEW b \in Bookings, SagaTypeOK', HoldRowsSound', OneLiveTicketPerSeat',
           OthersAlone(b), OthersKeepSeats(b), UNCHANGED <<req, refunded>>,
           confirmSeq' \in [Bookings -> Nat],
           BookingFits(b)', \A s \in Seats : RowFits(s, b)',
           \A r \in Requests :
               req[r].pc \in RequestInFlight /\ req[r].booking = b => RequestFits(r)'
    PROVE  CancelInv'
<1>1. \A c \in Bookings : BookingFits(c)'
    BY OthersFit
<1>2. \A s \in Seats : \A c \in Bookings : RowFits(s, c)'
    BY OthersRows
<1>3. \A r \in Requests : RequestFits(r)'
    BY OthersRequests, IdleRequestsFit
<1>4. LocksApart'
    BY DEF CancelInv, LocksApart
<1>5. CancelTypeOK'
    BY DEF CancelInv, CancelTypeOK
<1> QED
    BY <1>1, <1>2, <1>3, <1>4, <1>5 DEF CancelInv

\* A request for b goes on fitting while its checkout moves on behind the
\* tickets, leaving the seats alone.
LEMMA OwnRequestsFit ==
    ASSUME CancelInv, NEW b \in Bookings, UNCHANGED <<seat, req>>, pc[b] # "confirmed",
           pc[b] \in Late => pc'[b] \in Late /\ booking'[b].state \in Issued \cup {booking[b].state}
                             /\ payment'[b] \in {payment[b], "CAPTURED"},
           NEW r \in Requests, req[r].pc \in RequestInFlight, req[r].booking = b
    PROVE  RequestFits(r)'
<1>1. RequestFits(r) /\ BookingFits(b)
    BY DEF CancelInv
<1>2. payment[b] # "REFUNDED"
    BY <1>1 DEF BookingFits
<1>3. pc[b] \in Late
    BY NoRequestBeforeTickets
<1>4. SeatsOf(b)' = SeatsOf(b)
    BY DEF SeatsOf
<1> QED
    BY <1>1, <1>2, <1>3, <1>4 DEF RequestFits, Late, Refundable, Locking, RequestInFlight

-----------------------------------------------------------------------------
(***************************************************************************)
(* Steps of a checkout                                                     *)
(***************************************************************************)

\* A step of run() that writes no row: only where it is, what it has read, and
\* perhaps the gateway.
LEMMA LabelStepKeepsInv ==
    ASSUME CancelInv, NEW b \in Bookings, NEW l \in Labels, Goto(b, l), pc[b] # "confirmed",
           UNCHANGED <<holdVars, booking, payment, live, journal, mem>>,
           pins' \in [Bookings -> SUBSET Seats], GwTypeOK', UNCHANGED cancelVars,
           booking[b].state \in LateStates(l),
           l \in {"ticketed", "captured"} => pc[b] \in {"ticketed", "captured"},
           pc[b] \in Late => l \in Late
    PROVE  CancelInv'
<1>0. UNCHANGED <<seat, now, hreq, req, refunded, confirmSeq>>
    BY DEF holdVars, cancelVars
<1>1. pc' \in [Bookings -> Labels] /\ pc'[b] = l /\ \A c \in Bookings : c # b => pc'[c] = pc[c]
    BY CancelTypes DEF Goto
<1>2. SagaTypeOK'
    BY <1>0, <1>1, CancelTypes DEF SagaTypeOK, HoldTypeOK, Labels
<1>3. HoldRowsSound'
    BY <1>0, CancelTypes DEF HoldRowsSound, PendingRequestsSound, HeldSeatHasHolder, HoldIdNamesOneSeat,
                             HoldsAreBounded
<1>4. OneLiveTicketPerSeat'
    BY DEF CancelInv, OneLiveTicketPerSeat
<1>5. OthersAlone(b) /\ OthersKeepSeats(b)
    BY <1>0, <1>1 DEF OthersAlone, OthersKeepSeats
<1>6. BookingFits(b)'
    <2>1. BookingFits(b)
        BY DEF CancelInv
    <2> QED
        BY <1>1, <2>1 DEF BookingFits, Sold
<1>7. \A s \in Seats : RowFits(s, b)'
    BY <1>0 DEF CancelInv, RowFits
<1>8. \A r \in Requests :
          req[r].pc \in RequestInFlight /\ req[r].booking = b => RequestFits(r)'
    BY <1>0, <1>1, OwnRequestsFit
<1>9. confirmSeq' \in [Bookings -> Nat]
    BY <1>0, CancelTypes
<1> QED
    BY <1>0, <1>2, <1>3, <1>4, <1>5, <1>6, <1>7, <1>8, <1>9, CheckoutKeepsInv

\* A step of run() that writes the payment row, the journal or the booking's
\* state, and neither seats nor tickets.
LEMMA StateStepKeepsInv ==
    ASSUME CancelInv, NEW b \in Bookings, NEW l \in Labels, Goto(b, l), pc[b] # "confirmed",
           UNCHANGED <<holdVars, live, mem, pins, gw>>, UNCHANGED cancelVars,
           booking' \in [Bookings -> BookingRow], booking'[b].seats = booking[b].seats,
           payment' \in [Bookings -> PaymentState \cup {None}],
           journal' \in [Bookings -> Seq(JournalRow)],
           \A c \in Bookings : c # b => booking'[c] = booking[c] /\ payment'[c] = payment[c],
           BookingFits(b)', booking'[b].state \notin {None, "CANCELLED"},
           booking'[b].state \in Issued => booking[b].state \in Issued,
           pc[b] \in Late => /\ l \in Late /\ booking'[b].state \in Issued
                             /\ payment'[b] \in {payment[b], "CAPTURED"}
    PROVE  CancelInv'
<1>0. UNCHANGED <<seat, now, hreq, req, refunded, confirmSeq>>
    BY DEF holdVars, cancelVars
<1>1. pc' \in [Bookings -> Labels] /\ pc'[b] = l /\ \A c \in Bookings : c # b => pc'[c] = pc[c]
    BY CancelTypes DEF Goto
<1>2. SagaTypeOK'
    BY <1>0, <1>1, CancelTypes DEF SagaTypeOK, HoldTypeOK, Labels, BookingRow, GwTypeOK
<1>3. HoldRowsSound'
    BY <1>0, CancelTypes DEF HoldRowsSound, PendingRequestsSound, HeldSeatHasHolder, HoldIdNamesOneSeat,
                             HoldsAreBounded
<1>4. OneLiveTicketPerSeat'
    BY DEF CancelInv, OneLiveTicketPerSeat
<1>5. OthersAlone(b) /\ OthersKeepSeats(b)
    BY <1>0, <1>1 DEF OthersAlone, OthersKeepSeats
<1>7. \A s \in Seats : RowFits(s, b)'
    BY <1>0 DEF CancelInv, RowFits
<1>8. \A r \in Requests :
          req[r].pc \in RequestInFlight /\ req[r].booking = b => RequestFits(r)'
    BY <1>0, <1>1, OwnRequestsFit
<1>9. confirmSeq' \in [Bookings -> Nat]
    BY <1>0, CancelTypes
<1> QED
    BY <1>0, <1>2, <1>3, <1>4, <1>5, <1>7, <1>8, <1>9, CheckoutKeepsInv

\* Actions of run() that write no row, the refused confirmation included.
LEMMA LabelStepsKeepInv ==
    ASSUME CancelInv, UNCHANGED cancelVars, NEW b \in Bookings, NEW H,
           \/ RejectCheckout(b, H) \/ CallAuthorize(b) \/ TimeOutAuthorize(b)
           \/ UnpinConflict(b) \/ IssueConflict(b) \/ CallVoid(b) \/ VoidFails(b)
           \/ CallCapture(b) \/ CaptureFails(b) \/ Crash(b) \/ ConfirmConflict(b)
           \/ BlockPayment(b) \/ DeclinePayment(b)
    PROVE  CancelInv'
<1> DEFINE K == KeyOf[b]
           rows == <<holdVars, booking, payment, live, journal, mem>>
<1>0. K \in Keys /\ GwTypeOK /\ pins \in [Bookings -> SUBSET Seats]
    BY SagaAssumption, CancelTypes
<1>1. UNCHANGED gw => GwTypeOK'
    BY <1>0 DEF GwTypeOK
<1>2. CASE RejectCheckout(b, H)
    <2>1. booking[b].state \in LateStates("rejected") /\ "rejected" \in Labels
        BY <1>2, LateStateAt, LateStatesTable DEF RejectCheckout, Labels, Finished
    <2> QED
        BY <1>0, <1>1, <1>2, <2>1, LabelStepKeepsInv DEF RejectCheckout, Late
<1>3. CASE CallAuthorize(b)
    <2>1. PICK answer \in AuthResult : Authorize(K, booking[b].card, answer) /\ Goto(b, answer)
        BY <1>3 DEF CallAuthorize
    <2>2. answer \in Labels /\ booking[b].state \in LateStates(answer) /\ answer \notin {"ticketed", "captured"}
        BY <1>3, LateStateAt, LateStatesTable DEF CallAuthorize, AuthResult, Labels, InFlight
    <2>3. GwTypeOK'
        BY <1>0, <2>1, GatewayTyped
    <2>4. UNCHANGED rows /\ UNCHANGED pins /\ pc[b] \in {"charging", "retrying"}
        BY <1>3 DEF CallAuthorize
    <2> QED
        BY <1>0, <2>1, <2>2, <2>3, <2>4, LabelStepKeepsInv DEF Late
<1>4. CASE TimeOutAuthorize(b)
    <2>1. PICK l \in {"timed_out", "error"} : Goto(b, l)
        BY <1>4 DEF TimeOutAuthorize
    <2>2. l \in Labels /\ booking[b].state \in LateStates(l)
        BY <1>4, LateStateAt, LateStatesTable
        DEF TimeOutAuthorize, Labels, InFlight, Finished, BookingState
    <2>3. GwTypeOK'
        BY <1>0, <1>4, GatewayTyped DEF TimeOutAuthorize
    <2>4. UNCHANGED rows /\ UNCHANGED pins /\ pc[b] \in {"charging", "retrying"}
        BY <1>4 DEF TimeOutAuthorize
    <2> QED
        BY <1>0, <2>1, <2>2, <2>3, <2>4, LabelStepKeepsInv DEF Late
<1>5. CASE UnpinConflict(b) \/ IssueConflict(b) \/ ConfirmConflict(b)
    <2>1. pc[b] \in {"failing", "authorized", "captured"}
        BY <1>5 DEF UnpinConflict, IssueConflict, ConfirmConflict, ReadyToIssue
    <2>2. booking[b].state \in LateStates("error") /\ "error" \in Labels
        BY <2>1, LateStateAt, LateStatesTable DEF BookingState, Labels, Finished
    <2>3. Goto(b, "error") /\ UNCHANGED rows /\ UNCHANGED gw /\ UNCHANGED pins
        BY <1>5 DEF UnpinConflict, IssueConflict, ConfirmConflict
    <2> QED
        BY <1>0, <1>1, <2>1, <2>2, <2>3, LabelStepKeepsInv DEF Late
<1>6. CASE CallVoid(b) \/ VoidFails(b)
    <2>1. PICK l \in {"reversed", "unreversed"} : Goto(b, l)
        BY <1>6 DEF CallVoid, VoidFails
    <2>2. l \in Labels /\ booking[b].state \in LateStates(l)
        BY <1>6, LateStateAt, LateStatesTable DEF CallVoid, VoidFails, Labels, InFlight
    <2>3. GwTypeOK'
        BY <1>0, <1>6, GatewayTyped DEF CallVoid, VoidFails
    <2>4. UNCHANGED rows /\ UNCHANGED pins /\ pc[b] = "compensating"
        BY <1>6 DEF CallVoid, VoidFails
    <2> QED
        BY <1>0, <2>1, <2>2, <2>3, <2>4, LabelStepKeepsInv DEF Late
<1>7. CASE CallCapture(b) \/ CaptureFails(b)
    <2>1. PICK l \in {"captured", "error"} : Goto(b, l)
        BY <1>7 DEF CallCapture, CaptureFails
    <2>2. l \in Labels /\ booking[b].state \in LateStates(l)
        BY <1>7, LateStateAt, LateStatesTable
        DEF CallCapture, CaptureFails, Labels, InFlight, Finished, BookingState
    <2>3. GwTypeOK'
        BY <1>0, <1>7, GatewayTyped DEF CallCapture, CaptureFails
    <2>4. UNCHANGED rows /\ UNCHANGED pins /\ pc[b] = "ticketed"
        BY <1>7 DEF CallCapture, CaptureFails
    <2> QED
        BY <1>0, <2>1, <2>2, <2>3, <2>4, LabelStepKeepsInv DEF Late
<1>8. CASE Crash(b)
    <2>1. pc[b] \in InFlight /\ Goto(b, "crashed") /\ UNCHANGED rows /\ UNCHANGED gw /\ UNCHANGED pins
        BY <1>8 DEF Crash
    <2>2. "crashed" \in Labels /\ booking[b].state \in LateStates("crashed")
        BY <2>1, LateStateAt, LateStatesTable DEF Labels, Finished, BookingState, InFlight
    <2> QED
        BY <1>0, <1>1, <2>1, <2>2, LabelStepKeepsInv DEF Late, InFlight
<1>9. CASE BlockPayment(b) \/ DeclinePayment(b)
    <2>1. /\ pc[b] \in {"locked", "declined"} /\ Goto(b, "failing") /\ UNCHANGED rows /\ UNCHANGED gw
          /\ pins' = [pins EXCEPT ![b] = {s \in Seats : seat[s].booking_id = b}]
        BY <1>9 DEF BlockPayment, DeclinePayment, ReadPins
    <2>2. "failing" \in Labels /\ booking[b].state \in LateStates("failing")
        BY <2>1, LateStateAt, LateStatesTable DEF Labels, InFlight
    <2>3. pins' \in [Bookings -> SUBSET Seats]
        BY <1>0, <2>1
    <2> QED
        BY <1>1, <2>1, <2>2, <2>3, LabelStepKeepsInv DEF Late
<1> QED
    BY <1>2, <1>3, <1>4, <1>5, <1>6, <1>7, <1>8, <1>9

\* The journal stays typed when a change of state is recorded.
LEMMA ChangesTyped ==
    ASSUME CancelInv, NEW b \in Bookings, pc[b] \in InFlight,
           \/ AcceptPayment(b) \/ IssueTickets(b) \/ TicketingFails(b)
           \/ FailPayment(b) \/ FinishCompensation(b) \/ EscalateCompensation(b) \/ Confirm(b)
    PROVE  /\ journal' \in [Bookings -> Seq(JournalRow)]
           /\ \A c \in Bookings : c # b => booking'[c] = booking[c]
<1>1. /\ booking \in [Bookings -> BookingRow] /\ journal \in [Bookings -> Seq(JournalRow)]
      /\ booking[b].state \in BookingState /\ booking[b].seats \in SUBSET Seats
    BY CancelTypes, LateStateAt DEF BookingRow
<1>2. PICK rows, from : Record(b, rows) /\ OneMove(rows, from, booking'[b].state)
    BY <1>1, ChangesAreJournalled, ConfirmIsJournalled
<1>3. rows \in Seq(JournalRow)
    BY <1>2 DEF OneMove
<1>4. journal' \in [Bookings -> Seq(JournalRow)]
    BY <1>1, <1>2, <1>3, RecordTyped
<1> QED
    BY <1>1, <1>4, ChangesAreJournalled, ConfirmIsJournalled

\* The payment row is created, or its outcome is unknown.
LEMMA PendingStepsKeepInv ==
    ASSUME CancelInv, UNCHANGED cancelVars, NEW b \in Bookings, StartCharge(b) \/ RecordUnknown(b)
    PROVE  CancelInv'
<1>0. /\ payment \in [Bookings -> PaymentState \cup {None}] /\ booking \in [Bookings -> BookingRow]
      /\ journal \in [Bookings -> Seq(JournalRow)]
    BY CancelTypes
<1>1. PICK l \in {"charging", "retrying"}, st \in {"PENDING", "UNKNOWN"} :
          Goto(b, l) /\ payment' = [payment EXCEPT ![b] = st]
    BY DEF StartCharge, RecordUnknown
<1>2. /\ pc[b] \in {"locked", "timed_out"} /\ UNCHANGED <<holdVars, live, mem, pins, gw>>
      /\ UNCHANGED booking
    BY DEF StartCharge, RecordUnknown
<1>3. journal' \in [Bookings -> Seq(JournalRow)]
    <2>1. <<Event("PAYMENT_UNKNOWN")>> \in Seq(JournalRow)
        BY JournalRowsTyped DEF AuditEventType
    <2> QED
        BY <1>0, <2>1, RecordTyped DEF StartCharge, RecordUnknown
<1>4. booking[b].state = "PENDING" /\ l \in Labels
    BY <1>2, LateStateAt DEF Labels, InFlight
<1>5. /\ payment' \in [Bookings -> PaymentState \cup {None}] /\ payment'[b] = st
      /\ \A c \in Bookings : c # b => payment'[c] = payment[c]
    BY <1>0, <1>1 DEF PaymentState
<1>6. pc'[b] = l
    BY <1>1, CancelTypes DEF Goto
<1>7. BookingFits(b)'
    <2>1. BookingFits(b)
        BY DEF CancelInv
    <2> QED
        BY <1>2, <1>4, <1>5, <1>6, <2>1, LateStatesTable DEF BookingFits, Sold
<1>8. /\ booking'[b].seats = booking[b].seats /\ booking' \in [Bookings -> BookingRow]
      /\ booking'[b].state \notin {None, "CANCELLED"} /\ booking'[b].state \notin Issued
    BY <1>0, <1>2, <1>4, SagaAssumption DEF Issued, BookingState
<1> QED
    BY <1>1, <1>2, <1>3, <1>4, <1>5, <1>7, <1>8, StateStepKeepsInv DEF Late

\* The authorization is recorded; the tickets cannot be issued.
LEMMA EarlyStateStepsKeepInv ==
    ASSUME CancelInv, UNCHANGED cancelVars, NEW b \in Bookings,
           AcceptPayment(b) \/ TicketingFails(b)
    PROVE  CancelInv'
<1>0. payment \in [Bookings -> PaymentState \cup {None}] /\ booking \in [Bookings -> BookingRow]
    BY CancelTypes
<1>1. /\ pc[b] \in {"approved", "authorized"} /\ UNCHANGED <<holdVars, live, mem, pins, gw>>
      /\ \/ /\ SetState(b, "PAYMENT_AUTHORIZED") /\ Goto(b, "authorized")
            /\ payment' = [payment EXCEPT ![b] = "AUTHORIZED"]
         \/ SetState(b, "COMPENSATING") /\ Goto(b, "compensating") /\ UNCHANGED payment
    BY DEF AcceptPayment, TicketingFails
<1>2. PICK l \in {"authorized", "compensating"}, st \in {"PAYMENT_AUTHORIZED", "COMPENSATING"} :
          SetState(b, st) /\ Goto(b, l) /\ st \in LateStates(l)
    BY <1>1, LateStatesTable
<1>3. booking[b].state \in {"PENDING", "PAYMENT_AUTHORIZED"} /\ l \in Labels /\ pc[b] \in InFlight
    BY <1>1, LateStateAt DEF Labels, InFlight
<1>4. journal' \in [Bookings -> Seq(JournalRow)]
    BY <1>3, ChangesTyped
<1>5. /\ booking' \in [Bookings -> BookingRow] /\ booking'[b].state = st
      /\ booking'[b].seats = booking[b].seats
      /\ \A c \in Bookings : c # b => booking'[c] = booking[c]
    <2>1. st \in BookingState
        BY DEF BookingState
    <2> QED
        BY <1>0, <1>2, <2>1, SetStateEffect
<1>6. /\ payment' \in [Bookings -> PaymentState \cup {None}]
      /\ st = "PAYMENT_AUTHORIZED" => payment'[b] = "AUTHORIZED"
      /\ payment'[b] \in {payment[b], "AUTHORIZED"}
      /\ \A c \in Bookings : c # b => payment'[c] = payment[c]
    BY <1>0, <1>1, <1>5, SetStateEffect DEF PaymentState, BookingState
<1>7. pc'[b] = l
    BY <1>2, CancelTypes DEF Goto
<1>8. BookingFits(b)'
    <2>1. BookingFits(b)
        BY DEF CancelInv
    <2>2. live[b] = {} /\ booking[b].seats # {} /\ payment[b] # "REFUNDED"
        BY <1>1, <1>3, <2>1, SagaAssumption DEF BookingFits, BookingState
    <2> QED
        BY <1>1, <1>2, <1>5, <1>6, <1>7, <2>2 DEF BookingFits, Sold, Refundable
<1>9. booking'[b].state \notin {None, "CANCELLED"} /\ booking'[b].state \notin Issued
    BY <1>5, SagaAssumption DEF Issued, BookingState
<1> QED
    BY <1>1, <1>2, <1>3, <1>4, <1>5, <1>6, <1>8, <1>9, StateStepKeepsInv DEF Late

\* The booking is confirmed, over a review too.
LEMMA ConfirmKeepsInv ==
    ASSUME CancelInv, UNCHANGED cancelVars, NEW b \in Bookings, Confirm(b)
    PROVE  CancelInv'
<1>0. /\ payment \in [Bookings -> PaymentState \cup {None}] /\ booking \in [Bookings -> BookingRow]
      /\ journal \in [Bookings -> Seq(JournalRow)]
    BY CancelTypes
<1>1. /\ pc[b] = "captured" /\ UNCHANGED <<holdVars, live, mem, pins, gw>>
      /\ SetState(b, "CONFIRMED") /\ Goto(b, "confirmed")
      /\ payment' = [payment EXCEPT ![b] = "CAPTURED"]
    BY DEF Confirm
<1>2. booking[b].state \in {"TICKETED", "NEEDS_MANUAL_REVIEW"} /\ pc[b] \in InFlight
    BY <1>1, LateStateAt DEF InFlight
<1>3. journal' \in [Bookings -> Seq(JournalRow)]
    BY <1>2, ChangesTyped
<1>4. /\ booking' \in [Bookings -> BookingRow] /\ booking'[b].state = "CONFIRMED"
      /\ booking'[b].seats = booking[b].seats
      /\ \A c \in Bookings : c # b => booking'[c] = booking[c]
    <2>1. "CONFIRMED" \in BookingState
        BY DEF BookingState
    <2> QED
        BY <1>0, <1>1, <2>1, SetStateEffect
<1>5. /\ payment' \in [Bookings -> PaymentState \cup {None}] /\ payment'[b] = "CAPTURED"
      /\ \A c \in Bookings : c # b => payment'[c] = payment[c]
    BY <1>0, <1>1 DEF PaymentState
<1>6. pc'[b] = "confirmed" /\ "confirmed" \in Labels
    BY <1>1, CancelTypes DEF Goto, Labels, Finished
<1>7. BookingFits(b)'
    <2>1. BookingFits(b)
        BY DEF CancelInv
    <2>2. live[b] = booking[b].seats /\ booking[b].seats # {}
        BY <1>1, <1>2, <2>1, SagaAssumption DEF BookingFits, BookingState
    <2> QED
        BY <1>1, <1>4, <1>5, <1>6, <2>2, LateStatesTable DEF BookingFits, Sold, Refundable
<1>8. /\ booking'[b].state \notin {None, "CANCELLED"}
      /\ booking'[b].state \in Issued /\ booking[b].state \in Issued
    BY <1>2, <1>4, SagaAssumption DEF Issued, BookingState
<1> QED
    BY <1>1, <1>3, <1>4, <1>5, <1>6, <1>7, <1>8, StateStepKeepsInv DEF Late

\* Step 1 pins held rows only, so no row of a booking with tickets.
LEMMA LockSeatsKeepsCancelInv ==
    ASSUME CancelInv, UNCHANGED cancelVars, NEW b \in Bookings, NEW H \in (SUBSET HoldIds) \ {{}},
           NEW card \in Cards, LockSeats(b, H, card)
    PROVE  CancelInv'
<1> DEFINE S == SeatsForHolds(b, H)
<1>0. UNCHANGED <<req, refunded, confirmSeq>> /\ SagaTypeOK /\ HoldTypeOK /\ HoldRowsSound
      /\ seat \in [Seats -> Row] /\ pc[b] = "new"
    BY CancelTypes DEF cancelVars, LockSeats
<1>1. /\ S \in SUBSET Seats /\ S # {} /\ \A s \in S : seat[s].status = "held"
    BY CheckoutHasSeats DEF LockSeats, SeatsForHolds, CheckoutAllowed
<1>2. booking[b].state = None
    BY <1>0, LateStateAt
<1>3. /\ UNCHANGED <<now, hreq, gw, payment, live, pins>>
      /\ seat' = [s \in Seats |-> IF s \in S THEN Pin(seat[s], b) ELSE seat[s]]
      /\ mem' = [mem EXCEPT ![b] = [s \in Seats |-> IF s \in S THEN seat'[s] ELSE AvailableRow]]
      /\ booking' = [booking EXCEPT ![b] = [state |-> "PENDING", seats |-> S, card |-> card]]
      /\ Goto(b, "locked")
    BY DEF LockSeats
<1> HIDE DEF S
<1>4. \A s \in Seats : /\ seat'[s] \in Row
                       /\ seat'[s].status = seat[s].status
                       /\ seat'[s].held_by = seat[s].held_by
                       /\ seat'[s].hold_id = seat[s].hold_id
                       /\ seat'[s].expires = seat[s].expires
                       /\ s \in S => seat'[s].booking_id = b
                       /\ s \notin S => seat'[s].booking_id = seat[s].booking_id
    <2>1. \A s \in Seats : seat[s] \in Row
        BY <1>0
    <2>2. \A s \in Seats : IF s \in S THEN seat'[s] = Pin(seat[s], b) ELSE seat'[s] = seat[s]
        BY <1>3
    <2> QED
        BY <2>1, <2>2, PinnedRow
<1>5. seat' \in [Seats -> Row]
    BY <1>3, <1>4
<1>6. HoldTypeOK' /\ HoldRowsSound'
    BY <1>0, <1>3, <1>4, <1>5, HoldColumnsKept
<1>7. /\ booking' \in [Bookings -> BookingRow]
      /\ booking'[b].state = "PENDING" /\ booking'[b].seats = S
      /\ \A c \in Bookings : c # b => booking'[c] = booking[c]
    BY <1>1, <1>3, CancelTypes DEF BookingRow, BookingState
<1>8. mem' \in [Bookings -> [Seats -> Row]]
    <2>1. AvailableRow \in Row
        BY DEF AvailableRow, Row, SeatStatus
    <2>2. [s \in Seats |-> IF s \in S THEN seat'[s] ELSE AvailableRow] \in [Seats -> Row]
        BY <1>4, <2>1
    <2> QED
        BY <1>3, <2>2, CancelTypes
<1>9. journal' \in [Bookings -> Seq(JournalRow)]
    <2>1. PICK rows : Record(b, rows) /\ OneMove(rows, None, booking'[b].state)
        BY CreationIsJournalled, CancelTypes
    <2> QED
        BY <2>1, RecordTyped, CancelTypes DEF OneMove
<1>10. /\ pc' \in [Bookings -> Labels] /\ pc'[b] = "locked"
       /\ \A c \in Bookings : c # b => pc'[c] = pc[c]
    BY <1>3, CancelTypes DEF Goto, Labels, InFlight
<1>11. SagaTypeOK'
    BY <1>3, <1>6, <1>7, <1>8, <1>9, <1>10, CancelTypes DEF SagaTypeOK, BookingRow, Labels, GwTypeOK
<1>12. OneLiveTicketPerSeat'
    BY <1>3 DEF CancelInv, OneLiveTicketPerSeat
<1>13. OthersAlone(b) /\ OthersKeepSeats(b)
    BY <1>1, <1>3, <1>4, <1>7, <1>10 DEF OthersAlone, OthersKeepSeats
<1>14. BookingFits(b)'
    <2>1. live[b] = {} /\ payment[b] # "REFUNDED"
        BY <1>0, <1>2, SagaAssumption DEF CancelInv, BookingFits, BookingState
    <2> QED
        BY <1>1, <1>3, <1>7, <1>10, <2>1, LateStatesTable DEF BookingFits, Sold
<1>15. \A s \in Seats : RowFits(s, b)'
    <2>1. \A s \in Seats : seat[s].booking_id # b
        BY <1>2 DEF CancelInv, RowFits
    <2> QED
        BY <1>4, <1>7, <2>1, SagaAssumption DEF RowFits, Issued, BookingState
<1>16. \A r \in Requests :
           req[r].pc \in RequestInFlight /\ req[r].booking = b => RequestFits(r)'
    BY <1>0, NoRequestBeforeTickets DEF Late
<1>17. confirmSeq' \in [Bookings -> Nat]
    BY <1>0, CancelTypes
<1> QED
    BY <1>0, <1>6, <1>11, <1>12, <1>13, <1>14, <1>15, <1>16, <1>17, CheckoutKeepsInv

\* The sale marks its own seats booked and takes nobody's pin.
LEMMA IssueTicketsKeepsCancelInv ==
    ASSUME CancelInv, UNCHANGED cancelVars, NEW b \in Bookings, IssueTickets(b)
    PROVE  CancelInv'
<1> DEFINE S == booking[b].seats
<1>0. UNCHANGED <<req, refunded, confirmSeq>> /\ SagaTypeOK /\ HoldTypeOK /\ HoldRowsSound
      /\ seat \in [Seats -> Row] /\ pc[b] = "authorized" /\ pc[b] \in InFlight
    BY CancelTypes DEF cancelVars, IssueTickets, ReadyToIssue, InFlight
<1>1. /\ booking[b].state = "PAYMENT_AUTHORIZED" /\ BookingFits(b)
      /\ S \in SUBSET Seats
    BY <1>0, LateStateAt, CancelTypes DEF CancelInv, BookingRow
<1>2. \A c \in Bookings : live[c] \cap S = {}
    BY <1>1 DEF IssueTickets, FlushRefused
<1>3. /\ UNCHANGED <<now, hreq, gw, payment, mem, pins>>
      /\ live' = [live EXCEPT ![b] = S]
      /\ seat' = [s \in Seats |-> IF s \in S THEN Book(seat[s]) ELSE seat[s]]
      /\ SetState(b, "TICKETED") /\ Goto(b, "ticketed")
    BY DEF IssueTickets
<1>4. \A s \in Seats : /\ seat'[s] \in Row
                       /\ seat'[s].booking_id = seat[s].booking_id
                       /\ seat'[s].hold_id \in {seat[s].hold_id, None}
                       /\ seat'[s].status = "held" => seat'[s] = seat[s]
                       /\ s \in S \/ seat[s].status = "booked" => seat'[s].status = "booked"
    <2>1. \A s \in Seats : seat[s] \in Row
        BY <1>0
    <2>2. \A s \in Seats : IF s \in S THEN seat'[s] = Book(seat[s]) ELSE seat'[s] = seat[s]
        BY <1>3
    <2> QED
        BY <2>1, <2>2, BookedRow
<1>5. seat' \in [Seats -> Row]
    BY <1>3, <1>4
<1>6. HoldTypeOK' /\ HoldRowsSound'
    BY <1>0, <1>3, <1>4, <1>5, HoldColumnsKept
<1>7. /\ booking' \in [Bookings -> BookingRow]
      /\ booking'[b].state = "TICKETED" /\ booking'[b].seats = S
      /\ \A c \in Bookings : c # b => booking'[c] = booking[c]
    <2>1. "TICKETED" \in BookingState
        BY DEF BookingState
    <2> QED
        BY <1>3, <2>1, SetStateEffect, CancelTypes
<1>8. journal' \in [Bookings -> Seq(JournalRow)]
    BY <1>0, ChangesTyped
<1> HIDE DEF S
<1>9. live' \in [Bookings -> SUBSET Seats] /\ live'[b] = S
      /\ \A c \in Bookings : c # b => live'[c] = live[c]
    BY <1>1, <1>3, CancelTypes
<1>10. /\ pc' \in [Bookings -> Labels] /\ pc'[b] = "ticketed"
       /\ \A c \in Bookings : c # b => pc'[c] = pc[c]
    BY <1>3, CancelTypes DEF Goto, Labels, InFlight
<1>11. SagaTypeOK'
    BY <1>3, <1>6, <1>7, <1>8, <1>9, <1>10, CancelTypes DEF SagaTypeOK, BookingRow, Labels, GwTypeOK
<1>12. OneLiveTicketPerSeat'
    BY <1>2, <1>9 DEF CancelInv, OneLiveTicketPerSeat
<1>13. OthersAlone(b) /\ OthersKeepSeats(b)
    BY <1>3, <1>4, <1>7, <1>9, <1>10 DEF OthersAlone, OthersKeepSeats
<1>14. BookingFits(b)'
    <2>1. S # {} /\ payment[b] \in Refundable
        BY <1>1, SagaAssumption DEF BookingFits, BookingState, S
    <2> QED
        BY <1>3, <1>7, <1>9, <1>10, <2>1, LateStatesTable DEF BookingFits, Sold, Refundable
<1>15. \A s \in Seats : RowFits(s, b)'
    <2>1. \A s \in Seats : seat[s].booking_id = b => s \in S
        BY DEF CancelInv, RowFits, S
    <2> QED
        BY <1>4, <1>7, <2>1, SagaAssumption DEF RowFits, BookingState
<1>16. \A r \in Requests :
           req[r].pc \in RequestInFlight /\ req[r].booking = b => RequestFits(r)'
    BY <1>0, NoRequestBeforeTickets DEF Late
<1>17. confirmSeq' \in [Bookings -> Nat]
    BY <1>0, CancelTypes
<1> QED
    BY <1>0, <1>6, <1>11, <1>12, <1>13, <1>14, <1>15, <1>16, <1>17, CheckoutKeepsInv

\* release_seats_for_booking: the rows of b become available, the others stay.
LEMMA ReleasedRows ==
    ASSUME HoldTypeOK, HoldRowsSound, live \in [Bookings -> SUBSET Seats], NEW b \in Bookings,
           ReleaseSeatsForBooking(b), UNCHANGED <<now, hreq>>
    PROVE  /\ HoldTypeOK' /\ HoldRowsSound'
           /\ \A s \in Seats : seat'[s].booking_id # b
           /\ \A s \in Seats : seat[s].booking_id # b => seat'[s] = seat[s]
           /\ \A s \in Seats : seat[s].booking_id = b => seat'[s].booking_id = None
           /\ live' \in [Bookings -> SUBSET Seats] /\ live'[b] = {}
           /\ \A c \in Bookings : c # b => live'[c] = live[c]
<1>1. \A s \in Seats : seat[s] \in Row
    BY DEF HoldTypeOK
<1>2. seat' = [s \in Seats |-> IF seat[s].booking_id = b THEN AvailableRow ELSE seat[s]]
    BY DEF ReleaseSeatsForBooking
<1>3. /\ AvailableRow \in Row /\ AvailableRow.booking_id = None
      /\ AvailableRow.hold_id = None /\ AvailableRow.status = "available"
    BY DEF AvailableRow, Row, SeatStatus
<1> HIDE DEF AvailableRow
<1>4. seat' \in [Seats -> Row]
    BY <1>1, <1>2, <1>3
<1>5. \A s \in Seats : \/ seat'[s] = seat[s] /\ seat[s].booking_id # b
                       \/ seat'[s] = AvailableRow /\ seat[s].booking_id = b
    BY <1>2
<1>6. HoldTypeOK' /\ HoldRowsSound'
    BY <1>3, <1>4, <1>5, HoldColumnsKept
<1>7. b # None
    BY NoneAssumption
<1>8. live' \in [Bookings -> SUBSET Seats] /\ live'[b] = {}
      /\ \A c \in Bookings : c # b => live'[c] = live[c]
    BY DEF ReleaseSeatsForBooking
<1> QED
    BY <1>3, <1>5, <1>6, <1>7, <1>8

\* What ends a booking without a sale: a failed payment or a compensation.
LEMMA EndingKeepsInv ==
    ASSUME CancelInv, UNCHANGED cancelVars, NEW b \in Bookings,
           FailPayment(b) \/ FinishCompensation(b) \/ EscalateCompensation(b)
    PROVE  CancelInv'
<1>0. /\ UNCHANGED <<req, refunded, confirmSeq>> /\ UNCHANGED <<now, hreq, gw, mem, pins>>
      /\ HoldTypeOK /\ HoldRowsSound /\ seat \in [Seats -> Row]
      /\ pc[b] \in {"failing", "reversed", "unreversed"} /\ pc[b] \in InFlight
    BY CancelTypes
    DEF cancelVars, FailPayment, FinishCompensation, EscalateCompensation, InFlight
<1>1. booking[b].state \in {"PENDING", "COMPENSATING"} /\ BookingFits(b)
    BY <1>0, LateStateAt DEF CancelInv
<1>2. live[b] = {} /\ payment[b] # "REFUNDED" /\ booking[b].seats # {}
    BY <1>0, <1>1, SagaAssumption DEF BookingFits, BookingState
<1>3. PICK l \in {"payment_failed", "compensated"}, st \in Dead :
          /\ Goto(b, l) /\ SetState(b, st) /\ st \in LateStates(l)
          /\ st \in Issued => ReleaseSeatsForBooking(b)
    <2>1. CASE FailPayment(b)
        BY <2>1, LateStatesTable DEF FailPayment, Dead, Issued
    <2>2. CASE FinishCompensation(b)
        BY <2>2, LateStatesTable DEF FinishCompensation, Dead
    <2>3. CASE EscalateCompensation(b)
        BY <2>3, LateStatesTable DEF EscalateCompensation, Dead
    <2> QED
        BY <2>1, <2>2, <2>3
<1>4. /\ HoldTypeOK' /\ HoldRowsSound' /\ OthersKeepSeats(b)
      /\ \A s \in Seats : seat'[s].booking_id \in {seat[s].booking_id, None}
      /\ live' \in [Bookings -> SUBSET Seats] /\ live'[b] = {}
      /\ \A c \in Bookings : c # b => live'[c] = live[c]
    <2>1. CASE FailPayment(b)
        <3>1. /\ seat' = [s \in Seats |-> IF s \in pins[b] THEN Pin(seat[s], None) ELSE seat[s]]
              /\ \A s \in pins[b] : seat[s].status # "booked"
              /\ UNCHANGED live
            BY <2>1 DEF FailPayment, UnpinRefused
        <3>2. \A s \in Seats : \/ seat'[s] = seat[s]
                               \/ seat'[s] = Pin(seat[s], None) /\ seat[s].status # "booked"
            BY <3>1
        <3>3. \A s \in Seats : /\ seat'[s] \in Row /\ seat'[s].status = seat[s].status
                               /\ seat'[s].held_by = seat[s].held_by
                               /\ seat'[s].hold_id = seat[s].hold_id
                               /\ seat'[s].expires = seat[s].expires
                               /\ seat'[s].booking_id \in {seat[s].booking_id, None}
            BY <1>0, <3>2, PinnedRow
        <3>4. seat' \in [Seats -> Row]
            BY <3>1, <3>3
        <3>5. HoldTypeOK' /\ HoldRowsSound'
            BY <1>0, <3>3, <3>4, HoldColumnsKept
        <3>6. OthersKeepSeats(b)
            BY <3>2, <3>3 DEF OthersKeepSeats
        <3> QED
            BY <1>2, <3>1, <3>3, <3>5, <3>6, CancelTypes
    <2>2. CASE FinishCompensation(b) \/ EscalateCompensation(b)
        <3>1. ReleaseSeatsForBooking(b) /\ live \in [Bookings -> SUBSET Seats]
            BY <2>2, CancelTypes DEF FinishCompensation, EscalateCompensation
        <3>2. /\ HoldTypeOK' /\ HoldRowsSound'
              /\ \A s \in Seats : seat[s].booking_id # b => seat'[s] = seat[s]
              /\ \A s \in Seats : seat[s].booking_id = b => seat'[s].booking_id = None
              /\ live' \in [Bookings -> SUBSET Seats] /\ live'[b] = {}
              /\ \A c \in Bookings : c # b => live'[c] = live[c]
            BY <1>0, <3>1, ReleasedRows
        <3>3. OthersKeepSeats(b)
            BY <3>2 DEF OthersKeepSeats
        <3> QED
            BY <3>2, <3>3
    <2> QED
        BY <2>1, <2>2
<1>5. /\ booking' \in [Bookings -> BookingRow]
      /\ booking'[b].state = st /\ booking'[b].seats = booking[b].seats
      /\ \A c \in Bookings : c # b => booking'[c] = booking[c]
    <2>1. st \in BookingState
        BY DEF BookingState, Dead
    <2> QED
        BY <1>3, <2>1, SetStateEffect, CancelTypes
<1>6. journal' \in [Bookings -> Seq(JournalRow)]
    BY <1>0, ChangesTyped
<1>7. /\ payment' \in [Bookings -> PaymentState \cup {None}] /\ payment'[b] # "REFUNDED"
      /\ \A c \in Bookings : c # b => payment'[c] = payment[c]
    <2>1. payment \in [Bookings -> PaymentState \cup {None}]
        BY CancelTypes
    <2>2. PICK p \in PaymentState \cup {None} :
              p # "REFUNDED" /\ payment' = [payment EXCEPT ![b] = p]
        <3>1. CASE FailPayment(b)
            BY <2>1, <3>1, SagaAssumption DEF FailPayment, PaymentState
        <3>2. CASE FinishCompensation(b)
            BY <2>1, <3>2 DEF FinishCompensation, PaymentState
        <3>3. CASE EscalateCompensation(b)
            <4>1. payment' = [payment EXCEPT ![b] = payment[b]] /\ payment[b] \in PaymentState \cup {None}
                BY <2>1, <3>3 DEF EscalateCompensation
            <4> QED
                BY <1>2, <4>1
        <3> QED
            BY <3>1, <3>2, <3>3
    <2> QED
        BY <2>1, <2>2
<1>8. /\ pc' \in [Bookings -> Labels] /\ pc'[b] = l /\ \A c \in Bookings : c # b => pc'[c] = pc[c]
    BY <1>3, CancelTypes DEF Goto, Labels, Finished
<1>9. SagaTypeOK'
    BY <1>0, <1>4, <1>5, <1>6, <1>7, <1>8, CancelTypes DEF SagaTypeOK, BookingRow, Labels, GwTypeOK
<1>10. OneLiveTicketPerSeat'
    BY <1>4 DEF CancelInv, OneLiveTicketPerSeat
<1>11. OthersAlone(b)
    BY <1>4, <1>5, <1>7, <1>8 DEF OthersAlone
<1>12. BookingFits(b)'
    BY <1>2, <1>3, <1>4, <1>5, <1>7, <1>8 DEF BookingFits, Sold, Dead
<1>13. \A s \in Seats : RowFits(s, b)'
    <2>1. \A s \in Seats : seat[s].booking_id = b => s \in booking[b].seats
        BY DEF CancelInv, RowFits
    <2>2. b # None /\ st \notin {None, "CANCELLED"}
        BY NoneAssumption, SagaAssumption DEF Dead, BookingState
    <2>3. st \in Issued => \A s \in Seats : seat'[s].booking_id # b
        BY <1>0, <1>3, ReleasedRows, CancelTypes
    <2> QED
        BY <1>4, <1>5, <2>1, <2>2, <2>3 DEF RowFits
<1>14. \A r \in Requests :
           req[r].pc \in RequestInFlight /\ req[r].booking = b => RequestFits(r)'
    BY <1>0, NoRequestBeforeTickets DEF Late
<1>15. confirmSeq' \in [Bookings -> Nat]
    BY <1>0, CancelTypes
<1> QED
    BY <1>0, <1>4, <1>9, <1>10, <1>11, <1>12, <1>13, <1>14, <1>15, CheckoutKeepsInv

-----------------------------------------------------------------------------
(***************************************************************************)
(* Holds, the sweep and the clock; cancels and PATCHes                     *)
(***************************************************************************)

\* Hold requests and the sweep do not touch a booked row, so no row of a
\* booking that has had tickets.
LEMMA HoldTurnKeepsInv ==
    ASSUME CancelInv, HoldTurn
    PROVE  CancelInv'
<1>0. /\ HoldNext /\ UNCHANGED <<gw, booking, payment, live, journal, pc, mem, pins>>
      /\ UNCHANGED <<req, refunded, confirmSeq>>
    BY DEF HoldTurn, sagaVars, cancelVars
<1>1. HoldTypeOK /\ HoldRowsSound
    BY CancelTypes
<1>2. HoldTypeOK' /\ HoldRowsSound'
    BY <1>0, <1>1, HoldInvStep DEF HoldInv
<1>3. \A s \in Seats : /\ seat'[s].booking_id \in {seat[s].booking_id, None}
                       /\ seat[s].status = "booked" => seat'[s] = seat[s]
    BY <1>0, <1>1, HoldStepKeepsPins, HoldStepKeepsBooked
<1>4. CancelTypeOK'
    BY <1>0, <1>2, CancelTypes DEF CancelInv, CancelTypeOK, SagaTypeOK, GwTypeOK
<1>5. \A b \in Bookings : BookingFits(b)'
    BY <1>0 DEF CancelInv, BookingFits, Sold
<1>6. OneLiveTicketPerSeat' /\ LocksApart'
    BY <1>0 DEF CancelInv, OneLiveTicketPerSeat, LocksApart
<1>7. \A s \in Seats : \A b \in Bookings : RowFits(s, b)'
    BY <1>0, <1>3, NoneAssumption DEF CancelInv, RowFits
<1>8. ASSUME NEW r \in Requests
      PROVE  RequestFits(r)'
    <2>1. CASE req[r].pc \notin RequestInFlight
        BY <1>0, <2>1, IdleRequestsFit
    <2>2. CASE req[r].pc \in RequestInFlight
        <3> DEFINE c == req[r].booking
        <3>1. RequestFits(r) /\ c \in Bookings /\ booking[c].state \in Issued
            BY <2>2 DEF CancelInv, RequestFits
        <3>2. c # None /\ \A s \in Seats : seat[s].booking_id = c => seat[s].status = "booked"
            BY <3>1, NoneAssumption DEF CancelInv, RowFits
        <3>3. \A s \in Seats : seat'[s].booking_id = c <=> seat[s].booking_id = c
            BY <1>3, <3>2
        <3>4. SeatsOf(c)' = SeatsOf(c)
            BY <1>0, <3>3 DEF SeatsOf
        <3> QED
            BY <1>0, <3>1, <3>4 DEF RequestFits
    <2> QED
        BY <2>1, <2>2
<1> QED
    BY <1>2, <1>4, <1>5, <1>6, <1>7, <1>8 DEF CancelInv

\* A request moves on; the tables stay as they are.
LEMMA RequestMovesOn ==
    ASSUME CancelInv, NEW r \in Requests, NEW row \in RequestRow, req' = [req EXCEPT ![r] = row],
           UNCHANGED vars, UNCHANGED confirmSeq, refunded' \subseteq Keys, RequestFits(r)',
           \A q \in Requests : q # r => row.locks \cap req[q].locks = {}
    PROVE  CancelInv'
<1>0. UNCHANGED <<seat, now, hreq, gw, booking, payment, live, journal, pc, mem, pins>>
    BY DEF vars
<1>1. /\ req' \in [Requests -> RequestRow] /\ req'[r] = row
      /\ \A q \in Requests : q # r => req'[q] = req[q]
    BY CancelTypes
<1>2. CancelTypeOK'
    BY <1>0, <1>1, CancelTypes DEF CancelTypeOK, SagaTypeOK, HoldTypeOK, GwTypeOK, RequestRow
<1>3. HoldRowsSound'
    BY <1>0, CancelTypes DEF HoldRowsSound, PendingRequestsSound, HeldSeatHasHolder, HoldIdNamesOneSeat,
                             HoldsAreBounded
<1>4. \A b \in Bookings : BookingFits(b)'
    BY <1>0 DEF CancelInv, BookingFits, Sold
<1>5. OneLiveTicketPerSeat'
    BY <1>0 DEF CancelInv, OneLiveTicketPerSeat
<1>6. \A s \in Seats : \A b \in Bookings : RowFits(s, b)'
    BY <1>0 DEF CancelInv, RowFits
<1>7. \A q \in Requests : q # r => RequestFits(q)'
    BY <1>0, <1>1 DEF CancelInv, RequestFits, SeatsOf
<1>8. LocksApart'
    BY <1>1 DEF CancelInv, LocksApart
<1> QED
    BY <1>2, <1>3, <1>4, <1>5, <1>6, <1>7, <1>8 DEF CancelInv

\* The row of a request that has been answered.
LEMMA AnsweredRow ==
    LET row == [Unopened EXCEPT !.pc = "done"] IN
    row \in RequestRow /\ row.pc = "done" /\ row.locks = {}
BY DEF Unopened, RequestRow

\* A request is answered without a commit: refused, rolled back or dead.
LEMMA AnswerKeepsInv ==
    ASSUME CancelInv, NEW r \in Requests, Answer(r), UNCHANGED <<vars, refunded, confirmSeq>>
    PROVE  CancelInv'
<1> DEFINE row == [Unopened EXCEPT !.pc = "done"]
<1>1. row \in RequestRow /\ row.pc = "done" /\ row.locks = {}
    BY AnsweredRow
<1>2. req' = [req EXCEPT ![r] = row]
    BY DEF Answer
<1> HIDE DEF row
<1>3. req'[r] = row
    BY <1>2, CancelTypes
<1>4. RequestFits(r)'
    BY <1>1, <1>3 DEF RequestFits, RequestInFlight, Locking
<1> QED
    BY <1>1, <1>2, <1>4, RequestMovesOn, CancelTypes

\* A request has opened a booking and read on.
LEMMA OpenStepsKeepInv ==
    ASSUME CancelInv, NEW r \in Requests,
           \/ \E b \in Bookings : OpenRequest(r, b)
           \/ FindCharge(r) \/ CloseBooking(r) \/ EscalateCancel(r) \/ StartAmend(r)
    PROVE  CancelInv'
<1>0. UNCHANGED <<vars, refunded, confirmSeq>>
    BY DEF OpenRequest, FindCharge, CloseBooking, EscalateCancel, StartAmend
<1>1. req \in [Requests -> RequestRow] /\ req[r] \in RequestRow /\ RequestFits(r)
      /\ refunded \subseteq Keys
    BY CancelTypes DEF CancelInv
<1>2. UNCHANGED <<seat, booking, payment, pc>>
    BY <1>0 DEF vars
<1>3. \A b \in Bookings : NextSeq(b) \in Nat
    BY CancelTypes DEF NextSeq
<1>4. ASSUME NEW row \in RequestRow, req' = [req EXCEPT ![r] = row], row.locks = req[r].locks, RequestFits(r)'
      PROVE  CancelInv'
    BY <1>0, <1>1, <1>4, RequestMovesOn DEF CancelInv, LocksApart
<1>5. ASSUME NEW b \in Bookings, OpenRequest(r, b)
      PROVE  CancelInv'
    <2> DEFINE row == [req[r] EXCEPT !.pc = "read", !.booking = b, !.state = booking[b].state]
    <2>1. req[r].pc = "new" /\ booking[b].state \in Changeable /\ req' = [req EXCEPT ![r] = row]
        BY <1>1, <1>5 DEF OpenRequest
    <2>2. /\ row \in RequestRow /\ row.pc = "read" /\ row.booking = b /\ row.state = booking[b].state
          /\ row.locks = req[r].locks
        BY <1>1, <2>1 DEF RequestRow, RequestInFlight
    <2> HIDE DEF row
    <2>3. req'[r] = row
        BY <1>1, <2>1
    <2>4. row.locks = {}
        BY <1>1, <2>1, <2>2 DEF RequestFits, Locking
    <2>5. BookingFits(b) /\ pc[b] \in Labels
        BY CancelTypes DEF CancelInv
    <2>6. pc[b] \in {"ticketed", "captured", "confirmed", "error", "crashed"}
          /\ (booking[b].state = "CONFIRMED" => pc[b] = "confirmed")
        <3>1. booking[b].state \in {"TICKETED", "CONFIRMED"}
            BY <2>1 DEF Changeable
        <3>2. booking[b].state \in LateStates(pc[b])
            BY <2>5 DEF BookingFits
        <3> QED
            BY <2>5, <3>1, <3>2, LateStatesTable, SagaAssumption DEF Labels, InFlight, Finished,
                                                                     BookingState
    <2>7. payment[b] \in Refundable /\ booking[b].state \in Issued
        BY <2>1, <2>5 DEF BookingFits, Changeable, Issued
    <2>8. RequestFits(r)'
        BY <1>2, <2>1, <2>2, <2>3, <2>4, <2>6, <2>7 DEF RequestFits, Locking
    <2> QED
        BY <1>4, <2>1, <2>2, <2>8
<1>6. CASE FindCharge(r)
    <2> DEFINE found == payment[req[r].booking] \in Refundable
               row == [req[r] EXCEPT !.pc = "charged", !.charge = found]
    <2>1. req[r].pc = "read" /\ req' = [req EXCEPT ![r] = row]
        BY <1>1, <1>6 DEF FindCharge
    <2>a. found \in BOOLEAN
        OBVIOUS
    <2> HIDE DEF found
    <2>2. /\ row \in RequestRow /\ row.pc = "charged" /\ row.booking = req[r].booking
          /\ row.state = req[r].state /\ row.locks = req[r].locks /\ row.charge = found
        BY <1>1, <2>a DEF RequestRow, RequestInFlight
    <2> HIDE DEF row
    <2>3. req'[r] = row
        BY <1>1, <2>1
    <2>4. ~ row.charge => payment[req[r].booking] = "REFUNDED"
        BY <1>1, <2>1, <2>2 DEF RequestFits, RequestInFlight, found
    <2>5. RequestFits(r)'
        BY <1>1, <1>2, <2>1, <2>2, <2>3, <2>4 DEF RequestFits, Locking, RequestInFlight
    <2> QED
        BY <1>4, <2>1, <2>2, <2>5
<1>7. CASE CloseBooking(r) \/ EscalateCancel(r) \/ StartAmend(r)
    <2> DEFINE b == req[r].booking
    <2>1. PICK l \in {"closing", "escalating", "amending"} :
              /\ req' = [req EXCEPT ![r].pc = l, ![r].seq = NextSeq(b)]
              /\ req[r].pc \in {"refunded", "unrefunded", "read"}
              /\ l = "closing" => req[r].pc = "refunded" /\ CanTransition(req[r].state, "CANCELLED")
              /\ l = "escalating" => req[r].pc = "unrefunded"
              /\ l = "amending" => req[r].pc = "read"
        BY <1>7 DEF CloseBooking, EscalateCancel, StartAmend
    <2> DEFINE row == [req[r] EXCEPT !.pc = l, !.seq = NextSeq(b)]
    <2>2. req[r].pc \in RequestInFlight /\ b \in Bookings /\ NextSeq(b) \in Nat /\ req[r].state \in Changeable
        BY <1>1, <1>3, <2>1 DEF RequestFits, RequestInFlight
    <2>3. req' = [req EXCEPT ![r] = row]
        BY <1>1, <2>1
    <2>4. /\ row \in RequestRow /\ row.pc = l /\ row.booking = b /\ row.state = req[r].state
          /\ row.locks = req[r].locks /\ row.charge = req[r].charge
        BY <1>1, <2>2 DEF RequestRow, RequestInFlight
    <2>5. l = "closing" => req[r].state = "CONFIRMED"
        BY <2>1, <2>2 DEF Changeable, CanTransition, ALLOWED_TRANSITIONS
    <2> HIDE DEF row
    <2>6. req'[r] = row
        BY <1>1, <2>3
    <2>7. RequestFits(r)'
        BY <1>1, <1>2, <2>1, <2>2, <2>4, <2>5, <2>6 DEF RequestFits, Locking, RequestInFlight, SeatsOf
    <2> QED
        BY <1>4, <2>3, <2>4, <2>7
<1> QED
    BY <1>5, <1>6, <1>7

\* The FOR UPDATE: it waits for rows under another cancel's lock.
LEMMA LockSoldSeatsKeepsInv ==
    ASSUME CancelInv, NEW r \in Requests, LockSoldSeats(r)
    PROVE  CancelInv'
<1> DEFINE b == req[r].booking
           row == [req[r] EXCEPT !.pc = "locked", !.locks = SeatsOf(b)]
<1>1. req \in [Requests -> RequestRow] /\ req[r] \in RequestRow /\ RequestFits(r)
      /\ refunded \subseteq Keys
    BY CancelTypes DEF CancelInv
<1>2. /\ req[r].pc = "charged" /\ SeatsOf(b) \cap Locked = {} /\ req' = [req EXCEPT ![r] = row]
      /\ UNCHANGED <<vars, refunded, confirmSeq>>
    BY <1>1 DEF LockSoldSeats, SeatsOf
<1>3. SeatsOf(b) \in SUBSET Seats
    BY DEF SeatsOf
<1>4. /\ row \in RequestRow /\ row.pc = "locked" /\ row.booking = b /\ row.state = req[r].state
      /\ row.locks = SeatsOf(b) /\ row.charge = req[r].charge
    BY <1>1, <1>3 DEF RequestRow, RequestInFlight
<1> HIDE DEF row
<1>5. req'[r] = row
    BY <1>1, <1>2
<1>6. RequestFits(r)'
    <2>1. UNCHANGED <<seat, booking, payment, pc>>
        BY <1>2 DEF vars
    <2> QED
        BY <1>1, <1>2, <1>4, <1>5, <2>1 DEF RequestFits, Locking, RequestInFlight, SeatsOf
<1>7. \A q \in Requests : row.locks \cap req[q].locks = {}
    BY <1>2, <1>4 DEF Locked
<1> QED
    BY <1>1, <1>2, <1>4, <1>6, <1>7, RequestMovesOn

\* The refund call, answered or not: the locks are kept.
LEMMA RefundKeepsInv ==
    ASSUME CancelInv, NEW r \in Requests, CallRefund(r) \/ RefundRaises(r)
    PROVE  CancelInv'
<1>1. req \in [Requests -> RequestRow] /\ req[r] \in RequestRow /\ RequestFits(r)
      /\ refunded \subseteq Keys
    BY CancelTypes DEF CancelInv
<1>2. PICK l \in {"refunded", "unrefunded"} : Advance(r, l)
    BY DEF CallRefund, RefundRaises
<1>3. req[r].pc = "locked" /\ UNCHANGED <<vars, confirmSeq>>
    BY DEF CallRefund, RefundRaises
<1>4. req[r].booking \in Bookings
    BY <1>1, <1>3 DEF RequestFits, RequestInFlight
<1>5. refunded' \subseteq Keys
    BY <1>1, <1>4, SagaAssumption DEF CallRefund, RefundRaises
<1> DEFINE row == [req[r] EXCEPT !.pc = l]
<1>6. /\ req' = [req EXCEPT ![r] = row] /\ row \in RequestRow
      /\ row.pc = l /\ row.booking = req[r].booking /\ row.state = req[r].state
      /\ row.locks = req[r].locks /\ row.charge = req[r].charge
    BY <1>1, <1>2 DEF Advance, RequestRow, RequestInFlight
<1> HIDE DEF row
<1>7. req'[r] = row
    BY <1>1, <1>6
<1>8. RequestFits(r)'
    <2>1. UNCHANGED <<seat, booking, payment, pc>>
        BY <1>3 DEF vars
    <2> QED
        BY <1>1, <1>3, <1>6, <1>7, <2>1 DEF RequestFits, Locking, RequestInFlight, SeatsOf
<1>9. \A q \in Requests : q # r => row.locks \cap req[q].locks = {}
    BY <1>6 DEF CancelInv, LocksApart
<1> QED
    BY <1>3, <1>5, <1>6, <1>8, <1>9, RequestMovesOn

\* A request commits its writes to the rows of its booking and is answered.
LEMMA CommitKeepsInv ==
    ASSUME CancelInv, NEW r \in Requests, Answer(r), UNCHANGED <<refunded, confirmSeq>>,
           NEW b \in Bookings, SagaTypeOK', HoldRowsSound', OneLiveTicketPerSeat',
           OthersAlone(b), OthersKeepSeats(b), BookingFits(b)', \A s \in Seats : RowFits(s, b)',
           \A q \in Requests : q # r /\ req[q].pc \in RequestInFlight /\ req[q].booking = b =>
               (req'[q] = req[q] => RequestFits(q)')
    PROVE  CancelInv'
<1> DEFINE row == [Unopened EXCEPT !.pc = "done"]
<1>1. row \in RequestRow /\ row.pc = "done" /\ row.locks = {}
    BY AnsweredRow
<1>2. req' = [req EXCEPT ![r] = row]
    BY DEF Answer
<1> HIDE DEF row
<1>3. /\ req' \in [Requests -> RequestRow] /\ req'[r] = row
      /\ \A q \in Requests : q # r => req'[q] = req[q]
    BY <1>1, <1>2, CancelTypes
<1>4. \A c \in Bookings : BookingFits(c)'
    BY OthersFit
<1>5. \A s \in Seats : \A c \in Bookings : RowFits(s, c)'
    BY OthersRows
<1>6. RequestFits(r)'
    BY <1>1, <1>3 DEF RequestFits, RequestInFlight, Locking
<1>7. \A q \in Requests : q # r => RequestFits(q)'
    BY <1>3, OthersRequests, IdleRequestsFit
<1>8. LocksApart'
    BY <1>1, <1>3 DEF CancelInv, LocksApart
<1>9. CancelTypeOK'
    BY <1>3, CancelTypes DEF CancelTypeOK, RequestRow
<1> QED
    BY <1>4, <1>5, <1>6, <1>7, <1>8, <1>9 DEF CancelInv

\* PASSENGER_UPDATED: only the journal is written.
LEMMA AmendKeepsInv ==
    ASSUME CancelInv, NEW r \in Requests, CommitAmend(r)
    PROVE  CancelInv'
<1> PICK b \in Bookings : b = req[r].booking
    <2>1. req[r].pc = "amending"
        BY DEF CommitAmend
    <2> QED
        BY <2>1 DEF CancelInv, RequestFits, RequestInFlight
<1>0. /\ Answer(r) /\ UNCHANGED <<refunded, confirmSeq>>
      /\ UNCHANGED <<seat, now, hreq, gw, booking, payment, live, pc, mem, pins>>
      /\ Record(b, <<Moved("PASSENGER_UPDATED", req[r].state, req[r].state)>>)
      /\ req[r].pc = "amending"
    BY DEF CommitAmend, holdVars
<1>1. b \in Bookings /\ req[r].state \in Changeable
    BY <1>0 DEF CancelInv, RequestFits, RequestInFlight
<1>2. journal' \in [Bookings -> Seq(JournalRow)]
    <2>1. <<Moved("PASSENGER_UPDATED", req[r].state, req[r].state)>> \in Seq(JournalRow)
        BY <1>1, JournalRowsTyped DEF AuditEventType, BookingState, Changeable
    <2> QED
        BY <1>0, <1>1, <2>1, RecordTyped, CancelTypes
<1>3. SagaTypeOK'
    BY <1>0, <1>2, CancelTypes DEF SagaTypeOK, HoldTypeOK, GwTypeOK
<1>4. HoldRowsSound'
    BY <1>0, CancelTypes DEF HoldRowsSound, PendingRequestsSound, HeldSeatHasHolder, HoldIdNamesOneSeat,
                             HoldsAreBounded
<1>5. OneLiveTicketPerSeat' /\ OthersAlone(b) /\ OthersKeepSeats(b)
    BY <1>0 DEF CancelInv, OneLiveTicketPerSeat, OthersAlone, OthersKeepSeats
<1>6. BookingFits(b)' /\ \A s \in Seats : RowFits(s, b)'
    BY <1>0, <1>1 DEF CancelInv, BookingFits, RowFits, Sold
<1>7. \A q \in Requests : req'[q] = req[q] => RequestFits(q)'
    BY <1>0 DEF CancelInv, RequestFits, SeatsOf
<1> QED
    BY <1>0, <1>1, <1>3, <1>4, <1>5, <1>6, <1>7, CommitKeepsInv

\* COMPENSATION_FAILED of a cancel: seats and tickets stay with the customer.
LEMMA EscalationKeepsInv ==
    ASSUME CancelInv, NEW r \in Requests, CommitEscalation(r)
    PROVE  CancelInv'
<1> PICK b \in Bookings : b = req[r].booking
    <2>1. req[r].pc = "escalating"
        BY DEF CommitEscalation
    <2> QED
        BY <2>1 DEF CancelInv, RequestFits, RequestInFlight
<1> DEFINE st == "NEEDS_MANUAL_REVIEW"
<1>0. /\ Answer(r) /\ UNCHANGED <<refunded, confirmSeq>>
      /\ UNCHANGED <<seat, now, hreq, gw, payment, live, pc, mem, pins>>
      /\ Record(b, <<Moved("COMPENSATION_FAILED", req[r].state, st)>>)
      /\ SetState(b, st) /\ req[r].pc = "escalating"
    BY DEF CommitEscalation, holdVars
<1>1. /\ b \in Bookings /\ req[r].state \in Changeable /\ booking[b].state \in Issued
      /\ pc[b] \in {"ticketed", "captured", "confirmed", "error", "crashed"}
    BY <1>0 DEF CancelInv, RequestFits, RequestInFlight
<1>2. journal' \in [Bookings -> Seq(JournalRow)]
    <2>1. <<Moved("COMPENSATION_FAILED", req[r].state, st)>> \in Seq(JournalRow)
        BY <1>1, JournalRowsTyped DEF AuditEventType, BookingState, Changeable
    <2> QED
        BY <1>0, <1>1, <2>1, RecordTyped, CancelTypes
<1>3. /\ booking' \in [Bookings -> BookingRow] /\ booking'[b].state = st
      /\ booking'[b].seats = booking[b].seats
      /\ \A c \in Bookings : c # b => booking'[c] = booking[c]
    <2>1. st \in BookingState
        BY DEF BookingState
    <2> QED
        BY <1>0, <1>1, <2>1, SetStateEffect, CancelTypes
<1>4. SagaTypeOK'
    BY <1>0, <1>2, <1>3, CancelTypes DEF SagaTypeOK, HoldTypeOK, GwTypeOK, BookingRow
<1>5. HoldRowsSound'
    BY <1>0, CancelTypes DEF HoldRowsSound, PendingRequestsSound, HeldSeatHasHolder, HoldIdNamesOneSeat,
                             HoldsAreBounded
<1>6. OneLiveTicketPerSeat' /\ OthersAlone(b) /\ OthersKeepSeats(b)
    BY <1>0, <1>3 DEF CancelInv, OneLiveTicketPerSeat, OthersAlone, OthersKeepSeats
<1>7. BookingFits(b)'
    <2>1. BookingFits(b) /\ booking[b].state # None
        BY <1>1, SagaAssumption DEF CancelInv, Issued, BookingState
    <2>2. st \in LateStates(pc[b])
        BY <1>1, LateStatesTable DEF BookingState
    <2> QED
        BY <1>0, <1>3, <2>1, <2>2 DEF BookingFits, Sold
<1>8. \A s \in Seats : RowFits(s, b)'
    BY <1>0, <1>1, <1>3, SagaAssumption DEF CancelInv, RowFits, BookingState
<1>9. ASSUME NEW q \in Requests, req[q].pc \in RequestInFlight, req[q].booking = b, req'[q] = req[q]
      PROVE  RequestFits(q)'
    <2>1. RequestFits(q) /\ SeatsOf(b)' = SeatsOf(b)
        BY <1>0 DEF CancelInv, SeatsOf
    <2> QED
        BY <1>0, <1>3, <1>9, <2>1 DEF RequestFits, Issued
<1> HIDE DEF st
<1> QED
    BY <1>0, <1>1, <1>4, <1>5, <1>6, <1>7, <1>8, <1>9, CommitKeepsInv

\* BOOKING_CANCELLED: another cancel of the booking that has passed its FOR
\* UPDATE holds no row, since this one holds them all.
LEMMA CancelKeepsInv ==
    ASSUME CancelInv, NEW r \in Requests, CommitCancel(r)
    PROVE  CancelInv'
<1> PICK b \in Bookings : b = req[r].booking
    <2>1. req[r].pc = "closing"
        BY DEF CommitCancel
    <2> QED
        BY <2>1 DEF CancelInv, RequestFits, RequestInFlight
<1> DEFINE st == "CANCELLED"
<1>0. /\ Answer(r) /\ UNCHANGED <<refunded, confirmSeq>>
      /\ UNCHANGED <<now, hreq, gw, pc, mem, pins>> /\ ReleaseSeatsForBooking(b)
      /\ Record(b, <<Moved("BOOKING_CANCELLED", req[r].state, st)>>)
      /\ payment' = [payment EXCEPT ![b] = IF req[r].charge THEN "REFUNDED" ELSE @]
      /\ SetState(b, st) /\ req[r].pc = "closing"
    BY DEF CommitCancel
<1>1. /\ b \in Bookings /\ req[r].state = "CONFIRMED" /\ booking[b].state \in Issued
      /\ pc[b] = "confirmed" /\ req[r].locks = SeatsOf(b)
      /\ ~ req[r].charge => payment[b] = "REFUNDED"
    BY <1>0 DEF CancelInv, RequestFits, RequestInFlight, Locking
<1>2. journal' \in [Bookings -> Seq(JournalRow)]
    <2>1. <<Moved("BOOKING_CANCELLED", req[r].state, st)>> \in Seq(JournalRow)
        BY <1>1, JournalRowsTyped DEF AuditEventType, BookingState
    <2> QED
        BY <1>0, <1>1, <2>1, RecordTyped, CancelTypes
<1>3. /\ booking' \in [Bookings -> BookingRow] /\ booking'[b].state = st
      /\ booking'[b].seats = booking[b].seats
      /\ \A c \in Bookings : c # b => booking'[c] = booking[c]
    <2>1. st \in BookingState
        BY DEF BookingState
    <2> QED
        BY <1>0, <1>1, <2>1, SetStateEffect, CancelTypes
<1>4. /\ payment' \in [Bookings -> PaymentState \cup {None}] /\ payment'[b] = "REFUNDED"
      /\ \A c \in Bookings : c # b => payment'[c] = payment[c]
    BY <1>0, <1>1, CancelTypes DEF PaymentState
<1>5. /\ HoldTypeOK' /\ HoldRowsSound'
      /\ \A s \in Seats : seat'[s].booking_id # b
      /\ \A s \in Seats : seat[s].booking_id # b => seat'[s] = seat[s]
      /\ \A s \in Seats : seat[s].booking_id = b => seat'[s].booking_id = None
      /\ live' \in [Bookings -> SUBSET Seats] /\ live'[b] = {}
      /\ \A c \in Bookings : c # b => live'[c] = live[c]
    BY <1>0, <1>1, ReleasedRows, CancelTypes
<1>6. SagaTypeOK'
    BY <1>0, <1>2, <1>3, <1>4, <1>5, CancelTypes DEF SagaTypeOK, GwTypeOK, BookingRow
<1>7. OneLiveTicketPerSeat' /\ OthersAlone(b) /\ OthersKeepSeats(b)
    BY <1>0, <1>3, <1>4, <1>5 DEF CancelInv, OneLiveTicketPerSeat, OthersAlone, OthersKeepSeats
<1>8. BookingFits(b)'
    <2>1. BookingFits(b) /\ booking[b].state # None
        BY <1>1, SagaAssumption DEF CancelInv, Issued, BookingState
    <2> QED
        BY <1>0, <1>1, <1>3, <1>4, <1>5, <2>1, LateStatesTable DEF BookingFits, Sold
<1>9. \A s \in Seats : RowFits(s, b)'
    BY <1>5 DEF RowFits
<1>10. ASSUME NEW q \in Requests, q # r, req[q].pc \in RequestInFlight, req[q].booking = b,
              req'[q] = req[q]
       PROVE  RequestFits(q)'
    <2>1. RequestFits(q) /\ req[q].locks \cap req[r].locks = {}
        BY <1>10 DEF CancelInv, LocksApart
    <2>2. SeatsOf(b)' = {}
        BY <1>5 DEF SeatsOf
    <2>3. req[q].locks = {}
        BY <1>1, <1>10, <2>1 DEF RequestFits
    <2>4. pc'[b] = pc[b] /\ booking'[b].state \in Issued /\ payment'[b] = "REFUNDED"
        BY <1>0, <1>3, <1>4 DEF Issued
    <2>5. req'[q].booking = b /\ req'[q].locks = {}
        BY <1>10, <2>3
    <2> HIDE DEF st
    <2> QED
        BY <1>1, <1>10, <2>1, <2>2, <2>4, <2>5 DEF RequestFits
<1> HIDE DEF st
<1> QED
    BY <1>0, <1>1, <1>5, <1>6, <1>7, <1>8, <1>9, <1>10, CommitKeepsInv

\* A checkout's turn: nothing but step 5 sees the other writers of its journal.
LEMMA CheckoutTurnKeepsInv ==
    ASSUME CancelInv, NEW b \in Bookings, CheckoutTurn(b)
    PROVE  CancelInv'
<1>1. CASE PostBooking(b) /\ UNCHANGED cancelVars
    <2>1. PICK H \in (SUBSET HoldIds) \ {{}} :
              RejectCheckout(b, H) \/ \E card \in Cards : LockSeats(b, H, card)
        BY <1>1 DEF PostBooking
    <2> QED
        BY <1>1, <2>1, LabelStepsKeepInv, LockSeatsKeepsCancelInv
<1>2. CASE Crash(b) /\ UNCHANGED cancelVars
    BY <1>2, LabelStepsKeepInv
<1>3. CASE SagaStep(b) /\ UNCHANGED cancelVars
    BY <1>3, LabelStepsKeepInv, PendingStepsKeepInv, EarlyStateStepsKeepInv, ConfirmKeepsInv,
       IssueTicketsKeepsCancelInv, EndingKeepsInv
    DEF SagaStep
<1>4. CASE ReadConfirmSeq(b)
    <2>1. UNCHANGED <<seat, now, hreq, gw, booking, payment, live, journal, pc, mem, pins, req, refunded>>
        BY <1>4 DEF ReadConfirmSeq, vars
    <2>2. confirmSeq' \in [Bookings -> Nat]
        BY <1>4, CancelTypes DEF ReadConfirmSeq, NextSeq
    <2>3. CancelTypeOK'
        BY <2>1, <2>2, CancelTypes DEF CancelInv, CancelTypeOK, SagaTypeOK, HoldTypeOK, GwTypeOK
    <2>4. HoldRowsSound'
        BY <2>1, CancelTypes DEF HoldRowsSound, PendingRequestsSound, HeldSeatHasHolder,
                                 HoldIdNamesOneSeat, HoldsAreBounded
    <2>5. OneLiveTicketPerSeat' /\ LocksApart'
        BY <2>1 DEF CancelInv, OneLiveTicketPerSeat, LocksApart
    <2>6. (\A c \in Bookings : BookingFits(c)') /\ \A s \in Seats : \A c \in Bookings : RowFits(s, c)'
        BY <2>1 DEF CancelInv, BookingFits, RowFits, Sold
    <2>7. \A r \in Requests : RequestFits(r)'
        BY <2>1 DEF CancelInv, RequestFits, SeatsOf
    <2> QED
        BY <2>3, <2>4, <2>5, <2>6, <2>7 DEF CancelInv
<1>5. CASE ConfirmConflict(b)
    <2>1. UNCHANGED cancelVars
        BY <1>5 DEF ConfirmConflict
    <2> QED
        BY <1>5, <2>1, LabelStepsKeepInv
<1> QED
    BY <1>1, <1>2, <1>3, <1>4, <1>5 DEF CheckoutTurn, CheckoutStep

\* A request's turn.
LEMMA RequestTurnKeepsInv ==
    ASSUME CancelInv, NEW r \in Requests, RequestTurn(r)
    PROVE  CancelInv'
<1>1. CASE RejectTransition(r) \/ SeqTaken(r) \/ RequestDies(r)
    <2>1. Answer(r) /\ UNCHANGED <<vars, refunded, confirmSeq>>
        BY <1>1 DEF RejectTransition, SeqTaken, RequestDies
    <2> QED
        BY <2>1, AnswerKeepsInv
<1> QED
    BY <1>1, OpenStepsKeepInv, LockSoldSeatsKeepsInv, RefundKeepsInv, AmendKeepsInv,
       EscalationKeepsInv, CancelKeepsInv
    DEF RequestTurn, RequestStep

\* Every step of holds, checkouts, cancels and PATCHes keeps CancelInv.
LEMMA CancelInvStep == CancelInv /\ [CancelNext]_allVars => CancelInv'
<1> SUFFICES ASSUME CancelInv, [CancelNext]_allVars PROVE CancelInv'
    OBVIOUS
<1>1. CASE CancelNext
    BY <1>1, HoldTurnKeepsInv, CheckoutTurnKeepsInv, RequestTurnKeepsInv DEF CancelNext
<1>2. CASE UNCHANGED allVars
    <2>1. UNCHANGED <<seat, now, hreq, gw, booking, payment, live, journal, pc, mem, pins>>
          /\ UNCHANGED <<req, refunded, confirmSeq>>
        BY <1>2 DEF allVars, vars
    <2>2. CancelTypeOK' /\ HoldRowsSound'
        BY <2>1, CancelTypes
        DEF CancelInv, CancelTypeOK, SagaTypeOK, HoldTypeOK, GwTypeOK, HoldRowsSound,
            PendingRequestsSound, HeldSeatHasHolder, HoldIdNamesOneSeat, HoldsAreBounded
    <2>3. OneLiveTicketPerSeat' /\ LocksApart'
        BY <2>1 DEF CancelInv, OneLiveTicketPerSeat, LocksApart
    <2>4. (\A c \in Bookings : BookingFits(c)') /\ \A s \in Seats : \A c \in Bookings : RowFits(s, c)'
        BY <2>1 DEF CancelInv, BookingFits, RowFits, Sold
    <2>5. \A r \in Requests : RequestFits(r)'
        BY <2>1 DEF CancelInv, RequestFits, SeatsOf
    <2> QED
        BY <2>2, <2>3, <2>4, <2>5 DEF CancelInv
<1> QED
    BY <1>1, <1>2

\* The first state: no booking, no request, every seat available.
LEMMA CancelInvInit == CancelInit => CancelInv
<1> SUFFICES ASSUME CancelInit PROVE CancelInv
    OBVIOUS
<1>1. SagaInv /\ Init
    BY SagaInvInit DEF CancelInit
<1>2. /\ \A b \in Bookings : booking[b] = NoBooking /\ payment[b] = None /\ live[b] = {} /\ pc[b] = "new"
      /\ \A s \in Seats : seat[s].booking_id = None
    BY <1>1 DEF Init, HoldInit, AvailableRow
<1>3. /\ \A r \in Requests : req[r] = Unopened
      /\ req = [r \in Requests |-> Unopened] /\ refunded = {} /\ confirmSeq = [b \in Bookings |-> 0]
    BY DEF CancelInit
<1>4. Unopened \in RequestRow /\ Unopened.pc = "new" /\ Unopened.locks = {}
    BY DEF Unopened, RequestRow
<1>5. CancelTypeOK
    <2>1. req \in [Requests -> RequestRow]
        BY <1>3, <1>4
    <2> QED
        BY <1>1, <1>3, <2>1 DEF SagaInv, CancelTypeOK, RequestRow
<1>6. HoldRowsSound /\ OneLiveTicketPerSeat
    BY <1>1 DEF SagaInv
<1>7. \A b \in Bookings : BookingFits(b)
    BY <1>2, LateStatesTable, SagaAssumption DEF BookingFits, NoBooking, Sold, BookingState, PaymentState
<1>8. \A s \in Seats : \A b \in Bookings : RowFits(s, b)
    BY <1>2, NoneAssumption DEF RowFits
<1>9. (\A r \in Requests : RequestFits(r)) /\ LocksApart
    BY <1>3, <1>4 DEF RequestFits, LocksApart, RequestInFlight, Locking
<1> QED
    BY <1>5, <1>6, <1>7, <1>8, <1>9 DEF CancelInv

\* CancelInv holds in every reachable state.
LEMMA CancelInvHolds == CancelSpec => []CancelInv
BY CancelInvInit, CancelInvStep, PTL DEF CancelSpec

\* Requests, refunds and sequence numbers, and everything the checkouts keep,
\* keep their types whatever cancels, PATCHes, crashes and faults interleave.
THEOREM CancelTypeCorrect == CancelSpec => []CancelTypeOK
<1>1. CancelInv => CancelTypeOK
    BY DEF CancelInv
<1> QED
    BY <1>1, CancelInvHolds, PTL

\* "a cancel cannot race the sweep": from its FOR UPDATE to its commit, over the
\* gateway call, a cancel's rows stay sold to its booking, no two cancels have
\* one row, and neither holds, sweep, failed payments nor the compensation of
\* another checkout writes them, whatever its session remembers of the rows.
THEOREM LockedSeatsStaySoldThm == CancelSpec => []LockedSeatsStaySold
<1>1. CancelInv => LockedSeatsStaySold
    <2> SUFFICES ASSUME CancelInv PROVE LockedSeatsStaySold
        OBVIOUS
    <2>1. ASSUME NEW r \in Requests, NEW s \in req[r].locks
          PROVE  seat[s].status = "booked" /\ seat[s].booking_id = req[r].booking
        <3>1. RequestFits(r)
            BY DEF CancelInv
        <3>2. req[r].pc \in Locking /\ s \in SeatsOf(req[r].booking)
            BY <2>1, <3>1 DEF RequestFits
        <3>3. req[r].booking \in Bookings /\ booking[req[r].booking].state \in Issued
            BY <3>1, <3>2 DEF RequestFits, Locking, RequestInFlight
        <3> QED
            BY <3>2, <3>3 DEF SeatsOf, CancelInv, RowFits
    <2> QED
        BY <2>1 DEF CancelInv, LocksApart, LockedSeatsStaySold
<1> QED
    BY <1>1, CancelInvHolds, PTL

\* A cancelled booking has no live ticket and no seat, and its payment row says
\* refunded, also when several cancels that all read CONFIRMED commit in turn.
THEOREM CancelledLetsGoThm == CancelSpec => []CancelledLetsGo
<1>1. CancelInv => CancelledLetsGo
    BY DEF CancelInv, BookingFits, RowFits, CancelledLetsGo
<1> QED
    BY <1>1, CancelInvHolds, PTL

\* Cancels free seats for sale again and still no seat is ever sold twice, and a
\* booking on sale has all its tickets, confirmations over a review included.
THEOREM NeverOversoldWithCancels == CancelSpec => []NeverOversold
<1>1. CancelInv => NeverOversold
    <2> SUFFICES ASSUME CancelInv PROVE NeverOversold
        OBVIOUS
    <2>1. \A b \in Bookings : Sold(b) => booking[b].seats # {} /\ live[b] = booking[b].seats
        BY SagaAssumption DEF CancelInv, BookingFits, Sold, BookingState
    <2> QED
        BY <2>1 DEF CancelInv, OneLiveTicketPerSeat, NeverOversold
<1> QED
    BY <1>1, CancelInvHolds, PTL

-----------------------------------------------------------------------------
(***************************************************************************)
(* The customer keeps the seats or gets the money back                     *)
(***************************************************************************)

\* Labels at which a charge may have been captured.
AfterCapture == {"captured", "confirmed", "error", "crashed"}

MoneyKept == RefundsMatch /\ KeepsSeatOrMoney

\* What a checkout's step may do to the money of its own booking: capture it
\* once the tickets are there, and then leave the tickets alone.
OwnMoney(b) ==
    /\ \/ UNCHANGED gw
       \/ gw'.captured = gw.captured
       \/ pc[b] = "ticketed" /\ gw'.captured \subseteq gw.captured \cup {KeyOf[b]}
                             /\ gw.captured \subseteq gw'.captured
    /\ pc[b] \in {"ticketed"} \cup AfterCapture =>
           /\ pc'[b] \in AfterCapture
           /\ live'[b] = live[b] /\ booking'[b].seats = booking[b].seats
    /\ payment'[b] = "REFUNDED" => payment[b] = "REFUNDED"

LEMMA OwnMoneyKeepsMoney ==
    ASSUME CancelInv, MoneyKept, KeysAreOwn, NEW b \in Bookings, OthersAlone(b), OwnMoney(b),
           UNCHANGED <<req, refunded>>
    PROVE  MoneyKept'
<1>1. \A c \in Bookings : c # b => KeyOf[c] # KeyOf[b]
    BY DEF KeysAreOwn
<1>2. BookingFits(b)
    BY DEF CancelInv
<1>3. \A c \in Bookings : c # b /\ KeyOf[c] \in gw'.captured => KeyOf[c] \in gw.captured
    BY <1>1 DEF OwnMoney
<1>4. KeyOf[b] \in gw'.captured =>
          /\ pc'[b] \in AfterCapture
          /\ live'[b] = booking'[b].seats \/ KeyOf[b] \in refunded
    <2>1. CASE KeyOf[b] \in gw.captured
        <3>1. pc[b] \in AfterCapture /\ (live[b] = booking[b].seats \/ KeyOf[b] \in refunded)
            BY <2>1 DEF MoneyKept, RefundsMatch, KeepsSeatOrMoney, AfterCapture
        <3> QED
            BY <3>1 DEF OwnMoney
    <2>2. CASE KeyOf[b] \notin gw.captured /\ KeyOf[b] \in gw'.captured
        <3>1. pc[b] = "ticketed"
            BY <2>2 DEF OwnMoney
        <3>2. live[b] = booking[b].seats
            BY <1>2, <3>1 DEF BookingFits
        <3> QED
            BY <3>1, <3>2 DEF OwnMoney
    <2> QED
        BY <2>1, <2>2
<1>5. \A c \in Bookings : KeyOf[c] \in gw'.captured =>
          /\ pc'[c] \in AfterCapture
          /\ live'[c] = booking'[c].seats \/ KeyOf[c] \in refunded
    BY <1>3, <1>4 DEF MoneyKept, RefundsMatch, KeepsSeatOrMoney, OthersAlone, AfterCapture
<1>6. \A c \in Bookings : payment'[c] = "REFUNDED" => KeyOf[c] \in refunded
    BY DEF MoneyKept, RefundsMatch, OwnMoney, OthersAlone
<1> QED
    BY <1>5, <1>6 DEF MoneyKept, RefundsMatch, KeepsSeatOrMoney, AfterCapture

\* Steps before the tickets: the charge is not captured yet.
LEMMA EarlyStepsMoney ==
    ASSUME CancelInv, NEW b \in Bookings, NEW H, NEW card,
           \/ RejectCheckout(b, H) \/ LockSeats(b, H, card)
           \/ BlockPayment(b) \/ StartCharge(b) \/ CallAuthorize(b) \/ TimeOutAuthorize(b)
           \/ RecordUnknown(b) \/ DeclinePayment(b) \/ FailPayment(b) \/ UnpinConflict(b)
           \/ AcceptPayment(b) \/ IssueTickets(b) \/ IssueConflict(b)
           \/ TicketingFails(b) \/ CallVoid(b) \/ VoidFails(b) \/ FinishCompensation(b)
           \/ EscalateCompensation(b)
    PROVE  OthersAlone(b) /\ OwnMoney(b)
<1>0. /\ booking \in [Bookings -> BookingRow] /\ payment \in [Bookings -> PaymentState \cup {None}]
      /\ live \in [Bookings -> SUBSET Seats] /\ pc \in [Bookings -> Labels] /\ GwTypeOK
    BY CancelTypes
<1>1. pc[b] \notin {"ticketed"} \cup AfterCapture
    BY DEF RejectCheckout, LockSeats, BlockPayment, StartCharge, CallAuthorize, TimeOutAuthorize,
           RecordUnknown, DeclinePayment, FailPayment, UnpinConflict, AcceptPayment, IssueTickets,
           IssueConflict, ReadyToIssue, TicketingFails, CallVoid, VoidFails,
           FinishCompensation, EscalateCompensation, AfterCapture
<1>2. UNCHANGED gw \/ gw'.captured = gw.captured
    <2>1. CASE CallAuthorize(b) \/ TimeOutAuthorize(b)
        BY <1>0, <2>1 DEF CallAuthorize, TimeOutAuthorize, Authorize, AuthorizeTimesOut,
                          AuthorizeGoesSilent, Authorized, GwTypeOK
    <2>2. CASE CallVoid(b) \/ VoidFails(b)
        BY <1>0, <2>2 DEF CallVoid, VoidFails, VoidCharge, VoidRaises, GwTypeOK
    <2>3. CASE ~ (CallAuthorize(b) \/ TimeOutAuthorize(b) \/ CallVoid(b) \/ VoidFails(b))
        BY <2>3
        DEF RejectCheckout, LockSeats, BlockPayment, StartCharge, ReadPins, RecordUnknown,
            DeclinePayment, FailPayment, UnpinConflict, AcceptPayment, IssueTickets, IssueConflict,
            TicketingFails, FinishCompensation, EscalateCompensation
    <2> QED
        BY <2>1, <2>2, <2>3
<1>3. \E st : payment' = [payment EXCEPT ![b] = st] /\ (st # "REFUNDED" \/ payment[b] = "REFUNDED")
    <2>1. payment = [payment EXCEPT ![b] = payment[b]]
        BY <1>0
    <2>2. CASE UNCHANGED payment
        BY <2>1, <2>2
    <2>3. CASE FailPayment(b)
        <3> DEFINE st == IF payment[b] = None THEN None ELSE "DECLINED"
        <3>1. payment' = [payment EXCEPT ![b] = st]
            BY <1>0, <2>3 DEF FailPayment
        <3>2. st # "REFUNDED" \/ payment[b] = "REFUNDED"
            OBVIOUS
        <3> HIDE DEF st
        <3> QED
            BY <3>1, <3>2
    <2>4. CASE StartCharge(b) \/ RecordUnknown(b) \/ AcceptPayment(b) \/ FinishCompensation(b)
        BY <2>4 DEF StartCharge, RecordUnknown, AcceptPayment, FinishCompensation
    <2> QED
        BY <2>2, <2>3, <2>4
        DEF RejectCheckout, LockSeats, BlockPayment, ReadPins, CallAuthorize, TimeOutAuthorize,
            DeclinePayment, UnpinConflict, IssueTickets, IssueConflict, TicketingFails, CallVoid,
            VoidFails, EscalateCompensation
<1>4. \E row : booking' = [booking EXCEPT ![b] = row]
    <2>1. booking = [booking EXCEPT ![b] = booking[b]]
        BY <1>0
    <2>2. CASE UNCHANGED booking
        BY <2>1, <2>2
    <2>3. CASE \E st : SetState(b, st)
        BY <2>3 DEF SetState
    <2>4. CASE LockSeats(b, H, card)
        BY <2>4 DEF LockSeats
    <2> QED
        BY <2>2, <2>3, <2>4
        DEF RejectCheckout, BlockPayment, ReadPins, StartCharge, CallAuthorize, TimeOutAuthorize,
            RecordUnknown, DeclinePayment, FailPayment, UnpinConflict, AcceptPayment, IssueTickets,
            IssueConflict, TicketingFails, CallVoid, VoidFails,
            FinishCompensation, EscalateCompensation
<1>5. UNCHANGED live \/ \E S : live' = [live EXCEPT ![b] = S]
    BY DEF RejectCheckout, LockSeats, BlockPayment, ReadPins, StartCharge, CallAuthorize,
           TimeOutAuthorize, RecordUnknown, DeclinePayment, FailPayment, UnpinConflict,
           AcceptPayment, IssueTickets, IssueConflict, TicketingFails, CallVoid, VoidFails,
           FinishCompensation, EscalateCompensation,
           ReleaseSeatsForBooking
<1>6. \E l : Goto(b, l)
    BY DEF RejectCheckout, LockSeats, BlockPayment, ReadPins, StartCharge, CallAuthorize,
           TimeOutAuthorize, RecordUnknown, DeclinePayment, FailPayment, UnpinConflict,
           AcceptPayment, IssueTickets, IssueConflict, TicketingFails, CallVoid, VoidFails,
           FinishCompensation, EscalateCompensation
<1>7. OthersAlone(b)
    BY <1>0, <1>3, <1>4, <1>5, <1>6 DEF OthersAlone, Goto
<1>8. payment'[b] = "REFUNDED" => payment[b] = "REFUNDED"
    BY <1>0, <1>3
<1> QED
    BY <1>1, <1>2, <1>7, <1>8 DEF OwnMoney

\* Steps behind the tickets: capture, confirmation, and what cuts them short.
LEMMA LateStepsMoney ==
    ASSUME CancelInv, NEW b \in Bookings,
           \/ CallCapture(b) \/ CaptureFails(b) \/ Confirm(b)
           \/ ConfirmConflict(b) \/ Crash(b)
    PROVE  OthersAlone(b) /\ OwnMoney(b)
<1>0. /\ booking \in [Bookings -> BookingRow] /\ payment \in [Bookings -> PaymentState \cup {None}]
      /\ pc \in [Bookings -> Labels] /\ GwTypeOK
    BY CancelTypes
<1>1. UNCHANGED live
    BY DEF CallCapture, CaptureFails, Confirm, ConfirmConflict, Crash
<1>2. PICK l \in AfterCapture : Goto(b, l)
    BY DEF CallCapture, CaptureFails, Confirm, ConfirmConflict, Crash, AfterCapture
<1>3. \/ UNCHANGED gw
      \/ pc[b] = "ticketed" /\ gw'.captured = gw.captured \cup {KeyOf[b]}
    BY <1>0 DEF CallCapture, CaptureFails, Confirm, ConfirmConflict, Crash,
                CaptureCharge, CaptureRaises, GwTypeOK
<1>4. UNCHANGED booking \/ SetState(b, "CONFIRMED")
    BY DEF CallCapture, CaptureFails, Confirm, ConfirmConflict, Crash
<1>5. UNCHANGED payment \/ payment' = [payment EXCEPT ![b] = "CAPTURED"]
    BY DEF CallCapture, CaptureFails, Confirm, ConfirmConflict, Crash
<1>6. /\ booking'[b].seats = booking[b].seats
      /\ \A c \in Bookings : c # b => booking'[c] = booking[c]
    <2>1. "CONFIRMED" \in BookingState
        BY DEF BookingState
    <2> QED
        BY <1>0, <1>4, <2>1, SetStateEffect
<1>7. OthersAlone(b) /\ pc'[b] = l /\ (payment'[b] = "REFUNDED" => payment[b] = "REFUNDED")
    BY <1>0, <1>1, <1>2, <1>5, <1>6 DEF OthersAlone, Goto
<1> QED
    BY <1>1, <1>2, <1>3, <1>6, <1>7 DEF OwnMoney

\* A request's step that writes neither tickets nor payment rows.
LEMMA RequestKeepsMoney ==
    ASSUME CancelInv, MoneyKept, NEW r \in Requests, RequestTurn(r)
    PROVE  MoneyKept'
<1>0. req \in [Requests -> RequestRow] /\ booking \in [Bookings -> BookingRow]
    BY CancelTypes
<1>1. ASSUME UNCHANGED <<gw, payment, live, pc>>, refunded \subseteq refunded',
             \A c \in Bookings : booking'[c].seats = booking[c].seats,
             \A q \in Requests : q # r => req'[q] = req[q],
             req'[r].pc \in {"refunded", "closing"} /\ req'[r].charge =>
                 KeyOf[req'[r].booking] \in refunded'
      PROVE  MoneyKept'
    BY <1>1 DEF MoneyKept, RefundsMatch, KeepsSeatOrMoney
<1>2. ASSUME Answer(r)
      PROVE  /\ \A q \in Requests : q # r => req'[q] = req[q]
             /\ req'[r].pc = "done"
    BY <1>0, <1>2, AnsweredRow DEF Answer
<1>3. ASSUME NEW b \in Bookings, OpenRequest(r, b)
      PROVE  MoneyKept'
    <2>1. UNCHANGED <<gw, booking, payment, live, pc, refunded>>
        BY <1>3 DEF OpenRequest, vars
    <2>2. req'[r].pc = "read" /\ \A q \in Requests : q # r => req'[q] = req[q]
        BY <1>0, <1>3 DEF OpenRequest, RequestRow
    <2> QED
        BY <1>1, <2>1, <2>2
<1>4. CASE FindCharge(r) \/ LockSoldSeats(r) \/ EscalateCancel(r) \/ StartAmend(r) \/ RefundRaises(r)
    <2>1. UNCHANGED <<gw, booking, payment, live, pc>> /\ refunded \subseteq refunded'
        BY <1>4 DEF FindCharge, LockSoldSeats, EscalateCancel, StartAmend, RefundRaises, vars
    <2>2. req'[r].pc \in {"charged", "locked", "escalating", "amending", "unrefunded"}
          /\ \A q \in Requests : q # r => req'[q] = req[q]
        BY <1>0, <1>4
        DEF FindCharge, LockSoldSeats, EscalateCancel, StartAmend, RefundRaises, Advance, RequestRow
    <2> QED
        BY <1>1, <2>1, <2>2
<1>5. CASE CallRefund(r)
    <2>1. /\ UNCHANGED <<gw, booking, payment, live, pc>> /\ refunded \subseteq refunded'
          /\ req[r].charge => KeyOf[req[r].booking] \in refunded'
        BY <1>5 DEF CallRefund, vars
    <2>2. /\ req'[r].charge = req[r].charge /\ req'[r].booking = req[r].booking
          /\ \A q \in Requests : q # r => req'[q] = req[q]
        BY <1>0, <1>5 DEF CallRefund, Advance, RequestRow
    <2> QED
        BY <1>1, <2>1, <2>2
<1>6. CASE CloseBooking(r)
    <2>1. UNCHANGED <<gw, booking, payment, live, pc, refunded>>
        BY <1>6 DEF CloseBooking, vars
    <2>2. /\ req'[r].charge = req[r].charge /\ req'[r].booking = req[r].booking
          /\ req[r].pc = "refunded" /\ \A q \in Requests : q # r => req'[q] = req[q]
        BY <1>0, <1>6 DEF CloseBooking, RequestRow
    <2> QED
        BY <1>1, <2>1, <2>2 DEF MoneyKept, RefundsMatch
<1>7. CASE RejectTransition(r) \/ SeqTaken(r) \/ RequestDies(r) \/ CommitAmend(r)
    <2>1. UNCHANGED <<gw, booking, payment, live, pc, refunded>> /\ Answer(r)
        BY <1>7 DEF RejectTransition, SeqTaken, RequestDies, CommitAmend, vars
    <2> QED
        BY <1>1, <1>2, <2>1
<1>8. CASE CommitEscalation(r)
    <2>1. PICK b \in Bookings : b = req[r].booking
        <3>1. req[r].pc = "escalating"
            BY <1>8 DEF CommitEscalation
        <3> QED
            BY <3>1 DEF CancelInv, RequestFits, RequestInFlight
    <2>2. /\ UNCHANGED <<gw, payment, live, pc, refunded>> /\ Answer(r)
          /\ SetState(b, "NEEDS_MANUAL_REVIEW")
        BY <1>8, <2>1 DEF CommitEscalation
    <2>3. \A c \in Bookings : booking'[c].seats = booking[c].seats
        BY <1>0, <2>2, SetStateEffect DEF BookingState
    <2> QED
        BY <1>1, <1>2, <2>2, <2>3
<1>9. CASE CommitCancel(r)
    <2>1. PICK b \in Bookings :
              /\ b = req[r].booking /\ req[r].pc = "closing"
              /\ ~ req[r].charge => payment[b] = "REFUNDED"
        <3>1. req[r].pc = "closing"
            BY <1>9 DEF CommitCancel
        <3> QED
            BY <3>1 DEF CancelInv, RequestFits, RequestInFlight, Locking
    <2>2. /\ UNCHANGED <<gw, pc, refunded>> /\ Answer(r) /\ SetState(b, "CANCELLED")
          /\ payment' = [payment EXCEPT ![b] = IF req[r].charge THEN "REFUNDED" ELSE @]
          /\ live' = [live EXCEPT ![b] = {}]
        BY <1>9, <2>1 DEF CommitCancel, ReleaseSeatsForBooking
    <2>3. \A c \in Bookings : booking'[c].seats = booking[c].seats
        BY <1>0, <2>2, SetStateEffect DEF BookingState
    <2>4. KeyOf[b] \in refunded
        BY <2>1 DEF MoneyKept, RefundsMatch
    <2>5. \A c \in Bookings : c # b => payment'[c] = payment[c] /\ live'[c] = live[c]
        BY <2>2, CancelTypes
    <2>6. /\ \A q \in Requests : q # r => req'[q] = req[q]
          /\ req'[r].pc = "done"
        BY <1>2, <2>2
    <2>7. KeepsSeatOrMoney'
        BY <2>2, <2>3, <2>4, <2>5 DEF MoneyKept, KeepsSeatOrMoney
    <2>8. RefundsMatch'
        BY <2>2, <2>4, <2>5, <2>6 DEF MoneyKept, RefundsMatch
    <2> QED
        BY <2>7, <2>8 DEF MoneyKept
<1> QED
    BY <1>3, <1>4, <1>5, <1>6, <1>7, <1>8, <1>9 DEF RequestTurn, RequestStep

\* Every step keeps the money accounted for.
LEMMA MoneyKeptStep ==
    KeysAreOwn /\ CancelInv /\ MoneyKept /\ [CancelNext]_allVars => MoneyKept'
<1> SUFFICES ASSUME KeysAreOwn, CancelInv, MoneyKept, [CancelNext]_allVars PROVE MoneyKept'
    OBVIOUS
<1>1. CASE UNCHANGED <<gw, booking, payment, live, pc, req, refunded>>
    BY <1>1 DEF MoneyKept, RefundsMatch, KeepsSeatOrMoney
<1>2. CASE HoldTurn
    BY <1>1, <1>2 DEF HoldTurn, sagaVars, cancelVars
<1>3. ASSUME NEW b \in Bookings, CheckoutTurn(b)
      PROVE  MoneyKept'
    <2>1. CASE ReadConfirmSeq(b)
        BY <1>1, <2>1 DEF ReadConfirmSeq, vars
    <2>2. CASE ~ ReadConfirmSeq(b)
        <3>1. UNCHANGED <<req, refunded>>
            BY <1>3, <2>2 DEF CheckoutTurn, CheckoutStep, ConfirmConflict, cancelVars
        <3>2. OthersAlone(b) /\ OwnMoney(b)
            BY <1>3, <2>2, EarlyStepsMoney, LateStepsMoney
            DEF CheckoutTurn, CheckoutStep, PostBooking, SagaStep
        <3> QED
            BY <3>1, <3>2, OwnMoneyKeepsMoney
    <2> QED
        BY <2>1, <2>2
<1>4. CASE UNCHANGED allVars
    BY <1>1, <1>4 DEF allVars, vars
<1> QED
    BY <1>2, <1>3, <1>4, RequestKeepsMoney DEF CancelNext

\* The customer keeps the seats or gets the money back: as long as checkouts have
\* gateway keys of their own, a captured charge always has all its live tickets
\* or a refund, for any number of concurrent cancels and PATCHes, refused journal
\* rows, failing refunds and crashes.
THEOREM KeepsSeatOrMoneyThm == KeysAreOwn => (CancelSpec => []KeepsSeatOrMoney)
<1> SUFFICES ASSUME KeysAreOwn PROVE CancelSpec => []KeepsSeatOrMoney
    OBVIOUS
<1>1. CancelInit => MoneyKept
    <2> SUFFICES ASSUME CancelInit PROVE MoneyKept
        OBVIOUS
    <2>1. gw.captured = {}
        BY DEF CancelInit, Init, GwInit
    <2>2. \A b \in Bookings : payment[b] = None
        BY DEF CancelInit, Init
    <2>3. \A r \in Requests : req[r].pc \notin {"refunded", "closing"}
        BY DEF CancelInit, Unopened
    <2> QED
        BY <2>1, <2>2, <2>3, SagaAssumption DEF MoneyKept, RefundsMatch, KeepsSeatOrMoney, PaymentState
<1>2. CancelInv /\ MoneyKept /\ [CancelNext]_allVars => MoneyKept'
    BY MoneyKeptStep
<1>3. MoneyKept => KeepsSeatOrMoney
    BY DEF MoneyKept
<1> QED
    BY <1>1, <1>2, <1>3, CancelInvHolds, PTL DEF CancelSpec

-----------------------------------------------------------------------------
(***************************************************************************)
(* The journal                                                             *)
(***************************************************************************)

\* The journal of one booking gets one moving row, and the booking moves there.
LEMMA MoveKeepsName ==
    ASSUME CancelInv, JournalNamesState, NEW b \in Bookings,
           NEW rows, NEW from, Record(b, rows), OneMove(rows, from, booking'[b].state),
           \A c \in Bookings : c # b => booking'[c] = booking[c]
    PROVE  JournalNamesState'
<1>0. journal \in [Bookings -> Seq(JournalRow)]
    BY CancelTypes
<1>1. journal'[b] = journal[b] \o rows /\ \A c \in Bookings : c # b => journal'[c] = journal[c]
    BY <1>0 DEF Record
<1>2. LeadsTo(journal[b] \o rows, Len(journal[b] \o rows), booking'[b].state)
    BY <1>0, AppendedMoveLeads
<1>3. ASSUME NEW c \in Bookings
      PROVE  LeadsTo(journal'[c], Len(journal'[c]), booking'[c].state)
    <2>1. CASE c = b
        BY <1>1, <1>2, <2>1
    <2>2. CASE c # b
        BY <1>1, <2>2 DEF JournalNamesState
    <2> QED
        BY <2>1, <2>2
<1> QED
    BY <1>3 DEF JournalNamesState

\* The journal of one booking gets rows that move nothing, and the booking stays.
LEMMA EventsKeepName ==
    ASSUME CancelInv, JournalNamesState, NEW b \in Bookings, UNCHANGED booking,
           NEW rows \in Seq(JournalRow), \A i \in 1 .. Len(rows) : ~ MovesBooking(rows[i]),
           journal'[b] = journal[b] \o rows, \A c \in Bookings : c # b => journal'[c] = journal[c]
    PROVE  JournalNamesState'
<1>0. journal[b] \in Seq(JournalRow) /\ LeadsTo(journal[b], Len(journal[b]), booking[b].state)
    BY CancelTypes DEF JournalNamesState
<1>1. LeadsTo(journal[b] \o rows, Len(journal[b] \o rows), booking[b].state)
    BY <1>0, AppendedEventsLead
<1>2. ASSUME NEW c \in Bookings
      PROVE  LeadsTo(journal'[c], Len(journal'[c]), booking'[c].state)
    <2>1. CASE c = b
        BY <1>1, <2>1
    <2>2. CASE c # b
        BY <2>2 DEF JournalNamesState
    <2> QED
        BY <2>1, <2>2
<1> QED
    BY <1>2 DEF JournalNamesState

\* A row whose from_state was read long ago moves the booking all the same.
LEMMA StaleMove ==
    ASSUME NEW ev \in AuditEventType \ {"PAYMENT_VOIDED", "PASSENGER_UPDATED"},
           NEW from \in BookingState, NEW st \in BookingState
    PROVE  OneMove(<<Moved(ev, from, st)>>, from, st)
<1> DEFINE m == Moved(ev, from, st)
           e == Event("SEATS_RELEASED")
<1>1. m \in JournalRow /\ MovesBooking(m) /\ StateAfter(m) = st /\ m.from = from
    BY JournalRowsTyped, RowKinds
<1>2. e \in JournalRow /\ ~ MovesBooking(e) /\ e.from = None
    BY JournalRowsTyped, RowKinds DEF AuditEventType
<1> HIDE DEF m, e
<1>3. OneMove(<<m>>, from, st)
    BY <1>1, <1>2, MoveWithEvent
<1> QED
    BY <1>3 DEF m

\* A commit that sets the state and appends the row that says so.
LEMMA CommitKeepsName ==
    ASSUME CancelInv, JournalNamesState, NEW b \in Bookings,
           NEW ev \in AuditEventType \ {"PAYMENT_VOIDED", "PASSENGER_UPDATED"},
           NEW from \in BookingState, NEW st \in BookingState,
           Record(b, <<Moved(ev, from, st)>>), SetState(b, st)
    PROVE  JournalNamesState'
<1>1. OneMove(<<Moved(ev, from, st)>>, from, st)
    BY StaleMove
<1>2. booking'[b].state = st /\ \A c \in Bookings : c # b => booking'[c] = booking[c]
    BY SetStateEffect, CancelTypes
<1> QED
    BY <1>1, <1>2, MoveKeepsName

\* A checkout's turn, whose step 5 may write over what a cancel has committed.
LEMMA CheckoutKeepsName ==
    ASSUME CancelInv, JournalNamesState, NEW b \in Bookings, CheckoutTurn(b)
    PROVE  JournalNamesState'
<1>0. journal \in [Bookings -> Seq(JournalRow)] /\ booking \in [Bookings -> BookingRow]
    BY CancelTypes
<1>1. CASE UNCHANGED <<booking, journal>>
    BY <1>1 DEF JournalNamesState
<1>2. CASE RecordUnknown(b)
    <2> DEFINE new == <<Event("PAYMENT_UNKNOWN")>>
    <2>1. /\ UNCHANGED booking /\ new \in Seq(JournalRow)
          /\ \A i \in 1 .. Len(new) : ~ MovesBooking(new[i])
          /\ journal'[b] = journal[b] \o new
          /\ \A c \in Bookings : c # b => journal'[c] = journal[c]
        BY <1>0, <1>2, UnknownIsAnEvent
    <2> HIDE DEF new
    <2> QED
        BY <2>1, EventsKeepName
<1>3. CASE \/ AcceptPayment(b) \/ IssueTickets(b) \/ TicketingFails(b)
           \/ FailPayment(b) \/ FinishCompensation(b) \/ EscalateCompensation(b) \/ Confirm(b)
    <2>1. booking[b].state \in BookingState /\ booking[b].seats \in SUBSET Seats
        <3>1. pc[b] \in {"failing", "approved", "authorized", "reversed", "unreversed", "captured"}
            BY <1>3 DEF AcceptPayment, IssueTickets, ReadyToIssue, TicketingFails, FailPayment,
                        FinishCompensation, EscalateCompensation, Confirm
        <3> QED
            BY <1>0, <3>1, LateStateAt DEF BookingRow, BookingState
    <2> QED
        BY <1>0, <1>3, <2>1, ChangesAreJournalled, ConfirmIsJournalled, MoveKeepsName
<1>4. CASE PostBooking(b)
    <2>1. PICK H \in (SUBSET HoldIds) \ {{}} :
              RejectCheckout(b, H) \/ \E card \in Cards : LockSeats(b, H, card)
        BY <1>4 DEF PostBooking
    <2>2. CASE RejectCheckout(b, H)
        BY <1>1, <2>2 DEF RejectCheckout
    <2>3. ASSUME NEW card \in Cards, LockSeats(b, H, card)
          PROVE  JournalNamesState'
        BY <1>0, <2>3, CreationIsJournalled, MoveKeepsName
    <2> QED
        BY <2>1, <2>2, <2>3
<1>5. CASE Crash(b) \/ ReadConfirmSeq(b) \/ ConfirmConflict(b)
    BY <1>1, <1>5 DEF Crash, ReadConfirmSeq, ConfirmConflict, vars
<1>6. CASE SagaStep(b)
    <2>1. \/ UNCHANGED <<booking, journal>>
          \/ RecordUnknown(b)
          \/ AcceptPayment(b) \/ IssueTickets(b) \/ TicketingFails(b)
          \/ FailPayment(b) \/ FinishCompensation(b) \/ EscalateCompensation(b) \/ Confirm(b)
        BY <1>6
        DEF SagaStep, BlockPayment, DeclinePayment, ReadPins, StartCharge, CallAuthorize,
            TimeOutAuthorize, UnpinConflict, IssueConflict, CallVoid, VoidFails, CallCapture,
            CaptureFails
    <2> QED
        BY <1>1, <1>2, <1>3, <2>1
<1> QED
    BY <1>4, <1>5, <1>6 DEF CheckoutTurn, CheckoutStep

\* A request's turn: its row repeats the state it read when it was opened.
LEMMA RequestKeepsName ==
    ASSUME CancelInv, JournalNamesState, NEW r \in Requests, RequestTurn(r)
    PROVE  JournalNamesState'
<1>1. CASE UNCHANGED <<booking, journal>>
    BY <1>1 DEF JournalNamesState
<1>2. CASE req[r].pc \in RequestInFlight /\ (CommitCancel(r) \/ CommitEscalation(r))
    <2> PICK b \in Bookings : b = req[r].booking
        BY <1>2 DEF CancelInv, RequestFits
    <2>1. req[r].state \in BookingState
        BY <1>2 DEF CancelInv, RequestFits, Changeable, BookingState
    <2>2. CASE CommitCancel(r)
        <3>1. /\ Record(b, <<Moved("BOOKING_CANCELLED", req[r].state, "CANCELLED")>>)
              /\ SetState(b, "CANCELLED")
            BY <2>2 DEF CommitCancel
        <3> QED
            BY <2>1, <3>1, CommitKeepsName DEF AuditEventType, BookingState
    <2>3. CASE CommitEscalation(r)
        <3>1. /\ Record(b, <<Moved("COMPENSATION_FAILED", req[r].state, "NEEDS_MANUAL_REVIEW")>>)
              /\ SetState(b, "NEEDS_MANUAL_REVIEW")
            BY <2>3 DEF CommitEscalation
        <3> QED
            BY <2>1, <3>1, CommitKeepsName DEF AuditEventType, BookingState
    <2> QED
        BY <1>2, <2>2, <2>3
<1>3. CASE req[r].pc \in RequestInFlight /\ CommitAmend(r)
    <2> PICK b \in Bookings : b = req[r].booking
        BY <1>3 DEF CancelInv, RequestFits
    <2>1. req[r].state \in BookingState
        BY <1>3 DEF CancelInv, RequestFits, Changeable, BookingState
    <2> DEFINE m == Moved("PASSENGER_UPDATED", req[r].state, req[r].state)
    <2>2. m \in JournalRow /\ ~ MovesBooking(m)
        <3>1. m \in JournalRow
            BY <2>1, JournalRowsTyped DEF AuditEventType
        <3> QED
            BY <3>1 DEF MovesBooking, Moved
    <2>3. UNCHANGED booking /\ Record(b, <<m>>)
        BY <1>3 DEF CommitAmend
    <2> HIDE DEF m
    <2> PICK row : row = m
        OBVIOUS
    <2>4. <<row>> \in Seq(JournalRow) /\ \A i \in 1 .. Len(<<row>>) : <<row>>[i] = row
        BY <2>2
    <2>5. /\ journal'[b] = journal[b] \o <<row>>
          /\ \A c \in Bookings : c # b => journal'[c] = journal[c]
        BY <2>3, CancelTypes DEF Record
    <2> QED
        BY <2>2, <2>3, <2>4, <2>5, EventsKeepName
<1>4. \/ UNCHANGED <<booking, journal>>
      \/ req[r].pc \in RequestInFlight /\ (CommitCancel(r) \/ CommitEscalation(r) \/ CommitAmend(r))
    <2>1. CommitCancel(r) \/ CommitEscalation(r) \/ CommitAmend(r) => req[r].pc \in RequestInFlight
        BY DEF CommitCancel, CommitEscalation, CommitAmend, RequestInFlight
    <2> QED
        BY <2>1
        DEF RequestTurn, RequestStep, OpenRequest, FindCharge, LockSoldSeats, CallRefund, RefundRaises,
            CloseBooking, RejectTransition, EscalateCancel, StartAmend, SeqTaken, RequestDies, vars
<1> QED
    BY <1>1, <1>2, <1>3, <1>4

\* Every change of a booking's state is in its journal, the last one last:
\* although checkouts, cancels and PATCHes append to it without a lock, and name
\* states that they read earlier, the last moving row names the state on the row.
THEOREM JournalNamesStateThm == CancelSpec => []JournalNamesState
<1>1. CancelInit => JournalNamesState
    <2>1. LeadsTo(<<>>, Len(<<>>), None)
        BY EmptyJournalReplays DEF ReplaysTo
    <2> QED
        BY <2>1 DEF CancelInit, Init, NoBooking, JournalNamesState
<1>2. CancelInv /\ JournalNamesState /\ [CancelNext]_allVars => JournalNamesState'
    <2> SUFFICES ASSUME CancelInv, JournalNamesState, [CancelNext]_allVars PROVE JournalNamesState'
        OBVIOUS
    <2>1. CASE UNCHANGED <<booking, journal>>
        BY <2>1 DEF JournalNamesState
    <2>2. CASE HoldTurn \/ UNCHANGED allVars
        BY <2>1, <2>2 DEF HoldTurn, sagaVars, allVars, vars
    <2> QED
        BY <2>2, CheckoutKeepsName, RequestKeepsName DEF CancelNext
<1> QED
    BY <1>1, <1>2, CancelInvHolds, PTL DEF CancelSpec
============================================================================
