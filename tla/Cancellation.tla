---------------------------- MODULE Cancellation ----------------------------
(***************************************************************************)
(* POST /bookings/{ref}/cancel and PATCH /bookings/{ref} next to running   *)
(* checkouts: cancel() of app/services/booking_saga.py, update_booking of  *)
(* app/api/bookings.py, and the booking journal with several writers.      *)
(*                                                                         *)
(* A request is one transaction.  Between its statements other             *)
(* transactions commit, so what it read (the booking's state, whether      *)
(* there is a charge, the next journal seq) is kept in req and used as     *)
(* read.  The seats a cancel locks stay locked over its gateway call.      *)
(***************************************************************************)
EXTENDS BookingSagaProps

CONSTANTS
    Cancels,        \* requests that may be a cancel
    Patches,        \* requests that may be a PATCH
    Mortal,         \* requests whose process may die
    RefundFaults    \* TRUE: refund may raise, as the protocol allows

ASSUME CancelAssumption == Mortal \subseteq Cancels \cup Patches /\ RefundFaults \in BOOLEAN

VARIABLES
    req,            \* req[r]: request r and what its session has read
    refunded,       \* gateway keys whose charge the provider has refunded
    confirmSeq      \* confirmSeq[b]: the seq the confirming saga has read, or 0

cancelVars == <<req, refunded, confirmSeq>>
allVars == <<vars, req, refunded, confirmSeq>>

Requests == Cancels \cup Patches

RequestInFlight ==
    {"read", "charged", "locked", "refunded", "unrefunded", "closing", "escalating", "amending"}


Unopened ==
    [pc |-> "new", booking |-> None, state |-> None, charge |-> FALSE, locks |-> {}, seq |-> 0]

CancelInit ==
    /\ Init
    /\ req = [r \in Requests |-> Unopened]
    /\ refunded = {}
    /\ confirmSeq = [b \in Bookings |-> 0]

\* An answered request keeps nothing: its session is closed, its locks are gone.
Answer(r) == req' = [req EXCEPT ![r] = [Unopened EXCEPT !.pc = "done"]]
Advance(r, label) == req' = [req EXCEPT ![r].pc = label]

(***************************************************************************)
(* Row locks and the journal's seq                                         *)
(***************************************************************************)

\* Seat rows under some cancel's FOR UPDATE.
Locked == UNION {req[r].locks : r \in Requests}

\* The rows b's next transaction locks or writes.  (Hold requests, releases and
\* the sweep match no row that is sold, so a cancel never makes them wait.)
RowsWanted(b) ==
    CASE pc[b] = "authorized" -> booking[b].seats
      [] pc[b] = "failing" -> pins[b]
      [] OTHER -> {}

Unblocked(b) == RowsWanted(b) \cap Locked = {}

\* audit.record's SELECT max(seq) + 1; seq is gap-free, so it counts the rows.
NextSeq(b) == Len(journal[b]) + 1

\* uq_audit_seq accepts the row: nobody has written that seq in the meantime.
SeqFree(b, seq) == seq = NextSeq(b)

(***************************************************************************)
(* Opening a request                                                       *)
(***************************************************************************)

Changeable == {"CONFIRMED", "TICKETED"}

\* owned_booking, then require_state: the state is read here and not again.  (In
\* another state, or for another user, the answer is 409 or 404 and nothing is
\* written.)
OpenRequest(r, b) ==
    /\ req[r].pc = "new"
    /\ booking[b].state \in Changeable
    /\ req' = [req EXCEPT ![r].pc = "read", ![r].booking = b, ![r].state = booking[b].state]
    /\ UNCHANGED <<vars, refunded, confirmSeq>>

(***************************************************************************)
(* cancel()                                                                *)
(***************************************************************************)

Refundable == {"AUTHORIZED", "CAPTURED"}

FindCharge(r) ==
    /\ r \in Cancels
    /\ req[r].pc = "read"
    /\ req' = [req EXCEPT ![r].pc = "charged",
                          ![r].charge = payment[req[r].booking] \in Refundable]
    /\ UNCHANGED <<vars, refunded, confirmSeq>>

\* Mutant of LockSoldSeats: a plain SELECT, which waits for nobody.
SelectSoldSeats(r) ==
    LET rows == {s \in Seats : seat[s].booking_id = req[r].booking} IN
    /\ req[r].pc = "charged"
    /\ req' = [req EXCEPT ![r].pc = "locked", ![r].locks = rows]
    /\ UNCHANGED <<vars, refunded, confirmSeq>>

\* Waits for a cancel that holds one of the rows, then takes what is left.
LockSoldSeats(r) ==
    LET rows == {s \in Seats : seat[s].booking_id = req[r].booking} IN
    /\ req[r].pc = "charged"
    /\ rows \cap Locked = {}
    /\ req' = [req EXCEPT ![r].pc = "locked", ![r].locks = rows]
    /\ UNCHANGED <<vars, refunded, confirmSeq>>

\* gateway.refund, if a charge was found: the locks are held over the call.
CallRefund(r) ==
    /\ req[r].pc = "locked"
    /\ refunded' = IF req[r].charge THEN refunded \cup {KeyOf[req[r].booking]} ELSE refunded
    /\ Advance(r, "refunded")
    /\ UNCHANGED <<vars, confirmSeq>>

\* RefundFailed, or a timeout after which the refund may have happened.
RefundRaises(r) ==
    /\ RefundFaults
    /\ req[r].pc = "locked"
    /\ req[r].charge
    /\ refunded' \in {refunded, refunded \cup {KeyOf[req[r].booking]}}
    /\ Advance(r, "unrefunded")
    /\ UNCHANGED <<vars, confirmSeq>>

\* The seats are released and the transition asserted, then the seq is read.
CloseBooking(r) ==
    /\ req[r].pc = "refunded"
    /\ CanTransition(req[r].state, "CANCELLED")
    /\ req' = [req EXCEPT ![r].pc = "closing", ![r].seq = NextSeq(req[r].booking)]
    /\ UNCHANGED <<vars, refunded, confirmSeq>>

\* Mutant of RejectTransition: the exception leaves the transaction open.
RejectTransitionHangs(r) ==
    /\ req[r].pc = "refunded"
    /\ ~ CanTransition(req[r].state, "CANCELLED")
    /\ UNCHANGED allVars

\* IllegalTransition: everything is rolled back except the refund.
RejectTransition(r) ==
    /\ req[r].pc = "refunded"
    /\ ~ CanTransition(req[r].state, "CANCELLED")
    /\ Answer(r)
    /\ UNCHANGED <<vars, refunded, confirmSeq>>

\* Mutant of CommitCancel: the booking's state is written to the payment row.
CommitCancelMixesRows(r) ==
    LET b == req[r].booking IN
    /\ req[r].pc = "closing"
    /\ SeqFree(b, req[r].seq)
    /\ ReleaseSeatsForBooking(b)
    /\ payment' = [payment EXCEPT ![b] = "CANCELLED"]
    /\ Record(b, <<Moved("BOOKING_CANCELLED", req[r].state, "CANCELLED")>>)
    /\ SetState(b, "CANCELLED")
    /\ Answer(r)
    /\ UNCHANGED <<now, hreq, gw, pc, mem, pins, refunded, confirmSeq>>

\* Tickets voided, seats freed, payment and booking closed: one commit.
CommitCancel(r) ==
    LET b == req[r].booking IN
    /\ req[r].pc = "closing"
    /\ SeqFree(b, req[r].seq)
    /\ ReleaseSeatsForBooking(b)
    /\ payment' = [payment EXCEPT ![b] = IF req[r].charge THEN "REFUNDED" ELSE @]
    /\ Record(b, <<Moved("BOOKING_CANCELLED", req[r].state, "CANCELLED")>>)
    /\ SetState(b, "CANCELLED")
    /\ Answer(r)
    /\ UNCHANGED <<now, hreq, gw, pc, mem, pins, refunded, confirmSeq>>

\* The refund raised: the next seq is read for the COMPENSATION_FAILED row.
EscalateCancel(r) ==
    /\ req[r].pc = "unrefunded"
    /\ req' = [req EXCEPT ![r].pc = "escalating", ![r].seq = NextSeq(req[r].booking)]
    /\ UNCHANGED <<vars, refunded, confirmSeq>>

\* Mutant of CommitEscalation: the seats are released as in _compensate.
CommitEscalationReleasing(r) ==
    LET b == req[r].booking IN
    /\ req[r].pc = "escalating"
    /\ SeqFree(b, req[r].seq)
    /\ ReleaseSeatsForBooking(b)
    /\ Record(b, <<Moved("COMPENSATION_FAILED", req[r].state, "NEEDS_MANUAL_REVIEW")>>)
    /\ SetState(b, "NEEDS_MANUAL_REVIEW")
    /\ Answer(r)
    /\ UNCHANGED <<now, hreq, gw, payment, pc, mem, pins, refunded, confirmSeq>>

\* Mutant of CommitEscalation: the state moves without its journal row.
CommitEscalationUnjournalled(r) ==
    /\ req[r].pc = "escalating"
    /\ SetState(req[r].booking, "NEEDS_MANUAL_REVIEW")
    /\ Answer(r)
    /\ UNCHANGED <<holdVars, gw, payment, live, journal, pc, mem, pins, refunded, confirmSeq>>

\* Flagged for an operator; the customer keeps seats and tickets.
CommitEscalation(r) ==
    LET b == req[r].booking IN
    /\ req[r].pc = "escalating"
    /\ SeqFree(b, req[r].seq)
    /\ Record(b, <<Moved("COMPENSATION_FAILED", req[r].state, "NEEDS_MANUAL_REVIEW")>>)
    /\ SetState(b, "NEEDS_MANUAL_REVIEW")
    /\ Answer(r)
    /\ UNCHANGED <<holdVars, gw, payment, live, pc, mem, pins, refunded, confirmSeq>>

(***************************************************************************)
(* update_booking: new names are data, the journal row is not              *)
(***************************************************************************)

StartAmend(r) ==
    /\ r \in Patches
    /\ req[r].pc = "read"
    /\ req' = [req EXCEPT ![r].pc = "amending", ![r].seq = NextSeq(req[r].booking)]
    /\ UNCHANGED <<vars, refunded, confirmSeq>>

\* The row repeats the state that was read; the booking's state is not written.
CommitAmend(r) ==
    LET b == req[r].booking IN
    /\ req[r].pc = "amending"
    /\ SeqFree(b, req[r].seq)
    /\ Record(b, <<Moved("PASSENGER_UPDATED", req[r].state, req[r].state)>>)
    /\ Answer(r)
    /\ UNCHANGED <<holdVars, gw, booking, payment, live, pc, mem, pins, refunded, confirmSeq>>

\* uq_audit_seq refuses the row: the transaction rolls back, the answer is 500.
SeqTaken(r) ==
    /\ req[r].pc \in {"closing", "escalating", "amending"}
    /\ ~ SeqFree(req[r].booking, req[r].seq)
    /\ Answer(r)
    /\ UNCHANGED <<vars, refunded, confirmSeq>>

\* The process dies; Postgres rolls the transaction back and drops its locks.
RequestDies(r) ==
    /\ r \in Mortal
    /\ req[r].pc \in RequestInFlight
    /\ Answer(r)
    /\ UNCHANGED <<vars, refunded, confirmSeq>>

(***************************************************************************)
(* Step 5 of the saga, with other writers of its booking's journal         *)
(***************************************************************************)

\* The charge is captured; audit.record reads the seq of the last row.
ReadConfirmSeq(b) ==
    /\ pc[b] = "captured"
    /\ confirmSeq[b] = 0
    /\ confirmSeq' = [confirmSeq EXCEPT ![b] = NextSeq(b)]
    /\ UNCHANGED <<vars, req, refunded>>

\* The row is refused: the charge stays captured and the booking TICKETED.
ConfirmConflict(b) ==
    /\ pc[b] = "captured"
    /\ confirmSeq[b] # 0
    /\ ~ SeqFree(b, confirmSeq[b])
    /\ Goto(b, "error")
    /\ UNCHANGED <<holdVars, gw, booking, payment, live, journal, mem, pins, cancelVars>>

(***************************************************************************)
(* The specification                                                       *)
(***************************************************************************)

\* A checkout's step waits for the rows it needs, and Confirm for a free seq.
CheckoutStep(b) ==
    \/ /\ SagaStep(b)
       /\ Unblocked(b)
       /\ pc[b] = "captured" => confirmSeq[b] = NextSeq(b)
       /\ UNCHANGED cancelVars
    \/ ReadConfirmSeq(b)
    \/ ConfirmConflict(b)

RequestStep(r) ==
    \/ FindCharge(r) \/ LockSoldSeats(r) \/ CallRefund(r) \/ RefundRaises(r)
    \/ CloseBooking(r) \/ RejectTransition(r) \/ CommitCancel(r)
    \/ EscalateCancel(r) \/ CommitEscalation(r)
    \/ StartAmend(r) \/ CommitAmend(r) \/ SeqTaken(r)

HoldTurn == HoldNext /\ UNCHANGED <<gw, sagaVars, cancelVars>>

CheckoutTurn(b) ==
    \/ (PostBooking(b) \/ Crash(b)) /\ UNCHANGED cancelVars
    \/ CheckoutStep(b)

RequestTurn(r) ==
    \/ \E b \in Bookings : OpenRequest(r, b)
    \/ RequestStep(r)
    \/ RequestDies(r)

CancelNext ==
    \/ HoldTurn
    \/ \E b \in Bookings : CheckoutTurn(b)
    \/ \E r \in Requests : RequestTurn(r)

\* The event loop does not idle while a checkout or a request is ready.  No more
\* is needed, and none of them is preferred: each has finitely many steps.
SomeCoroutine ==
    \/ \E b \in Bookings : CheckoutStep(b)
    \/ \E r \in Requests : RequestStep(r)

CancelSpec == CancelInit /\ [][CancelNext]_allVars /\ WF_allVars(SomeCoroutine)

(***************************************************************************)
(* Properties                                                              *)
(***************************************************************************)

\* Type invariant: a request remembers a booking, a state and a seq it has read.
CancelTypeOK ==
    /\ SagaTypeOK
    /\ req \in [Requests -> [pc      : {"new", "done"} \cup RequestInFlight,
                             booking : Bookings \cup {None},
                             state   : Changeable \cup {None},
                             charge  : BOOLEAN,
                             locks   : SUBSET Seats,
                             seq     : Nat]]
    /\ refunded \subseteq Keys
    /\ confirmSeq \in [Bookings -> Nat]

\* The customer keeps the seats or gets the money back: of a captured charge,
\* either every ticket is still live or the provider has refunded it, whatever
\* cancels, confirmations, refused journal rows and crashes came in between.
KeepsSeatOrMoney ==
    \A b \in Bookings :
        KeyOf[b] \in gw.captured => live[b] = booking[b].seats \/ KeyOf[b] \in refunded

\* A cancelled booking has let go of everything: no live ticket, no seat row
\* that points at it, and no payment row that says the money is still held.
CancelledLetsGo ==
    \A b \in Bookings :
        booking[b].state = "CANCELLED" =>
            /\ live[b] = {}
            /\ payment[b] = "REFUNDED"
            /\ \A s \in Seats : seat[s].booking_id # b

\* "a cancel cannot race the sweep": from the FOR UPDATE to the commit the rows
\* of a cancel stay sold to its booking, and no two cancels have one row.
LockedSeatsStaySold ==
    /\ \A r \in Requests : \A s \in req[r].locks :
           seat[s].status = "booked" /\ seat[s].booking_id = req[r].booking
    /\ \A q, r \in Requests : q # r => req[q].locks \cap req[r].locks = {}

\* The last row of the journal that moves the booking names the state it is in,
\* although three kinds of transaction append to it without a lock.  (from_state,
\* which a cancel takes from an earlier read, is not compared.)
JournalNamesState ==
    \A b \in Bookings : LeadsTo(journal[b], Len(journal[b]), booking[b].state)

\* Again and again everyone has been answered: no checkout, cancel or PATCH
\* waits for ever for a row that a cancel holds over its gateway call, and every
\* refused row or transition ends its request.
EveryoneAnswered ==
    []<>(/\ \A b \in Bookings : pc[b] \notin InFlight
         /\ \A r \in Requests : req[r].pc \notin RequestInFlight)

\* cancel()'s comment, "so a cancel cannot race ... a concurrent confirm": once
\* no cancel of it is under way, a refunded booking is not a confirmed one.
RefundedIsNotConfirmed ==
    \A b \in Bookings :
        KeyOf[b] \in refunded /\ booking[b].state = "CONFIRMED" =>
            \E r \in Requests : req[r].booking = b

(***************************************************************************)
(* The inductive invariants behind them                                    *)
(***************************************************************************)

\* The states of a booking's row while its saga is at a given label: StatesAt,
\* and what cancels of the ticketed or confirmed booking have written over it.
LateStates(label) ==
    CASE label \in {"ticketed", "captured"} -> {"TICKETED", "NEEDS_MANUAL_REVIEW"}
      [] label = "confirmed" -> {"CONFIRMED", "CANCELLED", "NEEDS_MANUAL_REVIEW"}
      [] label \in {"error", "crashed"} -> BookingState \ {"CONFIRMED", "CANCELLED"}
      [] OTHER -> StatesAt(label)

\* The row of b, its tickets and its payment row agree with where its saga is.
BookingFits(b) ==
    /\ booking[b].state \in LateStates(pc[b])
    /\ booking[b].state # None => booking[b].seats # {}
    /\ Sold(b) \/ pc[b] \in {"ticketed", "captured"} => live[b] = booking[b].seats
    /\ booking[b].state \notin {"TICKETED", "CONFIRMED", "NEEDS_MANUAL_REVIEW"} => live[b] = {}
    /\ booking[b].state \in {"PAYMENT_AUTHORIZED", "TICKETED", "CONFIRMED"} =>
           payment[b] \in Refundable
    /\ booking[b].state = "CANCELLED" => payment[b] = "REFUNDED"
    /\ payment[b] = "REFUNDED" => pc[b] = "confirmed"

Issued == {"TICKETED", "CONFIRMED", "CANCELLED", "NEEDS_MANUAL_REVIEW"}

\* A seat row points at b only for one of its passengers; once b has had tickets
\* the row is booked, and a cancelled b has none.
RowFits(s, b) ==
    seat[s].booking_id = b =>
        /\ s \in booking[b].seats
        /\ booking[b].state \notin {None, "CANCELLED"}
        /\ booking[b].state \in Issued => seat[s].status = "booked"

SeatsOf(b) == {s \in Seats : seat[s].booking_id = b}

Locking == {"locked", "refunded", "unrefunded", "closing", "escalating"}

\* What a request read is still true where it matters: its booking has had
\* tickets and its saga is past them, a charge it did not find was refunded, and
\* the rows it locked are all the rows of its booking.
RequestFits(r) ==
    /\ req[r].pc \in RequestInFlight =>
           /\ req[r].booking \in Bookings
           /\ req[r].state \in Changeable
           /\ pc[req[r].booking] \in {"ticketed", "captured", "confirmed", "error", "crashed"}
           /\ booking[req[r].booking].state \in Issued
           /\ payment[req[r].booking] \in Refundable \cup {"REFUNDED"}
           /\ req[r].state = "CONFIRMED" => pc[req[r].booking] = "confirmed"
    /\ req[r].pc \in Locking \cup {"charged"} /\ ~ req[r].charge =>
           payment[req[r].booking] = "REFUNDED"
    /\ req[r].pc = "closing" => req[r].state = "CONFIRMED"
    /\ req[r].locks = IF req[r].pc \in Locking THEN SeatsOf(req[r].booking) ELSE {}

LocksApart == \A q, r \in Requests : q # r => req[q].locks \cap req[r].locks = {}

CancelInv ==
    /\ CancelTypeOK
    /\ HoldRowsSound
    /\ \A b \in Bookings : BookingFits(b)
    /\ OneLiveTicketPerSeat
    /\ \A s \in Seats : \A b \in Bookings : RowFits(s, b)
    /\ \A r \in Requests : RequestFits(r)
    /\ LocksApart

\* The provider's books: only a sale is captured, and a payment row or a request
\* that says so has been refunded.
RefundsMatch ==
    /\ \A b \in Bookings :
           KeyOf[b] \in gw.captured => pc[b] \in {"captured", "confirmed", "error", "crashed"}
    /\ \A b \in Bookings : payment[b] = "REFUNDED" => KeyOf[b] \in refunded
    /\ \A r \in Requests :
           req[r].pc \in {"refunded", "closing"} /\ req[r].charge => KeyOf[req[r].booking] \in refunded
============================================================================
