# SkyLock: TLA+ models, checks and proofs

SkyLock is a flight-booking API: FastAPI over Postgres, with Redis for derived
state only.  Its promise is that concurrent customers never oversell a seat and
that a booking which fails half-way puts the money and the seats back.  This
directory models the parts that carry that promise, checks them with TLC on small
instances, and proves with TLAPS, for every instance, the safety properties that the
passing runs check.  Where the code does not keep a promise that its documentation
makes, a run shows it.

All paths below are relative to the repository; line numbers are in
`PROJECT.json` under `map`.

## 1. Inventory

| Component | State | Operations | Hard behaviour | What makes it correct |
|---|---|---|---|---|
| seat holds (`app/services/holds.py`, `app/api/holds.py`) | rows of `seat_inventory` | `acquire_hold` (count, then conditional UPDATE), `release_hold` | two statements at one transaction time; expiry is lazy | a live hold is never taken over; a held row says who and until when; a hold id names one seat; the cap |
| sweep (`app/jobs/`) | the same rows | one conditional UPDATE every 30 s | races everything | invisible to who has a seat; lapsed rows are eventually cleared |
| booking saga (`app/services/booking_saga.py`) | `bookings`, `payments`, `tickets`, passengers' seats, `booking_audit`, the session's identity map | `run`, `_issue_tickets`, `_fail_payment`, `_compensate`, `release_seats_for_booking` | several commits around gateway calls, other requests in every gap, stale ORM objects, constraints that refuse a flush, crashes | never oversold; every charge ends in a sale, a reversal or a manual review; tickets and seat rows agree; the journal replays; no step leaves the state diagram |
| payment gateway (`app/services/payments/`) | authorizations by idempotency key, captured, voided, refunded | `authorize`, `capture`, `void`, `refund` | unknown outcomes | one authorization per key |
| cancellation, passenger updates (`cancel`, `app/api/bookings.py`) | the saga's tables, row locks | `cancel`, PATCH | decides on a booking read before any lock, refunds before the transition is checked, keeps row locks over a gateway call, a second and third journal writer | the customer keeps the seats or the money; seats are freed once and by the booking that owns them; every change of state is journalled; nobody waits for ever |
| idempotency (`app/services/idempotency.py`) | `idempotency_keys` | `begin`, `complete`, `release` | duplicates in flight, crash while claimed, release and retry | one saga per key and user; the same answer to every duplicate |
| authentication (`app/security/tokens.py`, `app/api/auth.py`) | `refresh_tokens`, the lockout columns of `users` | register, login, rotate, reuse detection, logout | every read-then-write is without a lock, so updates are lost and rotations commit after revocations | a family is revoked together and for good; lost failures delay a lockout by a known bound |
| rate limiter (`app/security/ratelimit.py`) | one Redis sorted set per bucket and subject | `check_limit` | the score is the host's clock, read before the command travels; fails open | at most n per window, whatever the order; nobody refused for the past |
| fraud controls (`app/security/carding.py`) | seven Redis windows, a risk flag | `assess_payment_attempt`, `record_outcome` | the same, with two payments between each other's commands and a failure after any command | no rule forgets recent activity; an approval that ends a decline burst is remembered |
| authorization, security events, search, dashboard, admin, schemas, scripts | none that others decide on | reads, appends | none | not modelled |

Components interact through the database and through calls: a request handler
calls the services in its own session; the saga calls the gateway, the fraud
controls and `holds.release_seats_for_booking`; the sweep shares
`seat_inventory` with everyone.  `PROJECT.json` lists every component with its
status, and under `hazards` each thing in this code that is hard to test, at the
line where it bites.

## 2. Modules

| Module | Role |
|---|---|
| `SkyLockDomain` | the enumerations, `ALLOWED_TRANSITIONS`, card behaviours |
| `SeatLease` | abstract: a seat is free, held by one user or sold to one user |
| `SeatHolds` | `seat_inventory`, hold requests, release, sweep, clock; its properties |
| `PaymentGateway` | the gateway's tables and answers, with the faults its protocol allows |
| `BookingSaga` | the saga; extends `SeatHolds` and `PaymentGateway` |
| `BookingSagaProps` | its properties, the refinement mapping to `SeatLease`, the inductive invariant |
| `Idempotency` | `idempotency_keys` and `create_booking` around a run of the saga; its properties and inductive invariant |
| `Cancellation` | `cancel`, PATCH, and the saga's last step next to them; extends `BookingSagaProps`; its properties and inductive invariants |
| `Sessions` | accounts, refresh-token families, login lockout; its properties and inductive invariants |
| `SlidingWindow` | the Redis sorted set: trim, add, clock readings |
| `RateLimiter` | `check_limit` on one bucket; extends `SlidingWindow`; its properties and inductive invariant |
| `CardVelocity` | the fraud rules around a gateway call; extends `SlidingWindow`; its properties and inductive invariant |
| `MCBookingSaga`, `MCCancellation`, `MCCardVelocity` | values of the constants for TLC |
| `SeatHolds_proofs`, `BookingSaga_proofs`, `Cancellation_proofs` | theorems about holds, checkouts, and checkouts with cancels; each extends the one before |
| `Idempotency_proofs`, `Sessions_proofs` | theorems about the claims and about accounts and token families |
| `SlidingWindow_proofs`, `RateLimiter_proofs`, `CardVelocity_proofs` | what a trim keeps, and the theorems about the limiter and the fraud windows, which rest on it |

### State and actions against the code

*One step is one committed statement or transaction, or one gateway call.*  Between
two steps anything else may happen: another checkout, a hold request, a release,
the sweep, the clock.  In `SeatHolds` and `BookingSaga` no row lock is state: every
`FOR UPDATE` and every locking UPDATE there is followed by its commit (or rollback)
with no gateway call in between, so a lock never spans a step.  `cancel()` does hold
its locks over `gateway.refund`, and `Cancellation` has them as state.

`seat[s]` is the row of seat `s`, reduced to `status`, `held_by_user_id`, `hold_id`,
`hold_expires_at`, `booking_id`.  `version` is left out: nothing reads it.
`acquire_hold` is two steps, `CountHolds` or `TooManyHolds`, then `TakeSeat` or
`LoseSeat`, both at `t0`, the transaction's start, which is what `now()` means in
Postgres.  Hold ids are uuids drawn per request, so a request is named by the hold
id it would get.

A checkout `b` of user `BookedBy[b]` runs

    new -> locked -> charging -> (timed_out -> retrying) -> approved -> authorized
        -> ticketed -> captured -> confirmed
    locked or declined -> failing -> payment_failed
    authorized -> compensating -> reversed or unreversed -> compensated

and may end in `rejected` (step 1 refused it), `error` (an exception that nothing
catches, hence a 500) or `crashed`.  `mem[b]` is what the ORM session remembers of
the seats.  `SessionLocal` sets `expire_on_commit=False` and the SELECT of
`_issue_tickets` does not ask for `populate_existing`, so the rows it "re-reads"
are the objects of step 1, and `StillOurs` looks at `mem[b]`.  Since step 1 wrote the
pin and the holder that the check asks for, it finds nothing lost, whoever has the seat
by then: `RecheckNeverRefuses`.  `SeatUnavailable` and its compensation have therefore no
action: `TicketingFails` is the only way into `_compensate`.  `pins[b]` is what
`_fail_payment` has selected, without a lock, and will write by primary key.

`assert_can_transition` raises, it does not wait, so it is no guard of the saga's
actions.  `TransitionsAreLegal` says instead that it never does raise there: every move
of a checkout is an arrow of `ALLOWED_TRANSITIONS`.  With cancels it can, and
`RejectTransition` of `Cancellation` is that path.

Constraints of the tables are part of the actions: `FlushRefused` is
`ck_booked_seat_has_booking` together with `uq_ticket_live_per_seat`,
`UnpinRefused` is `ck_booked_seat_has_booking`.  `ck_held_seat_has_holder` is not a
guard but a proved invariant.

`CapHoldsOneAtATime` is about what the two statements of `acquire_hold` do promise:
an account whose requests do not overlap keeps to its cap.  Overlapping requests can
each count before any of them takes and so exceed it, by as many as overlap; the
"at most six seats" of the repository's README is true of one request at a time.

The gateway is `FakePaymentGateway`.  `Faults` adds what the protocol in
`payments/base.py` says of a remote gateway: a timeout tells nothing about the
effect, so the model chooses; `RefundFailed` means nothing happened.

`Idempotency` stands beside the saga.  A slot is a primary key `(key, user_id)` of
`idempotency_keys`; `request_hash` is taken to be injective, so a body stands for its hash, and
an answer is named by the request whose run produced it.  `begin` is `TakeClaim`, or
`MeetClaim` followed by `LookAtClaim`: it commits between its INSERT and its SELECT.
`complete` is `FinishRun`, `release` is `FailRun`; both name the row by key and user
only, which `RunnerOwnsClaim` shows to be enough.  The DELETE of an expired row and
the INSERT are one step, because the primary key makes concurrent ones wait for each
other.  `RunsEndInTime` is the one assumption: no run outlives its claim, which lasts
a day.  What the run does is left open: it is answered, fails with an exception that
cannot be described, or dies.

`Cancellation` composes with the saga: its `CheckoutStep` is `SagaStep`, which must
wait for rows that a cancel has locked and, to confirm, for its journal row's `seq` to
be free.  A request first reads the booking (`OpenRequest`, with `owned_booking` and
`require_state`) and keeps the state it saw.  A cancel then goes

    read -> charged -> locked -> refunded -> closing -> done
                              -> unrefunded -> escalating -> done

and a PATCH `read -> amending -> done`.  `audit.record` is a read of the last `seq` in
one step and an INSERT in a later one; `SeqTaken` and `ConfirmConflict` are
`uq_audit_seq` refusing the loser, which rolls its transaction back and keeps the
refund or the capture that was made.  The saga's own earlier rows need no such split:
before `TICKETED` no other request may write to the booking's journal.
A cancel whose refund raised may have sent the booking to manual review when the saga
confirms.  The saga's session still says `TICKETED`, which is what `Confirm` checks and
journals, so it writes `CONFIRMED` over the flag: a move the diagram does not have, and
why `TransitionsAreLegal` is a property of checkouts without cancels.  `RequestDies` is a process that dies; Postgres drops its locks.

`Sessions` has a row per account and per refresh token.  The ORM writes the columns
whose value changed, so `RotateToken` writes `used_at` of the parent and inserts the
child, whatever became of the family since it was read, and `Reset` and `CountFailure`
write the counter that was read, changed.  `late` records which tokens were issued
into a family that had been revoked already, `streak` how many wrong passwords an
account has had since its last success or lockout.  Passwords and signatures are
data: a login is right or wrong by choice.

`SlidingWindow` models a sorted set as a function from members to scores.  A command
carries a clock reading of its host from some moment since the request's previous step
(`Readings`); `MaxDelay` bounds its age.  `ran` records when Redis added what, which is
what the properties compare the windows with.  A key expires one second
after its window has passed since its last use, when everything in it is outside the
window: `EXPIRE` is left out.

A request of `RateLimiter` is checked for its address and then for its user; one check
is one MULTI/EXEC.  `Outage` is the fail-open path, the transaction carried out or not.
Buckets share nothing, so one is enough.

A payment of `CardVelocity` is assessed (`Assess`), charged, and its outcome recorded
(`RecordOutcome`, then `RecordDecline`, or `LookBack` and `RaiseFlag`).  The commands
of an assessment go to different keys and are one step at one reading, except that any
of them may be the one that raises, with those before it carried out; the stamp and the
score of an outcome are one reading.  Commands of different payments interleave between
these steps.

## 3. Runs

Passing runs:

| Run | Instance | Shows |
|---|---|---|
| `seat_holds` | 2 users, 2 seats, 3 requests, TTL 1, cap 1, 3 ticks | types, sound rows, refinement of `SeatLease`, lapsed holds are swept, the cap holds for requests that do not overlap |
| `idempotency` | 2 keys, 2 bodies, 3 requests, TTL 1, 3 ticks | the saga runs at most once per key and claim lifetime, a replay answers the same body |
| `saga_faults` | 1 buyer checks the same hold out twice (a second customer may take the seat first), 2 ticks, every card, a crash anywhere in the first checkout, every gateway fault | types, never oversold, no pin to a dead booking, outcome agrees with the provider, journal replays, transitions are legal, the re-check refuses nothing, undisturbed charges are explained and undisturbed tickets backed |
| `cancellation` | 2 buyers, 1 seat, a cancel and a request that cancels or amends, refunds that raise, requests that die | seats or money, a cancelled booking has let go, locked rows stay sold, the journal names the state, never oversold, everyone is answered |
| `sessions` | 1 account, 2 logins and 2 refreshes at once, 3 tokens, lockout after 3 | families revoked together and for good, children hang under used parents, lockout in time |
| `rate_limiter` | 1 address, 1 user, 3 requests, limit 1 in a window of 3, readings up to 1 old, 1 outage | the limit holds in every span of the window, refusals have a cause |
| `card_velocity` | 2 users, 2 cards, 3 payments, 2 at once, widths 1 to 3, readings up to 1 old, 1 outage | recent activity is remembered, counts are current, a hot account is challenged |

Runs that refute what the repository says of itself (`findings` quotes the lines):

| Run | Says | Happens |
|---|---|---|
| `saga_stranded` | after the charge every failure path puts the money back | the re-check sees cached objects, the flush is refused, the exception is not compensated |
| `saga_lease` | a hold that lapses during payment ends in `201` if the seat was still free, else in compensation | another customer takes the seat and starts to pay; the re-check sees cached objects, and the first checkout issues its ticket over the other's live hold |
| `saga_swept` | a crash leaves seats recoverable by the sweep | the sweep skips a row as long as it is pinned; only a new hold of the seat or the owner's release clears it |
| `saga_key` | equal keys of two customers never collide | they share one authorization |
| `cancel_race` | a cancel cannot race a concurrent confirm | a cancel that read `TICKETED` refunds, is refused the transition and rolls back; the checkout confirms |

`saga_stranded` and `saga_lease` have one cause, the SELECT that does not reload its
rows, and two effects: when the second customer has only a hold, the row has lost its
pin and the flush is refused; when the second checkout has pinned it again, the flush
passes and the ticket is issued.

What the passing runs do not claim:

- `UndisturbedChargesExplained` and `UndisturbedTicketsBacked` are about behaviours in
  which `Undisturbed` always holds: until a checkout has its tickets nobody releases or
  takes over the holds it is paying for, and no second checkout is paying for the same
  seats.  Holds may lapse, and other checkouts of the same seats may come before and
  after.  Without the hypothesis the code breaks both: `saga_stranded` shows it for
  charges, and the state that `saga_lease` ends in, a live ticket on a row that points
  at another booking, for tickets.  `ChargesExplained` is also weaker than
  `NoStrandedCharge`: it lets a `TICKETED` booking (a capture that raised) and an
  `UNKNOWN` payment (two timeouts) keep the money.
- `KeepsSeatOrMoney` allows both: a refund after which the booking stays confirmed is
  what `cancel_race` shows.
- `JournalNamesState` looks at the last row that moves a booking, not at `from_state`;
  `JournalReplaysToState` is checked and proved for checkouts only and would fail with
  cancels, see `Cancellation_proofs` below.

These claims of the repository fail when requests overlap, in the models too.  No run
is set against them; the property named is what does hold.

| Claim | Overlap that breaks it | What holds |
|---|---|---|
| `SECURITY.md:84`, lockout after 5 failures | logins that read one counter and overwrite each other's increment | `LockoutComesInTime`, a later bound; `LockoutIsPunctual` for logins one at a time |
| `SECURITY.md:86`, the entire family is revoked | a rotation that read its token before the revocation and commits after it | `FamilyRevokedTogether`, which exempts those tokens (`late`); `RevocationIsFinal` |
| `SECURITY.md:106`, at most 6 active holds | requests that all count before one takes | `CapHoldsOneAtATime` |
| `docs/ADR-0003-saga-and-compensation.md:78`, no lock is held across a network call | true of `run`; `cancel` calls `gateway.refund` under its row locks | `LockedSeatsStaySold`, `EveryoneAnswered` |

### Bounds

`MaxTime` stops the clock, `HoldTTL` is one tick: a hold is taken, is live, reaches
its last instant, lapses, and is swept or taken over, all within the two or three
ticks allowed.  Two checkouts suffice for every two-party race of this code; a
third would add no new relation between a seat, its pin and its ticket, and the
theorems do not depend on the number.  Hold requests are bounded by `HoldIds`: two
let a seat change hands once, which is what every counterexample above needs; the
hold protocol alone is checked with three.  In `idempotency` three requests are the
least in which a slot changes hands while another request is between its INSERT and
its SELECT.  In `saga_faults` one hold and one buyer are enough for both orders of two
checkouts of the same seat, and for the second to pay for it while the first is being
compensated, or after it has failed or died.

In `cancellation` the clock stands still: a cancel works on sold seats, which do not
expire.  Two requests are enough for two to meet at one row and at one `seq`, with the
checkout as the third writer; the second customer is there to take a seat that was
freed.  In `sessions` two refreshes can read one token before either commits, and a
logout fits in between; three tokens are a login, and two children or a grandchild;
`LockoutComesInTime` compares with the exact bound for two concurrent logins, the six
ways to divide two counters among the values below the limit of three.  In `rate_limiter` and `card_velocity` three events let one leave the
window while the others stay, readings one tick old let trims and adds arrive out of
order, and one outage anywhere is a failure between any two commands; a window is wider
than a reading is old, as it is by orders of magnitude in the code.  `W_OUTCOME_SEQUENCE`
is the widest because a decline, an approval and the next payment must fit into it.

`idempotency`, `rate_limiter` and `card_velocity` may stop, because clients may stop
sending, so their deadlock check is off.

### Fairness

`WF(Sweep)`: APScheduler runs the job at a fixed interval while the process lives.
`WF(SagaStep(b))`: the event loop resumes a coroutine whose awaited call has
returned.  `LapsedHoldsAreSwept` is where the two are used: in `saga_swept` the row stays
pinned although both hold.  `Cancellation` has `WF(SomeCoroutine)` only: the event loop does not idle while
some checkout or request is ready, which is weaker and enough, since each has finitely
many steps.  Nothing is assumed of clients (`PostBooking`, hold requests, releases),
of the clock or of crashes.  A crashed checkout has no step left, so fairness
promises nothing about it.

`Sessions`, `RateLimiter`, `CardVelocity` and `Idempotency` state safety only and assume
no fairness.  No run uses symmetry.

## 4. Proofs

All proofs are for arbitrary constants.  The assumptions on them are types and natural
bounds (`NoneAssumption`, `HoldAssumption`, `FaultsAssumption`, `SagaAssumption`,
`CancelAssumption`, `IdemNoneAssumption`, `NullIsNoClaim`, `IdemTimeAssumption`,
`SessionAssumption`, `LimiterAssumption`, `VelocityAssumption`), with these that say
more: a hold's TTL, a token's, the lockout and a window's width are positive, seats,
requests and logins under way are finitely many, the decline burst is at least one, and a command travels no longer than a window is wide.
Some theorems have a hypothesis in their statement or in the property they state, which
the runs that check the same property satisfy, or contain:

| Hypothesis | Meaning | Theorems |
|---|---|---|
| `KeysAreOwn` | no two checkouts send one gateway key; `saga_key` shows that the code does not ensure it | `OutcomeMatchesProviderThm`, `UndisturbedChargesExplainedThm`, `KeepsSeatOrMoneyThm` |
| `[]Undisturbed` | nobody gets between a checkout and its seats before the tickets; `saga_stranded` and `saga_lease` show what happens when someone does | `UndisturbedTicketsBackedThm`, `UndisturbedChargesExplainedThm`, `UndisturbedLeaseThm` |
| requests of an account do not overlap | one hold request, or one login, at a time | `CapHoldsOneAtATimeThm`, `LockoutIsPunctualThm` |

Each inductive invariant was checked by TLC as an invariant of an instance before it was
proved, and each proof has one lemma for an action or a kind of action.

`SeatHolds_proofs`.  `HoldTypeOK /\ HoldRowsSound` is inductive.
`HoldRowsSound` needs its parts together: that a hold id is fresh when its UPDATE
runs follows from `HoldIdNamesOneSeat` (a seat with hold id `h` means the request
was already answered), and the bound on expiry from `PendingRequestsSound` (the
transaction did not start in the future).  Releasing and sweeping share
`ClearingKeepsInv`.  `LeaseStep` is the step simulation into `SeatLease`: taking a
seat at `t0 <= now` is `Take`, or a stutter when the new hold has lapsed before its
UPDATE ran; releasing and the clock are `Drop`; the sweep changes no lease.
`CapHoldsOneAtATime` has a temporal hypothesis (at most one request of the account has
counted and not yet taken); under it `CapInv`, within the cap and strictly below it while a
request of the account may still take, is inductive.

`BookingSaga_proofs`.  `NeverOversold` is not inductive: it says nothing of who may
issue tickets next.  `SagaInv` adds that run() is where its booking's state says
(`PcMatchesState`), that bookings have seats, that live tickets are exactly those of
sold bookings (`TicketsMatchState`), the unique index (`OneLiveTicketPerSeat`), and,
for `NoPinToDeadBooking`, that `_fail_payment` has read every seat that points at
its booking (`FailingHasReadItsPins`: nobody else pins a seat to `b` once step 1 of
`b` is over).  The proof splits the invariant into rows (`RowsInv`) and control
(`ControlInv`).  What keeps seats from being sold twice is the ticket index, not the
re-check.

The rest builds on `SagaInv`.  The agreement with the provider needs to know where the
money of a key is at every label of run(), not only in the states that end it:
`MoneyMatchesProgress`.  `TransitionsAreLegal` follows from `PcMatchesState` action by
action.  `RecheckNeverRefuses` needs `MemSaysOurs`: from step 1 on the session's objects
say that the seats are the booking's, because nothing ever reloads them.

The three theorems about undisturbed checkouts rest on `PinsPointHome`, which is
invariant without the hypothesis (a row points only at a booking that has a passenger in
the seat, and names no holder but that booking's customer), and on `PinsKept`, which is
inductive only under it: the rows of a checkout stay pinned to it until its tickets,
because the only writers of a pin are a new hold, a release and another checkout of the
seat.  `LiveTicketBacksSeat` is then inductive, as a flush that passes writes rows that
point at the booking.  `UndisturbedChargesExplained` adds `ErrorsExplained`, what each
exception that leaves run() leaves with the provider; that the flush is not refused comes
from `PinsKept` and the tickets' rows.  `UndisturbedLease` is the refinement of
`SeatLease`: issuing tickets is `Sell` of free seats and the buyer's holds, everything
after it a stutter or a `Drop`.  It is a theorem only, since TLC does not check a
refinement under a temporal hypothesis.

The journal properties are stated with quantifiers (`LeadsTo`, `ReplaysTo`:
the last moving row names the state, each `from_state` the state that the rows before
it lead to), so that they need no induction over the rows: a step appends rows of which
exactly one moves the booking (`OneMove`), or none.

`Cancellation_proofs`.  A cancel decides on what it read long ago, so `CancelInv` says
which of that is still true: `RequestFits` (the booking has had tickets and its saga is
past them, a charge that was not found has been refunded, the locks are exactly the
rows that point at the booking), `BookingFits` (states, tickets and payment row for
every label of the saga, with what cancels write over them), `RowFits` and `LocksApart`.
The locks keep two cancels of one booking from freeing seats twice, not from both closing
it: a second cancel that has read `CONFIRMED` and found the charge waits for the rows,
finds none that point at the booking any more, refunds again and commits a second row
from `CONFIRMED` to `CANCELLED`.  The seats are then nobody's or another customer's and
are not touched, the gateway's refund of a refunded charge changes nothing, and the
journal's last move still names the state; its second `from_state` does not, which is why
`JournalReplaysToState` is not claimed here.  For the money `RefundsMatch` is
added: only a sale is captured, and a payment row or a request that says so has been
refunded.

`Idempotency_proofs`.  `RunsFarApart` needs to know what keeps a second run away:
`KeptIsGuarded` says that a run which was not released has either outlived its claim
lifetime or is guarded by a claim at least as young, and `RunnerOwnsClaim` that a
running request's claim is its own, so that `release` cannot open the slot of another.
`ReplayIsForThisRequest` needs `StoredAnswerIsReal`.

`Sessions_proofs`.  `SessionInv` adds to the properties that what a request has read
exists (`ReadsAreOfRows`: rows are never deleted) and that family names are taken
(`FamiliesAreNamed`), so that a login starts a family of its own.
`RevocationIsFinal` is an action property from the same invariant.

`LockoutComesInTime` bounds a streak of wrong passwords although logins that overlap
overwrite each other's counts, so the counter itself may go down.  What never goes back
is the `Tally` of an account: how many login requests would write on from a counter of at
most i, for each i below the limit.  A wrong password that read v takes its request past
v and adds nobody at or below it, so the tally moves on in the strict order `Further`, and
the streak is at most the number of tallies left behind (`StreakHasRoom`); there are
finitely many, and the present one is never among them.  `LockoutInv` also needs that
no counter in mind is at the limit (`CountersBelowLimit`).  `LockoutIsPunctual` is the
other end: an account whose logins do not overlap has `login_max_failures` as its bound.
It has a temporal hypothesis, like `CapHoldsOneAtATime`, and is a theorem only: no run
checks it.

`SlidingWindow_proofs`, `RateLimiter_proofs`, `CardVelocity_proofs`.
`TrimKeepsRecent` is the common fact: if scores are at most the travel time older than
the moment they were taken, no trim removes what is younger than the width less the
travel time.  `LimitHolds` follows because a passing request counted everything of its
span, and `LimiterInv` adds that nobody is counted twice (`CountedOnce`) and that checks
are of subjects of the bucket.  `VelocityInv` is the type invariant,
`RecentActivityIsRemembered`, that a payment under way knows its customer
(`AsksKnown`), that an outcome's score is its stamp (`OutcomesAreStamped`) and that the
flag of a recorded burst lasts (`FlagOutlivesBurst`); one lemma (`RunKeepsFits`) covers
all commands, carried out in full or cut off by a failure.  The action properties
`RefusalsHaveCause`, `CountsAreCurrent` and `HotAccountIsChallenged` follow from the same
invariants.  The heart of the last is `BurstIsFound`: because outcomes leave the window
by their own stamps, an approval is still there while a decline before it is, so
skipping the last member skips the approval, and the loop counts every decline of a burst
that the event log shows.  The order of the outcomes and the score are stated
without sorting or folding (`Before`, `TrailingDeclines`, `Decision`), so that neither
needs induction.

Only model-checked: liveness (`LapsedHoldsAreSwept`, `EveryoneAnswered`), which rests on fairness and is out of the prover's reach.

## 5. Not modelled, and the plan

In order:

1. Idempotency composed with the saga and the gateway: what a retry after `release`
   does with the authorization that its gateway key replays.
2. Two clocks: the API host's in `_seconds_left`, Postgres's elsewhere.
3. Row locks taken one by one, for the lock order of sweep, saga and `cancel`.

Left out for good: object-level authorization (a WHERE clause per query, no state),
security events (append-only, never read to decide), flight search, dashboard and
admin (reads), schemas, errors and hashing (data only), migrations and scripts; in
`auth.py`, access tokens (stateless) and `is_active`, which nothing in the application
writes.  Carding's verdict is a free choice in the saga (`BlockPayment`), which covers
every verdict `CardVelocity` can reach.  The price, the passengers' names and PII are
data no property here tells apart.
