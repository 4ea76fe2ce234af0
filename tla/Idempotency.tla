---------------------------- MODULE Idempotency ----------------------------
(***************************************************************************)
(* The idempotency_keys table and the way POST /bookings uses it           *)
(* (app/services/idempotency.py, create_booking of app/api/bookings.py).   *)
(*                                                                         *)
(* A slot is a primary key of the table: an Idempotency-Key of one user.   *)
(* The saga between begin() and complete() is BookingSaga's business; here *)
(* a run either ends with an answer that can be described (its response,   *)
(* or an AppError), or with an exception that cannot, or dies with its     *)
(* process.  An answer is named by the request whose run produced it.      *)
(*                                                                         *)
(* begin() is two steps, because it commits its INSERT ... ON CONFLICT DO  *)
(* NOTHING before it looks at the row that was in the way.                 *)
(***************************************************************************)
EXTENDS SkyLockDomain, Naturals

CONSTANTS
    Slots,          \* primary keys (key, user_id)
    Bodies,         \* request bodies, up to request_hash
    Requests,       \* POST /bookings requests, retries included
    ClaimTTL,       \* settings.idempotency_ttl_seconds
    MaxTime         \* bound: the clock stops here

ASSUME IdemNoneAssumption == None \notin Slots \cup Bodies \cup Requests
ASSUME IdemTimeAssumption == ClaimTTL \in Nat /\ MaxTime \in Nat

VARIABLES
    claim,      \* claim[s]: the row of slot s, or None
    req,        \* req[r]: what request r asked for and how far it got
    clock

idemVars == <<claim, req, clock>>

IdempotencyState == {"IN_PROGRESS", "COMPLETED"}

\* response: the request whose answer is stored in the row.
Claim ==
    [request_hash : Bodies,
     state        : IdempotencyState,
     response     : Requests \cup {None},
     expires_at   : Nat]

ASSUME NullIsNoClaim == None \notin Claim

Outcome == {"answered", "replayed", "in_flight", "key_reused", "failed", "crashed"}

Request ==
    [pc     : {"new", "running", "conflict"} \cup Outcome,
     slot   : Slots \cup {None},
     body   : Bodies \cup {None},
     t0     : Nat,                      \* when begin() read the clock
     answer : Requests \cup {None}]     \* whose answer the client was given

Unsent == [pc |-> "new", slot |-> None, body |-> None, t0 |-> 0, answer |-> None]

IdemInit ==
    /\ claim = [s \in Slots |-> None]
    /\ req = [r \in Requests |-> Unsent]
    /\ clock = 0

(***************************************************************************)
(* begin()                                                                 *)
(***************************************************************************)

\* The row is in the way of the INSERT: it survives the DELETE of an expired one.
Standing(s) == claim[s] # None /\ ~ (claim[s].expires_at < clock)

Sent(pc, s, b) == [pc |-> pc, slot |-> s, body |-> b, t0 |-> clock, answer |-> None]

\* Mutant of NewClaim: the digest is not stored.
NewClaimWithoutHash(b) ==
    [request_hash |-> None, state |-> "IN_PROGRESS", response |-> None,
     expires_at |-> clock + ClaimTTL]

NewClaim(b) ==
    [request_hash |-> b, state |-> "IN_PROGRESS", response |-> None,
     expires_at |-> clock + ClaimTTL]

\* DELETE what expired, INSERT, commit: the claim is ours.
TakeClaim(r, s, b) ==
    /\ req[r].pc = "new"
    /\ ~ Standing(s)
    /\ claim' = [claim EXCEPT ![s] = NewClaim(b)]
    /\ req' = [req EXCEPT ![r] = Sent("running", s, b)]
    /\ UNCHANGED clock

\* The INSERT did nothing; begin() has yet to look at the row.
MeetClaim(r, s, b) ==
    /\ req[r].pc = "new"
    /\ Standing(s)
    /\ req' = [req EXCEPT ![r] = Sent("conflict", s, b)]
    /\ UNCHANGED <<claim, clock>>

Answered(r, pc, whose) == req' = [req EXCEPT ![r].pc = pc, ![r].answer = whose]

\* Mutant of LookAtClaim: a completed row is replayed whatever the body.
LookWithoutHash(r) ==
    LET existing == claim[req[r].slot] IN
    /\ req[r].pc = "conflict"
    /\ IF existing # None /\ existing.state = "COMPLETED"
       THEN Answered(r, "replayed", existing.response)
       ELSE Answered(r, "in_flight", None)
    /\ UNCHANGED <<claim, clock>>

\* The SELECT after the INSERT; the row may have gone, or be another, by now.
LookAtClaim(r) ==
    LET existing == claim[req[r].slot] IN
    /\ req[r].pc = "conflict"
    /\ \/ existing = None /\ Answered(r, "in_flight", None)
       \/ existing # None /\ existing.request_hash # req[r].body
          /\ Answered(r, "key_reused", None)
       \/ existing # None /\ existing.request_hash = req[r].body
          /\ existing.state = "COMPLETED"
          /\ Answered(r, "replayed", existing.response)
       \/ existing # None /\ existing.request_hash = req[r].body
          /\ existing.state # "COMPLETED"
          /\ Answered(r, "in_flight", None)
    /\ UNCHANGED <<claim, clock>>

(***************************************************************************)
(* complete() and release()                                                *)
(***************************************************************************)

\* Mutant of Completed: a run that is over gives its key back.
CompletedByRelease(r) == [claim EXCEPT ![req[r].slot] = None]

\* The rows after complete(): the response is stored, unless the row has gone.
Completed(r) ==
    [s \in Slots |->
        IF s = req[r].slot /\ claim[s] # None
        THEN [claim[s] EXCEPT !.state = "COMPLETED", !.response = r]
        ELSE claim[s]]

\* A described outcome: the saga returned, or raised an AppError.
FinishRun(r) ==
    /\ req[r].pc = "running"
    /\ claim' = Completed(r)
    /\ Answered(r, "answered", r)
    /\ UNCHANGED clock

\* Any other exception: release() drops the row, whoever it belongs to.
FailRun(r) ==
    /\ req[r].pc = "running"
    /\ claim' = [claim EXCEPT ![req[r].slot] = None]
    /\ Answered(r, "failed", None)
    /\ UNCHANGED clock

\* The process dies during the run; its claim stays IN_PROGRESS.
DieInRun(r) ==
    /\ req[r].pc = "running"
    /\ Answered(r, "crashed", None)
    /\ UNCHANGED <<claim, clock>>

(***************************************************************************)
(* A run is answered or dead before its claim expires: the claim lasts a   *)
(* day, a run two gateway calls and a handful of transactions.             *)
(***************************************************************************)
RunsEndInTime == \A r \in Requests : req[r].pc = "running" => clock < req[r].t0 + ClaimTTL

IdemTick ==
    /\ clock < MaxTime
    /\ RunsEndInTime
    /\ clock' = clock + 1
    /\ UNCHANGED <<claim, req>>

RequestStep(r) ==
    \/ \E s \in Slots, b \in Bodies : TakeClaim(r, s, b) \/ MeetClaim(r, s, b)
    \/ LookAtClaim(r)
    \/ FinishRun(r)
    \/ FailRun(r)
    \/ DieInRun(r)

IdemNext == IdemTick \/ \E r \in Requests : RequestStep(r)

IdemSpec == IdemInit /\ [][IdemNext]_idemVars

(***************************************************************************)
(* Properties                                                              *)
(***************************************************************************)

\* Type invariant: the rows of idempotency_keys and the requests.
IdemTypeOK ==
    /\ claim \in [Slots -> Claim \cup {None}]
    /\ req \in [Requests -> Request]
    /\ clock \in Nat

\* A run whose outcome was not handed back to the client for a clean retry.
Kept(r) == req[r].pc \in {"running", "answered", "crashed"}

\* Retrying is safe (ADR-0004): unless a run was released, the saga does not run
\* again for its key before the claim has expired - not for a duplicate that
\* arrives during the run, not for a retry after the answer, and not for a retry
\* after the process died.
RunsFarApart ==
    \A r, q \in Requests :
        r # q /\ Kept(r) /\ Kept(q) /\ req[r].slot = req[q].slot =>
            \/ req[r].t0 + ClaimTTL < req[q].t0
            \/ req[q].t0 + ClaimTTL < req[r].t0

\* A replayed response is the answer to the same body under the same key of the
\* same user, and was really given: never the response to another request that
\* took the slot between the INSERT and the SELECT.
ReplayIsForThisRequest ==
    \A r \in Requests :
        req[r].pc = "replayed" =>
            LET q == req[r].answer IN
            /\ q \in Requests
            /\ req[q].pc = "answered"
            /\ req[q].slot = req[r].slot
            /\ req[q].body = req[r].body

(***************************************************************************)
(* The inductive invariant behind them                                     *)
(***************************************************************************)

\* No request was sent in the future.
SentInThePast == \A r \in Requests : req[r].t0 <= clock

\* A request that was sent is for a slot and a body.
SentIsAddressed ==
    \A r \in Requests : req[r].pc # "new" => req[r].slot \in Slots /\ req[r].body \in Bodies

\* The claim of a running request stands, is its own and is not completed.
RunnerOwnsClaim ==
    \A r \in Requests :
        req[r].pc = "running" =>
            /\ clock <= req[r].t0 + ClaimTTL
            /\ claim[req[r].slot] # None
            /\ claim[req[r].slot].request_hash = req[r].body
            /\ claim[req[r].slot].state = "IN_PROGRESS"
            /\ claim[req[r].slot].expires_at = req[r].t0 + ClaimTTL

\* A run that is kept is out of date, or a claim at least as young guards its key.
KeptIsGuarded ==
    \A r \in Requests :
        Kept(r) =>
            \/ req[r].t0 + ClaimTTL < clock
            \/ /\ claim[req[r].slot] # None
               /\ req[r].t0 + ClaimTTL <= claim[req[r].slot].expires_at

\* What a completed row stores is the answer its body got in its slot.
StoredAnswerIsReal ==
    \A s \in Slots :
        claim[s] # None /\ claim[s].state = "COMPLETED" =>
            /\ claim[s].response \in Requests
            /\ req[claim[s].response].pc = "answered"
            /\ req[claim[s].response].slot = s
            /\ req[claim[s].response].body = claim[s].request_hash

IdemInv ==
    /\ IdemTypeOK
    /\ SentInThePast
    /\ SentIsAddressed
    /\ RunnerOwnsClaim
    /\ KeptIsGuarded
    /\ StoredAnswerIsReal
    /\ RunsFarApart
    /\ ReplayIsForThisRequest
=============================================================================
