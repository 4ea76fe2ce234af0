------------------------- MODULE Idempotency_proofs -------------------------
(***************************************************************************)
(* Proofs about Idempotency: for any keys, bodies, requests and claim      *)
(* lifetime, kept runs of one key lie more than a claim lifetime apart,    *)
(* and a replay is the answer to the same body.                            *)
(***************************************************************************)
EXTENDS Idempotency, TLAPS

USE IdemTimeAssumption, IdemNoneAssumption, NullIsNoClaim

\* The table starts empty and no request was sent.
LEMMA IdemInitInv == IdemInit => IdemInv
BY DEF IdemInit, IdemInv, IdemTypeOK, SentInThePast, SentIsAddressed, RunnerOwnsClaim,
       KeptIsGuarded, StoredAnswerIsReal, RunsFarApart, ReplayIsForThisRequest, Kept,
       Unsent, Request, Outcome

\* The types of what the invariant speaks of, one row and one request at a time.
LEMMA IdemTypes ==
    ASSUME IdemTypeOK
    PROVE  /\ clock \in Nat
           /\ \A s \in Slots : claim[s] # None => claim[s] \in Claim /\ claim[s].expires_at \in Nat
           /\ \A r \in Requests : req[r] \in Request /\ req[r].t0 \in Nat
BY DEF IdemTypeOK, Claim, Request

\* TakeClaim: what stood for the slot has expired, so every kept run of the slot
\* is more than a lifetime old.
LEMMA TakeClaimKeepsInv ==
    ASSUME IdemInv, NEW r \in Requests, NEW s \in Slots, NEW b \in Bodies, TakeClaim(r, s, b)
    PROVE  IdemInv'
<1>0. IdemTypeOK
  BY DEF IdemInv
<1>1. /\ NewClaim(b) \in Claim
      /\ NewClaim(b).request_hash = b /\ NewClaim(b).state = "IN_PROGRESS"
      /\ NewClaim(b).expires_at = clock + ClaimTTL
      /\ NewClaim(b) # None
  BY <1>0, IdemTypes DEF NewClaim, Claim, IdempotencyState
<1>2. /\ Sent("running", s, b) \in Request
      /\ Sent("running", s, b).pc = "running" /\ Sent("running", s, b).slot = s
      /\ Sent("running", s, b).body = b /\ Sent("running", s, b).t0 = clock
  BY <1>0, IdemTypes DEF Sent, Request
<1>3. /\ claim' = [claim EXCEPT ![s] = NewClaim(b)]
      /\ req' = [req EXCEPT ![r] = Sent("running", s, b)]
      /\ clock' = clock
      /\ req[r].pc = "new"
  BY DEF TakeClaim
<1>4. IdemTypeOK'
  BY <1>0, <1>1, <1>2, <1>3 DEF IdemTypeOK
<1>5. /\ \A q \in Requests : q # r => req'[q] = req[q]
      /\ req'[r] = Sent("running", s, b)
      /\ \A k \in Slots : k # s => claim'[k] = claim[k]
      /\ claim'[s] = NewClaim(b)
  BY <1>0, <1>3 DEF IdemTypeOK
<1>6. claim[s] # None => claim[s].expires_at < clock
  BY <1>0, IdemTypes DEF TakeClaim, Standing
<1>7. SentInThePast' /\ SentIsAddressed'
  BY <1>0, <1>2, <1>3, <1>5, IdemTypes DEF IdemInv, SentInThePast, SentIsAddressed
<1>8. \A q \in Requests : q # r /\ Kept(q) /\ req[q].slot = s => req[q].t0 + ClaimTTL < clock
  BY <1>0, <1>6, IdemTypes DEF IdemInv, KeptIsGuarded
<1>9. \A q \in Requests : q # r => (Kept(q)' <=> Kept(q))
  BY <1>5 DEF Kept
<1>10. \A q \in Requests : q # r /\ req[q].pc = "running" => req[q].slot # s
  BY <1>0, <1>8, IdemTypes DEF IdemInv, RunnerOwnsClaim, Kept
<1>11. RunnerOwnsClaim'
  BY <1>0, <1>1, <1>2, <1>3, <1>5, <1>10, IdemTypes
     DEF IdemInv, RunnerOwnsClaim, SentIsAddressed
<1>12. KeptIsGuarded'
  BY <1>0, <1>1, <1>2, <1>3, <1>5, <1>8, <1>9, IdemTypes
     DEF IdemInv, KeptIsGuarded, SentIsAddressed, Kept
<1>13. StoredAnswerIsReal'
  BY <1>1, <1>3, <1>5 DEF IdemInv, StoredAnswerIsReal
<1>14. RunsFarApart'
  BY <1>0, <1>2, <1>3, <1>5, <1>8, <1>9, IdemTypes DEF IdemInv, RunsFarApart
<1>15. ReplayIsForThisRequest'
  BY <1>2, <1>3, <1>5 DEF IdemInv, ReplayIsForThisRequest
<1> QED
  BY <1>4, <1>7, <1>11, <1>12, <1>13, <1>14, <1>15 DEF IdemInv

\* MeetClaim: a new request that runs nothing.
LEMMA MeetClaimKeepsInv ==
    ASSUME IdemInv, NEW r \in Requests, NEW s \in Slots, NEW b \in Bodies, MeetClaim(r, s, b)
    PROVE  IdemInv'
<1>0. IdemTypeOK
  BY DEF IdemInv
<1>1. /\ Sent("conflict", s, b) \in Request
      /\ Sent("conflict", s, b).pc = "conflict" /\ Sent("conflict", s, b).slot = s
      /\ Sent("conflict", s, b).body = b /\ Sent("conflict", s, b).t0 = clock
  BY <1>0, IdemTypes DEF Sent, Request
<1>2. /\ req' = [req EXCEPT ![r] = Sent("conflict", s, b)]
      /\ claim' = claim /\ clock' = clock /\ req[r].pc = "new"
  BY DEF MeetClaim
<1>3. IdemTypeOK'
  BY <1>0, <1>1, <1>2 DEF IdemTypeOK
<1>4. /\ \A q \in Requests : q # r => req'[q] = req[q]
      /\ req'[r] = Sent("conflict", s, b)
  BY <1>0, <1>2 DEF IdemTypeOK
<1>5. SentInThePast' /\ SentIsAddressed'
  BY <1>0, <1>1, <1>2, <1>4, IdemTypes DEF IdemInv, SentInThePast, SentIsAddressed
<1>6. ~ Kept(r)' /\ \A q \in Requests : q # r => (Kept(q)' <=> Kept(q))
  BY <1>1, <1>4 DEF Kept
<1>7. RunnerOwnsClaim' /\ KeptIsGuarded' /\ RunsFarApart'
  BY <1>1, <1>2, <1>4, <1>6 DEF IdemInv, RunnerOwnsClaim, KeptIsGuarded, RunsFarApart
<1>8. StoredAnswerIsReal'
  BY <1>2, <1>4 DEF IdemInv, StoredAnswerIsReal
<1>9. ReplayIsForThisRequest'
  BY <1>1, <1>2, <1>4 DEF IdemInv, ReplayIsForThisRequest
<1> QED
  BY <1>3, <1>5, <1>7, <1>8, <1>9 DEF IdemInv

\* What Answered changes of the requests.
LEMMA AnsweredFields ==
    ASSUME IdemTypeOK, NEW r \in Requests, NEW pc \in Outcome,
           NEW whose \in Requests \cup {None}, Answered(r, pc, whose)
    PROVE  /\ req' \in [Requests -> Request]
           /\ \A q \in Requests : q # r => req'[q] = req[q]
           /\ req'[r].pc = pc /\ req'[r].answer = whose
           /\ req'[r].slot = req[r].slot /\ req'[r].body = req[r].body
           /\ req'[r].t0 = req[r].t0
BY DEF IdemTypeOK, Answered, Request

\* A request that is answered without a run of its own, or dies in one: the
\* table is left alone.
LEMMA AnswerKeepsInv ==
    ASSUME IdemInv, NEW r \in Requests, NEW pc \in Outcome,
           NEW whose \in Requests \cup {None}, Answered(r, pc, whose),
           UNCHANGED <<claim, clock>>,
           req[r].pc \in {"conflict", "running"},
           pc \in {"in_flight", "key_reused", "replayed"} => req[r].pc = "conflict",
           pc \notin {"answered", "failed"},
           pc = "crashed" => req[r].pc = "running",
           pc = "replayed" =>
               /\ whose \in Requests /\ req[whose].pc = "answered"
               /\ req[whose].slot = req[r].slot /\ req[whose].body = req[r].body
    PROVE  IdemInv'
<1>0. IdemTypeOK
  BY DEF IdemInv
<1>1. /\ req' \in [Requests -> Request]
      /\ \A q \in Requests : q # r => req'[q] = req[q]
      /\ req'[r].pc = pc /\ req'[r].answer = whose
      /\ req'[r].slot = req[r].slot /\ req'[r].body = req[r].body
      /\ req'[r].t0 = req[r].t0
  BY <1>0, AnsweredFields
<1>2. IdemTypeOK'
  BY <1>0, <1>1 DEF IdemTypeOK
<1>3. SentInThePast' /\ SentIsAddressed'
  BY <1>1 DEF IdemInv, SentInThePast, SentIsAddressed
<1>4. \A q \in Requests : Kept(q)' => Kept(q)
  BY <1>1 DEF Kept, Outcome
<1>5. \A q \in Requests : req'[q].slot = req[q].slot /\ req'[q].t0 = req[q].t0
  BY <1>1
<1>6. KeptIsGuarded' /\ RunsFarApart'
  BY <1>4, <1>5 DEF IdemInv, KeptIsGuarded, RunsFarApart
<1>7. RunnerOwnsClaim'
  BY <1>1 DEF IdemInv, RunnerOwnsClaim, Outcome
<1>8. StoredAnswerIsReal'
  BY <1>1 DEF IdemInv, StoredAnswerIsReal
<1>9. ReplayIsForThisRequest'
  BY <1>1 DEF IdemInv, ReplayIsForThisRequest
<1> QED
  BY <1>2, <1>3, <1>6, <1>7, <1>8, <1>9 DEF IdemInv

\* LookAtClaim replays only the stored answer to the same body.
LEMMA LookKeepsInv ==
    ASSUME IdemInv, NEW r \in Requests, LookAtClaim(r)
    PROVE  IdemInv'
<1> DEFINE existing == claim[req[r].slot]
<1>0. /\ req[r].pc = "conflict" /\ UNCHANGED <<claim, clock>>
      /\ req[r].slot \in Slots
  BY DEF LookAtClaim, IdemInv, SentIsAddressed
<1>1. CASE Answered(r, "in_flight", None)
  BY <1>0, <1>1, AnswerKeepsInv DEF Outcome
<1>2. CASE Answered(r, "key_reused", None)
  BY <1>0, <1>2, AnswerKeepsInv DEF Outcome
<1>3. CASE /\ existing # None /\ existing.request_hash = req[r].body
           /\ existing.state = "COMPLETED"
           /\ Answered(r, "replayed", existing.response)
  <2>1. /\ existing.response \in Requests /\ req[existing.response].pc = "answered"
        /\ req[existing.response].slot = req[r].slot
        /\ req[existing.response].body = req[r].body
    BY <1>0, <1>3 DEF IdemInv, StoredAnswerIsReal
  <2> QED
    BY <1>0, <1>3, <2>1, AnswerKeepsInv DEF Outcome
<1> QED
  BY <1>1, <1>2, <1>3 DEF LookAtClaim

\* FinishRun: the row the runner completes is its own.
LEMMA FinishKeepsInv ==
    ASSUME IdemInv, NEW r \in Requests, FinishRun(r)
    PROVE  IdemInv'
<1> DEFINE s == req[r].slot
           done == [claim[s] EXCEPT !.state = "COMPLETED", !.response = r]
<1>0. IdemTypeOK /\ req[r].pc = "running" /\ s \in Slots /\ clock' = clock
  BY DEF IdemInv, FinishRun, SentIsAddressed
<1>1. /\ req' \in [Requests -> Request]
      /\ \A q \in Requests : q # r => req'[q] = req[q]
      /\ req'[r].pc = "answered" /\ req'[r].answer = r
      /\ req'[r].slot = req[r].slot /\ req'[r].body = req[r].body
      /\ req'[r].t0 = req[r].t0
  BY <1>0, AnsweredFields DEF FinishRun, Outcome
<1>2. /\ claim[s] \in Claim /\ claim[s] # None
      /\ claim[s].request_hash = req[r].body
  BY <1>0, IdemTypes DEF IdemInv, RunnerOwnsClaim
<1>3. /\ done \in Claim /\ done # None
      /\ done.state = "COMPLETED" /\ done.response = r
      /\ done.request_hash = claim[s].request_hash
      /\ done.expires_at = claim[s].expires_at
  BY <1>2 DEF Claim, IdempotencyState
<1>4. /\ claim'[s] = done
      /\ \A k \in Slots : k # s => claim'[k] = claim[k]
      /\ claim' \in [Slots -> Claim \cup {None}]
  <2>1. claim' = [k \in Slots |-> IF k = s /\ claim[k] # None
                                  THEN [claim[k] EXCEPT !.state = "COMPLETED", !.response = r]
                                  ELSE claim[k]]
    BY DEF FinishRun, Completed
  <2>2. claim'[s] = done /\ \A k \in Slots : k # s => claim'[k] = claim[k]
    BY <2>1, <1>0, <1>2
  <2> QED
    BY <2>1, <2>2, <1>0, <1>3 DEF IdemTypeOK
<1>5. IdemTypeOK'
  BY <1>0, <1>1, <1>4 DEF IdemTypeOK
<1>6. SentInThePast' /\ SentIsAddressed'
  BY <1>0, <1>1 DEF IdemInv, SentInThePast, SentIsAddressed
<1>7. \A q \in Requests : Kept(q)' <=> Kept(q)
  BY <1>0, <1>1 DEF Kept
<1>8. \A q \in Requests : req'[q].slot = req[q].slot /\ req'[q].t0 = req[q].t0
  BY <1>1
<1>9. RunsFarApart'
  BY <1>7, <1>8 DEF IdemInv, RunsFarApart
<1>10. \A q \in Requests : q # r /\ req[q].pc = "running" => req[q].slot # s
  BY <1>0, IdemTypes DEF IdemInv, RunsFarApart, RunnerOwnsClaim, SentInThePast, Kept
<1>11. RunnerOwnsClaim'
  BY <1>0, <1>1, <1>4, <1>10 DEF IdemInv, RunnerOwnsClaim, SentIsAddressed
<1>12. KeptIsGuarded'
  <2>1. \A k \in Slots : claim[k] # None =>
            claim'[k] # None /\ claim'[k].expires_at = claim[k].expires_at
    BY <1>3, <1>4
  <2>2. \A q \in Requests : Kept(q) => req[q].slot \in Slots
    BY DEF IdemInv, SentIsAddressed, Kept
  <2> QED
    BY <1>0, <1>7, <1>8, <2>1, <2>2 DEF IdemInv, KeptIsGuarded
<1>13. StoredAnswerIsReal'
  <2>1. \A q \in Requests : req[q].pc = "answered" => q # r /\ req'[q] = req[q]
    BY <1>0, <1>1
  <2>2. /\ claim'[s].response = r /\ claim'[s].request_hash = req'[r].body
        /\ req'[r].pc = "answered" /\ req'[r].slot = s
    BY <1>1, <1>2, <1>3, <1>4
  <2>3. \A k \in Slots : k # s => claim'[k] = claim[k]
    BY <1>4
  <2> HIDE DEF s, done
  <2> QED
    BY <2>1, <2>2, <2>3 DEF IdemInv, StoredAnswerIsReal
<1>14. ReplayIsForThisRequest'
  <2>1. \A q \in Requests : req[q].pc = "answered" => q # r /\ req'[q] = req[q]
    BY <1>0, <1>1
  <2>2. \A q \in Requests : req'[q].pc = "replayed" => q # r /\ req'[q] = req[q]
    BY <1>1
  <2> QED
    BY <2>1, <2>2 DEF IdemInv, ReplayIsForThisRequest
<1> QED
  BY <1>5, <1>6, <1>9, <1>11, <1>12, <1>13, <1>14 DEF IdemInv

\* FailRun: the row it drops is its own, and older kept runs have expired.
LEMMA FailKeepsInv ==
    ASSUME IdemInv, NEW r \in Requests, FailRun(r)
    PROVE  IdemInv'
<1> DEFINE s == req[r].slot
<1>0. IdemTypeOK /\ req[r].pc = "running" /\ s \in Slots /\ clock' = clock
  BY DEF IdemInv, FailRun, SentIsAddressed
<1>1. /\ req' \in [Requests -> Request]
      /\ \A q \in Requests : q # r => req'[q] = req[q]
      /\ req'[r].pc = "failed"
      /\ req'[r].slot = req[r].slot /\ req'[r].body = req[r].body
      /\ req'[r].t0 = req[r].t0
  BY <1>0, AnsweredFields DEF FailRun, Outcome
<1>2. /\ claim' \in [Slots -> Claim \cup {None}]
      /\ claim'[s] = None
      /\ \A k \in Slots : k # s => claim'[k] = claim[k]
  BY <1>0 DEF IdemTypeOK, FailRun
<1>3. IdemTypeOK'
  BY <1>0, <1>1, <1>2 DEF IdemTypeOK
<1>4. SentInThePast' /\ SentIsAddressed'
  BY <1>0, <1>1 DEF IdemInv, SentInThePast, SentIsAddressed
<1>5. ~ Kept(r)' /\ \A q \in Requests : q # r => (Kept(q)' <=> Kept(q))
  BY <1>1 DEF Kept
<1>6. \A q \in Requests : q # r /\ Kept(q) /\ req[q].slot = s => req[q].t0 + ClaimTTL < clock
  BY <1>0, IdemTypes DEF IdemInv, RunsFarApart, RunnerOwnsClaim, SentInThePast, Kept
<1>7. RunsFarApart'
  BY <1>1, <1>5 DEF IdemInv, RunsFarApart
<1>8. RunnerOwnsClaim'
  BY <1>0, <1>1, <1>2, <1>6, IdemTypes DEF IdemInv, RunnerOwnsClaim, SentIsAddressed, Kept
<1>9. KeptIsGuarded'
  BY <1>0, <1>1, <1>2, <1>5, <1>6 DEF IdemInv, KeptIsGuarded, SentIsAddressed, Kept
<1>10. StoredAnswerIsReal'
  BY <1>0, <1>1, <1>2 DEF IdemInv, StoredAnswerIsReal
<1>11. ReplayIsForThisRequest'
  BY <1>0, <1>1 DEF IdemInv, ReplayIsForThisRequest
<1> QED
  BY <1>3, <1>4, <1>7, <1>8, <1>9, <1>10, <1>11 DEF IdemInv

\* IdemTick: no run outlives its claim.
LEMMA IdemTickKeepsInv ==
    ASSUME IdemInv, IdemTick
    PROVE  IdemInv'
<1>0. IdemTypeOK /\ claim' = claim /\ req' = req /\ clock' = clock + 1 /\ RunsEndInTime
  BY DEF IdemInv, IdemTick
<1>1. IdemTypeOK'
  BY <1>0 DEF IdemTypeOK
<1>2. SentInThePast' /\ SentIsAddressed'
  BY <1>0, IdemTypes DEF IdemInv, SentInThePast, SentIsAddressed
<1>3. RunnerOwnsClaim'
  BY <1>0, IdemTypes DEF IdemInv, RunnerOwnsClaim, RunsEndInTime
<1>4. KeptIsGuarded'
  BY <1>0, IdemTypes DEF IdemInv, KeptIsGuarded, Kept
<1>5. StoredAnswerIsReal' /\ RunsFarApart' /\ ReplayIsForThisRequest'
  BY <1>0 DEF IdemInv, StoredAnswerIsReal, RunsFarApart, ReplayIsForThisRequest, Kept
<1> QED
  BY <1>1, <1>2, <1>3, <1>4, <1>5 DEF IdemInv

\* Every step of POST /bookings and of the clock keeps the invariant.
LEMMA IdemStepKeepsInv == IdemInv /\ [IdemNext]_idemVars => IdemInv'
<1> SUFFICES ASSUME IdemInv, [IdemNext]_idemVars PROVE IdemInv'
  OBVIOUS
<1>1. CASE UNCHANGED idemVars
  BY <1>1 DEF idemVars, IdemInv, IdemTypeOK, SentInThePast, SentIsAddressed, RunnerOwnsClaim,
              KeptIsGuarded, StoredAnswerIsReal, RunsFarApart, ReplayIsForThisRequest, Kept
<1>2. CASE IdemTick
  BY <1>2, IdemTickKeepsInv
<1>3. CASE \E r \in Requests : RequestStep(r)
  <2> PICK r \in Requests : RequestStep(r)
    BY <1>3
  <2>1. CASE \E s \in Slots, b \in Bodies : TakeClaim(r, s, b) \/ MeetClaim(r, s, b)
    BY <2>1, TakeClaimKeepsInv, MeetClaimKeepsInv
  <2>2. CASE LookAtClaim(r)
    BY <2>2, LookKeepsInv
  <2>3. CASE FinishRun(r)
    BY <2>3, FinishKeepsInv
  <2>4. CASE FailRun(r)
    BY <2>4, FailKeepsInv
  <2>5. CASE DieInRun(r)
    BY <2>5, AnswerKeepsInv DEF DieInRun, Outcome
  <2> QED
    BY <2>1, <2>2, <2>3, <2>4, <2>5 DEF RequestStep
<1> QED
  BY <1>1, <1>2, <1>3 DEF IdemNext

\* The invariant holds throughout.
LEMMA IdemInvHolds == IdemSpec => []IdemInv
BY IdemInitInv, IdemStepKeepsInv, PTL DEF IdemSpec

\* Retrying is safe: for any number of requests, duplicates, retries, failures
\* and dead processes, the saga runs for a key at most once per claim lifetime,
\* released runs apart (begin, complete and release of idempotency.py).
THEOREM RunsFarApartThm == IdemSpec => []RunsFarApart
<1>1. IdemInv => RunsFarApart
  BY DEF IdemInv
<1> QED
  BY <1>1, IdemInvHolds, PTL

\* A replay is always the answer that the same body got under the same key,
\* although begin() looks at the row after it committed its INSERT.
THEOREM ReplayIsForThisRequestThm == IdemSpec => []ReplayIsForThisRequest
<1>1. IdemInv => ReplayIsForThisRequest
  BY DEF IdemInv
<1> QED
  BY <1>1, IdemInvHolds, PTL

\* Type correctness of the claims, the requests and the saga's runs.
THEOREM IdemTypeCorrect == IdemSpec => []IdemTypeOK
<1>1. IdemInv => IdemTypeOK
  BY DEF IdemInv
<1> QED
  BY <1>1, IdemInvHolds, PTL
=============================================================================
