------------------------- MODULE RateLimiter_proofs -------------------------
(***************************************************************************)
(* Proofs about RateLimiter: for any limit, window, travel time, number of *)
(* requests and Redis failures, the limit holds and refusals have a cause. *)
(***************************************************************************)
EXTENDS RateLimiter, SlidingWindow_proofs, FiniteSetTheorems

USE LimiterAssumption

\* The requests are finitely many.
LEMMA FewRequests == IsFiniteSet(1..MaxRequests)
<1>1. 1 \in Int /\ MaxRequests \in Int
  OBVIOUS
<1> QED
  BY ONLY <1>1, FS_Interval

\* The initial state: empty windows, no request sent.
LEMMA LimiterInvInit == LimiterInit => LimiterInv
<1> SUFFICES ASSUME LimiterInit PROVE LimiterInv
  OBVIOUS
<1>1. DOMAIN EmptyWindow = {}
  BY DEF EmptyWindow
<1>2. \A s \in Subjects : DOMAIN window[s] = {} /\ DOMAIN ran[s] = {} /\ passed[s] = {}
  BY <1>1 DEF LimiterInit
<1>3. req \in [Requests -> [pc : {"idle", "ip", "user", "served", "refused"},
                            ip : Addresses \cup {None}, user : Users \cup {None},
                            since : 0..clock]]
  BY DEF LimiterInit, NotSent
<1>4. LimiterTypeOK
  BY <1>2, <1>3 DEF LimiterInit, LimiterTypeOK
<1>5. ChecksHaveSubjects
  BY DEF LimiterInit, NotSent, ChecksHaveSubjects
<1>6. CountedOnce /\ RecentIsCounted /\ LimitHolds
  BY <1>2 DEF CountedOnce, RecentIsCounted, LimitHolds
<1> QED
  BY <1>4, <1>5, <1>6 DEF LimiterInv

\* Where a check under way is, and the age of its clock reading.
LEMMA CheckUnderWay ==
    ASSUME LimiterInv, NEW r \in Requests, req[r].pc \in {"ip", "user"}
    PROVE  /\ Subject(r) \in Subjects
           /\ r \notin DOMAIN ran[Subject(r)]
           /\ \A t \in Readings(req[r].since, clock, MaxDelay) :
                  t \in Nat /\ t <= clock /\ clock - MaxDelay <= t
<1>1. Subject(r) \in Subjects /\ Subject(r)[1] = req[r].pc
  BY DEF LimiterInv, ChecksHaveSubjects, Subject, Subjects
<1>2. r \notin DOMAIN ran[Subject(r)]
  BY <1>1 DEF LimiterInv, CountedOnce
<1>3. clock \in Nat /\ req[r].since \in Nat
  BY DEF LimiterInv, LimiterTypeOK
<1> QED
  BY <1>1, <1>2, <1>3 DEF Readings

\* What one transaction does to the sets and to the log of its subject.
LEMMA RunEffect ==
    ASSUME LimiterInv, NEW r \in Requests, req[r].pc \in {"ip", "user"},
           NEW t \in Readings(req[r].since, clock, MaxDelay), Run(r, t)
    PROVE  LET s0 == Subject(r) IN
           /\ DOMAIN window' = Subjects /\ DOMAIN ran' = Subjects
           /\ \A s \in Subjects : s # s0 => window'[s] = window[s] /\ ran'[s] = ran[s]
           /\ DOMAIN ran'[s0] = DOMAIN ran[s0] \cup {r}
           /\ ran'[s0][r] = clock
           /\ \A q \in DOMAIN ran[s0] : ran'[s0][q] = ran[s0][q]
           /\ DOMAIN window'[s0] \subseteq DOMAIN ran'[s0]
           /\ \A q \in DOMAIN window'[s0] :
                  /\ window'[s0][q] \in (ran'[s0][q] - MaxDelay)..ran'[s0][q]
                  /\ q # r => window'[s0][q] > t - window_seconds
           /\ {q \in DOMAIN ran'[s0] : ran'[s0][q] > clock - (window_seconds - MaxDelay)}
                \subseteq DOMAIN window'[s0]
           /\ Counted(r, t) = Cardinality(DOMAIN window'[s0])
<1> DEFINE s0 == Subject(r)
           old == window[s0]
           times == ran[s0]
<1>1. /\ s0 \in Subjects /\ r \notin DOMAIN times
      /\ t \in Nat /\ t <= clock /\ clock - MaxDelay <= t /\ clock \in Nat
  BY CheckUnderWay DEF LimiterInv, LimiterTypeOK
<1>2. /\ DOMAIN window = Subjects /\ DOMAIN ran = Subjects
      /\ DOMAIN old \subseteq DOMAIN times
      /\ \A q \in DOMAIN times : times[q] \in Nat
      /\ \A q \in DOMAIN old : old[q] \in (times[q] - MaxDelay)..times[q]
      /\ {q \in DOMAIN times : times[q] > clock - (window_seconds - MaxDelay)} \subseteq DOMAIN old
  BY <1>1 DEF LimiterInv, LimiterTypeOK, RecentIsCounted
<1>3. /\ window' = [window EXCEPT ![s0] = Touched(old, r, t, window_seconds)]
      /\ ran' = [ran EXCEPT ![s0] = Logged(times, r, clock)]
  BY DEF Run
<1>4. /\ DOMAIN window' = Subjects /\ DOMAIN ran' = Subjects
      /\ \A s \in Subjects : s # s0 => window'[s] = window[s] /\ ran'[s] = ran[s]
      /\ window'[s0] = Touched(old, r, t, window_seconds)
      /\ ran'[s0] = Logged(times, r, clock)
  BY <1>1, <1>2, <1>3
<1>5. Counted(r, t) = Cardinality(DOMAIN window'[s0])
  BY <1>4 DEF Counted
<1>6. /\ DOMAIN ran'[s0] = DOMAIN times \cup {r}
      /\ ran'[s0][r] = clock
      /\ \A q \in DOMAIN times : ran'[s0][q] = times[q]
  <2> DEFINE new == Logged(times, r, clock)
  <2>1. /\ DOMAIN new = DOMAIN times \cup {r}
        /\ new[r] = clock
        /\ \A q \in DOMAIN times : q # r => new[q] = times[q]
    BY DEF Logged
  <2> QED
    BY <1>1, <1>4, <2>1
<1>7. /\ DOMAIN window'[s0] = {q \in DOMAIN old : old[q] > t - window_seconds} \cup {r}
      /\ window'[s0][r] = t
      /\ \A q \in DOMAIN window'[s0] : q # r =>
             /\ q \in DOMAIN old /\ old[q] > t - window_seconds
             /\ window'[s0][q] = old[q]
  <2> DEFINE new == Touched(old, r, t, window_seconds)
  <2>1. /\ DOMAIN new = {q \in DOMAIN old : old[q] > t - window_seconds} \cup {r}
        /\ new[r] = t
        /\ \A q \in DOMAIN new : q # r => /\ q \in DOMAIN old /\ old[q] > t - window_seconds
                                          /\ new[q] = old[q]
    BY DEF Touched, Added, Trimmed
  <2> QED
    BY <1>4, <2>1
<1>8. \A q \in DOMAIN window'[s0] :
          /\ q \in DOMAIN ran'[s0]
          /\ window'[s0][q] \in (ran'[s0][q] - MaxDelay)..ran'[s0][q]
          /\ q # r => window'[s0][q] > t - window_seconds
  <2> SUFFICES ASSUME NEW q \in DOMAIN window'[s0]
               PROVE  /\ q \in DOMAIN ran'[s0]
                      /\ window'[s0][q] \in (ran'[s0][q] - MaxDelay)..ran'[s0][q]
                      /\ q # r => window'[s0][q] > t - window_seconds
    OBVIOUS
  <2>1. CASE q = r
    BY <1>1, <1>6, <1>7, <2>1
  <2>2. CASE q # r
    BY <1>2, <1>6, <1>7, <2>2
  <2> QED
    BY <2>1, <2>2
<1>9. {q \in DOMAIN times : times[q] > clock - (window_seconds - MaxDelay)}
        \subseteq {q \in DOMAIN old : old[q] > t - window_seconds}
  BY <1>1, <1>2, TrimKeepsRecent
<1>10. {q \in DOMAIN ran'[s0] : ran'[s0][q] > clock - (window_seconds - MaxDelay)}
         \subseteq DOMAIN window'[s0]
  BY <1>6, <1>7, <1>9
<1> QED
  BY <1>4, <1>5, <1>6, <1>8, <1>10 DEF s0, times

\* The parts of the invariant that a transaction touches, whatever becomes of
\* its request, as long as the request is not counted twice.
LEMMA RunKeepsCounts ==
    ASSUME LimiterInv, NEW r \in Requests, req[r].pc \in {"ip", "user"},
           NEW t \in Readings(req[r].since, clock, MaxDelay), Run(r, t), UNCHANGED clock
    PROVE  /\ RecentIsCounted'
           /\ \A s \in Subjects :
                 /\ DOMAIN window'[s] \subseteq DOMAIN ran'[s]
                 /\ DOMAIN ran[s] \subseteq DOMAIN ran'[s]
                 /\ DOMAIN ran'[s] \subseteq Requests
                 /\ \A q \in DOMAIN ran'[s] : ran'[s][q] \in 0..clock'
                 /\ \A q \in DOMAIN window'[s] :
                       window'[s][q] \in (ran'[s][q] - MaxDelay)..ran'[s][q]
<1> DEFINE s0 == Subject(r)
<1>1. s0 \in Subjects
  BY CheckUnderWay
<1>2. /\ DOMAIN window' = Subjects /\ DOMAIN ran' = Subjects
      /\ \A s \in Subjects : s # s0 => window'[s] = window[s] /\ ran'[s] = ran[s]
      /\ DOMAIN ran'[s0] = DOMAIN ran[s0] \cup {r}
      /\ ran'[s0][r] = clock
      /\ \A q \in DOMAIN ran[s0] : ran'[s0][q] = ran[s0][q]
      /\ DOMAIN window'[s0] \subseteq DOMAIN ran'[s0]
      /\ \A q \in DOMAIN window'[s0] :
             window'[s0][q] \in (ran'[s0][q] - MaxDelay)..ran'[s0][q]
      /\ {q \in DOMAIN ran'[s0] : ran'[s0][q] > clock - (window_seconds - MaxDelay)}
           \subseteq DOMAIN window'[s0]
  BY RunEffect
<1>3. /\ clock \in Nat
      /\ \A s \in Subjects : /\ DOMAIN window[s] \subseteq DOMAIN ran[s]
                             /\ DOMAIN ran[s] \subseteq Requests
                             /\ \A q \in DOMAIN ran[s] : ran[s][q] \in 0..clock
                             /\ \A q \in DOMAIN window[s] :
                                   window[s][q] \in (ran[s][q] - MaxDelay)..ran[s][q]
      /\ \A s \in Subjects :
            {q \in DOMAIN ran[s] : ran[s][q] > clock - (window_seconds - MaxDelay)}
              \subseteq DOMAIN window[s]
  BY DEF LimiterInv, LimiterTypeOK, RecentIsCounted
<1> HIDE DEF s0
<1>4. RecentIsCounted'
  <2> SUFFICES ASSUME NEW s \in Subjects
               PROVE  {q \in DOMAIN ran'[s] : ran'[s][q] > clock - (window_seconds - MaxDelay)}
                        \subseteq DOMAIN window'[s]
    BY DEF RecentIsCounted
  <2>1. CASE s = s0
    BY <1>2, <2>1
  <2>2. CASE s # s0
    BY <1>2, <1>3, <2>2
  <2> QED
    BY <2>1, <2>2
<1>5. ASSUME NEW s \in Subjects
      PROVE  /\ DOMAIN window'[s] \subseteq DOMAIN ran'[s]
             /\ DOMAIN ran[s] \subseteq DOMAIN ran'[s]
             /\ DOMAIN ran'[s] \subseteq Requests
             /\ \A q \in DOMAIN ran'[s] : ran'[s][q] \in 0..clock'
             /\ \A q \in DOMAIN window'[s] : window'[s][q] \in (ran'[s][q] - MaxDelay)..ran'[s][q]
  <2>1. CASE s = s0
    BY <1>2, <1>3, <2>1
  <2>2. CASE s # s0
    BY <1>2, <1>3, <2>2
  <2> QED
    BY <2>1, <2>2
<1> QED
  BY <1>4, <1>5

\* A request moves on: to its user's check, to the endpoint, or out.
LEMMA RequestMoves ==
    ASSUME LimiterInv, NEW r \in Requests, req[r].pc \in {"ip", "user"}, UNCHANGED clock,
           \/ \E how \in {"served", "refused"} : req' = Finish(r, how)
           \/ req' = LetThrough(r)
    PROVE  /\ req' \in [Requests -> [pc : {"idle", "ip", "user", "served", "refused"},
                                    ip : Addresses \cup {None}, user : Users \cup {None},
                                    since : 0..clock']]
           /\ ChecksHaveSubjects'
           /\ \A q \in Requests : q # r => req'[q] = req[q]
           /\ req'[r].pc \notin {"idle", "ip"}
           /\ req'[r].pc = "user" => req[r].pc = "ip"
<1> DEFINE T == [pc : {"idle", "ip", "user", "served", "refused"},
                 ip : Addresses \cup {None}, user : Users \cup {None}, since : 0..clock]
<1>1. req \in [Requests -> T] /\ clock \in Nat
  BY DEF LimiterInv, LimiterTypeOK
<1>2. PICK new \in T :
          /\ req' = [req EXCEPT ![r] = new]
          /\ new.pc \notin {"idle", "ip"}
          /\ new.pc = "user" => req[r].pc = "ip" /\ new.user \in Users
  <2>1. ASSUME NEW how \in {"served", "refused"}
        PROVE  LET new == [NotSent EXCEPT !.pc = how] IN new \in T /\ new.pc = how
    BY <1>1 DEF NotSent
  <2>2. CASE \E how \in {"served", "refused"} : req' = Finish(r, how)
    BY <2>1, <2>2 DEF Finish
  <2>3. CASE req[r].pc = "ip" /\ req[r].user # None /\ req' = LetThrough(r)
    <3> DEFINE new == [req[r] EXCEPT !.pc = "user", !.since = clock]
    <3>1. new \in T /\ new.pc = "user" /\ new.user = req[r].user
      <4>1. req[r] \in T /\ clock \in 0..clock
        BY <1>1
      <4>2. ASSUME NEW old \in T
            PROVE  LET upd == [old EXCEPT !.pc = "user", !.since = clock]
                   IN  upd \in T /\ upd.pc = "user" /\ upd.user = old.user
        BY <4>1
      <4> QED
        BY <4>1, <4>2
    <3>2. req[r].user \in Users
      BY <1>1, <2>3
    <3>3. req' = [req EXCEPT ![r] = new]
      BY <1>1, <2>3 DEF LetThrough
    <3> QED
      BY <2>3, <3>1, <3>2, <3>3
  <2>4. CASE ~ (req[r].pc = "ip" /\ req[r].user # None) /\ req' = LetThrough(r)
    BY <2>1, <2>4 DEF LetThrough, Finish
  <2> QED
    BY <2>2, <2>3, <2>4
<1>3. /\ req' \in [Requests -> T]
      /\ \A q \in Requests : q # r => req'[q] = req[q]
      /\ req'[r] = new
  BY <1>1, <1>2
<1>4. ChecksHaveSubjects'
  BY <1>2, <1>3 DEF LimiterInv, ChecksHaveSubjects
<1> QED
  BY <1>2, <1>3, <1>4

\* One check, answered or not: everything but the limit itself.
LEMMA CheckKeepsInv ==
    ASSUME LimiterInv, NEW r \in Requests, req[r].pc \in {"ip", "user"}, UNCHANGED clock,
           \/ \E how \in {"served", "refused"} : req' = Finish(r, how)
           \/ req' = LetThrough(r),
           NEW t \in Readings(req[r].since, clock, MaxDelay), Run(r, t),
           passed' \in {passed, [passed EXCEPT ![Subject(r)] = @ \cup {r}]},
           outages' \in 0..MaxOutages
    PROVE  LimiterTypeOK' /\ ChecksHaveSubjects' /\ CountedOnce' /\ RecentIsCounted'
<1> DEFINE s0 == Subject(r)
<1>1. s0 \in Subjects /\ s0[1] = req[r].pc
  BY CheckUnderWay DEF Subject
<1>2. /\ DOMAIN window' = Subjects /\ DOMAIN ran' = Subjects
      /\ \A s \in Subjects : s # s0 => ran'[s] = ran[s]
      /\ DOMAIN ran'[s0] = DOMAIN ran[s0] \cup {r}
  BY RunEffect
<1>3. /\ RecentIsCounted'
      /\ \A s \in Subjects :
            /\ DOMAIN window'[s] \subseteq DOMAIN ran'[s]
            /\ DOMAIN ran[s] \subseteq DOMAIN ran'[s]
            /\ DOMAIN ran'[s] \subseteq Requests
            /\ \A q \in DOMAIN ran'[s] : ran'[s][q] \in 0..clock'
            /\ \A q \in DOMAIN window'[s] :
                  window'[s][q] \in (ran'[s][q] - MaxDelay)..ran'[s][q]
  BY RunKeepsCounts
<1>4. /\ req' \in [Requests -> [pc : {"idle", "ip", "user", "served", "refused"},
                                ip : Addresses \cup {None}, user : Users \cup {None},
                                since : 0..clock']]
      /\ ChecksHaveSubjects'
      /\ \A q \in Requests : q # r => req'[q] = req[q]
      /\ req'[r].pc \notin {"idle", "ip"}
      /\ req'[r].pc = "user" => req[r].pc = "ip"
  BY RequestMoves
<1>5. DOMAIN passed' = Subjects /\ \A s \in Subjects : passed'[s] \subseteq DOMAIN ran'[s]
  <2>1. DOMAIN passed = Subjects /\ \A s \in Subjects : passed[s] \subseteq DOMAIN ran[s]
    BY DEF LimiterInv, LimiterTypeOK
  <2>2. DOMAIN passed' = Subjects /\ \A s \in Subjects : s # s0 => passed'[s] = passed[s]
    BY <1>1, <2>1
  <2>3. passed'[s0] \subseteq passed[s0] \cup {r}
    BY <1>1, <2>1
  <2> QED
    BY <1>1, <1>2, <1>3, <2>1, <2>2, <2>3
<1>6. LimiterTypeOK'
  BY <1>2, <1>3, <1>4, <1>5 DEF LimiterInv, LimiterTypeOK
<1>7. CountedOnce'
  <2> SUFFICES ASSUME NEW q \in Requests, NEW s \in Subjects, q \in DOMAIN ran'[s]
               PROVE  /\ req'[q].pc \notin {"idle", "ip"}
                      /\ req'[q].pc = "user" => s[1] = "ip"
    BY DEF CountedOnce
  <2>1. CASE q # r
    <3>1. q \in DOMAIN ran[s]
      BY <1>2, <2>1
    <3> QED
      BY <1>4, <2>1, <3>1 DEF LimiterInv, CountedOnce
  <2>2. CASE q = r
    <3>1. req[r].pc = "ip" => s = s0
      BY <1>2, <2>2 DEF LimiterInv, CountedOnce
    <3> QED
      BY <1>1, <1>4, <2>2, <3>1
  <2> QED
    BY <2>1, <2>2
<1> QED
  BY <1>3, <1>4, <1>6, <1>7

\* A check that lets nobody through leaves the limit as it is: the request was
\* not counted against its subject before.
LEMMA UnpassedKeepsLimit ==
    ASSUME LimiterInv, NEW r \in Requests, req[r].pc \in {"ip", "user"}, UNCHANGED passed,
           NEW t \in Readings(req[r].since, clock, MaxDelay), Run(r, t)
    PROVE  LimitHolds'
<1>1. /\ Subject(r) \in Subjects /\ r \notin DOMAIN ran[Subject(r)]
      /\ \A s \in Subjects : passed[s] \subseteq DOMAIN ran[s]
  BY CheckUnderWay DEF LimiterInv, LimiterTypeOK
<1>2. \A s \in Subjects : \A q \in passed[s] : ran'[s][q] = ran[s][q]
  BY <1>1, RunEffect
<1>3. \A s \in Subjects : \A r1 \in passed[s] :
          {q \in passed[s] : /\ ran'[s][q] <= ran'[s][r1]
                             /\ ran'[s][q] > ran'[s][r1] - (window_seconds - MaxDelay)}
          = {q \in passed[s] : /\ ran[s][q] <= ran[s][r1]
                               /\ ran[s][q] > ran[s][r1] - (window_seconds - MaxDelay)}
  BY <1>2
<1> QED
  BY <1>3 DEF LimiterInv, LimitHolds

\* A check that lets its request through has counted everything recent.
LEMMA PassedKeepsLimit ==
    ASSUME LimiterInv, NEW r \in Requests, req[r].pc \in {"ip", "user"},
           NEW t \in Readings(req[r].since, clock, MaxDelay), Run(r, t),
           ~ (Counted(r, t) > max_requests),
           passed' = [passed EXCEPT ![Subject(r)] = @ \cup {r}]
    PROVE  LimitHolds'
<1> DEFINE s0 == Subject(r)
           Span(s, r1) == {q \in passed[s] : /\ ran[s][q] <= ran[s][r1]
                                             /\ ran[s][q] > ran[s][r1] - (window_seconds - MaxDelay)}
           SpanNext(s, r1) ==
               {q \in passed'[s] : /\ ran'[s][q] <= ran'[s][r1]
                                   /\ ran'[s][q] > ran'[s][r1] - (window_seconds - MaxDelay)}
<1>1. /\ s0 \in Subjects /\ r \notin DOMAIN ran[s0]
      /\ DOMAIN passed = Subjects
      /\ clock \in Nat
      /\ \A s \in Subjects : /\ passed[s] \subseteq DOMAIN ran[s]
                             /\ \A q \in DOMAIN ran[s] : ran[s][q] \in 0..clock
  BY CheckUnderWay DEF LimiterInv, LimiterTypeOK
<1>2. /\ \A s \in Subjects : s # s0 => ran'[s] = ran[s] /\ passed'[s] = passed[s]
      /\ passed'[s0] = passed[s0] \cup {r}
      /\ DOMAIN ran'[s0] = DOMAIN ran[s0] \cup {r}
      /\ ran'[s0][r] = clock
      /\ \A q \in DOMAIN ran[s0] : ran'[s0][q] = ran[s0][q]
      /\ {q \in DOMAIN ran'[s0] : ran'[s0][q] > clock - (window_seconds - MaxDelay)}
           \subseteq DOMAIN window'[s0]
      /\ Counted(r, t) = Cardinality(DOMAIN window'[s0])
      /\ DOMAIN window'[s0] \subseteq DOMAIN ran'[s0]
  BY <1>1, RunEffect
<1>3. IsFiniteSet(DOMAIN window'[s0])
  <2>1. DOMAIN window'[s0] \subseteq 1..MaxRequests
    BY <1>1, <1>2 DEF LimiterInv, LimiterTypeOK, Requests
  <2>2. IsFiniteSet(1..MaxRequests)
    BY FewRequests
  <2> QED
    BY <2>1, <2>2, FS_Subset
<1>4. \A S \in SUBSET DOMAIN window'[s0] : Cardinality(S) <= max_requests
  BY <1>2, <1>3, FS_Subset, FS_CardinalityType
<1> SUFFICES ASSUME NEW s \in Subjects, NEW r1 \in passed'[s]
             PROVE  Cardinality(SpanNext(s, r1)) <= max_requests
  BY DEF LimitHolds
<1>5. CASE s # s0
  <2>1. SpanNext(s, r1) = Span(s, r1) /\ r1 \in passed[s]
    BY <1>2, <1>5
  <2> QED
    BY <2>1 DEF LimiterInv, LimitHolds
<1>6. CASE s = s0 /\ ran'[s0][r1] = clock
  <2>1. \A q \in SpanNext(s0, r1) : q \in DOMAIN window'[s0]
    BY <1>1, <1>2, <1>6
  <2> QED
    BY <1>4, <1>6, <2>1
<1>7. CASE s = s0 /\ ran'[s0][r1] # clock
  <2>1. r1 # r /\ r1 \in passed[s0] /\ ran[s0][r1] \in 0..clock /\ ran'[s0][r1] = ran[s0][r1]
    BY <1>1, <1>2, <1>7
  <2>2. r \notin SpanNext(s0, r1)
    BY <1>1, <1>2, <1>7, <2>1
  <2>3. SpanNext(s0, r1) = Span(s0, r1)
    BY <1>1, <1>2, <2>1, <2>2
  <2> QED
    BY <1>7, <2>1, <2>3 DEF LimiterInv, LimitHolds
<1> QED
  BY <1>5, <1>6, <1>7

\* A request that was never sent comes in.
LEMMA ArriveKeepsInv ==
    ASSUME LimiterInv, NEW r \in Requests,
           NEW ip \in Addresses, NEW user \in Users \cup {None}, Arrive(r, ip, user)
    PROVE  LimiterInv'
<1> DEFINE T == [pc : {"idle", "ip", "user", "served", "refused"},
                 ip : Addresses \cup {None}, user : Users \cup {None}, since : 0..clock]
           new == [pc |-> "ip", ip |-> ip, user |-> user, since |-> clock]
<1>1. req \in [Requests -> T] /\ clock \in Nat
  BY DEF LimiterInv, LimiterTypeOK
<1>2. new \in T
  BY <1>1
<1>3. /\ req' = [req EXCEPT ![r] = new] /\ req[r].pc = "idle"
      /\ UNCHANGED <<window, outages, clock, ran, passed>>
  BY DEF Arrive
<1>4. /\ req' \in [Requests -> T]
      /\ req'[r] = new
      /\ \A q \in Requests : q # r => req'[q] = req[q]
  BY <1>1, <1>2, <1>3
<1>5. LimiterTypeOK'
  BY <1>3, <1>4 DEF LimiterInv, LimiterTypeOK
<1>6. ChecksHaveSubjects' /\ CountedOnce'
  BY <1>3, <1>4 DEF LimiterInv, ChecksHaveSubjects, CountedOnce
<1>7. RecentIsCounted' /\ LimitHolds'
  BY <1>3 DEF LimiterInv, RecentIsCounted, LimitHolds
<1> QED
  BY <1>5, <1>6, <1>7 DEF LimiterInv

\* check_limit, whichever way it decides.
LEMMA CheckLimitKeepsInv ==
    ASSUME LimiterInv, NEW r \in Requests, CheckLimit(r)
    PROVE  LimiterInv'
<1>1. req[r].pc \in {"ip", "user"} /\ UNCHANGED <<outages, clock>>
  BY DEF CheckLimit
<1>2. outages' \in 0..MaxOutages
  BY <1>1 DEF LimiterInv, LimiterTypeOK
<1>3. PICK t \in Readings(req[r].since, clock, MaxDelay) :
          /\ Run(r, t)
          /\ \/ Counted(r, t) > max_requests /\ req' = Finish(r, "refused") /\ UNCHANGED passed
             \/ /\ ~ (Counted(r, t) > max_requests)
                /\ req' = LetThrough(r)
                /\ passed' = [passed EXCEPT ![Subject(r)] = @ \cup {r}]
  BY DEF CheckLimit
<1>4. LimiterTypeOK' /\ ChecksHaveSubjects' /\ CountedOnce' /\ RecentIsCounted'
  BY <1>1, <1>2, <1>3, CheckKeepsInv
<1>5. LimitHolds'
  <2>1. CASE UNCHANGED passed
    BY <1>1, <1>3, <2>1, UnpassedKeepsLimit
  <2>2. CASE /\ ~ (Counted(r, t) > max_requests)
             /\ passed' = [passed EXCEPT ![Subject(r)] = @ \cup {r}]
    BY <1>1, <1>3, <2>2, PassedKeepsLimit
  <2> QED
    BY <1>3, <2>1, <2>2
<1> QED
  BY <1>4, <1>5 DEF LimiterInv

\* A transaction that raised, run or not: the request passes uncounted.
LEMMA OutageKeepsInv ==
    ASSUME LimiterInv, NEW r \in Requests, Outage(r)
    PROVE  LimiterInv'
<1>1. req[r].pc \in {"ip", "user"} /\ req' = LetThrough(r) /\ UNCHANGED <<clock, passed>>
  BY DEF Outage
<1>2. outages' \in 0..MaxOutages
  BY DEF Outage, LimiterInv, LimiterTypeOK
<1>3. CASE UNCHANGED <<window, ran>>
  <2>1. /\ req' \in [Requests -> [pc : {"idle", "ip", "user", "served", "refused"},
                                  ip : Addresses \cup {None}, user : Users \cup {None},
                                  since : 0..clock']]
        /\ ChecksHaveSubjects'
        /\ \A q \in Requests : q # r => req'[q] = req[q]
        /\ req'[r].pc \notin {"idle", "ip"}
        /\ req'[r].pc = "user" => req[r].pc = "ip"
    BY <1>1, RequestMoves
  <2>2. LimiterTypeOK'
    BY <1>1, <1>2, <1>3, <2>1 DEF LimiterInv, LimiterTypeOK
  <2>3. CountedOnce'
    BY <1>3, <2>1 DEF LimiterInv, CountedOnce
  <2>4. RecentIsCounted' /\ LimitHolds'
    BY <1>1, <1>3 DEF LimiterInv, RecentIsCounted, LimitHolds
  <2> QED
    BY <2>1, <2>2, <2>3, <2>4 DEF LimiterInv
<1>4. CASE \E t \in Readings(req[r].since, clock, MaxDelay) : Run(r, t)
  <2>1. PICK t \in Readings(req[r].since, clock, MaxDelay) : Run(r, t)
    BY <1>4
  <2>2. LimiterTypeOK' /\ ChecksHaveSubjects' /\ CountedOnce' /\ RecentIsCounted'
    BY <1>1, <1>2, <2>1, CheckKeepsInv
  <2>3. LimitHolds'
    BY <1>1, <2>1, UnpassedKeepsLimit
  <2> QED
    BY <2>2, <2>3 DEF LimiterInv
<1> QED
  BY <1>3, <1>4 DEF Outage

\* Time passes: what was recent grows old, nothing else.
LEMMA TickKeepsInv ==
    ASSUME LimiterInv, Tick
    PROVE  LimiterInv'
<1>1. /\ clock \in Nat /\ clock' = clock + 1 /\ clock' \in 0..MaxTime
      /\ UNCHANGED <<window, req, outages, ran, passed>>
      /\ 0..clock \subseteq 0..clock'
  BY DEF LimiterInv, LimiterTypeOK, Tick
<1>2. req' \in [Requests -> [pc : {"idle", "ip", "user", "served", "refused"},
                             ip : Addresses \cup {None}, user : Users \cup {None},
                             since : 0..clock']]
  BY <1>1 DEF LimiterInv, LimiterTypeOK
<1>3. LimiterTypeOK'
  BY <1>1, <1>2 DEF LimiterInv, LimiterTypeOK
<1>4. ChecksHaveSubjects' /\ CountedOnce' /\ LimitHolds'
  BY <1>1 DEF LimiterInv, ChecksHaveSubjects, CountedOnce, LimitHolds
<1>5. RecentIsCounted'
  BY <1>1 DEF LimiterInv, LimiterTypeOK, RecentIsCounted
<1> QED
  BY <1>3, <1>4, <1>5 DEF LimiterInv

\* Every step of the limiter keeps the inductive invariant.
LEMMA LimiterInvStep == LimiterInv /\ [LimiterNext]_limiterVars => LimiterInv'
<1> SUFFICES ASSUME LimiterInv, [LimiterNext]_limiterVars PROVE LimiterInv'
  OBVIOUS
<1>1. CASE Tick
  BY <1>1, TickKeepsInv
<1>2. CASE \E r \in Requests, ip \in Addresses, user \in Users \cup {None} : Arrive(r, ip, user)
  BY <1>2, ArriveKeepsInv
<1>3. CASE \E r \in Requests : CheckLimit(r)
  BY <1>3, CheckLimitKeepsInv
<1>4. CASE \E r \in Requests : Outage(r)
  BY <1>4, OutageKeepsInv
<1>5. CASE UNCHANGED limiterVars
  BY <1>5 DEF LimiterInv, LimiterTypeOK, ChecksHaveSubjects, CountedOnce, RecentIsCounted,
              LimitHolds, limiterVars
<1> QED
  BY <1>1, <1>2, <1>3, <1>4, <1>5 DEF LimiterNext

\* The inductive invariant holds in every reachable state.
LEMMA LimiterInvHolds == LimiterSpec => []LimiterInv
  BY LimiterInvInit, LimiterInvStep, PTL DEF LimiterSpec

\* Type correctness of the limiter: entries of a window carry the clock
\* reading of a transaction Redis ran.
THEOREM LimiterTypeCorrect == LimiterSpec => []LimiterTypeOK
<1>1. LimiterInv => LimiterTypeOK
  BY DEF LimiterInv
<1> QED
  BY <1>1, LimiterInvHolds, PTL

\* check_limit never lets more than max_requests of one subject through in the
\* window less the travel time, for any limit, window, delay and any failures.
THEOREM LimitAlwaysHolds == LimiterSpec => []LimitHolds
<1>1. LimiterInv => LimitHolds
  BY DEF LimiterInv
<1> QED
  BY <1>1, LimiterInvHolds, PTL

\* What a refusing transaction counted was run within the window and the time
\* a command travels.
LEMMA RefusalCounts ==
    ASSUME LimiterInv, NEW r \in Requests, req[r].pc \in {"ip", "user"},
           NEW t \in Readings(req[r].since, clock, MaxDelay), Run(r, t),
           Counted(r, t) > max_requests
    PROVE  Cardinality({q \in DOMAIN ran'[Subject(r)] :
                           ran'[Subject(r)][q] > clock - (window_seconds + MaxDelay)})
             > max_requests
<1> DEFINE s0 == Subject(r)
           recent == {q \in DOMAIN ran'[s0] : ran'[s0][q] > clock - (window_seconds + MaxDelay)}
<1>1. /\ s0 \in Subjects /\ DOMAIN ran[s0] \subseteq Requests
      /\ \A q \in DOMAIN ran[s0] : ran[s0][q] \in 0..clock
      /\ clock \in Nat /\ t \in Nat /\ t <= clock /\ clock - MaxDelay <= t
  BY CheckUnderWay DEF LimiterInv, LimiterTypeOK
<1>2. /\ DOMAIN ran'[s0] = DOMAIN ran[s0] \cup {r}
      /\ ran'[s0][r] = clock
      /\ \A q \in DOMAIN ran[s0] : ran'[s0][q] = ran[s0][q]
      /\ DOMAIN window'[s0] \subseteq DOMAIN ran'[s0]
      /\ \A q \in DOMAIN window'[s0] :
             /\ window'[s0][q] \in (ran'[s0][q] - MaxDelay)..ran'[s0][q]
             /\ q # r => window'[s0][q] > t - window_seconds
      /\ Counted(r, t) = Cardinality(DOMAIN window'[s0])
  BY RunEffect
<1> HIDE DEF s0
<1>3. DOMAIN window'[s0] \subseteq recent
  <2> SUFFICES ASSUME NEW q \in DOMAIN window'[s0]
               PROVE  q \in DOMAIN ran'[s0] /\ ran'[s0][q] > clock - (window_seconds + MaxDelay)
    OBVIOUS
  <2>1. CASE q = r
    BY <1>1, <1>2, <2>1
  <2>2. CASE q # r
    BY <1>1, <1>2, <2>2
  <2> QED
    BY <2>1, <2>2
<1>4. IsFiniteSet(recent)
  <2>1. recent \subseteq 1..MaxRequests
    BY <1>1, <1>2 DEF Requests
  <2>2. IsFiniteSet(1..MaxRequests)
    BY FewRequests
  <2> QED
    BY <2>1, <2>2, FS_Subset
<1>5. /\ Cardinality(DOMAIN window'[s0]) <= Cardinality(recent)
      /\ Cardinality(recent) \in Nat /\ Cardinality(DOMAIN window'[s0]) \in Nat
  BY <1>3, <1>4, FS_Subset, FS_CardinalityType
<1>6. Cardinality(recent) > max_requests
  BY <1>2, <1>5
<1> QED
  BY <1>6 DEF s0

\* A refusal is never made up: whenever check_limit turns a request away, Redis
\* had counted more than max_requests for the subject in the window and the
\* time a command travels.
THEOREM RefusalsAlwaysHaveCause == LimiterSpec => RefusalsHaveCause
<1> DEFINE Caused ==
      \A r \in Requests : req[r].pc # "refused" /\ req'[r].pc = "refused" =>
          Cardinality({q \in DOMAIN ran'[Subject(r)] :
                          ran'[Subject(r)][q] > clock - (window_seconds + MaxDelay)})
            > max_requests
<1>1. LimiterInv /\ [LimiterNext]_limiterVars => [Caused]_limiterVars
  <2> SUFFICES ASSUME LimiterInv, LimiterNext, NEW r \in Requests,
                      req[r].pc # "refused", req'[r].pc = "refused"
               PROVE  Cardinality({q \in DOMAIN ran'[Subject(r)] :
                          ran'[Subject(r)][q] > clock - (window_seconds + MaxDelay)})
                        > max_requests
    BY DEF LimiterNext
  <2>1. DOMAIN req = Requests
    BY DEF LimiterInv, LimiterTypeOK
  <2>2. ASSUME NEW q \in Requests, req' = LetThrough(q) PROVE FALSE
    BY <2>1, <2>2 DEF LetThrough, Finish, NotSent
  <2>3. ~ Tick
    BY DEF Tick
  <2>4. ASSUME NEW q \in Requests, NEW ip \in Addresses, NEW user \in Users \cup {None},
               Arrive(q, ip, user)
        PROVE  FALSE
    BY <2>1, <2>4 DEF Arrive
  <2>5. ASSUME NEW q \in Requests, Outage(q) PROVE FALSE
    BY <2>2, <2>5 DEF Outage
  <2>6. PICK q \in Requests : CheckLimit(q)
    BY <2>3, <2>4, <2>5 DEF LimiterNext
  <2>7. PICK t \in Readings(req[q].since, clock, MaxDelay) :
            Run(q, t) /\ Counted(q, t) > max_requests /\ req' = Finish(q, "refused")
    BY <2>2, <2>6 DEF CheckLimit
  <2>8. q = r
    BY <2>1, <2>7 DEF Finish
  <2>9. req[r].pc \in {"ip", "user"}
    BY <2>6, <2>8 DEF CheckLimit
  <2> QED
    BY <2>7, <2>8, <2>9, RefusalCounts
<1> QED
  BY <1>1, LimiterInvHolds, PTL DEF LimiterSpec, RefusalsHaveCause
=============================================================================
