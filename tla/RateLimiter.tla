---------------------------- MODULE RateLimiter ----------------------------
(***************************************************************************)
(* app/security/ratelimit.py: one bucket of LIMITS, checked for a          *)
(* request's address and then, when AuthContextMiddleware decoded a user,  *)
(* for the user.                                                           *)
(*                                                                         *)
(* Each check is one Redis transaction.  The host reads its clock before   *)
(* the transaction travels, transactions of different requests arrive in   *)
(* any order, and any of them may raise, carried out or not: the limiter   *)
(* then lets the request pass.                                             *)
(***************************************************************************)
EXTENDS SlidingWindow, FiniteSets

CONSTANTS
    None,           \* no user; as an address, "unknown"
    Users,
    Addresses,
    max_requests,   \* Limit.max_requests
    window_seconds, \* Limit.window_seconds
    MaxDelay,       \* bound: from a clock reading to Redis running the command
    MaxRequests,    \* bound: requests ever made
    MaxOutages,     \* bound: transactions that raise
    MaxTime         \* bound: the clock stops here

ASSUME LimiterAssumption ==
    /\ max_requests \in Nat /\ window_seconds \in Nat \ {0}
    /\ MaxDelay \in Nat /\ MaxDelay <= window_seconds
    /\ MaxRequests \in Nat /\ MaxOutages \in Nat /\ MaxTime \in Nat
    /\ None \notin Users

Requests == 1..MaxRequests

\* The keys of one bucket: rl:<bucket>:ip:<address> and rl:<bucket>:user:<id>.
Subjects == ({"ip"} \X Addresses) \cup ({"user"} \X Users)

VARIABLES
    window,     \* window[s]: the sorted set of subject s
    req,        \* req[r]: where request r is
    outages,    \* transactions that have raised so far
    clock,      \* the host's clock
    ran,        \* history: ran[s][r], when Redis counted r against s
    passed      \* history: passed[s], the requests a check of s let through

limiterVars == <<window, req, outages, clock, ran, passed>>

NotSent == [pc |-> "idle", ip |-> None, user |-> None, since |-> 0]

LimiterInit ==
    /\ window = [s \in Subjects |-> EmptyWindow]
    /\ req = [r \in Requests |-> NotSent]
    /\ outages = 0
    /\ clock = 0
    /\ ran = [s \in Subjects |-> EmptyWindow]
    /\ passed = [s \in Subjects |-> {}]

\* A request comes in from an address, with a user unless it bears no token.
Arrive(r, ip, user) ==
    /\ req[r].pc = "idle"
    /\ \A q \in 1..(r - 1) : req[q].pc # "idle"
    /\ req' = [req EXCEPT ![r] = [pc |-> "ip", ip |-> ip, user |-> user, since |-> clock]]
    /\ UNCHANGED <<window, outages, clock, ran, passed>>

Subject(r) == <<req[r].pc, IF req[r].pc = "ip" THEN req[r].ip ELSE req[r].user>>

\* Mutant of Run: the score is the time the request came in.
RunAtArrival(r, t) ==
    /\ window' = [window EXCEPT ![Subject(r)] = Touched(@, r, req[r].since, window_seconds)]
    /\ ran' = [ran EXCEPT ![Subject(r)] = Logged(@, r, clock)]

\* The transaction as Redis runs it; the request's own entry is unique.
Run(r, t) ==
    /\ window' = [window EXCEPT ![Subject(r)] = Touched(@, r, t, window_seconds)]
    /\ ran' = [ran EXCEPT ![Subject(r)] = Logged(@, r, clock)]

\* Mutant of Counted: ZCARD runs before ZADD.
CountedBeforeAdding(r, t) ==
    Cardinality(DOMAIN Trimmed(window[Subject(r)], t - window_seconds))

\* results[2]: ZCARD once the request itself is in.
Counted(r, t) == Cardinality(DOMAIN Touched(window[Subject(r)], r, t, window_seconds))

\* The limiter is done with the request.
Finish(r, how) == [req EXCEPT ![r] = [NotSent EXCEPT !.pc = how]]

\* The dependency goes on to the user's check, or to the endpoint.
LetThrough(r) ==
    IF req[r].pc = "ip" /\ req[r].user # None
    THEN [req EXCEPT ![r].pc = "user", ![r].since = clock]
    ELSE Finish(r, "served")

\* check_limit: a refused request has been counted too.
CheckLimit(r) ==
    /\ req[r].pc \in {"ip", "user"}
    /\ \E t \in Readings(req[r].since, clock, MaxDelay) :
          /\ Run(r, t)
          /\ IF Counted(r, t) > max_requests
             THEN /\ req' = Finish(r, "refused")
                  /\ UNCHANGED passed
             ELSE /\ req' = LetThrough(r)
                  /\ passed' = [passed EXCEPT ![Subject(r)] = @ \cup {r}]
    /\ UNCHANGED <<outages, clock>>

\* Redis raises, before or after running the transaction: fail open.
Outage(r) ==
    /\ req[r].pc \in {"ip", "user"}
    /\ outages < MaxOutages
    /\ outages' = outages + 1
    /\ \/ UNCHANGED <<window, ran>>
       \/ \E t \in Readings(req[r].since, clock, MaxDelay) : Run(r, t)
    /\ req' = LetThrough(r)
    /\ UNCHANGED <<clock, passed>>

Tick ==
    /\ clock < MaxTime
    /\ clock' = clock + 1
    /\ UNCHANGED <<window, req, outages, ran, passed>>

LimiterNext ==
    \/ Tick
    \/ \E r \in Requests :
          \/ \E ip \in Addresses, user \in Users \cup {None} : Arrive(r, ip, user)
          \/ CheckLimit(r)
          \/ Outage(r)

LimiterSpec == LimiterInit /\ [][LimiterNext]_limiterVars

-----------------------------------------------------------------------------

\* Type invariant: an entry of a window was put there by Redis, under a clock
\* reading at most MaxDelay older.
LimiterTypeOK ==
    /\ DOMAIN window = Subjects /\ DOMAIN ran = Subjects /\ DOMAIN passed = Subjects
    /\ \A s \in Subjects :
          /\ DOMAIN window[s] \subseteq DOMAIN ran[s]
          /\ DOMAIN ran[s] \subseteq Requests
          /\ passed[s] \subseteq DOMAIN ran[s]
          /\ \A r \in DOMAIN ran[s] : ran[s][r] \in 0..clock
          /\ \A r \in DOMAIN window[s] : window[s][r] \in (ran[s][r] - MaxDelay)..ran[s][r]
    /\ req \in [Requests -> [pc : {"idle", "ip", "user", "served", "refused"},
                             ip : Addresses \cup {None}, user : Users \cup {None},
                             since : 0..clock]]
    /\ outages \in 0..MaxOutages
    /\ clock \in 0..MaxTime

\* ratelimit.py: "there is no fixed-window edge where 2x the limit slips
\* through".  In any span of the window's width, less the time a command
\* travels, check_limit lets at most max_requests through for one subject,
\* whatever the order and the age of the clock readings.
LimitHolds ==
    \A s \in Subjects : \A r \in passed[s] :
        Cardinality({q \in passed[s] : /\ ran[s][q] <= ran[s][r]
                                       /\ ran[s][q] > ran[s][r] - (window_seconds - MaxDelay)})
          <= max_requests

\* A refusal has a cause: when check_limit refuses, Redis had counted more than
\* max_requests for the subject within the window and the time a command
\* travels, and what is older was not held against the caller.
RefusalsHaveCause ==
    [][\A r \in Requests : req[r].pc # "refused" /\ req'[r].pc = "refused" =>
          Cardinality({q \in DOMAIN ran'[Subject(r)] :
                          ran'[Subject(r)][q] > clock - (window_seconds + MaxDelay)})
            > max_requests]_limiterVars

(***************************************************************************)
(* The inductive invariant behind them                                     *)
(***************************************************************************)

\* A check under way is about a subject of this bucket.
ChecksHaveSubjects ==
    \A r \in Requests :
        /\ req[r].pc = "ip" => req[r].ip \in Addresses
        /\ req[r].pc = "user" => req[r].user \in Users

\* A request is counted once against a subject: its address before its user.
CountedOnce ==
    \A r \in Requests : \A s \in Subjects :
        r \in DOMAIN ran[s] =>
            /\ req[r].pc \notin {"idle", "ip"}
            /\ req[r].pc = "user" => s[1] = "ip"

\* What Redis counted within the window, less the travel time, is in the set.
RecentIsCounted ==
    \A s \in Subjects :
        {q \in DOMAIN ran[s] : ran[s][q] > clock - (window_seconds - MaxDelay)}
          \subseteq DOMAIN window[s]

LimiterInv ==
    /\ LimiterTypeOK
    /\ ChecksHaveSubjects
    /\ CountedOnce
    /\ RecentIsCounted
    /\ LimitHolds
=============================================================================
