---------------------------- MODULE CardVelocity ----------------------------
(***************************************************************************)
(* The payment velocity rules of app/security/carding.py around the        *)
(* gateway call of the booking saga: assess_payment_attempt before it,     *)
(* record_outcome after it.                                                *)
(*                                                                         *)
(* The rules read windows kept in Redis.  Each window command trims its    *)
(* set, may add a member and counts what is left, under a clock reading    *)
(* taken before it travelled.  Commands of different payments interleave,  *)
(* and any may raise, carried out or not.                                  *)
(***************************************************************************)
EXTENDS SlidingWindow, Sequences, FiniteSets, SequencesExt

CONSTANTS
    None,
    Asks,           \* Asks[p]: what payment p may be, its user, ip, card and small
    W_DISTINCT_CARDS, W_CARD_ACROSS_ACCOUNTS, W_DECLINES, W_OUTCOME_SEQUENCE,
    W_RAPID_BOOKINGS, W_SMALL_AMOUNTS, W_RISK_FLAG,
    T_DISTINCT_CARDS, T_DECLINES_PER_ACCOUNT, T_DECLINES_PER_IP, T_DECLINE_BURST,
    T_CARD_ACCOUNTS, T_RAPID_BOOKINGS, T_SMALL_AMOUNTS,
    MaxDelay,       \* bound: from a clock reading to Redis running the command
    MaxPayments,    \* bound: payments ever attempted
    MaxInFlight,    \* bound: payments under way at once
    MaxOutages,     \* bound: Redis commands that raise
    MaxTime         \* bound: the clock stops here

Payments == 1..MaxPayments
AnyAsk == UNION {Asks[p] : p \in Payments}
Users == {q.user : q \in AnyAsk}
Cards == {q.card : q \in AnyAsk}
Addresses == {q.ip : q \in AnyAsk} \ {None}

\* The windows, by kind.
Width ==
    [cards |-> W_DISTINCT_CARDS, accounts |-> W_CARD_ACROSS_ACCOUNTS,
     bookings |-> W_RAPID_BOOKINGS, small |-> W_SMALL_AMOUNTS,
     dec_user |-> W_DECLINES, dec_ip |-> W_DECLINES, outcomes |-> W_OUTCOME_SEQUENCE]

ASSUME VelocityAssumption ==
    /\ \A kind \in DOMAIN Width : Width[kind] \in Nat \ {0} /\ MaxDelay <= Width[kind]
    /\ W_RISK_FLAG \in Nat /\ T_DECLINE_BURST \in Nat \ {0}
    /\ MaxDelay \in Nat /\ MaxPayments \in Nat /\ MaxInFlight \in Nat
    /\ MaxOutages \in Nat /\ MaxTime \in Nat
    /\ None \notin Users \cup Cards

Keys ==
    ({"cards", "bookings", "small", "dec_user", "outcomes"} \X Users)
      \cup ({"accounts"} \X Cards) \cup ({"dec_ip"} \X Addresses)

VARIABLES
    windows,    \* windows[k]: the sorted set at key k
    risk,       \* risk[u]: when u's risk flag expires
    pay,        \* pay[p]: where payment p is and what was decided
    outages,    \* Redis commands that have raised so far
    clock,
    ran,        \* history: ran[k][m], when Redis last added m to k
    hot         \* history: hot[u], when an approval of u last ended a decline burst

velocityVars == <<windows, risk, pay, outages, clock, ran, hot>>

NotStarted ==
    [pc |-> "idle", ask |-> None, since |-> 0, verdict |-> None, ms |-> 0, burst |-> FALSE]

VelocityInit ==
    /\ windows = [k \in Keys |-> EmptyWindow]
    /\ risk = [u \in Users |-> 0]
    /\ pay = [p \in Payments |-> NotStarted]
    /\ outages = 0
    /\ clock = 0
    /\ ran = [k \in Keys |-> EmptyWindow]
    /\ hot = [u \in Users |-> None]

(***************************************************************************)
(* Redis                                                                   *)
(***************************************************************************)

\* The key layout: the set of that kind a payment works on.
Key(kind, ask) ==
    <<kind, CASE kind = "dec_ip" -> ask.ip
              [] kind = "accounts" -> ask.card
              [] OTHER -> ask.user>>

\* _count and _members at clock reading t.
InWindow(kind, ask, t) == Trimmed(windows[Key(kind, ask)], t - Width[kind])

\* Mutant of WithMember: the cutoff is passed where the score belongs.
WithMemberAtCutoff(kind, ask, m, t) ==
    Added(InWindow(kind, ask, t), m, t - Width[kind])

\* _touch at clock reading t.
WithMember(kind, ask, m, t) == Touched(windows[Key(kind, ask)], m, t, Width[kind])

\* Redis runs a command on each of these kinds of the payment's sets; member
\* says for which of them it adds, and what.
Run(ask, t, kinds, member) ==
    LET Reached(k) == k[1] \in kinds /\ k = Key(k[1], ask)
        Adds(k) == Reached(k) /\ k[1] \in DOMAIN member
    IN  /\ windows' = [k \in Keys |->
              CASE Adds(k) -> WithMember(k[1], ask, member[k[1]], t)
                [] Reached(k) /\ ~ Adds(k) -> InWindow(k[1], ask, t)
                [] OTHER -> windows[k]]
        /\ ran' = [k \in Keys |->
              IF Adds(k) THEN Logged(ran[k], member[k[1]], clock) ELSE ran[k]]

\* One of these commands raises: those before it were carried out, and it may
\* have been.
Break(ask, t, kinds, member) ==
    /\ outages < MaxOutages
    /\ outages' = outages + 1
    /\ \E n \in 0..Len(kinds) : Run(ask, t, ToSet(SubSeq(kinds, 1, n)), member)

\* Payment p has come to pc: its next clock reading is not before now.
Goto(p, pc) == [pay EXCEPT ![p].pc = pc, ![p].since = clock]

Finish(p, pc) == [pay EXCEPT ![p] = [NotStarted EXCEPT !.pc = pc]]

ReadingsOf(p) == Readings(pay[p].since, clock, MaxDelay)

(***************************************************************************)
(* assess_payment_attempt                                                  *)
(***************************************************************************)

Threshold ==
    [cards |-> T_DISTINCT_CARDS, accounts |-> T_CARD_ACCOUNTS,
     bookings |-> T_RAPID_BOOKINGS, dec_user |-> T_DECLINES_PER_ACCOUNT,
     dec_ip |-> T_DECLINES_PER_IP, small |-> T_SMALL_AMOUNTS]

Score ==
    [cards |-> 40, dec_user |-> 35, dec_ip |-> 30, accounts |-> 45,
     bookings |-> 25, small |-> 20, risk |-> 50]

SCORE_BLOCK == 60
SCORE_CHALLENGE == 30

Decision(hits) ==
    LET Points(h) == IF h \in hits THEN Score[h] ELSE 0
        score == Points("cards") + Points("dec_user") + Points("dec_ip") + Points("accounts")
                   + Points("bookings") + Points("small") + Points("risk")
    IN  CASE score >= SCORE_BLOCK -> "block"
          [] score >= SCORE_CHALLENGE -> "challenge"
          [] OTHER -> "allow"

\* The windows of an assessment, in order, and what it adds to some of them: a
\* card, an account, or a fresh identifier.
Consulted(ask) ==
    <<"cards", "accounts", "bookings", "dec_user">>
      \o (IF ask.ip = None THEN <<>> ELSE <<"dec_ip">>) \o <<"small">>

Noted(p, ask) ==
    [kind \in {"cards", "accounts", "bookings"} \cup (IF ask.small THEN {"small"} ELSE {}) |->
        CASE kind = "cards" -> ask.card
          [] kind = "accounts" -> ask.user
          [] OTHER -> p]

\* Rules R1 to R6, on the windows as the assessment leaves them.
WindowHits(ask, t, member) ==
    LET Seen(kind) ==
            IF kind \in DOMAIN member THEN WithMember(kind, ask, member[kind], t)
            ELSE InWindow(kind, ask, t)
    IN  {kind \in ToSet(Consulted(ask)) : Cardinality(DOMAIN Seen(kind)) >= Threshold[kind]}

\* R7: the risk flag is there.
RiskHits(u) == {r \in {"risk"} : clock < risk[u]}

\* Payments are told apart by the order they begin in.
MayBegin(p) ==
    /\ pay[p].pc = "idle"
    /\ \A q \in 1..(p - 1) : pay[q].pc # "idle"
    /\ Cardinality({q \in Payments : pay[q].pc \notin {"idle", "blocked", "done"}}) < MaxInFlight

\* assess_payment_attempt.  Its commands go to different keys, so at each key
\* they still come in any order with those of other payments.  Only BLOCK keeps
\* the saga from the gateway; when Redis fails the assessment is empty.
Assess(p, ask) ==
    /\ MayBegin(p)
    /\ \E t \in Readings(0, clock, MaxDelay) :
          LET decision == Decision(WindowHits(ask, t, Noted(p, ask)) \cup RiskHits(ask.user))
              Charge(verdict) ==
                  pay' = [pay EXCEPT ![p] = [NotStarted EXCEPT
                      !.pc = "gateway", !.ask = ask, !.since = clock, !.verdict = verdict]]
          IN  \/ /\ Run(ask, t, ToSet(Consulted(ask)), Noted(p, ask))
                 /\ IF decision = "block" THEN pay' = Finish(p, "blocked") ELSE Charge(decision)
                 /\ UNCHANGED outages
              \/ Break(ask, t, Consulted(ask), Noted(p, ask)) /\ Charge("allow")
    /\ UNCHANGED <<risk, clock, hot>>

(***************************************************************************)
(* The gateway, and record_outcome                                         *)
(***************************************************************************)

\* The gateway timed out twice: the saga fails and there is no outcome.
GatewayRaises(p) ==
    /\ pay[p].pc = "gateway"
    /\ pay' = Finish(p, "done")
    /\ UNCHANGED <<windows, risk, outages, clock, ran, hot>>

\* The gateway answers and record_outcome adds the stamped answer.  The stamp
\* and the score are read one after the other, and taken as one reading.
RecordOutcome(p, answer) ==
    /\ pay[p].pc = "gateway"
    /\ \E t \in ReadingsOf(p) :
          LET member == [outcomes |-> <<t, answer>>]
          IN  \/ /\ Run(pay[p].ask, t, {"outcomes"}, member)
                 /\ pay' = [Goto(p, IF answer = "decline" THEN "log_decline" ELSE "look_back")
                              EXCEPT ![p].ms = t]
                 /\ UNCHANGED outages
              \/ Break(pay[p].ask, t, <<"outcomes">>, member) /\ pay' = Finish(p, "done")
    /\ UNCHANGED <<risk, clock, hot>>

DeclineKinds(ask) == <<"dec_user">> \o (IF ask.ip = None THEN <<>> ELSE <<"dec_ip">>)

RecordDecline(p) ==
    /\ pay[p].pc = "log_decline"
    /\ \E t \in ReadingsOf(p) :
          LET kinds == DeclineKinds(pay[p].ask)
              member == [kind \in ToSet(kinds) |-> p]
          IN  \/ Run(pay[p].ask, t, ToSet(kinds), member) /\ UNCHANGED outages
              \/ Break(pay[p].ask, t, kinds, member)
    /\ pay' = Finish(p, "done")
    /\ UNCHANGED <<risk, clock, hot>>

\* The order of ZRANGE key 0 -1: by score, then by member, and "...:approve"
\* sorts first.
Before(m, n) == m[1] < n[1] \/ (m[1] = n[1] /\ m[2] = "approve" /\ n[2] = "decline")

DeclinesAtEnd(members) ==
    {m \in members : \A n \in members : n = m \/ Before(m, n) => n[2] = "decline"}

\* Mutant of TrailingDeclines: the approval just added is not skipped.
TrailingDeclinesUnskipped(members) == DeclinesAtEnd(members)

\* The loop over reversed(members[:-1]).
TrailingDeclines(members) == DeclinesAtEnd({m \in members : \E n \in members : Before(m, n)})

\* Reference: a decline burst that ends in p's approval, as the event log shows
\* it.  Enough declines at different times with no approval among them, none so
\* old that a command under way may have trimmed it, and the approval is last.
BurstEndsWith(p) ==
    LET log == ran[<<"outcomes", pay[p].ask.user>>]
        earlier == {m \in DOMAIN log : m[1] < pay[p].ms}
        Recent(m) == log[m] > clock - (W_OUTCOME_SEQUENCE - MaxDelay)
    IN  /\ DOMAIN log = earlier \cup {<<pay[p].ms, "approve">>}
        /\ \E first \in earlier :
              LET burst == {m \in earlier : m[1] >= first[1]}
              IN  /\ \A m \in burst : m[2] = "decline" /\ Recent(m)
                  /\ Cardinality(burst) >= T_DECLINE_BURST

\* record_outcome returns; hot notes a burst it should have flagged.
Recorded(p, burst) ==
    hot' = IF burst THEN [hot EXCEPT ![pay[p].ask.user] = clock] ELSE hot

\* An approval: _members, and the declines right before it.
LookBack(p) ==
    /\ pay[p].pc = "look_back"
    /\ \E t \in ReadingsOf(p) :
          LET ask == pay[p].ask
              declines == TrailingDeclines(DOMAIN InWindow("outcomes", ask, t))
              found == Cardinality(declines) >= T_DECLINE_BURST
          IN  \/ /\ Run(ask, t, {"outcomes"}, <<>>)
                 /\ pay' = IF found THEN [Goto(p, "flag") EXCEPT ![p].burst = BurstEndsWith(p)]
                           ELSE Finish(p, "done")
                 /\ Recorded(p, ~ found /\ BurstEndsWith(p))
                 /\ UNCHANGED outages
              \/ /\ Break(ask, t, <<"outcomes">>, <<>>)
                 /\ pay' = Finish(p, "done")
                 /\ UNCHANGED hot
    /\ UNCHANGED <<risk, clock>>

\* SET of the risk key, ex=W_RISK_FLAG.
RiskRaised(u) == [risk EXCEPT ![u] = clock + W_RISK_FLAG]

RaiseFlag(p) ==
    /\ pay[p].pc = "flag"
    /\ \/ /\ risk' = RiskRaised(pay[p].ask.user)
          /\ Recorded(p, pay[p].burst)
          /\ UNCHANGED outages
       \/ /\ outages < MaxOutages
          /\ outages' = outages + 1
          /\ risk' \in {risk, RiskRaised(pay[p].ask.user)}
          /\ UNCHANGED hot
    /\ pay' = Finish(p, "done")
    /\ UNCHANGED <<windows, clock, ran>>

Tick ==
    /\ clock < MaxTime
    /\ clock' = clock + 1
    /\ UNCHANGED <<windows, risk, pay, outages, ran, hot>>

VelocityNext ==
    \/ Tick
    \/ \E p \in Payments :
          \/ \E ask \in Asks[p] : Assess(p, ask)
          \/ GatewayRaises(p)
          \/ \E answer \in {"approve", "decline"} : RecordOutcome(p, answer)
          \/ RecordDecline(p) \/ LookBack(p) \/ RaiseFlag(p)

VelocitySpec == VelocityInit /\ [][VelocityNext]_velocityVars

-----------------------------------------------------------------------------

\* Type invariant: an entry of a window was put there by Redis, under a clock
\* reading at most MaxDelay older, and a stamped outcome is a gateway's answer.
VelocityTypeOK ==
    /\ \A k \in Keys :
          /\ DOMAIN windows[k] \subseteq DOMAIN ran[k]
          /\ \A m \in DOMAIN ran[k] : ran[k][m] \in 0..clock
          /\ \A m \in DOMAIN windows[k] : windows[k][m] \in (ran[k][m] - MaxDelay)..ran[k][m]
          /\ k[1] = "outcomes" => DOMAIN ran[k] \subseteq (0..clock) \X {"approve", "decline"}
    /\ risk \in [Users -> 0..(clock + W_RISK_FLAG)]
    /\ hot \in [Users -> (0..clock) \cup {None}]
    /\ outages \in 0..MaxOutages
    /\ clock \in 0..MaxTime
    /\ pay \in [Payments ->
          [pc : {"idle", "gateway", "log_decline", "look_back", "flag", "blocked", "done"},
           ask : AnyAsk \cup {None}, since : 0..clock, verdict : {None, "allow", "challenge"},
           ms : 0..clock, burst : BOOLEAN]]

\* What Redis added within a window's width, less the time a command travels,
\* is in the window: no interleaving, no trim under an older clock reading and
\* no repeated card or account makes a rule forget recent activity.
RecentActivityIsRemembered ==
    \A k \in Keys :
        {m \in DOMAIN ran[k] : ran[k][m] > clock - (Width[k[1]] - MaxDelay)}
          \subseteq DOMAIN windows[k]

\* What a command leaves to be counted is no older than the window and the
\* travel time: a payment is not held up for what has left the window.
CountsAreCurrent ==
    [][\A k \in Keys : windows'[k] # windows[k] =>
          \A m \in DOMAIN windows'[k] :
              ran'[k][m] > clock - (Width[k[1]] + MaxDelay)]_velocityVars

\* record_outcome "makes the *next* attempt from this account score 50 on its
\* own": while the flag lasts, an assessment that Redis answers never says ALLOW
\* to an account whose approval ended a decline burst.
HotAccountIsChallenged ==
    [][\A p \in Payments :
          LET user == pay'[p].ask.user
          IN  (/\ pay[p].pc = "idle" /\ pay'[p].pc = "gateway" /\ outages' = outages
               /\ hot[user] # None
               /\ clock < hot[user] + W_RISK_FLAG)
                => pay'[p].verdict = "challenge"]_velocityVars

-----------------------------------------------------------------------------
(***************************************************************************)
(* The inductive invariant                                                 *)
(***************************************************************************)

Charging == {"gateway", "log_decline", "look_back", "flag"}

\* A payment under way knows whose it is.
AsksKnown == \A p \in Payments : pay[p].pc \in Charging => pay[p].ask \in AnyAsk

\* An outcome is scored with its own stamp, so it stays until the stamp itself has
\* left the window.
OutcomesAreStamped ==
    \A k \in Keys : k[1] = "outcomes" =>
        /\ \A m \in DOMAIN windows[k] : windows[k][m] = m[1]
        /\ \A m \in DOMAIN ran[k] : m[1] \in (ran[k][m] - MaxDelay)..ran[k][m]
        /\ {m \in DOMAIN ran[k] : m[1] > clock - W_OUTCOME_SEQUENCE} \subseteq DOMAIN windows[k]

\* The flag of a burst that was recorded lasts as long as it should.
FlagOutlivesBurst ==
    \A u \in Users : hot[u] # None => risk[u] >= hot[u] + W_RISK_FLAG

VelocityInv ==
    /\ VelocityTypeOK
    /\ AsksKnown
    /\ RecentActivityIsRemembered
    /\ OutcomesAreStamped
    /\ FlagOutlivesBurst
=============================================================================
