------------------------ MODULE CardVelocity_proofs ------------------------
(***************************************************************************)
(* Proofs about CardVelocity: for any customers, cards, addresses, window  *)
(* widths, thresholds, travel time, number of payments and Redis failures. *)
(***************************************************************************)
EXTENDS CardVelocity, SlidingWindow_proofs, FiniteSetTheorems

USE VelocityAssumption

\* A key's kind has a width.
LEMMA KindsHaveWidths ==
    /\ DOMAIN Width = {"cards", "accounts", "bookings", "small", "dec_user", "dec_ip", "outcomes"}
    /\ \A k \in Keys : k[1] \in DOMAIN Width /\ Width[k[1]] \in Nat \ {0} /\ MaxDelay <= Width[k[1]]
<1>1. DOMAIN Width = {"cards", "accounts", "bookings", "small", "dec_user", "dec_ip", "outcomes"}
  BY DEF Width
<1>2. \A k \in Keys : k[1] \in DOMAIN Width
  BY <1>1 DEF Keys
<1> QED
  BY <1>1, <1>2

(***************************************************************************)
(* One sorted set                                                          *)
(***************************************************************************)

\* What OutcomesAreStamped says of one set, its log and the time.
Stamped(zset, log, now) ==
    /\ \A m \in DOMAIN zset : zset[m] = m[1]
    /\ \A m \in DOMAIN log : m[1] \in (log[m] - MaxDelay)..log[m]
    /\ {m \in DOMAIN log : m[1] > now - W_OUTCOME_SEQUENCE} \subseteq DOMAIN zset

\* What the invariant says of one key, with its set, its log and the time.
KeyFits(k, zset, log, now) ==
    /\ DOMAIN zset \subseteq DOMAIN log
    /\ \A m \in DOMAIN log : log[m] \in 0..now
    /\ \A m \in DOMAIN zset : zset[m] \in (log[m] - MaxDelay)..log[m]
    /\ k[1] = "outcomes" => /\ DOMAIN log \subseteq (0..now) \X {"approve", "decline"}
                            /\ Stamped(zset, log, now)
    /\ {m \in DOMAIN log : log[m] > now - (Width[k[1]] - MaxDelay)} \subseteq DOMAIN zset

\* What CountsAreCurrent says of one key.
KeyCurrent(k, zset, log, now) ==
    \A m \in DOMAIN zset : log[m] > now - (Width[k[1]] + MaxDelay)

\* A trim under a reading at most MaxDelay old keeps what is recent and leaves
\* nothing that is not.
LEMMA TrimFits ==
    ASSUME NEW k \in Keys, NEW zset, NEW log, NEW now \in Nat, NEW t \in Nat,
           t <= now, now - MaxDelay <= t, KeyFits(k, zset, log, now)
    PROVE  LET new == Trimmed(zset, t - Width[k[1]])
           IN  KeyFits(k, new, log, now) /\ KeyCurrent(k, new, log, now)
<1> DEFINE width == Width[k[1]]
           new == Trimmed(zset, t - width)
<1>1. width \in Nat \ {0}
  BY KindsHaveWidths
<1>2. /\ DOMAIN new = {x \in DOMAIN zset : zset[x] > t - width}
      /\ \A m \in DOMAIN new : new[m] = zset[m]
  BY DEF Trimmed
<1>3. {m \in DOMAIN log : log[m] > now - (width - MaxDelay)}
        \subseteq {x \in DOMAIN zset : zset[x] > t - width}
  BY <1>1, TrimKeepsRecent DEF KeyFits
<1> HIDE DEF new, width
<1>4. ASSUME NEW m \in DOMAIN new
      PROVE  /\ m \in DOMAIN log /\ new[m] \in (log[m] - MaxDelay)..log[m]
             /\ log[m] > now - (width + MaxDelay)
  <2>1. m \in DOMAIN zset /\ new[m] = zset[m] /\ zset[m] > t - width
    BY <1>2
  <2>2. m \in DOMAIN log /\ log[m] \in Nat /\ zset[m] \in (log[m] - MaxDelay)..log[m]
    BY <2>1 DEF KeyFits
  <2> QED
    BY <1>1, <2>1, <2>2
<1>5. k[1] = "outcomes" => Stamped(new, log, now)
  <2> SUFFICES ASSUME k[1] = "outcomes" PROVE Stamped(new, log, now)
    OBVIOUS
  <2>1. width = W_OUTCOME_SEQUENCE
    BY DEF width, Width
  <2>2. /\ Stamped(zset, log, now) /\ \A m \in DOMAIN log : m[1] \in Int
    BY DEF KeyFits
  <2>3. ASSUME NEW m \in DOMAIN log, m[1] > now - W_OUTCOME_SEQUENCE
        PROVE  m \in DOMAIN new
    <3>1. m \in DOMAIN zset /\ zset[m] = m[1] /\ m[1] \in Int
      BY <2>2, <2>3 DEF Stamped
    <3>2. zset[m] > t - width
      BY <1>1, <2>1, <2>3, <3>1
    <3> QED
      BY <1>2, <3>1, <3>2
  <2> QED
    BY <1>2, <2>2, <2>3 DEF Stamped
<1>6. KeyFits(k, new, log, now)
  BY <1>2, <1>3, <1>4, <1>5 DEF KeyFits, width
<1>7. KeyCurrent(k, new, log, now)
  BY <1>4 DEF KeyCurrent, width
<1> QED
  BY <1>6, <1>7 DEF new, width

\* So does a touch, whose member is the latest entry.
LEMMA TouchFits ==
    ASSUME NEW k \in Keys, NEW zset, NEW log, NEW now \in Nat, NEW t \in Nat, NEW m,
           t <= now, now - MaxDelay <= t, KeyFits(k, zset, log, now),
           k[1] = "outcomes" => m \in {t} \X {"approve", "decline"}
    PROVE  LET new == Touched(zset, m, t, Width[k[1]])
               times == Logged(log, m, now)
           IN  KeyFits(k, new, times, now) /\ KeyCurrent(k, new, times, now)
<1> DEFINE width == Width[k[1]]
           cut == Trimmed(zset, t - width)
           new == Added(cut, m, t)
           times == Logged(log, m, now)
<1>1. width \in Nat \ {0}
  BY KindsHaveWidths
<1>2. KeyFits(k, cut, log, now) /\ KeyCurrent(k, cut, log, now)
  BY TrimFits
<1>3. /\ DOMAIN new = DOMAIN cut \cup {m} /\ new[m] = t
      /\ \A x \in DOMAIN cut : x # m => new[x] = cut[x]
  BY DEF Added
<1>4. /\ DOMAIN times = DOMAIN log \cup {m} /\ times[m] = now
      /\ \A x \in DOMAIN log : x # m => times[x] = log[x]
  BY DEF Logged
<1>5. Touched(zset, m, t, width) = new
  BY DEF Touched
<1> HIDE DEF new, times, cut, width
<1>6. ASSUME NEW x \in DOMAIN times
      PROVE  times[x] \in 0..now /\ (k[1] = "outcomes" => x \in (0..now) \X {"approve", "decline"})
  <2>1. CASE x = m
    BY <1>4, <2>1
  <2>2. CASE x # m
    BY <1>2, <1>4, <2>2 DEF KeyFits
  <2> QED
    BY <2>1, <2>2
<1>7. ASSUME NEW x \in DOMAIN new
      PROVE  /\ x \in DOMAIN times /\ new[x] \in (times[x] - MaxDelay)..times[x]
             /\ times[x] > now - (width + MaxDelay)
  <2>1. CASE x = m
    BY <1>1, <1>3, <1>4, <2>1
  <2>2. CASE x # m
    <3>1. x \in DOMAIN cut /\ new[x] = cut[x]
      BY <1>3, <2>2
    <3>2. x \in DOMAIN log /\ cut[x] \in (log[x] - MaxDelay)..log[x] /\ log[x] > now - (width + MaxDelay)
      BY <1>2, <3>1 DEF KeyFits, KeyCurrent, width
    <3> QED
      BY <1>4, <2>2, <3>1, <3>2
  <2> QED
    BY <2>1, <2>2
<1>8. {x \in DOMAIN times : times[x] > now - (width - MaxDelay)} \subseteq DOMAIN new
  BY <1>2, <1>3, <1>4 DEF KeyFits, width
<1>9. k[1] = "outcomes" => Stamped(new, times, now)
  <2> SUFFICES ASSUME k[1] = "outcomes" PROVE Stamped(new, times, now)
    OBVIOUS
  <2>1. Stamped(cut, log, now) /\ m[1] = t /\ m[1] \in (now - MaxDelay)..now
    BY <1>2 DEF KeyFits
  <2>2. \A x \in DOMAIN new : new[x] = x[1]
    BY <1>3, <2>1 DEF Stamped
  <2>3. \A x \in DOMAIN times : x[1] \in (times[x] - MaxDelay)..times[x]
    BY <1>4, <2>1 DEF Stamped
  <2>4. {x \in DOMAIN times : x[1] > now - W_OUTCOME_SEQUENCE} \subseteq DOMAIN new
    BY <1>3, <1>4, <2>1 DEF Stamped
  <2> QED
    BY <2>2, <2>3, <2>4 DEF Stamped
<1>10. KeyFits(k, new, times, now)
  BY <1>6, <1>7, <1>8, <1>9 DEF KeyFits, width
<1>11. KeyCurrent(k, new, times, now)
  BY <1>7 DEF KeyCurrent, width
<1> QED
  BY <1>5, <1>10, <1>11 DEF times, width

\* The invariant, key by key.
LEMMA FitsByKey ==
    ASSUME VelocityInv
    PROVE  clock \in Nat /\ \A k \in Keys : KeyFits(k, windows[k], ran[k], clock)
BY DEF VelocityInv, VelocityTypeOK, RecentActivityIsRemembered, OutcomesAreStamped, KeyFits, Stamped

(***************************************************************************)
(* Commands                                                                *)
(***************************************************************************)

\* An outcome that a command adds is an answer stamped with the command's reading.
StampedAnswer(member, t) ==
    "outcomes" \in DOMAIN member => member["outcomes"] \in {t} \X {"approve", "decline"}

\* Whatever commands Redis runs for a payment, all the sets fit afterwards, and
\* the sets it changed are current.
LEMMA RunKeepsFits ==
    ASSUME VelocityInv, NEW ask, NEW since \in Nat, NEW t \in Readings(since, clock, MaxDelay),
           NEW kinds, NEW member, StampedAnswer(member, t), Run(ask, t, kinds, member)
    PROVE  \A k \in Keys :
               /\ KeyFits(k, windows'[k], ran'[k], clock)
               /\ windows'[k] # windows[k] => KeyCurrent(k, windows'[k], ran'[k], clock)
<1>1. t \in Nat /\ t <= clock /\ clock - MaxDelay <= t /\ clock \in Nat
  BY FitsByKey DEF Readings
<1> SUFFICES ASSUME NEW k \in Keys
             PROVE  /\ KeyFits(k, windows'[k], ran'[k], clock)
                    /\ windows'[k] # windows[k] => KeyCurrent(k, windows'[k], ran'[k], clock)
  OBVIOUS
<1>2. KeyFits(k, windows[k], ran[k], clock)
  BY FitsByKey
<1> DEFINE Reached == k[1] \in kinds /\ k = Key(k[1], ask)
           Adds == Reached /\ k[1] \in DOMAIN member
<1>3. CASE Adds
  <2>1. /\ windows'[k] = WithMember(k[1], ask, member[k[1]], t)
        /\ ran'[k] = Logged(ran[k], member[k[1]], clock)
    BY <1>3 DEF Run
  <2>2. windows'[k] = Touched(windows[k], member[k[1]], t, Width[k[1]])
    BY <1>3, <2>1 DEF WithMember
  <2>3. k[1] = "outcomes" => member[k[1]] \in {t} \X {"approve", "decline"}
    BY <1>3 DEF StampedAnswer
  <2> QED
    BY <1>1, <1>2, <2>1, <2>2, <2>3, TouchFits
<1>4. CASE Reached /\ ~ Adds
  <2>1. windows'[k] = InWindow(k[1], ask, t) /\ ran'[k] = ran[k]
    BY <1>4 DEF Run
  <2>2. windows'[k] = Trimmed(windows[k], t - Width[k[1]])
    BY <1>4, <2>1 DEF InWindow
  <2> QED
    BY <1>1, <1>2, <2>1, <2>2, TrimFits
<1>5. CASE ~ Reached
  <2>1. windows'[k] = windows[k] /\ ran'[k] = ran[k]
    BY <1>5 DEF Run
  <2> QED
    BY <1>2, <2>1
<1> QED
  BY <1>3, <1>4, <1>5

\* What a step that does not move the clock does to the sorted sets.
KeysKept ==
    \A k \in Keys :
        /\ KeyFits(k, windows'[k], ran'[k], clock)
        /\ windows'[k] # windows[k] => KeyCurrent(k, windows'[k], ran'[k], clock)

\* The same for a command that raises.
LEMMA BreakKeepsFits ==
    ASSUME VelocityInv, NEW ask, NEW since \in Nat, NEW t \in Readings(since, clock, MaxDelay),
           NEW kinds, NEW member, StampedAnswer(member, t), Break(ask, t, kinds, member)
    PROVE  KeysKept /\ outages' \in 0..MaxOutages
<1>1. PICK n \in 0..Len(kinds) : Run(ask, t, ToSet(SubSeq(kinds, 1, n)), member)
  BY DEF Break
<1> DEFINE reached == ToSet(SubSeq(kinds, 1, n))
<1>2. Run(ask, t, reached, member)
  BY <1>1
<1> HIDE DEF reached
<1>3. KeysKept
  BY <1>2, RunKeepsFits DEF KeysKept
<1>4. outages' \in 0..MaxOutages
  BY DEF Break, VelocityInv, VelocityTypeOK
<1> QED
  BY <1>3, <1>4

\* Sets that Redis has not touched stay as they fit.
LEMMA UntouchedFits ==
    ASSUME VelocityInv, UNCHANGED <<windows, ran>>
    PROVE  KeysKept
BY FitsByKey DEF KeysKept

(***************************************************************************)
(* Payments                                                                *)
(***************************************************************************)

PayRow ==
    [pc : {"idle", "gateway", "log_decline", "look_back", "flag", "blocked", "done"},
     ask : AnyAsk \cup {None}, since : 0..clock, verdict : {None, "allow", "challenge"},
     ms : 0..clock, burst : BOOLEAN]

\* A payment gets a new row, which names its customer as long as it is under way.
PayMoved(p) ==
    \E row \in PayRow :
        /\ pay' = [pay EXCEPT ![p] = row]
        /\ row.pc \in Charging => row.ask \in AnyAsk

\* The parts of VelocityInv make it up again.
LEMMA PartsKeepInv ==
    ASSUME VelocityInv, UNCHANGED clock, KeysKept, NEW p \in Payments, PayMoved(p),
           risk' \in [Users -> 0..(clock + W_RISK_FLAG)],
           hot' \in [Users -> (0..clock) \cup {None}],
           FlagOutlivesBurst',
           outages' \in 0..MaxOutages
    PROVE  VelocityInv'
<1>1. PICK row \in PayRow : /\ pay' = [pay EXCEPT ![p] = row]
                            /\ row.pc \in Charging => row.ask \in AnyAsk
  BY DEF PayMoved
<1>2. pay \in [Payments -> PayRow] /\ AsksKnown
  BY DEF VelocityInv, VelocityTypeOK, PayRow
<1>3. pay' \in [Payments -> PayRow] /\ AsksKnown'
  BY <1>1, <1>2 DEF AsksKnown
<1>4. RecentActivityIsRemembered' /\ OutcomesAreStamped'
  BY DEF KeysKept, KeyFits, Stamped, RecentActivityIsRemembered, OutcomesAreStamped
<1>5. \A k \in Keys :
          /\ DOMAIN windows'[k] \subseteq DOMAIN ran'[k]
          /\ \A m \in DOMAIN ran'[k] : ran'[k][m] \in 0..clock
          /\ \A m \in DOMAIN windows'[k] : windows'[k][m] \in (ran'[k][m] - MaxDelay)..ran'[k][m]
          /\ k[1] = "outcomes" => DOMAIN ran'[k] \subseteq (0..clock) \X {"approve", "decline"}
  BY DEF KeysKept, KeyFits
<1>6. clock \in 0..MaxTime
  BY DEF VelocityInv, VelocityTypeOK
<1>7. VelocityTypeOK'
  BY <1>3, <1>5, <1>6 DEF VelocityTypeOK, PayRow
<1> QED
  BY <1>3, <1>4, <1>7 DEF VelocityInv

\* The types, one by one.
LEMMA VelocityTypes ==
    ASSUME VelocityInv
    PROVE  /\ clock \in Nat /\ clock \in 0..clock /\ 0 \in 0..clock
           /\ pay \in [Payments -> PayRow]
           /\ risk \in [Users -> 0..(clock + W_RISK_FLAG)]
           /\ hot \in [Users -> (0..clock) \cup {None}]
           /\ outages \in 0..MaxOutages
<1>1. clock \in Nat
  BY DEF VelocityInv, VelocityTypeOK
<1> QED
  BY <1>1 DEF VelocityInv, VelocityTypeOK, PayRow

\* A step that touches neither the flags nor the bursts keeps what relates them.
LEMMA FlagKept ==
    ASSUME VelocityInv, UNCHANGED <<risk, hot>>
    PROVE  FlagOutlivesBurst'
BY DEF VelocityInv, FlagOutlivesBurst

\* A payment that has ended keeps nothing.
LEMMA FinishMoves ==
    ASSUME VelocityInv, NEW p \in Payments, NEW how \in {"done", "blocked"}, pay' = Finish(p, how)
    PROVE  PayMoved(p)
<1> DEFINE row == [NotStarted EXCEPT !.pc = how]
<1>1. row \in PayRow /\ row.pc = how
  BY VelocityTypes DEF NotStarted, PayRow
<1>2. pay' = [pay EXCEPT ![p] = row]
  BY DEF Finish
<1> HIDE DEF row
<1> QED
  BY <1>1, <1>2 DEF PayMoved, Charging

\* A payment under way: its customer, and the time it came to where it is.
LEMMA UnderWay ==
    ASSUME VelocityInv, NEW p \in Payments, pay[p].pc \in Charging
    PROVE  /\ pay[p] \in PayRow /\ pay[p].ask \in AnyAsk /\ pay[p].ask.user \in Users
           /\ pay[p].since \in Nat
<1>1. pay[p] \in PayRow /\ pay[p].ask \in AnyAsk
  BY VelocityTypes DEF VelocityInv, AsksKnown
<1>2. pay[p].ask.user \in Users
  BY <1>1 DEF Users
<1> QED
  BY <1>1, <1>2, VelocityTypes DEF PayRow

(***************************************************************************)
(* The actions                                                             *)
(***************************************************************************)

\* assess_payment_attempt adds cards, accounts and identifiers, never an answer.
LEMMA NotedIsNoAnswer ==
    ASSUME NEW p, NEW ask
    PROVE  \A t : StampedAnswer(Noted(p, ask), t)
<1>1. "outcomes" \notin {"cards", "accounts", "bookings"} \cup (IF ask.small THEN {"small"} ELSE {})
  OBVIOUS
<1>2. DOMAIN Noted(p, ask) = {"cards", "accounts", "bookings"} \cup (IF ask.small THEN {"small"} ELSE {})
  BY DEF Noted
<1> QED
  BY <1>1, <1>2 DEF StampedAnswer

\* assess_payment_attempt, answered or not.
LEMMA AssessKeepsInv ==
    ASSUME VelocityInv, NEW p \in Payments, NEW ask \in Asks[p], Assess(p, ask)
    PROVE  VelocityInv' /\ KeysKept
<1> DEFINE member == Noted(p, ask)
           decision(t) == Decision(WindowHits(ask, t, member) \cup RiskHits(ask.user))
           row(verdict) == [NotStarted EXCEPT
                               !.pc = "gateway", !.ask = ask, !.since = clock, !.verdict = verdict]
<1>1. /\ UNCHANGED <<risk, clock, hot>>
      /\ \E t \in Readings(0, clock, MaxDelay) :
             \/ /\ Run(ask, t, ToSet(Consulted(ask)), member)
                /\ IF decision(t) = "block" THEN pay' = Finish(p, "blocked")
                   ELSE pay' = [pay EXCEPT ![p] = row(decision(t))]
                /\ UNCHANGED outages
             \/ /\ Break(ask, t, Consulted(ask), member)
                /\ pay' = [pay EXCEPT ![p] = row("allow")]
  BY DEF Assess
<1>2. \A t : StampedAnswer(member, t)
  BY NotedIsNoAnswer
<1>3. \A t : decision(t) \in {"block", "challenge", "allow"}
  BY DEF Decision
<1>4. ask \in AnyAsk
  BY DEF AnyAsk
<1>5. ASSUME NEW verdict \in {"allow", "challenge"}
      PROVE  row(verdict) \in PayRow /\ row(verdict).ask = ask
  BY <1>4, VelocityTypes DEF NotStarted, PayRow
<1> HIDE DEF member, decision, row
<1>6. PICK t \in Readings(0, clock, MaxDelay) :
          \/ /\ Run(ask, t, ToSet(Consulted(ask)), member)
             /\ IF decision(t) = "block" THEN pay' = Finish(p, "blocked")
                ELSE pay' = [pay EXCEPT ![p] = row(decision(t))]
             /\ UNCHANGED outages
          \/ /\ Break(ask, t, Consulted(ask), member)
             /\ pay' = [pay EXCEPT ![p] = row("allow")]
  BY <1>1
<1>7. KeysKept /\ outages' \in 0..MaxOutages
  <2>1. CASE Run(ask, t, ToSet(Consulted(ask)), member) /\ UNCHANGED outages
    BY <1>2, <2>1, RunKeepsFits, VelocityTypes DEF KeysKept
  <2>2. CASE Break(ask, t, Consulted(ask), member)
    BY <1>2, <2>2, BreakKeepsFits
  <2> QED
    BY <1>6, <2>1, <2>2
<1>8. PayMoved(p)
  <2>1. CASE pay' = Finish(p, "blocked")
    BY <2>1, FinishMoves
  <2>2. ASSUME NEW verdict \in {"allow", "challenge"}, pay' = [pay EXCEPT ![p] = row(verdict)]
        PROVE  PayMoved(p)
    BY <1>4, <1>5, <2>2 DEF PayMoved
  <2> QED
    BY <1>3, <1>6, <2>1, <2>2
<1> QED
  BY <1>1, <1>7, <1>8, FlagKept, PartsKeepInv, VelocityTypes

\* The gateway timed out twice.
LEMMA GatewayRaisesKeepsInv ==
    ASSUME VelocityInv, NEW p \in Payments, GatewayRaises(p)
    PROVE  VelocityInv' /\ KeysKept
<1>1. pay' = Finish(p, "done") /\ UNCHANGED <<windows, risk, outages, clock, ran, hot>>
  BY DEF GatewayRaises
<1> QED
  BY <1>1, FinishMoves, UntouchedFits, FlagKept, PartsKeepInv, VelocityTypes

\* record_outcome stamps the answer with its own clock reading.
LEMMA RecordOutcomeKeepsInv ==
    ASSUME VelocityInv, NEW p \in Payments, NEW answer \in {"approve", "decline"},
           RecordOutcome(p, answer)
    PROVE  VelocityInv' /\ KeysKept
<1>1. pay[p].pc \in Charging /\ UNCHANGED <<risk, clock, hot>>
  BY DEF RecordOutcome, Charging
<1> DEFINE pc2 == IF answer = "decline" THEN "log_decline" ELSE "look_back"
           ask == pay[p].ask
<1>2. PICK t \in Readings(pay[p].since, clock, MaxDelay) :
          \/ /\ Run(ask, t, {"outcomes"}, [outcomes |-> <<t, answer>>])
             /\ pay' = [Goto(p, pc2) EXCEPT ![p].ms = t]
             /\ UNCHANGED outages
          \/ /\ Break(ask, t, <<"outcomes">>, [outcomes |-> <<t, answer>>])
             /\ pay' = Finish(p, "done")
  BY DEF RecordOutcome, ReadingsOf
<1>3. pay[p].since \in Nat /\ pay[p] \in PayRow /\ pay[p].ask \in AnyAsk /\ t \in 0..clock
  BY <1>1, UnderWay, VelocityTypes DEF Readings
<1> DEFINE member == [outcomes |-> <<t, answer>>]
<1>4. StampedAnswer(member, t)
  BY <1>3 DEF StampedAnswer
<1> HIDE DEF member
<1>5. KeysKept /\ outages' \in 0..MaxOutages
  <2>1. CASE Run(ask, t, {"outcomes"}, member) /\ UNCHANGED outages
    BY <1>3, <1>4, <2>1, RunKeepsFits, VelocityTypes DEF KeysKept
  <2>2. CASE Break(ask, t, <<"outcomes">>, member)
    BY <1>3, <1>4, <2>2, BreakKeepsFits
  <2> QED
    BY <1>2, <2>1, <2>2 DEF member
<1>6. PayMoved(p)
  <2>1. CASE pay' = Finish(p, "done")
    BY <2>1, FinishMoves
  <2>2. CASE pay' = [Goto(p, pc2) EXCEPT ![p].ms = t]
    <3> DEFINE row == [pay[p] EXCEPT !.pc = pc2, !.since = clock, !.ms = t]
    <3>1. pc2 \in {"log_decline", "look_back"}
      OBVIOUS
    <3> HIDE DEF pc2
    <3>2. pay' = [pay EXCEPT ![p] = row]
      BY <2>2, VelocityTypes DEF Goto, PayRow
    <3>3. row \in PayRow /\ row.ask = pay[p].ask
      BY <1>3, <3>1, VelocityTypes DEF PayRow
    <3> HIDE DEF row
    <3> QED
      BY <1>3, <3>2, <3>3 DEF PayMoved
  <2> QED
    BY <1>2, <2>1, <2>2
<1> QED
  BY <1>1, <1>5, <1>6, FlagKept, PartsKeepInv, VelocityTypes

\* The decline is noted for the account, and for its address if there is one.
LEMMA RecordDeclineKeepsInv ==
    ASSUME VelocityInv, NEW p \in Payments, RecordDecline(p)
    PROVE  VelocityInv' /\ KeysKept
<1>1. pay[p].pc \in Charging /\ UNCHANGED <<risk, clock, hot>> /\ pay' = Finish(p, "done")
  BY DEF RecordDecline, Charging
<1> DEFINE ask == pay[p].ask
           kinds == DeclineKinds(ask)
           member == [kind \in ToSet(kinds) |-> p]
<1>2. PICK t \in Readings(pay[p].since, clock, MaxDelay) :
          \/ Run(ask, t, ToSet(kinds), member) /\ UNCHANGED outages
          \/ Break(ask, t, kinds, member)
  BY DEF RecordDecline, ReadingsOf
<1>3. pay[p].since \in Nat
  BY <1>1, UnderWay
<1>4. StampedAnswer(member, t)
  <2>1. DOMAIN member = ToSet(kinds)
    OBVIOUS
  <2>2. "outcomes" \notin ToSet(kinds)
    <3>1. CASE ask.ip = None
      <4>1. kinds = <<"dec_user">> \o <<>>
        BY <3>1 DEF DeclineKinds
      <4>2. kinds = <<"dec_user">>
        BY <4>1
      <4> QED
        BY <4>2 DEF ToSet
    <3>2. CASE ask.ip # None
      <4>1. kinds = <<"dec_user">> \o <<"dec_ip">>
        BY <3>2 DEF DeclineKinds
      <4> HIDE DEF kinds
      <4>2. DOMAIN kinds = 1..2 /\ kinds[1] = "dec_user" /\ kinds[2] = "dec_ip"
        BY <4>1
      <4> QED
        BY <4>2 DEF ToSet
    <3> QED
      BY <3>1, <3>2
  <2> QED
    BY <2>1, <2>2 DEF StampedAnswer
<1> HIDE DEF member, kinds
<1>5. KeysKept /\ outages' \in 0..MaxOutages
  <2>1. CASE Run(ask, t, ToSet(kinds), member) /\ UNCHANGED outages
    BY <1>3, <1>4, <2>1, RunKeepsFits, VelocityTypes DEF KeysKept
  <2>2. CASE Break(ask, t, kinds, member)
    BY <1>3, <1>4, <2>2, BreakKeepsFits
  <2> QED
    BY <1>2, <2>1, <2>2
<1> QED
  BY <1>1, <1>5, FinishMoves, FlagKept, PartsKeepInv, VelocityTypes

\* hot takes the present time, or stays.
LEMMA RecordedTyped ==
    ASSUME VelocityInv, NEW p \in Payments, pay[p].pc \in Charging, NEW burst, Recorded(p, burst)
    PROVE  hot' \in [Users -> (0..clock) \cup {None}]
BY UnderWay, VelocityTypes DEF Recorded

(***************************************************************************)
(* The look back                                                           *)
(***************************************************************************)

\* Stamped answers up to a time are finitely many.
LEMMA AnswersAreFinite ==
    ASSUME NEW now \in Nat, NEW S, S \subseteq (0..now) \X {"approve", "decline"}
    PROVE  IsFiniteSet(S)
<1>1. 0 \in Int /\ now \in Int
  OBVIOUS
<1>2. IsFiniteSet(0..now)
  BY ONLY <1>1, FS_Interval
<1>3. IsFiniteSet({"approve", "decline"})
  <2>1. IsFiniteSet({}) /\ {"approve", "decline"} = ({} \cup {"approve"}) \cup {"decline"}
    BY FS_EmptySet
  <2> QED
    BY ONLY <2>1, FS_AddElement
<1>4. IsFiniteSet((0..now) \X {"approve", "decline"})
  BY ONLY <1>2, <1>3, FS_Product
<1> QED
  BY ONLY <1>4, S \subseteq (0..now) \X {"approve", "decline"}, FS_Subset

\* The loop of record_outcome counts every decline after which only declines
\* come, once the approval at the end is skipped.
LEMMA LoopCountsBurst ==
    ASSUME NEW now \in Nat, NEW members, members \subseteq (0..now) \X {"approve", "decline"},
           NEW ms \in 0..now, <<ms, "approve">> \in members,
           \A m \in members : m = <<ms, "approve">> \/ m[1] < ms,
           NEW from \in 0..now, NEW burst,
           burst \subseteq {m \in members : m[1] < ms /\ m[1] >= from},
           \A m \in members : m[1] < ms /\ m[1] >= from => m[2] = "decline"
    PROVE  /\ Cardinality(burst) \in Nat /\ Cardinality(TrailingDeclines(members)) \in Nat
           /\ Cardinality(burst) <= Cardinality(TrailingDeclines(members))
<1> DEFINE last == <<ms, "approve">>
           older == {m \in members : \E n \in members : Before(m, n)}
<1>1. \A m \in members : m[1] \in 0..now /\ m[2] \in {"approve", "decline"}
  OBVIOUS
<1>2. last[1] = ms /\ last[2] = "approve"
  OBVIOUS
<1> HIDE DEF last
<1>3. last \in members /\ \A m \in members : m = last \/ m[1] < ms
  BY DEF last
<1>4. last \notin older
  <2> SUFFICES ASSUME NEW n \in members, Before(last, n) PROVE FALSE
    OBVIOUS
  <2>1. ms <= n[1]
    BY <1>1, <1>2 DEF Before
  <2>2. n = last
    BY <1>1, <1>3, <2>1
  <2> QED
    BY <1>1, <1>2, <2>2 DEF Before
<1>5. ASSUME NEW m \in burst
      PROVE  m \in TrailingDeclines(members)
  <2>1. m \in members /\ m[1] < ms /\ m[1] >= from
    OBVIOUS
  <2>2. m \in older
    BY <1>2, <1>3, <2>1 DEF Before
  <2>3. ASSUME NEW n \in older, n = m \/ Before(m, n)
        PROVE  n[2] = "decline"
    <3>1. n \in members /\ n # last
      BY <1>4
    <3>2. n[1] < ms
      BY <1>3, <3>1
    <3>3. n[1] >= m[1]
      BY <1>1, <2>1, <2>3, <3>1 DEF Before
    <3>4. n[1] >= from
      BY <1>1, <2>1, <3>1, <3>3
    <3> QED
      BY <3>1, <3>2, <3>4
  <2> QED
    BY <2>2, <2>3 DEF TrailingDeclines, DeclinesAtEnd
<1>6. TrailingDeclines(members) \subseteq members
  BY DEF TrailingDeclines, DeclinesAtEnd
<1>7. IsFiniteSet(TrailingDeclines(members))
  BY <1>6, AnswersAreFinite
<1>8. burst \subseteq TrailingDeclines(members)
  BY <1>5
<1>9. IsFiniteSet(burst) /\ Cardinality(burst) <= Cardinality(TrailingDeclines(members))
  BY ONLY <1>7, <1>8, FS_Subset
<1> QED
  BY ONLY <1>7, <1>9, FS_CardinalityType

\* A burst that the event log shows is found, whatever reading the look back
\* trims with: neither its declines nor the approval have left the window.
LEMMA BurstIsFound ==
    ASSUME VelocityInv, NEW p \in Payments, pay[p].pc = "look_back", NEW t \in ReadingsOf(p),
           BurstEndsWith(p)
    PROVE  Cardinality(TrailingDeclines(DOMAIN InWindow("outcomes", pay[p].ask, t))) >= T_DECLINE_BURST
<1>1. /\ pay[p] \in PayRow /\ pay[p].ask.user \in Users /\ pay[p].since \in Nat
      /\ clock \in Nat
  BY UnderWay, VelocityTypes DEF Charging
<1> DEFINE k == <<"outcomes", pay[p].ask.user>>
           zset == windows[k]
           log == ran[k]
           ms == pay[p].ms
           earlier == {m \in DOMAIN log : m[1] < ms}
           Burst(first) == {m \in earlier : m[1] >= first[1]}
<1>2. k \in Keys /\ k[1] = "outcomes" /\ Key("outcomes", pay[p].ask) = k
  BY <1>1 DEF Keys, Key
<1>3. Width["outcomes"] = W_OUTCOME_SEQUENCE /\ W_OUTCOME_SEQUENCE \in Nat
  <2>1. "outcomes" \in DOMAIN Width /\ Width["outcomes"] = W_OUTCOME_SEQUENCE
    BY DEF Width
  <2> QED
    BY <2>1
<1>4. t \in Nat /\ t <= clock /\ ms \in 0..clock
  BY <1>1 DEF ReadingsOf, Readings, PayRow
<1>5. /\ DOMAIN log = earlier \cup {<<ms, "approve">>}
      /\ \E first \in earlier :
             /\ \A m \in Burst(first) :
                    m[2] = "decline" /\ log[m] > clock - (W_OUTCOME_SEQUENCE - MaxDelay)
             /\ Cardinality(Burst(first)) >= T_DECLINE_BURST
  BY DEF BurstEndsWith
<1>6. KeyFits(k, zset, log, clock)
  BY <1>2, FitsByKey
<1> DEFINE found == {m \in DOMAIN zset : zset[m] > t - W_OUTCOME_SEQUENCE}
<1>7. DOMAIN InWindow("outcomes", pay[p].ask, t) = found
  BY <1>2, <1>3 DEF InWindow, Trimmed
<1> HIDE DEF zset, log, ms, found
<1>8. /\ DOMAIN zset \subseteq DOMAIN log /\ Stamped(zset, log, clock)
      /\ DOMAIN log \subseteq (0..clock) \X {"approve", "decline"}
      /\ \A m \in DOMAIN log : log[m] \in 0..clock
  BY <1>2, <1>6 DEF KeyFits
<1>9. \A m \in DOMAIN log : m[1] \in 0..clock
  BY <1>8
<1>10. found \subseteq DOMAIN log
  BY <1>8 DEF found
<1>11. ASSUME NEW m \in DOMAIN log, m[1] > clock - W_OUTCOME_SEQUENCE
       PROVE  m \in found
  <2>1. m \in DOMAIN zset /\ zset[m] = m[1]
    BY <1>8, <1>11 DEF Stamped
  <2>2. m[1] > t - W_OUTCOME_SEQUENCE
    BY <1>1, <1>3, <1>4, <1>9, <1>11
  <2> QED
    BY <2>1, <2>2 DEF found
<1>12. PICK first \in earlier :
           /\ \A m \in Burst(first) :
                  m[2] = "decline" /\ log[m] > clock - (W_OUTCOME_SEQUENCE - MaxDelay)
           /\ Cardinality(Burst(first)) >= T_DECLINE_BURST
  BY <1>5
<1>13. ASSUME NEW m \in Burst(first)
       PROVE  m \in found /\ m[1] > clock - W_OUTCOME_SEQUENCE
  <2>1. m \in DOMAIN log /\ log[m] > clock - (W_OUTCOME_SEQUENCE - MaxDelay)
    BY <1>12
  <2>2. m[1] \in (log[m] - MaxDelay)..log[m] /\ log[m] \in 0..clock
    BY <1>8, <2>1 DEF Stamped
  <2>3. m[1] > clock - W_OUTCOME_SEQUENCE
    BY <1>1, <1>3, <2>1, <2>2
  <2> QED
    BY <1>11, <2>1, <2>3
<1>14. <<ms, "approve">> \in found
  <2>1. first \in Burst(first) /\ first \in DOMAIN log /\ first[1] < ms
    BY <1>9
  <2>2. <<ms, "approve">> \in DOMAIN log /\ ms > clock - W_OUTCOME_SEQUENCE
    BY <1>1, <1>3, <1>4, <1>5, <1>9, <1>13, <2>1
  <2> QED
    BY <1>11, <2>2
<1>15. Burst(first) \subseteq {m \in found : m[1] < ms /\ m[1] >= first[1]}
  BY <1>13
<1>16. \A m \in found : m[1] < ms /\ m[1] >= first[1] => m[2] = "decline"
  BY <1>10, <1>12
<1>17. \A m \in found : m = <<ms, "approve">> \/ m[1] < ms
  BY <1>5, <1>10
<1>18. found \subseteq (0..clock) \X {"approve", "decline"} /\ first[1] \in 0..clock
  BY <1>8, <1>9, <1>10
<1> HIDE DEF Burst, earlier
<1>19. /\ Cardinality(Burst(first)) \in Nat /\ Cardinality(TrailingDeclines(found)) \in Nat
       /\ Cardinality(Burst(first)) <= Cardinality(TrailingDeclines(found))
  BY <1>1, <1>4, <1>14, <1>15, <1>16, <1>17, <1>18, LoopCountsBurst
<1>20. Cardinality(TrailingDeclines(found)) >= T_DECLINE_BURST
  BY <1>12, <1>19
<1> QED
  BY <1>7, <1>20

\* The look back trims the outcomes and adds nothing.
LEMMA LookBackKeepsInv ==
    ASSUME VelocityInv, NEW p \in Payments, LookBack(p)
    PROVE  VelocityInv' /\ KeysKept
<1>1. pay[p].pc \in Charging /\ UNCHANGED <<risk, clock>>
  BY DEF LookBack, Charging
<1> DEFINE ask == pay[p].ask
           burst == BurstEndsWith(p)
           found(t) == Cardinality(TrailingDeclines(DOMAIN InWindow("outcomes", ask, t))) >= T_DECLINE_BURST
<1>2. PICK t \in Readings(pay[p].since, clock, MaxDelay) :
          \/ /\ Run(ask, t, {"outcomes"}, <<>>)
             /\ pay' = IF found(t) THEN [Goto(p, "flag") EXCEPT ![p].burst = burst] ELSE Finish(p, "done")
             /\ Recorded(p, ~ found(t) /\ burst)
             /\ UNCHANGED outages
          \/ /\ Break(ask, t, <<"outcomes">>, <<>>)
             /\ pay' = Finish(p, "done")
             /\ UNCHANGED hot
  BY DEF LookBack, ReadingsOf
<1>3. burst \in BOOLEAN
  BY DEF BurstEndsWith
<1>4. ~ (~ found(t) /\ burst)
  BY BurstIsFound DEF LookBack, ReadingsOf
<1> HIDE DEF burst, found
<1>5. pay[p].since \in Nat /\ pay[p] \in PayRow /\ pay[p].ask \in AnyAsk
  BY <1>1, UnderWay
<1>6. StampedAnswer(<<>>, t)
  <2>1. DOMAIN <<>> = {}
    OBVIOUS
  <2> QED
    BY <2>1 DEF StampedAnswer
<1>7. KeysKept /\ outages' \in 0..MaxOutages
  <2>1. CASE Run(ask, t, {"outcomes"}, <<>>) /\ UNCHANGED outages
    BY <1>5, <1>6, <2>1, RunKeepsFits, VelocityTypes DEF KeysKept
  <2>2. CASE Break(ask, t, <<"outcomes">>, <<>>)
    BY <1>5, <1>6, <2>2, BreakKeepsFits
  <2> QED
    BY <1>2, <2>1, <2>2
<1>8. UNCHANGED hot
  BY <1>2, <1>4 DEF Recorded
<1>9. PayMoved(p)
  <2>1. CASE pay' = Finish(p, "done")
    BY <2>1, FinishMoves
  <2>2. CASE pay' = [Goto(p, "flag") EXCEPT ![p].burst = burst]
    <3> DEFINE row == [pay[p] EXCEPT !.pc = "flag", !.since = clock, !.burst = burst]
    <3>1. pay' = [pay EXCEPT ![p] = row]
      BY <2>2, VelocityTypes DEF Goto, PayRow
    <3>2. row \in PayRow /\ row.ask = pay[p].ask
      BY <1>3, <1>5, VelocityTypes DEF PayRow
    <3> HIDE DEF row
    <3> QED
      BY <1>5, <3>1, <3>2 DEF PayMoved
  <2> QED
    BY <1>2, <2>1, <2>2
<1> QED
  BY <1>1, <1>7, <1>8, <1>9, FlagKept, PartsKeepInv, VelocityTypes

\* The risk flag is set, or perhaps set.
LEMMA RaiseFlagKeepsInv ==
    ASSUME VelocityInv, NEW p \in Payments, RaiseFlag(p)
    PROVE  VelocityInv' /\ KeysKept
<1>1. /\ pay[p].pc \in Charging /\ UNCHANGED <<windows, clock, ran>> /\ pay' = Finish(p, "done")
      /\ risk' \in {risk, RiskRaised(pay[p].ask.user)}
      /\ UNCHANGED hot \/ Recorded(p, pay[p].burst)
  BY DEF RaiseFlag, Charging
<1>2. outages' \in 0..MaxOutages
  BY VelocityTypes DEF RaiseFlag
<1>3. hot' \in [Users -> (0..clock) \cup {None}]
  BY <1>1, RecordedTyped, VelocityTypes
<1>4. risk' \in [Users -> 0..(clock + W_RISK_FLAG)]
  <2>1. clock + W_RISK_FLAG \in 0..(clock + W_RISK_FLAG)
    BY VelocityTypes
  <2> QED
    BY <1>1, <2>1, UnderWay, VelocityTypes DEF RiskRaised
<1>5. FlagOutlivesBurst'
  <2> SUFFICES ASSUME NEW u \in Users, hot'[u] # None
               PROVE  risk'[u] >= hot'[u] + W_RISK_FLAG
    BY DEF FlagOutlivesBurst
  <2>1. /\ hot[u] \in (0..clock) \cup {None} /\ risk[u] \in Nat
        /\ hot[u] # None => risk[u] >= hot[u] + W_RISK_FLAG
        /\ clock \in Nat
    BY VelocityTypes DEF VelocityInv, FlagOutlivesBurst
  <2>2. CASE risk' = risk /\ UNCHANGED hot
    BY <2>1, <2>2
  <2>3. CASE risk' = RiskRaised(pay[p].ask.user)
    <3>1. \/ u = pay[p].ask.user /\ risk'[u] = clock + W_RISK_FLAG
          \/ u # pay[p].ask.user /\ risk'[u] = risk[u]
      BY <2>3, VelocityTypes DEF RiskRaised
    <3>2. \/ hot'[u] = hot[u]
          \/ u = pay[p].ask.user /\ hot'[u] = clock
      BY <1>1, VelocityTypes DEF Recorded
    <3> QED
      BY <2>1, <3>1, <3>2
  <2> QED
    BY <1>1, <2>2, <2>3 DEF RaiseFlag
<1> QED
  BY <1>1, <1>2, <1>3, <1>4, <1>5, FinishMoves, UntouchedFits, PartsKeepInv, VelocityTypes

(***************************************************************************)
(* The theorems                                                            *)
(***************************************************************************)

\* Time passes: nothing becomes recent that was not.
LEMMA TickKeepsInv ==
    ASSUME VelocityInv, Tick
    PROVE  VelocityInv'
<1>1. /\ clock' = clock + 1 /\ clock \in Nat /\ clock' \in 0..MaxTime
      /\ UNCHANGED <<windows, risk, pay, outages, ran, hot>>
  BY VelocityTypes DEF Tick, VelocityInv, VelocityTypeOK
<1>2. \A n \in 0..clock : n \in 0..clock'
  BY <1>1
<1>3. ASSUME NEW k \in Keys
      PROVE  KeyFits(k, windows[k], ran[k], clock')
  <2>1. KeyFits(k, windows[k], ran[k], clock)
    BY FitsByKey
  <2>2. Width[k[1]] \in Nat
    BY KindsHaveWidths
  <2>3. \A m \in DOMAIN ran[k] : ran[k][m] > clock' - (Width[k[1]] - MaxDelay) =>
                                     ran[k][m] > clock - (Width[k[1]] - MaxDelay)
    BY <1>1, <2>1, <2>2 DEF KeyFits
  <2>4. k[1] = "outcomes" => /\ DOMAIN ran[k] \subseteq (0..clock') \X {"approve", "decline"}
                             /\ Stamped(windows[k], ran[k], clock')
    <3> SUFFICES ASSUME k[1] = "outcomes"
                 PROVE  /\ DOMAIN ran[k] \subseteq (0..clock') \X {"approve", "decline"}
                        /\ Stamped(windows[k], ran[k], clock')
      OBVIOUS
    <3>1. /\ DOMAIN ran[k] \subseteq (0..clock) \X {"approve", "decline"}
          /\ Stamped(windows[k], ran[k], clock)
      BY <2>1 DEF KeyFits
    <3>2. DOMAIN ran[k] \subseteq (0..clock') \X {"approve", "decline"}
      BY <1>2, <3>1
    <3>3. W_OUTCOME_SEQUENCE \in Nat /\ \A m \in DOMAIN ran[k] : m[1] \in Int
      BY <2>2, <3>1 DEF Width
    <3>4. \A m \in DOMAIN ran[k] : m[1] > clock' - W_OUTCOME_SEQUENCE =>
                                       m[1] > clock - W_OUTCOME_SEQUENCE
      BY <1>1, <3>3
    <3> QED
      BY <3>1, <3>2, <3>4 DEF Stamped
  <2> QED
    BY <1>2, <2>1, <2>3, <2>4 DEF KeyFits
<1>4. RecentActivityIsRemembered' /\ OutcomesAreStamped' /\ FlagOutlivesBurst'
  BY <1>1, <1>3, FlagKept DEF KeyFits, Stamped, RecentActivityIsRemembered, OutcomesAreStamped
<1>5. pay' \in [Payments -> PayRow'] /\ AsksKnown'
  <2>1. pay \in [Payments -> PayRow] /\ AsksKnown
    BY VelocityTypes DEF VelocityInv
  <2>2. ASSUME NEW row \in PayRow
        PROVE  row \in PayRow'
    BY <1>2, <2>2 DEF PayRow
  <2> QED
    BY <1>1, <2>1, <2>2 DEF AsksKnown
<1>6. risk \in [Users -> 0..(clock' + W_RISK_FLAG)] /\ hot \in [Users -> (0..clock') \cup {None}]
  <2>1. risk \in [Users -> 0..(clock + W_RISK_FLAG)] /\ hot \in [Users -> (0..clock) \cup {None}]
    BY VelocityTypes
  <2>2. \A n \in 0..(clock + W_RISK_FLAG) : n \in 0..(clock' + W_RISK_FLAG)
    BY <1>1
  <2> QED
    BY <1>2, <2>1, <2>2
<1>7. VelocityTypeOK'
  BY <1>1, <1>3, <1>5, <1>6, VelocityTypes DEF VelocityTypeOK, KeyFits, PayRow
<1> QED
  BY <1>4, <1>5, <1>7 DEF VelocityInv

\* Every step keeps the invariant and leaves the sets it changes current.
LEMMA VelocityInvStep ==
    VelocityInv /\ [VelocityNext]_velocityVars => VelocityInv' /\ (UNCHANGED windows \/ KeysKept)
<1> SUFFICES ASSUME VelocityInv, [VelocityNext]_velocityVars
             PROVE  VelocityInv' /\ (UNCHANGED windows \/ KeysKept)
  OBVIOUS
<1>1. CASE UNCHANGED velocityVars
  <2>1. UNCHANGED <<windows, risk, pay, outages, clock, ran, hot>>
    BY <1>1 DEF velocityVars
  <2>2. VelocityTypeOK'
    BY <2>1 DEF VelocityInv, VelocityTypeOK
  <2>3. AsksKnown' /\ RecentActivityIsRemembered'
    BY <2>1 DEF VelocityInv, AsksKnown, RecentActivityIsRemembered
  <2>4. OutcomesAreStamped' /\ FlagOutlivesBurst'
    BY <2>1 DEF VelocityInv, OutcomesAreStamped, FlagOutlivesBurst
  <2> QED
    BY <2>1, <2>2, <2>3, <2>4 DEF VelocityInv
<1>2. CASE Tick
  BY <1>2, TickKeepsInv DEF Tick
<1> QED
  BY <1>1, <1>2, AssessKeepsInv, GatewayRaisesKeepsInv, RecordOutcomeKeepsInv, RecordDeclineKeepsInv,
     LookBackKeepsInv, RaiseFlagKeepsInv
  DEF VelocityNext

\* Empty windows, no payment begun.
LEMMA VelocityInvInit == VelocityInit => VelocityInv
<1> SUFFICES ASSUME VelocityInit PROVE VelocityInv
  OBVIOUS
<1>1. \A k \in Keys : DOMAIN windows[k] = {} /\ DOMAIN ran[k] = {}
  BY DEF VelocityInit, EmptyWindow
<1>2. clock = 0 /\ outages = 0
  BY DEF VelocityInit
<1>3. risk \in [Users -> 0..(clock + W_RISK_FLAG)] /\ hot \in [Users -> (0..clock) \cup {None}]
  BY <1>2 DEF VelocityInit
<1>4. pay \in [Payments -> PayRow]
  <2>1. NotStarted \in PayRow
    BY <1>2 DEF NotStarted, PayRow
  <2> QED
    BY <2>1 DEF VelocityInit
<1>5. AsksKnown
  BY DEF VelocityInit, NotStarted, AsksKnown, Charging
<1>6. VelocityTypeOK
  BY <1>1, <1>2, <1>3, <1>4 DEF VelocityTypeOK, PayRow
<1>7. RecentActivityIsRemembered /\ OutcomesAreStamped /\ FlagOutlivesBurst
  BY <1>1 DEF VelocityInit, RecentActivityIsRemembered, OutcomesAreStamped, FlagOutlivesBurst
<1> QED
  BY <1>5, <1>6, <1>7 DEF VelocityInv

\* VelocityInv holds in every reachable state.
LEMMA VelocityInvHolds == VelocitySpec => []VelocityInv
BY VelocityInvInit, VelocityInvStep, PTL DEF VelocitySpec

\* Type correctness: every score in a window is a clock reading at most MaxDelay
\* older than the moment Redis took it, and every outcome a gateway's answer.
THEOREM VelocityTypeCorrect == VelocitySpec => []VelocityTypeOK
<1>1. VelocityInv => VelocityTypeOK
  BY DEF VelocityInv
<1> QED
  BY <1>1, VelocityInvHolds, PTL

\* No rule of carding.py forgets recent activity, for any widths, any number of
\* payments under way and any Redis failures: what was added within the width
\* less the travel time is in the window, whatever older readings trimmed it.
THEOREM RecentActivityIsRememberedThm == VelocitySpec => []RecentActivityIsRemembered
<1>1. VelocityInv => RecentActivityIsRemembered
  BY DEF VelocityInv
<1> QED
  BY <1>1, VelocityInvHolds, PTL

\* No rule counts what has left its window: a command of carding.py that changes
\* a window leaves nothing in it older than the width and the travel time.
THEOREM CountsAreCurrentThm == VelocitySpec => CountsAreCurrent
<1> DEFINE Current ==
               \A k \in Keys : windows'[k] # windows[k] =>
                   \A m \in DOMAIN windows'[k] :
                       ran'[k][m] > clock - (Width[k[1]] + MaxDelay)
<1>1. VelocityInv /\ [VelocityNext]_velocityVars => [Current]_velocityVars
  BY VelocityInvStep DEF KeysKept, KeyCurrent
<1> QED
  BY <1>1, VelocityInvHolds, PTL DEF VelocitySpec, CountsAreCurrent

\* The risk flag alone scores enough for a challenge.
LEMMA RiskIsChallenged ==
    ASSUME NEW hits, "risk" \in hits
    PROVE  Decision(hits) \in {"block", "challenge"}
<1> DEFINE Points(h) == IF h \in hits THEN Score[h] ELSE 0
           score == Points("cards") + Points("dec_user") + Points("dec_ip") + Points("accounts")
                      + Points("bookings") + Points("small") + Points("risk")
<1>1. /\ Points("cards") \in Nat /\ Points("dec_user") \in Nat /\ Points("dec_ip") \in Nat
      /\ Points("accounts") \in Nat /\ Points("bookings") \in Nat /\ Points("small") \in Nat
      /\ Points("risk") = 50
  BY DEF Score
<1>2. Decision(hits) = CASE score >= SCORE_BLOCK -> "block"
                         [] score >= SCORE_CHALLENGE -> "challenge"
                         [] OTHER -> "allow"
  BY DEF Decision
<1> HIDE DEF Points
<1>3. score \in Nat /\ score >= SCORE_CHALLENGE
  BY <1>1 DEF SCORE_CHALLENGE
<1> HIDE DEF score
<1> QED
  BY <1>2, <1>3

\* An assessment that Redis answers, of an account whose flag should be up: it is
\* up, so the payment is blocked or challenged.
LEMMA HotIsNotAllowed ==
    ASSUME VelocityInv, NEW p \in Payments, NEW ask \in Asks[p], Assess(p, ask), outages' = outages,
           pay'[p].pc = "gateway", hot[ask.user] # None, clock < hot[ask.user] + W_RISK_FLAG
    PROVE  pay'[p].verdict = "challenge"
<1> DEFINE decision(t) == Decision(WindowHits(ask, t, Noted(p, ask)) \cup RiskHits(ask.user))
           row(verdict) == [NotStarted EXCEPT
                               !.pc = "gateway", !.ask = ask, !.since = clock, !.verdict = verdict]
<1>1. outages' # outages + 1
  BY VelocityTypes
<1>2. PICK t \in Readings(0, clock, MaxDelay) :
          IF decision(t) = "block" THEN pay' = Finish(p, "blocked")
          ELSE pay' = [pay EXCEPT ![p] = row(decision(t))]
  BY <1>1 DEF Assess, Break
<1>3. "risk" \in RiskHits(ask.user)
  <2>1. ask.user \in Users
    BY DEF Users, AnyAsk
  <2>2. /\ hot[ask.user] \in 0..clock /\ risk[ask.user] \in Nat /\ clock \in Nat
        /\ risk[ask.user] >= hot[ask.user] + W_RISK_FLAG
    BY <2>1, VelocityTypes DEF VelocityInv, FlagOutlivesBurst
  <2> QED
    BY <2>2 DEF RiskHits
<1>4. decision(t) \in {"block", "challenge"}
  BY <1>3, RiskIsChallenged
<1>5. p \in DOMAIN pay
  BY VelocityTypes
<1>6. Finish(p, "blocked")[p].pc = "blocked"
  BY <1>5 DEF Finish, NotStarted
<1>7. row("challenge").verdict = "challenge"
  BY DEF NotStarted
<1> HIDE DEF decision, row
<1>8. pay' = [pay EXCEPT ![p] = row("challenge")]
  BY <1>2, <1>4, <1>6
<1> QED
  BY <1>5, <1>7, <1>8

\* A payment that goes from idle to the gateway has been assessed.
LEMMA OnlyAssessmentCharges ==
    ASSUME VelocityInv, VelocityNext, NEW p \in Payments, pay[p].pc = "idle", pay'[p].pc = "gateway"
    PROVE  \E ask \in Asks[p] : Assess(p, ask) /\ pay'[p].ask = ask
<1>1. pay \in [Payments -> PayRow]
  BY VelocityTypes
<1>2. ASSUME NEW q \in Payments, NEW row, pay' = [pay EXCEPT ![q] = row]
      PROVE  q = p
  BY <1>1, <1>2
<1>3. ASSUME NEW q \in Payments, NEW ask \in Asks[q], Assess(q, ask)
      PROVE  q = p /\ pay'[p].ask = ask
  <2> DEFINE row(verdict) == [NotStarted EXCEPT
                                 !.pc = "gateway", !.ask = ask, !.since = clock, !.verdict = verdict]
  <2>1. \/ pay' = Finish(q, "blocked")
        \/ \E verdict : pay' = [pay EXCEPT ![q] = row(verdict)]
    BY <1>3 DEF Assess
  <2>2. q = p
    BY <1>2, <2>1 DEF Finish
  <2>3. Finish(p, "blocked")[p].pc = "blocked"
    BY <1>1 DEF Finish, NotStarted
  <2>4. \A verdict : row(verdict).ask = ask
    BY DEF NotStarted
  <2> HIDE DEF row
  <2>5. PICK verdict : pay' = [pay EXCEPT ![p] = row(verdict)]
    BY <2>1, <2>2, <2>3
  <2> QED
    BY <1>1, <2>2, <2>4, <2>5
<1>4. ASSUME NEW q \in Payments, pay[q].pc \in Charging, NEW row, pay' = [pay EXCEPT ![q] = row]
      PROVE  FALSE
  BY <1>2, <1>4 DEF Charging
<1>5. ~ UNCHANGED pay
  OBVIOUS
<1>6. ASSUME NEW q \in Payments, NEW pc, pay[q].pc \in Charging, pay' = Finish(q, pc)
      PROVE  FALSE
  BY <1>4, <1>6 DEF Finish
<1>7. ASSUME NEW q \in Payments, GatewayRaises(q) \/ RecordDecline(q) \/ RaiseFlag(q)
      PROVE  FALSE
  BY <1>6, <1>7 DEF GatewayRaises, RecordDecline, RaiseFlag, Charging
<1>8. ASSUME NEW q \in Payments, pay[q].pc \in Charging PROVE q # p
  BY <1>8 DEF Charging
<1>9. ASSUME NEW q \in Payments, NEW answer \in {"approve", "decline"}, RecordOutcome(q, answer)
      PROVE  FALSE
  <2>1. pay[q].pc \in Charging
    BY <1>9 DEF RecordOutcome, Charging
  <2>2. pay'[p] = pay[p]
    BY <1>1, <1>8, <1>9, <2>1 DEF RecordOutcome, Goto, Finish
  <2> QED
    BY <2>2
<1>10. ASSUME NEW q \in Payments, LookBack(q)
       PROVE  FALSE
  <2>1. pay[q].pc \in Charging
    BY <1>10 DEF LookBack, Charging
  <2>2. pay'[p] = pay[p]
    BY <1>1, <1>8, <1>10, <2>1 DEF LookBack, Goto, Finish
  <2> QED
    BY <2>2
<1> QED
  BY <1>3, <1>5, <1>7, <1>9, <1>10 DEF VelocityNext, Tick

\* record_outcome "makes the next attempt from this account score 50 on its own":
\* for any thresholds, widths, travel time and interleaving, an assessment that
\* Redis answers does not allow an account whose approval ended a decline burst.
THEOREM HotAccountIsChallengedThm == VelocitySpec => HotAccountIsChallenged
<1> DEFINE Hot(p, user) ==
               /\ pay[p].pc = "idle" /\ pay'[p].pc = "gateway" /\ outages' = outages
               /\ hot[user] # None
               /\ clock < hot[user] + W_RISK_FLAG
           Challenged ==
               \A p \in Payments :
                   LET user == pay'[p].ask.user
                   IN  Hot(p, user) => pay'[p].verdict = "challenge"
<1>1. VelocityInv /\ [VelocityNext]_velocityVars => [Challenged]_velocityVars
  <2> SUFFICES ASSUME VelocityInv, VelocityNext, NEW p \in Payments, Hot(p, pay'[p].ask.user)
               PROVE  pay'[p].verdict = "challenge"
    OBVIOUS
  <2>1. PICK ask \in Asks[p] : Assess(p, ask) /\ pay'[p].ask = ask
    BY OnlyAssessmentCharges
  <2> QED
    BY <2>1, HotIsNotAllowed
<1> QED
  BY <1>1, VelocityInvHolds, PTL DEF VelocitySpec, HotAccountIsChallenged
============================================================================
