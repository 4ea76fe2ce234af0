-------------------------- MODULE SeatHolds_proofs --------------------------
(***************************************************************************)
(* Proofs about SeatHolds, for every set of users, seats and requests and  *)
(* every TTL, cap and clock bound.                                         *)
(***************************************************************************)
EXTENDS SeatHolds, FiniteSetTheorems, TLAPS

\* What ClearHold does to a row: a typed, available row with no hold id.
LEMMA ClearHoldRow ==
    ASSUME NEW row \in Row
    PROVE  /\ ClearHold(row) \in Row
           /\ ClearHold(row).status = "available"
           /\ ClearHold(row).hold_id = None
           /\ ClearHold(row).held_by = None
           /\ ClearHold(row).booking_id = row.booking_id
BY DEF ClearHold, Row, SeatStatus

\* A step that rewrites rows only with ClearHold, and neither the clock nor the
\* requests, keeps the invariant: the common part of releasing and sweeping.
LEMMA ClearingKeepsInv ==
    ASSUME HoldTypeOK, HoldRowsSound, seat' \in [Seats -> Row], UNCHANGED <<now, hreq>>,
           \A s \in Seats : seat'[s] = seat[s] \/ seat'[s] = ClearHold(seat[s])
    PROVE  HoldTypeOK' /\ HoldRowsSound'
<1>1. \A s \in Seats : /\ seat[s] \in Row
                       /\ seat'[s].hold_id \in {seat[s].hold_id, None}
                       /\ seat'[s].status = "held" => seat'[s] = seat[s]
    BY ClearHoldRow DEF HoldTypeOK
<1>2. HoldTypeOK'
    BY DEF HoldTypeOK
<1>3. PendingRequestsSound'
    BY DEF HoldRowsSound, PendingRequestsSound
<1>4. HeldSeatHasHolder' /\ HoldsAreBounded'
    BY <1>1 DEF HoldRowsSound, HeldSeatHasHolder, HoldsAreBounded
<1>5. HoldIdNamesOneSeat'
    BY <1>1, NoneAssumption DEF HoldRowsSound, HoldIdNamesOneSeat
<1> QED
    BY <1>2, <1>3, <1>4, <1>5 DEF HoldRowsSound

HoldInv == HoldTypeOK /\ HoldRowsSound

\* The initial table satisfies the invariant.
LEMMA HoldInvInit == HoldInit => HoldInv
BY NoneAssumption
DEF HoldInit, HoldInv, HoldTypeOK, HoldRowsSound, PendingRequestsSound, HeldSeatHasHolder,
    HoldIdNamesOneSeat, HoldsAreBounded, Row, AvailableRow, HoldRequest, NewRequest, SeatStatus

\* A step of a hold request that leaves the rows and the clock alone, and does
\* not make up or forget a 201, keeps the invariant.
LEMMA RequestStepKeepsInv ==
    ASSUME HoldInv, UNCHANGED <<seat, now>>, NEW h \in HoldIds,
           NEW r \in HoldRequest, hreq' = [hreq EXCEPT ![h] = r],
           hreq[h].pc # "created",
           r.pc = "counted" => r.user \in Users /\ r.seat \in Seats /\ r.t0 <= now
    PROVE  HoldInv'
BY DEF HoldInv, HoldTypeOK, HoldRowsSound, PendingRequestsSound, HeldSeatHasHolder,
       HoldIdNamesOneSeat, HoldsAreBounded

\* Every statement of holds.py and sweep.py, and the clock, keep the invariant.
LEMMA HoldInvStep == HoldInv /\ [HoldNext]_holdVars => HoldInv'
<1> SUFFICES ASSUME HoldInv, [HoldNext]_holdVars PROVE HoldInv'
    OBVIOUS
<1>1. ASSUME NEW h \in HoldIds, NEW u \in Users, NEW s \in Seats, CountHolds(h, u, s)
      PROVE  HoldInv'
    <2> DEFINE r == [pc |-> "counted", user |-> u, seat |-> s, t0 |-> now]
    <2>1. r \in HoldRequest /\ r.t0 <= now
        BY DEF HoldInv, HoldTypeOK, HoldRequest
    <2>2. hreq' = [hreq EXCEPT ![h] = r] /\ hreq[h].pc # "created" /\ UNCHANGED <<seat, now>>
        BY <1>1 DEF CountHolds
    <2> HIDE DEF r
    <2> QED
        BY <2>1, <2>2, RequestStepKeepsInv DEF r
<1>2. ASSUME NEW h \in HoldIds, NEW u \in Users, TooManyHolds(h, u)
      PROVE  HoldInv'
    <2> DEFINE r == [hreq[h] EXCEPT !.pc = "too_many_holds"]
    <2>1. r \in HoldRequest /\ r.pc # "counted"
        BY DEF HoldInv, HoldTypeOK, HoldRequest, HoldOutcome
    <2>2. hreq' = [hreq EXCEPT ![h] = r] /\ hreq[h].pc # "created" /\ UNCHANGED <<seat, now>>
        BY <1>2 DEF TooManyHolds, HoldInv, HoldTypeOK
    <2> HIDE DEF r
    <2> QED
        BY <2>1, <2>2, RequestStepKeepsInv
<1>3. ASSUME NEW h \in HoldIds, TakeSeat(h)
      PROVE  HoldInv'
    <2> DEFINE q == hreq[h]
               done == [NewRequest EXCEPT !.pc = "created"]
    <2>1. q.pc = "counted" /\ q.user \in Users /\ q.seat \in Seats /\ q.t0 \in Nat /\ q.t0 <= now
        BY <1>3 DEF TakeSeat, HoldInv, HoldTypeOK, HoldRowsSound, PendingRequestsSound, HoldRequest
    <2>2. /\ HeldRow(h) \in Row
          /\ HeldRow(h).hold_id = h
          /\ HeldRow(h).held_by \in Users
          /\ HeldRow(h).expires \in Nat
          /\ HeldRow(h).expires <= now + HoldTTL
        BY <2>1, HoldAssumption DEF HeldRow, Row, SeatStatus, HoldInv, HoldTypeOK
    <2>3. done \in HoldRequest /\ done.pc = "created"
        BY DEF NewRequest, HoldRequest, HoldOutcome
    <2>4. /\ seat' = [seat EXCEPT ![q.seat] = HeldRow(h)]
          /\ hreq' = [hreq EXCEPT ![h] = done]
          /\ now' = now
        BY <1>3 DEF TakeSeat
    <2>5. \A s \in Seats : seat[s].hold_id # h
        BY <2>1 DEF HoldInv, HoldRowsSound, HoldIdNamesOneSeat
    <2> HIDE DEF done
    <2>6. HoldTypeOK'
        BY <2>1, <2>2, <2>3, <2>4 DEF HoldInv, HoldTypeOK
    <2>7. PendingRequestsSound'
        BY <2>3, <2>4 DEF HoldInv, HoldTypeOK, HoldRowsSound, PendingRequestsSound
    <2>8. HeldSeatHasHolder' /\ HoldsAreBounded'
        BY <2>1, <2>2, <2>4
        DEF HoldInv, HoldTypeOK, HoldRowsSound, HeldSeatHasHolder, HoldsAreBounded
    <2>9. HoldIdNamesOneSeat'
        BY <2>1, <2>2, <2>3, <2>4, <2>5 DEF HoldInv, HoldTypeOK, HoldRowsSound, HoldIdNamesOneSeat
    <2> QED
        BY <2>6, <2>7, <2>8, <2>9 DEF HoldInv, HoldRowsSound
<1>4. ASSUME NEW h \in HoldIds, LoseSeat(h)
      PROVE  HoldInv'
    <2> DEFINE r == [NewRequest EXCEPT !.pc = "seat_unavailable"]
    <2>1. r \in HoldRequest /\ r.pc # "counted"
        BY DEF NewRequest, HoldRequest, HoldOutcome
    <2>2. hreq' = [hreq EXCEPT ![h] = r] /\ hreq[h].pc # "created" /\ UNCHANGED <<seat, now>>
        BY <1>4 DEF LoseSeat
    <2> HIDE DEF r
    <2> QED
        BY <2>1, <2>2, RequestStepKeepsInv
<1>5. ASSUME NEW h \in HoldIds, ReleaseHold(h)
      PROVE  HoldInv'
    <2>1. seat' \in [Seats -> Row]
        BY <1>5, ClearHoldRow DEF ReleaseHold, HoldInv, HoldTypeOK
    <2>2. \A s \in Seats : seat'[s] = seat[s] \/ seat'[s] = ClearHold(seat[s])
        BY <1>5 DEF ReleaseHold
    <2> QED
        BY <1>5, <2>1, <2>2, ClearingKeepsInv DEF ReleaseHold, HoldInv
<1>6. ASSUME Sweep
      PROVE  HoldInv'
    <2>1. seat' \in [Seats -> Row]
        BY <1>6, ClearHoldRow DEF Sweep, HoldInv, HoldTypeOK
    <2>2. \A s \in Seats : seat'[s] = seat[s] \/ seat'[s] = ClearHold(seat[s])
        BY <1>6 DEF Sweep
    <2> QED
        BY <1>6, <2>1, <2>2, ClearingKeepsInv DEF Sweep, HoldInv
<1>7. ASSUME Tick
      PROVE  HoldInv'
    <2>1. now' = now + 1 /\ now \in Nat /\ UNCHANGED <<seat, hreq>>
        BY <1>7 DEF Tick, HoldInv, HoldTypeOK
    <2>2. \A h \in HoldIds : hreq[h].t0 \in Nat
        BY DEF HoldInv, HoldTypeOK, HoldRequest
    <2> QED
        BY <2>1, <2>2, HoldAssumption
        DEF HoldInv, HoldTypeOK, HoldRowsSound, PendingRequestsSound, HeldSeatHasHolder,
            HoldIdNamesOneSeat, HoldsAreBounded
<1>8. ASSUME UNCHANGED holdVars
      PROVE  HoldInv'
    BY <1>8
    DEF holdVars, HoldInv, HoldTypeOK, HoldRowsSound, PendingRequestsSound, HeldSeatHasHolder,
        HoldIdNamesOneSeat, HoldsAreBounded
<1> QED
    BY <1>1, <1>2, <1>3, <1>4, <1>5, <1>6, <1>7, <1>8 DEF HoldNext, HoldStep

\* The columns of seat_inventory and the hold requests keep their types under
\* every statement of holds.py and sweep.py.
THEOREM HoldTypeCorrect == HoldSpec => []HoldTypeOK
<1>1. HoldInv => HoldTypeOK
    BY DEF HoldInv
<1> QED
    BY <1>1, HoldInvInit, HoldInvStep, PTL DEF HoldSpec

\* ck_held_seat_has_holder is never violated, hold ids name one seat each, and
\* no hold outlives its TTL, however acquire_hold's two statements interleave.
THEOREM HoldRowsCorrect == HoldSpec => []HoldRowsSound
<1>1. HoldInv => HoldRowsSound
    BY DEF HoldInv
<1> QED
    BY <1>1, HoldInvInit, HoldInvStep, PTL DEF HoldSpec

-----------------------------------------------------------------------------
(***************************************************************************)
(* SeatHolds implements SeatLease                                          *)
(***************************************************************************)

LeaseMap == [s \in Seats |-> HeldLease(seat[s])]

\* Leases that end, in the shape of SeatLease's Drop: a step under which every
\* seat keeps its lease or had a live hold and is now free.
LEMMA EndingIsDrop ==
    ASSUME \A s \in Seats :
               \/ LeaseMap'[s] = LeaseMap[s]
               \/ LeaseMap[s].as = "held" /\ LeaseMap'[s] = HoldLease!Free
    PROVE  HoldLease!Next
<1> DEFINE S == {s \in Seats : LeaseMap'[s] # LeaseMap[s]}
<1>1. \A s \in S : LeaseMap[s].as = "held"
    OBVIOUS
<1>2. LeaseMap' = [s \in Seats |-> IF s \in S THEN HoldLease!Free ELSE LeaseMap[s]]
    <2>1. \A s \in Seats : LeaseMap'[s] = IF s \in S THEN HoldLease!Free ELSE LeaseMap[s]
        OBVIOUS
    <2> QED
        BY <2>1, Zenon DEF LeaseMap
<1>3. HoldLease!Drop(S)
    BY <1>1, <1>2 DEF HoldLease!Drop, LeaseMap
<1> QED
    BY <1>3 DEF HoldLease!Next

\* An empty table leases nothing.
LEMMA LeaseInit == HoldInit => HoldLease!Init
BY DEF HoldInit, HoldLease!Init, HoldLease!Free, HeldLease, AvailableRow

\* Every step of SeatHolds is a step of SeatLease or changes no lease.
LEMMA LeaseStep == HoldInv /\ [HoldNext]_holdVars => [HoldLease!Next]_LeaseMap
<1> SUFFICES ASSUME HoldInv, [HoldNext]_holdVars
             PROVE  HoldLease!Next \/ LeaseMap' = LeaseMap
    OBVIOUS
<1>0. now \in Nat /\ (\A s \in Seats : seat[s].status = "held" => seat[s].expires \in Nat)
    BY DEF HoldInv, HoldTypeOK, HoldRowsSound, HeldSeatHasHolder
<1>1. ASSUME UNCHANGED <<seat, now>>
      PROVE  LeaseMap' = LeaseMap
    BY <1>1 DEF LeaseMap, HeldLease
<1>2. ASSUME NEW h \in HoldIds, TakeSeat(h)
      PROVE  HoldLease!Next \/ LeaseMap' = LeaseMap
    <2> DEFINE q == hreq[h]
    <2>1. q.user \in Users /\ q.seat \in Seats /\ q.t0 \in Nat /\ q.t0 <= now
        BY <1>2 DEF TakeSeat, HoldInv, HoldTypeOK, HoldRowsSound, PendingRequestsSound, HoldRequest
    <2>2. LeaseMap[q.seat] = HoldLease!Free
        BY <1>2, <1>0, <2>1 DEF TakeSeat, Takeable, LeaseMap, HeldLease, HoldLease!Free
    <2>3. seat' = [seat EXCEPT ![q.seat] = HeldRow(h)] /\ now' = now /\ seat \in [Seats -> Row]
        BY <1>2 DEF TakeSeat, HoldInv, HoldTypeOK
    <2>4. \A s \in Seats : s # q.seat => LeaseMap'[s] = LeaseMap[s]
        BY <2>3 DEF LeaseMap, HeldLease
    <2>5. LeaseMap'[q.seat] \in {HoldLease!Free, HoldLease!Held(q.user)}
        BY <2>1, <2>3 DEF LeaseMap, HeldLease, HeldRow, HoldLease!Free, HoldLease!Held
    <2>6. CASE LeaseMap'[q.seat] = HoldLease!Free
        <3>1. \A s \in Seats : LeaseMap'[s] = LeaseMap[s]
            BY <2>2, <2>4, <2>6
        <3> QED
            BY <3>1, Zenon DEF LeaseMap
    <2>7. CASE LeaseMap'[q.seat] = HoldLease!Held(q.user)
        <3>1. \A s \in Seats :
                  LeaseMap'[s] = [LeaseMap EXCEPT ![q.seat] = HoldLease!Held(q.user)][s]
            BY <2>1, <2>4, <2>7 DEF LeaseMap
        <3>2. LeaseMap' = [LeaseMap EXCEPT ![q.seat] = HoldLease!Held(q.user)]
            BY <3>1 DEF LeaseMap
        <3>3. HoldLease!Take(q.seat, q.user)
            BY <2>2, <3>2 DEF HoldLease!Take, LeaseMap
        <3> QED
            BY <2>1, <3>3 DEF HoldLease!Next
    <2> QED
        BY <2>5, <2>6, <2>7
<1>3. ASSUME NEW h \in HoldIds, ReleaseHold(h)
      PROVE  HoldLease!Next
    <2>1. /\ now' = now
          /\ \A s \in Seats : \/ seat'[s] = seat[s]
                              \/ seat[s].status = "held" /\ seat'[s].status = "available"
        BY <1>3, ClearHoldRow DEF ReleaseHold, HoldInv, HoldTypeOK
    <2>2. \A s \in Seats : \/ LeaseMap'[s] = LeaseMap[s]
                           \/ LeaseMap[s].as = "held" /\ LeaseMap'[s] = HoldLease!Free
        BY <2>1 DEF LeaseMap, HeldLease, HoldLease!Free
    <2> QED
        BY <2>2, EndingIsDrop
<1>4. ASSUME Sweep
      PROVE  LeaseMap' = LeaseMap
    <2>1. /\ now' = now
          /\ \A s \in Seats : \/ seat'[s] = seat[s]
                              \/ /\ seat[s].status = "held" /\ seat[s].expires < now
                                 /\ seat'[s].status = "available"
        BY <1>4, ClearHoldRow DEF Sweep, Sweepable, HoldInv, HoldTypeOK
    <2>2. \A s \in Seats : HeldLease(seat[s])' = HeldLease(seat[s])
        BY <1>0, <2>1 DEF HeldLease
    <2> QED
        BY <2>2, Zenon DEF LeaseMap
<1>5. ASSUME Tick
      PROVE  HoldLease!Next
    <2>1. now' = now + 1 /\ seat' = seat
        BY <1>5 DEF Tick
    <2>2. \A s \in Seats : \/ LeaseMap'[s] = LeaseMap[s]
                           \/ LeaseMap[s].as = "held" /\ LeaseMap'[s] = HoldLease!Free
        BY <1>0, <2>1 DEF LeaseMap, HeldLease, HoldLease!Free
    <2> QED
        BY <2>2, EndingIsDrop
<1> QED
    BY <1>1, <1>2, <1>3, <1>4, <1>5
    DEF HoldNext, HoldStep, CountHolds, TooManyHolds, LoseSeat, holdVars

\* Acquiring, releasing, sweeping and time implement the abstract lease for any
\* number of users, seats and requests: no live hold is ever taken over, and
\* whether the sweep runs makes no difference to who has a seat (ADR-0001).
THEOREM HoldsImplementLeaseThm == HoldSpec => HoldsImplementLease
<1>1. HoldSpec => []HoldInv
    BY HoldInvInit, HoldInvStep, PTL DEF HoldSpec
<1>2. HoldInv /\ [HoldNext]_holdVars => [HoldLease!Next]_[s \in Seats |-> HeldLease(seat[s])]
    BY LeaseStep DEF LeaseMap
<1> QED
    BY <1>1, <1>2, LeaseInit, PTL DEF HoldSpec, HoldsImplementLease, HoldLease!Spec

-----------------------------------------------------------------------------
(***************************************************************************)
(* The cap on active holds, for an account that makes its requests one at  *)
(* a time                                                                  *)
(***************************************************************************)

\* The requests of u between acquire_hold's two statements.
Counted(u) == {h \in HoldIds : hreq[h].pc = "counted" /\ hreq[h].user = u}

Active(u) == ActiveHolds(u, now)

\* Below the cap, and strictly below it while a request of u may still take one.
CapInv(u) ==
    /\ Cardinality(Active(u)) <= MaxActiveHolds
    /\ Counted(u) # {} => Cardinality(Active(u)) < MaxActiveHolds

\* Fewer active holds count for no more.
LEMMA ActiveCount ==
    ASSUME NEW A \in SUBSET Seats, NEW B \in SUBSET Seats, NEW s \in Seats
    PROVE  /\ Cardinality(A) \in Nat /\ IsFiniteSet(A)
           /\ A \subseteq B => Cardinality(A) <= Cardinality(B)
           /\ A \subseteq B \cup {s} => Cardinality(A) <= Cardinality(B) + 1
<1>1. IsFiniteSet(A) /\ IsFiniteSet(B)
    BY HoldAssumption, FS_Subset
<1>2. Cardinality(A) \in Nat /\ Cardinality(B) \in Nat
    BY <1>1, FS_CardinalityType
<1>3. A \subseteq B => Cardinality(A) <= Cardinality(B)
    BY <1>1, FS_Subset
<1>4. /\ IsFiniteSet(B \cup {s})
      /\ Cardinality(B \cup {s}) \in {Cardinality(B), Cardinality(B) + 1}
    BY <1>1, <1>2, FS_AddElement
<1>5. A \subseteq B \cup {s} => Cardinality(A) <= Cardinality(B \cup {s})
    BY <1>4, FS_Subset
<1> QED
    BY <1>1, <1>2, <1>3, <1>4, <1>5

\* At most one request under way is one request.
LEMMA OneCounted ==
    ASSUME NEW u \in Users, Cardinality(Counted(u)) <= 1, NEW h \in Counted(u), NEW g \in Counted(u)
    PROVE  h = g
<1>1. SUFFICES ASSUME h # g PROVE FALSE
    OBVIOUS
<1>2. IsFiniteSet(Counted(u)) /\ IsFiniteSet({h, g})
    <2>1. IsFiniteSet(Counted(u))
        BY HoldAssumption, FS_Subset DEF Counted
    <2> QED
        BY <2>1, FS_Subset
<1>3. Cardinality({h, g}) = 2
    <2>1. Cardinality({h}) = 1 /\ IsFiniteSet({h})
        BY FS_Singleton
    <2>2. Cardinality({h} \cup {g}) = 2
        BY <1>1, <2>1, FS_AddElement
    <2>3. {h} \cup {g} = {h, g}
        OBVIOUS
    <2> QED
        BY <2>2, <2>3
<1>4. Cardinality({h, g}) <= Cardinality(Counted(u))
    BY <1>2, FS_Subset
<1> QED
    BY <1>2, <1>3, <1>4, FS_CardinalityType

\* A step under which no hold of u becomes active and no request of u is counted.
LEMMA CapKept ==
    ASSUME NEW u \in Users, CapInv(u), Active(u)' \subseteq Active(u), Counted(u)' \subseteq Counted(u)
    PROVE  CapInv(u)'
<1>1. Active(u) \in SUBSET Seats /\ Active(u)' \in SUBSET Seats
    BY DEF Active, ActiveHolds
<1>2. /\ Cardinality(Active(u)') <= Cardinality(Active(u))
      /\ Cardinality(Active(u)') \in Nat /\ Cardinality(Active(u)) \in Nat
    <2>1. CASE Seats = {}
        BY <1>1, <2>1, FS_EmptySet
    <2>2. CASE Seats # {}
        BY <1>1, <2>2, ActiveCount
    <2> QED
        BY <2>1, <2>2
<1> QED
    BY <1>2, HoldAssumption DEF CapInv

\* Every step keeps the cap of an account with at most one request under way.
LEMMA CapStep ==
    ASSUME NEW u \in Users, HoldInv, CapInv(u), Cardinality(Counted(u)) <= 1, [HoldNext]_holdVars
    PROVE  CapInv(u)'
<1>0. /\ seat \in [Seats -> Row] /\ hreq \in [HoldIds -> HoldRequest] /\ now \in Nat
      /\ \A s \in Seats : seat[s].status = "held" => seat[s].expires \in Nat
    BY DEF HoldInv, HoldTypeOK, HoldRowsSound, HeldSeatHasHolder
<1>1. ASSUME NEW h \in HoldIds, NEW v \in Users, NEW s \in Seats, CountHolds(h, v, s)
      PROVE  CapInv(u)'
    <2>1. Active(u)' = Active(u)
        BY <1>1 DEF CountHolds, Active, ActiveHolds
    <2>2. CASE v = u
        <3>1. Cardinality(Active(u)) < MaxActiveHolds
            BY <1>1, <2>2 DEF CountHolds, UnderCap, Active
        <3> QED
            BY <2>1, <3>1 DEF CapInv
    <2>3. CASE v # u
        <3>1. Counted(u)' \subseteq Counted(u)
            BY <1>0, <1>1, <2>3 DEF CountHolds, Counted
        <3> QED
            BY <2>1, <3>1, CapKept
    <2> QED
        BY <2>2, <2>3
<1>2. ASSUME NEW h \in HoldIds, NEW v \in Users, TooManyHolds(h, v) PROVE CapInv(u)'
    <2>1. Active(u)' = Active(u)
        BY <1>2 DEF TooManyHolds, Active, ActiveHolds
    <2>2. Counted(u)' \subseteq Counted(u)
        BY <1>0, <1>2 DEF TooManyHolds, Counted
    <2> QED
        BY <2>1, <2>2, CapKept
<1>3. ASSUME NEW h \in HoldIds, TakeSeat(h) PROVE CapInv(u)'
    <2> DEFINE q == hreq[h]
    <2>1. q.pc = "counted" /\ q.seat \in Seats /\ q.t0 \in Nat /\ q.t0 <= now
        BY <1>0, <1>3 DEF TakeSeat, HoldInv, HoldRowsSound, PendingRequestsSound, HoldRequest
    <2>2. /\ seat' = [seat EXCEPT ![q.seat] = HeldRow(h)] /\ now' = now
          /\ HeldRow(h).held_by = q.user
        BY <1>3 DEF TakeSeat, HeldRow
    <2>3. \A s \in Seats : s # q.seat => seat'[s] = seat[s]
        BY <1>0, <2>2
    <2>4. Counted(u)' = Counted(u) \ {h}
        BY <1>0, <1>3 DEF TakeSeat, Counted, NewRequest
    <2>5. CASE q.user = u
        <3>1. h \in Counted(u)
            BY <2>1, <2>5 DEF Counted
        <3>2. Counted(u)' = {}
            BY <2>4, <3>1, OneCounted
        <3>3. Active(u)' \subseteq Active(u) \cup {q.seat}
            BY <2>2, <2>3 DEF Active, ActiveHolds
        <3>4. Active(u) \in SUBSET Seats /\ Active(u)' \in SUBSET Seats
            BY DEF Active, ActiveHolds
        <3>5. /\ Cardinality(Active(u)') <= Cardinality(Active(u)) + 1
              /\ Cardinality(Active(u)') \in Nat /\ Cardinality(Active(u)) \in Nat
            BY <2>1, <3>3, <3>4, ActiveCount
        <3>6. Cardinality(Active(u)) < MaxActiveHolds
            BY <3>1 DEF CapInv
        <3> QED
            BY <3>2, <3>5, <3>6, HoldAssumption DEF CapInv
    <2>6. CASE q.user # u
        <3>1. seat'[q.seat].held_by # u
            BY <1>0, <2>1, <2>2, <2>6
        <3>2. Active(u)' \subseteq Active(u)
            BY <2>2, <2>3, <3>1 DEF Active, ActiveHolds
        <3> QED
            BY <2>4, <3>2, CapKept
    <2> QED
        BY <2>5, <2>6
<1>4. ASSUME NEW h \in HoldIds, LoseSeat(h) PROVE CapInv(u)'
    <2>1. Active(u)' = Active(u)
        BY <1>4 DEF LoseSeat, Active, ActiveHolds
    <2>2. Counted(u)' \subseteq Counted(u)
        BY <1>0, <1>4 DEF LoseSeat, Counted, NewRequest
    <2> QED
        BY <2>1, <2>2, CapKept
<1>5. ASSUME UNCHANGED <<now, hreq>>,
             \A s \in Seats : seat'[s] = seat[s] \/ seat'[s] = ClearHold(seat[s])
      PROVE  CapInv(u)'
    <2>1. \A s \in Seats : seat'[s] = seat[s] \/ seat'[s].status = "available"
        BY <1>0, <1>5, ClearHoldRow
    <2>2. Active(u)' \subseteq Active(u)
        BY <1>5, <2>1 DEF Active, ActiveHolds
    <2>3. Counted(u)' = Counted(u)
        BY <1>5 DEF Counted
    <2> QED
        BY <2>2, <2>3, CapKept
<1>6. ASSUME NEW h \in HoldIds, ReleaseHold(h) PROVE CapInv(u)'
    <2>1. /\ UNCHANGED <<now, hreq>>
          /\ \A s \in Seats : seat'[s] = seat[s] \/ seat'[s] = ClearHold(seat[s])
        BY <1>6 DEF ReleaseHold
    <2> QED
        BY <1>5, <2>1
<1>7. ASSUME Sweep PROVE CapInv(u)'
    <2>1. /\ UNCHANGED <<now, hreq>>
          /\ \A s \in Seats : seat'[s] = seat[s] \/ seat'[s] = ClearHold(seat[s])
        BY <1>7 DEF Sweep
    <2> QED
        BY <1>5, <2>1
<1>8. ASSUME Tick PROVE CapInv(u)'
    <2>1. now' = now + 1 /\ UNCHANGED <<seat, hreq>>
        BY <1>8 DEF Tick
    <2>2. Active(u)' \subseteq Active(u)
        BY <1>0, <2>1 DEF Active, ActiveHolds
    <2>3. Counted(u)' = Counted(u)
        BY <2>1 DEF Counted
    <2> QED
        BY <2>2, <2>3, CapKept
<1>9. UNCHANGED holdVars => CapInv(u)'
    BY DEF holdVars, CapInv, Active, ActiveHolds, Counted
<1> QED
    BY <1>1, <1>2, <1>3, <1>4, <1>6, <1>7, <1>8, <1>9 DEF HoldNext, HoldStep

\* No account starts with a hold.
LEMMA CapInit == ASSUME NEW u \in Users, HoldInit PROVE CapInv(u)
<1>1. Active(u) = {} /\ Counted(u) = {}
    BY DEF HoldInit, Active, ActiveHolds, Counted, AvailableRow, NewRequest
<1>2. Cardinality({}) = 0
    BY FS_EmptySet
<1> QED
    BY <1>1, <1>2, HoldAssumption DEF CapInv

\* An account whose requests do not overlap never has more active holds than the
\* cap, for any cap and any number of seats, requests, releases and sweeps.
THEOREM CapHoldsOneAtATimeThm == HoldSpec => CapHoldsOneAtATime
<1>1. ASSUME NEW u \in Users
      PROVE  HoldSpec => CapHoldsFor(u)
    <2>1. HoldInit => CapInv(u)
        BY CapInit
    <2>2. /\ Cardinality({h \in HoldIds : hreq[h].pc = "counted" /\ hreq[h].user = u}) <= 1
          /\ HoldInv /\ CapInv(u) /\ [HoldNext]_holdVars
          => CapInv(u)'
        BY CapStep DEF Counted
    <2>3. CapInv(u) => Cardinality(ActiveHolds(u, now)) <= MaxActiveHolds
        BY DEF CapInv, Active
    <2>4. HoldSpec => []HoldInv
        BY HoldInvInit, HoldInvStep, PTL DEF HoldSpec
    <2> QED
        BY <2>1, <2>2, <2>3, <2>4, PTL DEF HoldSpec, CapHoldsFor
<1> QED
    BY <1>1 DEF CapHoldsOneAtATime
============================================================================
