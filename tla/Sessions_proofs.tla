-------------------------- MODULE Sessions_proofs --------------------------
(***************************************************************************)
(* Proofs about Sessions: for any number of accounts, requests and tokens, *)
(* a token family hangs together, its revocation is final, and no          *)
(* interleaving of logins puts a lockout off for ever.                     *)
(***************************************************************************)
EXTENDS Sessions, FiniteSetTheorems, TLAPS

USE SessionAssumption

(***************************************************************************)
(* Tallies                                                                 *)
(***************************************************************************)

\* The functions between two finite sets are finitely many: a function is told
\* by its graph.
LEMMA FunctionsAreFinite ==
    ASSUME NEW A, IsFiniteSet(A), NEW B, IsFiniteSet(B)
    PROVE  IsFiniteSet([A -> B])
<1> DEFINE graph(f) == {<<i, f[i]>> : i \in A}
           g == [f \in [A -> B] |-> graph(f)]
<1>1. IsFiniteSet(SUBSET (A \X B))
  BY FS_Product, FS_SUBSET
<1>2. \A f \in [A -> B] : graph(f) \in SUBSET (A \X B)
  OBVIOUS
<1>3. ASSUME NEW f \in [A -> B], NEW h \in [A -> B], graph(f) = graph(h)
      PROVE  f = h
  <2>1. ASSUME NEW i \in A PROVE f[i] = h[i]
    <3>1. <<i, f[i]>> \in graph(h)
      BY <1>3
    <3>2. PICK j \in A : <<i, f[i]>> = <<j, h[j]>>
      BY <3>1
    <3> QED
      BY <3>2
  <2> QED
    BY <2>1
<1> HIDE DEF graph
<1>4. g \in Injection([A -> B], SUBSET (A \X B))
  BY <1>2, <1>3 DEF Injection, IsInjective
<1> QED
  BY <1>1, <1>4, FS_Injection

\* There are finitely many tallies.
LEMMA TalliesAreFinite ==
    ASSUME NEW m \in Nat \ {0}, NEW k \in Nat
    PROVE  IsFiniteSet(Tallies(m, k))
<1>1. 0 \in Int /\ m - 1 \in Int /\ k \in Int
  OBVIOUS
<1>2. IsFiniteSet(0..(m - 1)) /\ IsFiniteSet(0..k)
  BY ONLY <1>1, FS_Interval
<1>3. IsFiniteSet([0..(m - 1) -> 0..k])
  BY <1>2, FunctionsAreFinite
<1> QED
  BY <1>3, FS_Subset DEF Tallies

\* A set of requests has at most as many members as one that holds it, and fewer
\* if it misses one of them.
LEMMA FewerRequests ==
    ASSUME NEW S, NEW T, S \subseteq T, T \subseteq Logins
    PROVE  /\ Cardinality(S) \in Nat /\ Cardinality(T) \in Nat /\ Cardinality(Logins) \in Nat
           /\ Cardinality(S) <= Cardinality(T) /\ Cardinality(T) <= Cardinality(Logins)
           /\ S # T => Cardinality(S) < Cardinality(T)
<1>1. IsFiniteSet(Logins)
  OBVIOUS
<1>2. IsFiniteSet(T) /\ Cardinality(T) <= Cardinality(Logins)
  BY ONLY <1>1, T \subseteq Logins, FS_Subset
<1>3. /\ IsFiniteSet(S) /\ Cardinality(S) <= Cardinality(T)
      /\ Cardinality(T) = Cardinality(S) => T = S
  BY ONLY <1>2, S \subseteq T, FS_Subset
<1>4. Cardinality(S) \in Nat /\ Cardinality(T) \in Nat /\ Cardinality(Logins) \in Nat
  BY ONLY <1>1, <1>2, <1>3, FS_CardinalityType
<1> QED
  BY ONLY <1>2, <1>3, <1>4

AllTallies == Tallies(MaxFailures, Cardinality(Logins))

\* Counters below the limit make a tally.
LEMMA TallyIsTally ==
    ASSUME NEW mind \in [Logins -> 0..(MaxFailures - 1)]
    PROVE  [i \in 0..(MaxFailures - 1) |-> Cardinality({l \in Logins : mind[l] <= i})] \in AllTallies
<1> DEFINE At(i) == {l \in Logins : mind[l] <= i}
           k == Cardinality(Logins)
<1>1. ASSUME NEW i \in 0..(MaxFailures - 1), NEW j \in 0..(MaxFailures - 1), i <= j
      PROVE  /\ Cardinality(At(i)) \in 0..k
             /\ Cardinality(At(i)) <= Cardinality(At(j))
  <2>1. At(i) \subseteq At(j) /\ At(j) \subseteq Logins
    BY <1>1
  <2> HIDE DEF At
  <2> QED
    BY <2>1, FewerRequests
<1>2. At(MaxFailures - 1) = Logins
  OBVIOUS
<1> HIDE DEF At
<1>3. \A i \in 0..(MaxFailures - 1) : Cardinality(At(i)) \in 0..k
  BY <1>1
<1>4. [i \in 0..(MaxFailures - 1) |-> Cardinality(At(i))] \in AllTallies
  BY <1>1, <1>2, <1>3 DEF AllTallies, Tallies
<1> QED
  BY <1>4 DEF At

\* No tally is past itself.
LEMMA FurtherIrreflexive ==
    ASSUME NEW n \in AllTallies
    PROVE  ~ Further(n, n)
<1>1. n \in [0..(MaxFailures - 1) -> 0..Cardinality(Logins)]
  BY DEF AllTallies, Tallies
<1>2. \A v \in DOMAIN n : n[v] \in Int
  BY <1>1
<1> QED
  BY <1>2 DEF Further

\* A tally past one is past all that one is past.
LEMMA FurtherTransitive ==
    ASSUME NEW n \in AllTallies, NEW o \in AllTallies, NEW q \in AllTallies,
           Further(n, o), Further(o, q)
    PROVE  Further(n, q)
<1> DEFINE D == 0..(MaxFailures - 1)
<1>1. /\ DOMAIN n = D /\ DOMAIN o = D
      /\ \A i \in D : n[i] \in Int /\ o[i] \in Int /\ q[i] \in Int
  BY DEF AllTallies, Tallies
<1>2. PICK v \in D : n[v] < o[v] /\ \A i \in 0..(v - 1) : n[i] <= o[i]
  BY <1>1 DEF Further
<1>3. PICK w \in D : o[w] < q[w] /\ \A i \in 0..(w - 1) : o[i] <= q[i]
  BY <1>1 DEF Further
<1>4. PICK u \in D : u <= v /\ u <= w /\ (u = v \/ u = w)
  <2>1. v \in Int /\ w \in Int
    OBVIOUS
  <2>2. v <= w \/ w <= v
    BY ONLY <2>1
  <2> QED
    BY <2>1, <2>2
<1>5. \A i \in 0..(u - 1) : i \in D /\ i \in 0..(v - 1) /\ i \in 0..(w - 1)
  BY <1>4
<1>6. ASSUME NEW i \in 0..(u - 1) PROVE n[i] <= q[i]
  <2>1. n[i] <= o[i] /\ o[i] <= q[i]
    BY <1>2, <1>3, <1>5
  <2>2. n[i] \in Int /\ o[i] \in Int /\ q[i] \in Int
    BY <1>1, <1>5
  <2> QED
    BY ONLY <2>1, <2>2
<1>7. n[u] < q[u]
  BY <1>1, <1>2, <1>3, <1>4
<1> QED
  BY <1>1, <1>6, <1>7 DEF Further

\* One step further leaves at least one more tally behind.
LEMMA OneMoreBehind ==
    ASSUME NEW n \in AllTallies, NEW o \in AllTallies, Further(n, o)
    PROVE  LET Past(x) == {y \in AllTallies : Further(x, y)} IN
           /\ Cardinality(Past(o)) \in Nat /\ Cardinality(Past(n)) \in Nat
           /\ Cardinality(Past(o)) + 1 <= Cardinality(Past(n))
<1> DEFINE Past(x) == {y \in AllTallies : Further(x, y)}
<1>1. Past(o) \cup {o} \subseteq Past(n) /\ o \notin Past(o)
  BY FurtherIrreflexive, FurtherTransitive
<1>2. Cardinality(Logins) \in Nat
  BY FewerRequests
<1>3. IsFiniteSet(AllTallies)
  BY <1>2, TalliesAreFinite DEF AllTallies
<1>4. Past(n) \subseteq AllTallies /\ Past(o) \subseteq AllTallies
  OBVIOUS
<1> HIDE DEF Past
<1>5. IsFiniteSet(Past(n)) /\ IsFiniteSet(Past(o))
  BY ONLY <1>3, <1>4, FS_Subset
<1>6. IsFiniteSet(Past(o) \cup {o}) /\ Cardinality(Past(o) \cup {o}) = Cardinality(Past(o)) + 1
  BY ONLY <1>1, <1>5, FS_AddElement
<1>7. Cardinality(Past(o) \cup {o}) <= Cardinality(Past(n))
  BY ONLY <1>1, <1>5, FS_Subset
<1>8. Cardinality(Past(o)) \in Nat /\ Cardinality(Past(n)) \in Nat
  BY ONLY <1>5, FS_CardinalityType
<1> QED
  BY <1>6, <1>7, <1>8 DEF Past

\* The tallies left behind are never all of them.
LEMMA NotAllBehind ==
    ASSUME NEW n \in AllTallies
    PROVE  LET past == {y \in AllTallies : Further(n, y)} IN
           /\ Cardinality(past) \in Nat /\ Cardinality(AllTallies) \in Nat
           /\ Cardinality(past) < Cardinality(AllTallies)
<1> DEFINE past == {y \in AllTallies : Further(n, y)}
<1>1. past \subseteq AllTallies /\ past # AllTallies
  BY FurtherIrreflexive
<1>2. Cardinality(Logins) \in Nat
  BY FewerRequests
<1>3. IsFiniteSet(AllTallies)
  BY <1>2, TalliesAreFinite DEF AllTallies
<1> HIDE DEF past
<1>4. /\ IsFiniteSet(past) /\ Cardinality(past) <= Cardinality(AllTallies)
      /\ Cardinality(AllTallies) = Cardinality(past) => AllTallies = past
  BY ONLY <1>1, <1>3, FS_Subset
<1>5. Cardinality(past) \in Nat /\ Cardinality(AllTallies) \in Nat
  BY ONLY <1>3, <1>4, FS_CardinalityType
<1> QED
  BY <1>1, <1>4, <1>5 DEF past

(***************************************************************************)
(* The invariant                                                           *)
(***************************************************************************)

\* No accounts, no tokens, no requests.
LEMMA SessionInvInit == SessionInit => SessionInv
<1> SUFFICES ASSUME SessionInit PROVE SessionInv
  OBVIOUS
<1>1. SessionTypeOK
  BY DEF SessionInit, SessionTypeOK, Idle, NewUser, Lockout, Resting
<1>2. Issued = {}
  BY DEF SessionInit, Issued
<1> QED
  BY <1>1, <1>2 DEF SessionInit, SessionInv, ReadsAreOfRows, FamiliesAreNamed,
                    FamilyRevokedTogether, ChildrenHaveUsedParents, Idle, Resting

\* The rows are numbered from one.
LEMMA IssuedIsInterval ==
    ASSUME SessionTypeOK
    PROVE  /\ Issued = 1..Len(token) /\ Len(token) \in Nat
           /\ NextToken = Len(token) + 1 /\ NextToken \notin Issued
           /\ \A t \in Issued : token[t] \in Token
BY DEF SessionTypeOK, Issued, NextToken

\* The parts of the invariant that speak of the token table alone, and so
\* survive a step that leaves it and its history as they are.
LEMMA SameTokens ==
    ASSUME SessionInv, UNCHANGED <<token, late>>
    PROVE  FamiliesAreNamed' /\ FamilyRevokedTogether' /\ ChildrenHaveUsedParents' /\ Issued' = Issued
BY DEF SessionInv, FamiliesAreNamed, FamilyRevokedTogether, ChildrenHaveUsedParents, Issued

\* issue_refresh_token for a new session: a root token in a family of its own.
LEMMA StartSessionAdds ==
    ASSUME SessionInv, NEW a \in Accounts, StartSession(a), UNCHANGED late
    PROVE  /\ token' \in Seq(Token)
           /\ Issued' = Issued \cup {NextToken}
           /\ \A t \in Issued : token'[t] = token[t]
           /\ FamiliesAreNamed' /\ FamilyRevokedTogether' /\ ChildrenHaveUsedParents'
<1> DEFINE n == NextToken
           new == NewToken(a, n, None)
<1>1. /\ Issued = 1..Len(token) /\ Len(token) \in Nat
      /\ n = Len(token) + 1 /\ n \notin Issued
      /\ token \in Seq(Token)
  BY IssuedIsInterval DEF SessionInv, SessionTypeOK
<1>2. /\ new \in Token /\ new.family = n /\ new.parent = None /\ ~ new.revoked_at
  BY <1>1 DEF NewToken, Token, SessionInv, SessionTypeOK
<1>3. token' = Append(token, new)
  BY DEF StartSession
<1> HIDE DEF new
<1>4. /\ token' \in Seq(Token)
      /\ Issued' = Issued \cup {n}
      /\ token'[n] = new
      /\ \A t \in Issued : token'[t] = token[t]
  BY <1>1, <1>2, <1>3 DEF Issued
<1>5. FamiliesAreNamed'
  BY <1>2, <1>4 DEF SessionInv, FamiliesAreNamed
<1>6. FamilyRevokedTogether'
  BY <1>1, <1>2, <1>4 DEF SessionInv, FamiliesAreNamed, FamilyRevokedTogether
<1>7. ChildrenHaveUsedParents'
  <2> SUFFICES ASSUME NEW t \in Issued'
               PROVE  IF token'[t].parent = None
                      THEN token'[t].family = t
                      ELSE LET p == token'[t].parent IN
                           /\ p \in Issued' /\ p < t
                           /\ token'[p].used_at
                           /\ token'[p].family = token'[t].family
                           /\ token'[p].user = token'[t].user
    BY DEF ChildrenHaveUsedParents
  <2>1. CASE t = n
    BY <1>2, <1>4, <2>1
  <2>2. CASE t \in Issued
    BY <1>4, <2>2 DEF SessionInv, ChildrenHaveUsedParents
  <2> QED
    BY <1>4, <2>1, <2>2
<1> QED
  BY <1>4, <1>5, <1>6, <1>7

\* revoke_family: the rows of one family are revoked and nothing else changes.
LEMMA RevokeFamilyKeeps ==
    ASSUME SessionInv, NEW t0 \in Issued, token' = RevokedFamily(t0), UNCHANGED late
    PROVE  /\ token' \in Seq(Token)
           /\ Issued' = Issued
           /\ \A t \in Issued : /\ token[t].revoked_at => token'[t].revoked_at
                                /\ token'[t].used_at = token[t].used_at
           /\ FamiliesAreNamed' /\ FamilyRevokedTogether' /\ ChildrenHaveUsedParents'
<1> DEFINE fam == token[t0].family
<1>1. /\ Issued = 1..Len(token) /\ Len(token) \in Nat
      /\ \A t \in Issued : token[t] \in Token
  BY IssuedIsInterval DEF SessionInv
<1>2. \A row \in Token :
          LET new == [row EXCEPT !.revoked_at = TRUE] IN
          /\ new \in Token /\ new.revoked_at
          /\ new.family = row.family /\ new.user = row.user
          /\ new.parent = row.parent /\ new.used_at = row.used_at
  BY DEF Token
<1>3. /\ Issued' = Issued
      /\ \A t \in Issued :
            token'[t] = IF token[t].family = fam THEN [token[t] EXCEPT !.revoked_at = TRUE]
                        ELSE token[t]
  BY DEF RevokedFamily, Family, Issued
<1>4. ASSUME NEW t \in Issued
      PROVE  /\ token'[t] \in Token
             /\ token'[t].family = token[t].family /\ token'[t].user = token[t].user
             /\ token'[t].parent = token[t].parent /\ token'[t].used_at = token[t].used_at
             /\ token'[t].revoked_at <=> (token[t].revoked_at \/ token[t].family = fam)
  <2>1. CASE token[t].family = fam
    <3> DEFINE row == token[t]
               new == [row EXCEPT !.revoked_at = TRUE]
    <3>1. token'[t] = new /\ row \in Token
      BY <1>1, <1>3, <2>1
    <3>2. /\ new \in Token /\ new.revoked_at
          /\ new.family = row.family /\ new.user = row.user
          /\ new.parent = row.parent /\ new.used_at = row.used_at
      BY <1>2, <3>1
    <3> QED
      BY <2>1, <3>1, <3>2
  <2>2. CASE token[t].family # fam
    BY <1>1, <1>3, <2>2
  <2> QED
    BY <2>1, <2>2
<1>5. token' \in Seq(Token)
  <2>1. token' = [t \in 1..Len(token) |-> token'[t]]
    BY <1>1 DEF RevokedFamily
  <2>2. token' \in [1..Len(token) -> Token]
    BY <1>1, <1>4, <2>1
  <2> QED
    BY <1>1, <2>2
<1>6. FamiliesAreNamed' /\ FamilyRevokedTogether'
  BY <1>3, <1>4 DEF SessionInv, FamiliesAreNamed, FamilyRevokedTogether
<1>7. ChildrenHaveUsedParents'
  BY <1>3, <1>4 DEF SessionInv, ChildrenHaveUsedParents
<1> QED
  BY <1>3, <1>4, <1>5, <1>6, <1>7

\* rotate_refresh_token's commit: the parent is used and a child of its family
\* and account inserted, late when the family was revoked in the meantime.
LEMMA RotationKeeps ==
    ASSUME SessionInv, NEW r \in Refreshes, RotateToken(r)
    PROVE  /\ token' \in Seq(Token)
           /\ late' \subseteq Nat
           /\ Issued' = Issued \cup {NextToken}
           /\ \A t \in Issued : /\ token'[t].revoked_at = token[t].revoked_at
                                /\ token[t].used_at => token'[t].used_at
           /\ FamiliesAreNamed' /\ FamilyRevokedTogether' /\ ChildrenHaveUsedParents'
<1> DEFINE n == NextToken
           t0 == refresh[r].token
           new == NewToken(token[t0].user, token[t0].family, t0)
           parent == Exchanged(token[t0])
           old == [token EXCEPT ![t0] = parent]
<1>1. /\ Issued = 1..Len(token) /\ Len(token) \in Nat
      /\ n = Len(token) + 1 /\ n \notin Issued
      /\ \A t \in Issued : token[t] \in Token
      /\ token \in Seq(Token)
  BY IssuedIsInterval DEF SessionInv, SessionTypeOK
<1>2. t0 \in Issued /\ t0 \in Nat
  BY <1>1 DEF RotateToken, SessionInv, ReadsAreOfRows
<1>3. /\ new \in Token /\ new.family = token[t0].family /\ new.user = token[t0].user
      /\ new.parent = t0 /\ t0 # None /\ ~ new.revoked_at
  <2>1. token[t0] \in Token
    BY <1>1, <1>2
  <2>2. token[t0].family \in Nat /\ token[t0].user \in Accounts
    BY <2>1 DEF Token
  <2>3. clock + RefreshTTL \in Nat
    BY DEF SessionInv, SessionTypeOK
  <2> QED
    BY <1>2, <2>2, <2>3 DEF NewToken, Token
<1>4. /\ parent \in Token /\ parent.used_at
      /\ parent.family = token[t0].family /\ parent.user = token[t0].user
      /\ parent.parent = token[t0].parent /\ parent.revoked_at = token[t0].revoked_at
  <2>1. token[t0] \in Token
    BY <1>1, <1>2
  <2>2. \A row \in Token : /\ Exchanged(row) \in Token /\ Exchanged(row).used_at
                           /\ Exchanged(row).family = row.family
                           /\ Exchanged(row).user = row.user
                           /\ Exchanged(row).parent = row.parent
                           /\ Exchanged(row).revoked_at = row.revoked_at
    BY DEF Exchanged, Token
  <2> QED
    BY <2>1, <2>2
<1>5. token' = Append(old, new)
  BY DEF RotateToken
<1> HIDE DEF new, parent
<1>6. /\ old \in Seq(Token) /\ Len(old) = Len(token)
      /\ old[t0] = parent /\ \A t \in Issued : t # t0 => old[t] = token[t]
  BY <1>1, <1>2, <1>4
<1> HIDE DEF old
<1>7. /\ token' \in Seq(Token)
      /\ Issued' = Issued \cup {n}
      /\ token'[n] = new
      /\ \A t \in Issued : token'[t] = old[t]
  BY <1>1, <1>3, <1>5, <1>6 DEF Issued
<1>8. ASSUME NEW t \in Issued
      PROVE  /\ token'[t].family = token[t].family /\ token'[t].user = token[t].user
             /\ token'[t].parent = token[t].parent
             /\ token'[t].revoked_at = token[t].revoked_at
             /\ token[t].used_at => token'[t].used_at
  BY <1>4, <1>6, <1>7
<1>9. token'[t0].used_at
  BY <1>2, <1>4, <1>6, <1>7
<1>10. late' \subseteq Nat /\ late \subseteq late'
  <2>1. late' = late \/ late' = late \cup {n}
    BY DEF RotateToken
  <2>2. late \subseteq Nat /\ n \in Nat
    BY <1>1 DEF SessionInv, SessionTypeOK
  <2> QED
    BY <2>1, <2>2
<1>11. (\E u \in Issued : token[u].family = token[t0].family /\ token[u].revoked_at) => n \in late'
  BY DEF RotateToken, Family
<1>12. FamiliesAreNamed'
  BY <1>2, <1>3, <1>7, <1>8 DEF SessionInv, FamiliesAreNamed
<1>13. FamilyRevokedTogether'
  <2> SUFFICES ASSUME NEW t \in Issued', NEW u \in Issued',
                      token'[t].family = token'[u].family,
                      token'[t].revoked_at, ~ token'[u].revoked_at
               PROVE  u \in late'
    BY DEF FamilyRevokedTogether
  <2>1. t \in Issued /\ token[t].revoked_at /\ token'[t].family = token[t].family
    BY <1>3, <1>7, <1>8
  <2>2. CASE u = n
    BY <1>3, <1>7, <1>11, <2>1, <2>2
  <2>3. CASE u \in Issued
    BY <1>8, <1>10, <2>1, <2>3 DEF SessionInv, FamilyRevokedTogether
  <2> QED
    BY <1>7, <2>2, <2>3
<1>14. ChildrenHaveUsedParents'
  <2> SUFFICES ASSUME NEW t \in Issued'
               PROVE  IF token'[t].parent = None
                      THEN token'[t].family = t
                      ELSE LET p == token'[t].parent IN
                           /\ p \in Issued' /\ p < t
                           /\ token'[p].used_at
                           /\ token'[p].family = token'[t].family
                           /\ token'[p].user = token'[t].user
    BY DEF ChildrenHaveUsedParents
  <2>1. CASE t = n
    <3>1. /\ token'[t].parent = t0 /\ t0 # None /\ t0 \in Issued' /\ t0 < t
          /\ token'[t].family = token[t0].family /\ token'[t].user = token[t0].user
      BY <1>1, <1>2, <1>3, <1>7, <2>1
    <3>2. token'[t0].family = token[t0].family /\ token'[t0].user = token[t0].user
      BY <1>2, <1>8
    <3> QED
      BY <1>9, <3>1, <3>2
  <2>2. CASE t \in Issued
    BY <1>7, <1>8, <2>2 DEF SessionInv, ChildrenHaveUsedParents
  <2> QED
    BY <1>7, <2>1, <2>2
<1> QED
  BY <1>7, <1>8, <1>10, <1>12, <1>13, <1>14

\* Either way a password turns out, the row keeps its type.
LEMMA LoginRowTyped ==
    ASSUME NEW row \in Lockout, NEW read \in Lockout, NEW at \in Nat
    PROVE  CountFailure(row, read, at) \in Lockout /\ Reset(row, read) \in Lockout
<1>1. /\ row.failed_login_count \in Nat /\ row.locked_until \in Nat \cup {None}
      /\ read.failed_login_count \in Nat /\ at + LockoutTime \in Nat
  BY DEF Lockout
<1>2. Reset(row, read) \in Lockout
  BY <1>1 DEF Reset, Lockout
<1>3. CASE Locks(read)
  <2> DEFINE n == at + LockoutTime
  <2>1. n \in Nat /\ CountFailure(row, read, at)
                     = [row EXCEPT !.failed_login_count = 0, !.locked_until = n]
    BY <1>1, <1>3 DEF CountFailure
  <2> HIDE DEF n
  <2>2. ASSUME NEW u \in Nat
        PROVE  [row EXCEPT !.failed_login_count = 0, !.locked_until = u] \in Lockout
    BY DEF Lockout
  <2> QED
    BY <1>2, <2>1, <2>2
<1>4. CASE ~ Locks(read)
  <2> DEFINE n == read.failed_login_count + 1
  <2>1. n \in Nat /\ CountFailure(row, read, at) = [row EXCEPT !.failed_login_count = n]
    BY <1>1, <1>4 DEF CountFailure
  <2> HIDE DEF n
  <2> QED
    BY <1>2, <2>1 DEF Lockout
<1> QED
  BY <1>3, <1>4

\* What a login under way has read, and the row it will write.
LEMMA LoginUnderWay ==
    ASSUME SessionInv, NEW l \in Logins, login[l].pc = "read"
    PROVE  LET a == login[l].account IN
           /\ a \in Accounts /\ user[a] \in Lockout
           /\ login[l].read \in Lockout /\ login[l].at \in Nat
<1>1. login[l] \in [pc : {"idle", "read"}, account : Accounts \cup {None},
                    read : Lockout, at : Nat]
  BY DEF SessionInv, SessionTypeOK
<1>2. login[l].account \in Accounts /\ user[login[l].account] # None
  BY DEF SessionInv, ReadsAreOfRows
<1>3. user[login[l].account] \in Lockout
  BY <1>2 DEF SessionInv, SessionTypeOK
<1> QED
  BY <1>1, <1>2, <1>3

\* A login request that ends.
LEMMA LoginEnds ==
    ASSUME SessionInv, NEW l \in Logins, login' = [login EXCEPT ![l] = Idle]
    PROVE  /\ login' \in [Logins -> [pc : {"idle", "read"}, account : Accounts \cup {None},
                                    read : Lockout, at : Nat]]
           /\ \A k \in Logins : login'[k].pc = "read" => login'[k] = login[k] /\ login[k].pc = "read"
BY DEF SessionInv, SessionTypeOK, Idle, NewUser, Lockout

\* A refresh request that ends.
LEMMA RefreshEnds ==
    ASSUME SessionInv, NEW r \in Refreshes, refresh' = [refresh EXCEPT ![r] = Resting]
    PROVE  /\ refresh' \in [Refreshes -> [pc : {"idle", "rotating", "reused"}, token : Nat]]
           /\ \A k \in Refreshes : refresh'[k].pc # "idle" =>
                                       refresh'[k] = refresh[k] /\ refresh[k].pc # "idle"
BY DEF SessionInv, SessionTypeOK, Resting

\* An account's row that is overwritten is still an account's row.
LEMMA RowWritten ==
    ASSUME SessionInv, NEW a \in Accounts, NEW row \in Lockout, user' = [user EXCEPT ![a] = row]
    PROVE  /\ user' \in [Accounts -> Lockout \cup {None}]
           /\ \A b \in Accounts : user[b] # None => user'[b] # None
BY DEF SessionInv, SessionTypeOK

\* Every step of every request keeps the inductive invariant.
LEMMA SessionInvStep == SessionInv /\ [SessionNext]_sessionVars => SessionInv'
<1> SUFFICES ASSUME SessionInv, [SessionNext]_sessionVars PROVE SessionInv'
  OBVIOUS
<1>1. ASSUME NEW a \in Accounts, Register(a) PROVE SessionInv'
  <2>1. StartSession(a) /\ UNCHANGED <<login, refresh, clock, late, streak>>
    BY <1>1 DEF Register
  <2>2. /\ token' \in Seq(Token)
        /\ Issued' = Issued \cup {NextToken}
        /\ FamiliesAreNamed' /\ FamilyRevokedTogether' /\ ChildrenHaveUsedParents'
    BY <2>1, StartSessionAdds
  <2>3. NewUser \in Lockout /\ user' = [user EXCEPT ![a] = NewUser]
    BY <1>1 DEF Register, NewUser, Lockout
  <2>4. /\ user' \in [Accounts -> Lockout \cup {None}]
        /\ \A b \in Accounts : user[b] # None => user'[b] # None
    BY <2>3, RowWritten
  <2>5. SessionTypeOK' /\ ReadsAreOfRows'
    BY <2>1, <2>2, <2>4 DEF SessionInv, SessionTypeOK, ReadsAreOfRows
  <2> QED
    BY <2>2, <2>5 DEF SessionInv
<1>2. ASSUME NEW l \in Logins, NEW a \in Accounts, ReadAccount(l, a) PROVE SessionInv'
  <2> DEFINE new == [pc |-> "read", account |-> a, read |-> user[a], at |-> clock]
  <2>1. /\ login' = [login EXCEPT ![l] = new]
        /\ UNCHANGED <<user, token, refresh, clock, late, streak>> /\ user[a] # None
    BY <1>2 DEF ReadAccount
  <2>2. user[a] \in Lockout /\ clock \in Nat
    BY <2>1 DEF SessionInv, SessionTypeOK
  <2>3. new \in [pc : {"idle", "read"}, account : Accounts \cup {None}, read : Lockout, at : Nat]
    BY <2>2
  <2>4. new.account = a
    OBVIOUS
  <2> HIDE DEF new
  <2>5. SessionTypeOK' /\ ReadsAreOfRows' /\ Issued' = Issued
    BY <2>1, <2>3, <2>4 DEF SessionInv, SessionTypeOK, ReadsAreOfRows, Issued
  <2> QED
    BY <2>1, <2>5, SameTokens DEF SessionInv
<1>3. ASSUME NEW l \in Logins, WrongPassword(l) PROVE SessionInv'
  <2> DEFINE a == login[l].account
             row == CountFailure(user[a], login[l].read, login[l].at)
  <2>1. /\ login[l].pc = "read" /\ login' = [login EXCEPT ![l] = Idle]
        /\ user' = [user EXCEPT ![a] = row]
        /\ streak' = [streak EXCEPT ![a] = IF Locks(login[l].read) THEN 0 ELSE @ + 1]
        /\ UNCHANGED <<token, refresh, clock, late>>
    BY <1>3 DEF WrongPassword
  <2>2. a \in Accounts /\ row \in Lockout
    BY <2>1, LoginUnderWay, LoginRowTyped
  <2> HIDE DEF row
  <2>3. /\ user' \in [Accounts -> Lockout \cup {None}]
        /\ \A b \in Accounts : user[b] # None => user'[b] # None
    BY <2>1, <2>2, RowWritten
  <2>4. streak' \in [Accounts -> Nat]
    BY <2>1, <2>2 DEF SessionInv, SessionTypeOK
  <2>5. /\ login' \in [Logins -> [pc : {"idle", "read"}, account : Accounts \cup {None},
                                 read : Lockout, at : Nat]]
        /\ \A k \in Logins : login'[k].pc = "read" => login'[k] = login[k] /\ login[k].pc = "read"
    BY <2>1, LoginEnds
  <2>6. SessionTypeOK'
    BY <2>1, <2>3, <2>4, <2>5 DEF SessionInv, SessionTypeOK
  <2>7. ReadsAreOfRows'
    BY <2>1, <2>3, <2>5 DEF SessionInv, ReadsAreOfRows, Issued
  <2> QED
    BY <2>1, <2>6, <2>7, SameTokens DEF SessionInv
<1>4. ASSUME NEW l \in Logins, RightPassword(l) PROVE SessionInv'
  <2> DEFINE a == login[l].account
             row == Reset(user[a], login[l].read)
  <2>1. /\ login[l].pc = "read" /\ login' = [login EXCEPT ![l] = Idle]
        /\ user' = [user EXCEPT ![a] = row]
        /\ streak' = [streak EXCEPT ![a] = 0]
        /\ StartSession(a)
        /\ UNCHANGED <<refresh, clock, late>>
    BY <1>4 DEF RightPassword
  <2>2. a \in Accounts /\ row \in Lockout
    BY <2>1, LoginUnderWay, LoginRowTyped
  <2> HIDE DEF row
  <2>3. /\ user' \in [Accounts -> Lockout \cup {None}]
        /\ \A b \in Accounts : user[b] # None => user'[b] # None
    BY <2>1, <2>2, RowWritten
  <2>4. streak' \in [Accounts -> Nat]
    BY <2>1, <2>2 DEF SessionInv, SessionTypeOK
  <2>5. /\ login' \in [Logins -> [pc : {"idle", "read"}, account : Accounts \cup {None},
                                 read : Lockout, at : Nat]]
        /\ \A k \in Logins : login'[k].pc = "read" => login'[k] = login[k] /\ login[k].pc = "read"
    BY <2>1, LoginEnds
  <2>6. /\ token' \in Seq(Token)
        /\ Issued' = Issued \cup {NextToken}
        /\ FamiliesAreNamed' /\ FamilyRevokedTogether' /\ ChildrenHaveUsedParents'
    BY <2>1, <2>2, StartSessionAdds
  <2>7. SessionTypeOK'
    BY <2>1, <2>3, <2>4, <2>5, <2>6 DEF SessionInv, SessionTypeOK
  <2>8. ReadsAreOfRows'
    BY <2>1, <2>3, <2>5, <2>6 DEF SessionInv, ReadsAreOfRows
  <2> QED
    BY <2>6, <2>7, <2>8 DEF SessionInv
<1>5. ASSUME NEW r \in Refreshes, NEW t \in Issued, ReadToken(r, t) PROVE SessionInv'
  <2> DEFINE new == [pc |-> IF token[t].used_at THEN "reused" ELSE "rotating", token |-> t]
  <2>1. /\ refresh' = [refresh EXCEPT ![r] = new]
        /\ UNCHANGED <<user, token, login, clock, late, streak>>
    BY <1>5 DEF ReadToken
  <2>2. new \in [pc : {"idle", "rotating", "reused"}, token : Nat] /\ new.token = t
    BY IssuedIsInterval DEF SessionInv
  <2> HIDE DEF new
  <2>3. SessionTypeOK' /\ ReadsAreOfRows'
    BY <2>1, <2>2 DEF SessionInv, SessionTypeOK, ReadsAreOfRows, Issued
  <2> QED
    BY <2>1, <2>3, SameTokens DEF SessionInv
<1>6. ASSUME NEW r \in Refreshes, RevokeReused(r) PROVE SessionInv'
  <2>1. /\ refresh' = [refresh EXCEPT ![r] = Resting]
        /\ refresh[r].token \in Issued /\ token' = RevokedFamily(refresh[r].token)
        /\ UNCHANGED <<user, login, clock, late, streak>>
    BY <1>6 DEF RevokeReused, SessionInv, ReadsAreOfRows
  <2>2. /\ token' \in Seq(Token) /\ Issued' = Issued
        /\ FamiliesAreNamed' /\ FamilyRevokedTogether' /\ ChildrenHaveUsedParents'
    BY <2>1, RevokeFamilyKeeps
  <2>3. /\ refresh' \in [Refreshes -> [pc : {"idle", "rotating", "reused"}, token : Nat]]
        /\ \A k \in Refreshes : refresh'[k].pc # "idle" =>
                                    refresh'[k] = refresh[k] /\ refresh[k].pc # "idle"
    BY <2>1, RefreshEnds
  <2>4. SessionTypeOK' /\ ReadsAreOfRows'
    BY <2>1, <2>2, <2>3 DEF SessionInv, SessionTypeOK, ReadsAreOfRows
  <2> QED
    BY <2>2, <2>4 DEF SessionInv
<1>7. ASSUME NEW r \in Refreshes, RotateToken(r) PROVE SessionInv'
  <2>1. /\ refresh' = [refresh EXCEPT ![r] = Resting]
        /\ UNCHANGED <<user, login, clock, streak>>
    BY <1>7 DEF RotateToken
  <2>2. /\ token' \in Seq(Token) /\ Issued' = Issued \cup {NextToken} /\ late' \subseteq Nat
        /\ FamiliesAreNamed' /\ FamilyRevokedTogether' /\ ChildrenHaveUsedParents'
    BY <1>7, RotationKeeps
  <2>3. /\ refresh' \in [Refreshes -> [pc : {"idle", "rotating", "reused"}, token : Nat]]
        /\ \A k \in Refreshes : refresh'[k].pc # "idle" =>
                                    refresh'[k] = refresh[k] /\ refresh[k].pc # "idle"
    BY <2>1, RefreshEnds
  <2>4. SessionTypeOK' /\ ReadsAreOfRows'
    BY <2>1, <2>2, <2>3 DEF SessionInv, SessionTypeOK, ReadsAreOfRows
  <2> QED
    BY <2>2, <2>4 DEF SessionInv
<1>8. ASSUME NEW t \in Issued, Logout(t) PROVE SessionInv'
  <2>1. token' = RevokedFamily(t) /\ UNCHANGED <<user, login, refresh, clock, late, streak>>
    BY <1>8 DEF Logout
  <2>2. /\ token' \in Seq(Token) /\ Issued' = Issued
        /\ FamiliesAreNamed' /\ FamilyRevokedTogether' /\ ChildrenHaveUsedParents'
    BY <2>1, RevokeFamilyKeeps
  <2>3. SessionTypeOK' /\ ReadsAreOfRows'
    BY <2>1, <2>2 DEF SessionInv, SessionTypeOK, ReadsAreOfRows
  <2> QED
    BY <2>2, <2>3 DEF SessionInv
<1>9. ASSUME SessionTick \/ UNCHANGED sessionVars PROVE SessionInv'
  <2>1. /\ UNCHANGED <<user, token, login, refresh, late, streak>>
        /\ clock' = clock + 1 \/ clock' = clock
    BY <1>9 DEF SessionTick, sessionVars
  <2>2. SessionTypeOK' /\ ReadsAreOfRows'
    BY <2>1 DEF SessionInv, SessionTypeOK, ReadsAreOfRows, Issued
  <2> QED
    BY <2>1, <2>2, SameTokens DEF SessionInv
<1> QED
  BY <1>1, <1>2, <1>3, <1>4, <1>5, <1>6, <1>7, <1>8, <1>9 DEF SessionNext

\* The inductive invariant holds in every reachable state.
LEMMA SessionInvHolds == SessionSpec => []SessionInv
BY SessionInvInit, SessionInvStep, PTL DEF SessionSpec

\* Type correctness of the users and refresh_tokens tables and of the requests.
THEOREM SessionTypeCorrect == SessionSpec => []SessionTypeOK
<1>1. SessionInv => SessionTypeOK
  BY DEF SessionInv
<1> QED
  BY <1>1, SessionInvHolds, PTL

\* revoke_family misses only tokens that a rotation already under way inserts
\* later, for any number of refreshes, logouts and reuse detections at once.
THEOREM FamilyRevokedTogetherThm == SessionSpec => []FamilyRevokedTogether
<1>1. SessionInv => FamilyRevokedTogether
  BY DEF SessionInv
<1> QED
  BY <1>1, SessionInvHolds, PTL

\* Rotation keeps the lineage: every child has an exchanged parent of its own
\* family and account.
THEOREM ChildrenHaveUsedParentsThm == SessionSpec => []ChildrenHaveUsedParents
<1>1. SessionInv => ChildrenHaveUsedParents
  BY DEF SessionInv
<1> QED
  BY <1>1, SessionInvHolds, PTL

\* No step of any request takes a revocation or a use back, although rotations
\* write rows they read before the revocation.
THEOREM RevocationIsFinalThm == SessionSpec => RevocationIsFinal
<1> DEFINE Final == \A t \in Issued : /\ token[t].revoked_at => token'[t].revoked_at
                                      /\ token[t].used_at => token'[t].used_at
<1>1. SessionInv /\ [SessionNext]_sessionVars => [Final]_sessionVars
  <2> SUFFICES ASSUME SessionInv, SessionNext PROVE Final
    OBVIOUS
  <2>1. ASSUME NEW a \in Accounts, StartSession(a), UNCHANGED late PROVE Final
    BY <2>1, StartSessionAdds
  <2>2. ASSUME NEW a \in Accounts, Register(a) PROVE Final
    BY <2>1, <2>2 DEF Register
  <2>3. ASSUME NEW l \in Logins, RightPassword(l) PROVE Final
    BY <2>1, <2>3, LoginUnderWay DEF RightPassword
  <2>4. ASSUME NEW r \in Refreshes, RevokeReused(r) PROVE Final
    BY <2>4, RevokeFamilyKeeps DEF RevokeReused, SessionInv, ReadsAreOfRows
  <2>5. ASSUME NEW t \in Issued, Logout(t) PROVE Final
    BY <2>5, RevokeFamilyKeeps DEF Logout
  <2>6. ASSUME NEW r \in Refreshes, RotateToken(r) PROVE Final
    BY <2>6, RotationKeeps
  <2>7. ASSUME UNCHANGED token PROVE Final
    BY <2>7
  <2> QED
    BY <2>2, <2>3, <2>4, <2>5, <2>6, <2>7
    DEF SessionNext, ReadAccount, WrongPassword, ReadToken, SessionTick
<1> QED
  BY <1>1, SessionInvHolds, PTL DEF SessionSpec, RevocationIsFinal
(***************************************************************************)
(* The lockout                                                             *)
(***************************************************************************)

\* What LockoutInv says of one account.
CountsFit(a) ==
    /\ Counter(a) \in 0..(MaxFailures - 1)
    /\ \A l \in Logins : InMind(l, a) \in 0..(MaxFailures - 1)
    /\ streak[a] <= Cardinality(Behind(a))

\* An account whose counters and streak a step leaves alone still fits.
LEMMA CountersKept ==
    ASSUME NEW a \in Accounts, CountsFit(a), Counter(a)' = Counter(a),
           \A l \in Logins : InMind(l, a)' = InMind(l, a), streak'[a] = streak[a]
    PROVE  CountsFit(a)'
<1>1. Tally(a)' = Tally(a)
  BY DEF Tally
<1>2. Behind(a)' = Behind(a)
  BY <1>1 DEF Behind
<1> QED
  BY <1>2 DEF CountsFit

\* The same in the next state: counters below the limit make a tally.
LEMMA NextTallyIsTally ==
    ASSUME NEW a \in Accounts, \A l \in Logins : InMind(l, a)' \in 0..(MaxFailures - 1)
    PROVE  /\ Tally(a)' \in AllTallies
           /\ Behind(a)' = {y \in AllTallies : Further(Tally(a)', y)}
<1> DEFINE mind == [l \in Logins |-> InMind(l, a)']
           tally(f) == [i \in 0..(MaxFailures - 1) |-> Cardinality({l \in Logins : f[l] <= i})]
<1>1. mind \in [Logins -> 0..(MaxFailures - 1)]
  OBVIOUS
<1>2. \A i : {l \in Logins : mind[l] <= i} = {l \in Logins : InMind(l, a)' <= i}
  OBVIOUS
<1>3. Tally(a)' = tally(mind)
  BY <1>2 DEF Tally
<1> HIDE DEF mind
<1>4. tally(mind) \in AllTallies
  BY <1>1, TallyIsTally
<1> QED
  BY <1>3, <1>4 DEF Behind, AllTallies

\* An account whose streak ends fits, if its counters are below the limit.
LEMMA StreakEnds ==
    ASSUME NEW a \in Accounts, Counter(a)' \in 0..(MaxFailures - 1),
           \A l \in Logins : InMind(l, a)' \in 0..(MaxFailures - 1), streak'[a] = 0
    PROVE  CountsFit(a)'
<1>1. Cardinality(Behind(a)') \in Nat
  BY NextTallyIsTally, NotAllBehind
<1> QED
  BY <1>1 DEF CountsFit

\* What the logins have in mind now is a tally.
LEMMA TallyNow ==
    ASSUME NEW a \in Accounts, \A l \in Logins : InMind(l, a) \in 0..(MaxFailures - 1)
    PROVE  /\ Tally(a) \in AllTallies
           /\ Behind(a) = {y \in AllTallies : Further(Tally(a), y)}
<1> DEFINE mind == [l \in Logins |-> InMind(l, a)]
           tally(f) == [i \in 0..(MaxFailures - 1) |-> Cardinality({l \in Logins : f[l] <= i})]
<1>1. mind \in [Logins -> 0..(MaxFailures - 1)]
  OBVIOUS
<1>2. \A i : {l \in Logins : mind[l] <= i} = {l \in Logins : InMind(l, a) <= i}
  OBVIOUS
<1>3. Tally(a) = tally(mind)
  BY <1>2 DEF Tally
<1> HIDE DEF mind
<1>4. tally(mind) \in AllTallies
  BY <1>1, TallyIsTally
<1> QED
  BY <1>3, <1>4 DEF Behind, AllTallies

\* Login request l ends and writes row, the row of its account a.
EndsWith(l, a, row) ==
    /\ login[l].pc = "read" /\ login[l].account = a
    /\ login' = [login EXCEPT ![l] = Idle] /\ user' = [user EXCEPT ![a] = row]

\* A login that ends, and writes its account's row, leaves the other accounts
\* alone; a login to the same account keeps what it has read, and the others go
\* on from the new counter.
LEMMA CountersWritten ==
    ASSUME SessionInv, NEW l \in Logins, NEW a \in Accounts, NEW row \in Lockout,
           EndsWith(l, a, row)
    PROVE  /\ \A b \in Accounts : b # a =>
                  Counter(b)' = Counter(b) /\ \A k \in Logins : InMind(k, b)' = InMind(k, b)
           /\ InMind(l, a) = login[l].read.failed_login_count
           /\ Counter(a)' = row.failed_login_count
           /\ InMind(l, a)' = row.failed_login_count
           /\ \A k \in Logins : \/ InMind(k, a)' = row.failed_login_count
                                \/ /\ k # l /\ login[k].pc = "read" /\ login[k].account = a
                                   /\ InMind(k, a)' = InMind(k, a)
<1>1. /\ login'[l].pc = "idle" /\ \A k \in Logins : k # l => login'[k] = login[k]
      /\ user'[a] = row /\ \A b \in Accounts : b # a => user'[b] = user[b]
  BY DEF EndsWith, SessionInv, SessionTypeOK, Idle
<1>2. \A b \in Accounts : b # a => Counter(b)' = Counter(b)
  BY <1>1 DEF Counter
<1>3. Counter(a)' = row.failed_login_count
  <2>1. row # None
    OBVIOUS
  <2> QED
    BY <1>1, <2>1 DEF Counter
<1>4. \A b \in Accounts : b # a => \A k \in Logins : InMind(k, b)' = InMind(k, b)
  BY <1>1, <1>2 DEF EndsWith, InMind
<1>5. InMind(l, a) = login[l].read.failed_login_count
  BY DEF EndsWith, InMind
<1>6. InMind(l, a)' = row.failed_login_count
  BY <1>1, <1>3 DEF InMind
<1>7. \A k \in Logins : \/ InMind(k, a)' = row.failed_login_count
                        \/ /\ k # l /\ login[k].pc = "read" /\ login[k].account = a
                           /\ InMind(k, a)' = InMind(k, a)
  BY <1>1, <1>3, <1>6 DEF InMind
<1> QED
  BY <1>2, <1>3, <1>4, <1>5, <1>6, <1>7

\* A wrong password that does not lock moves the tally of its account on: the
\* request that read counter v, and all that go on from the row, are past v.
LEMMA FailureMovesOn ==
    ASSUME NEW a \in Accounts, CountsFit(a), NEW l \in Logins, NEW v \in 0..(MaxFailures - 1),
           InMind(l, a) = v, InMind(l, a)' = v + 1, v + 1 < MaxFailures,
           \A k \in Logins : InMind(k, a)' = v + 1 \/ InMind(k, a)' = InMind(k, a)
    PROVE  Further(Tally(a)', Tally(a))
<1> DEFINE Old(i) == {k \in Logins : InMind(k, a) <= i}
           New(i) == {k \in Logins : InMind(k, a)' <= i}
<1>1. \A k \in Logins : InMind(k, a) \in Nat
  BY DEF CountsFit
<1>2. ASSUME NEW i \in 0..v PROVE New(i) \subseteq Old(i) /\ Old(i) \subseteq Logins
  BY <1>1
<1>3. l \in Old(v) /\ l \notin New(v)
  OBVIOUS
<1>4. /\ Tally(a) = [i \in 0..(MaxFailures - 1) |-> Cardinality(Old(i))]
      /\ Tally(a)' = [i \in 0..(MaxFailures - 1) |-> Cardinality(New(i))]
  BY DEF Tally
<1> HIDE DEF Old, New
<1>5. \A i \in 0..v : Cardinality(New(i)) <= Cardinality(Old(i))
  BY <1>2, FewerRequests
<1>6. Cardinality(New(v)) < Cardinality(Old(v))
  BY <1>2, <1>3, FewerRequests
<1>7. \A i \in 0..(v - 1) : i \in 0..v /\ i \in 0..(MaxFailures - 1)
  OBVIOUS
<1>8. /\ DOMAIN Tally(a)' = 0..(MaxFailures - 1)
      /\ \A i \in 0..(MaxFailures - 1) : /\ Tally(a)[i] = Cardinality(Old(i))
                                         /\ Tally(a)'[i] = Cardinality(New(i))
  BY <1>4
<1>9. Tally(a)'[v] < Tally(a)[v]
  BY <1>6, <1>8
<1>10. \A i \in 0..(v - 1) : Tally(a)'[i] <= Tally(a)[i]
  BY <1>5, <1>7, <1>8
<1> QED
  BY <1>8, <1>9, <1>10 DEF Further

\* A wrong password: a lockout ends the streak, any other failure leaves a tally
\* behind.
LEMMA WrongPasswordFits ==
    ASSUME SessionInv, \A b \in Accounts : CountsFit(b), NEW l \in Logins, WrongPassword(l)
    PROVE  \A b \in Accounts : CountsFit(b)'
<1>1. PICK a \in Accounts : a = login[l].account
  BY LoginUnderWay DEF WrongPassword
<1> DEFINE row == CountFailure(user[a], login[l].read, login[l].at)
           v == login[l].read.failed_login_count
<1>2. /\ login[l].pc = "read" /\ login[l].account = a
      /\ login' = [login EXCEPT ![l] = Idle]
      /\ user' = [user EXCEPT ![a] = row]
      /\ streak' = [streak EXCEPT ![a] = IF Locks(login[l].read) THEN 0 ELSE @ + 1]
  BY <1>1 DEF WrongPassword
<1>3. /\ user[a] \in Lockout /\ login[l].read \in Lockout /\ login[l].at \in Nat /\ row \in Lockout
  BY <1>1, <1>2, LoginUnderWay, LoginRowTyped
<1>4. /\ InMind(l, a) = v /\ v \in 0..(MaxFailures - 1)
      /\ \A k \in Logins : InMind(k, a) \in 0..(MaxFailures - 1)
  BY <1>2 DEF CountsFit, InMind
<1>5. row.failed_login_count = IF Locks(login[l].read) THEN 0 ELSE v + 1
  BY <1>3 DEF CountFailure, Lockout
<1>6. Locks(login[l].read) <=> v + 1 >= MaxFailures
  BY DEF Locks
<1>7. /\ streak'[a] = IF Locks(login[l].read) THEN 0 ELSE streak[a] + 1
      /\ \A b \in Accounts : b # a => streak'[b] = streak[b]
      /\ streak[a] \in Nat
  BY <1>2 DEF SessionInv, SessionTypeOK
<1> HIDE DEF row, v
<1>8. /\ \A b \in Accounts : b # a =>
             Counter(b)' = Counter(b) /\ \A k \in Logins : InMind(k, b)' = InMind(k, b)
      /\ Counter(a)' = row.failed_login_count
      /\ InMind(l, a)' = row.failed_login_count
      /\ \A k \in Logins : \/ InMind(k, a)' = row.failed_login_count
                           \/ InMind(k, a)' = InMind(k, a)
  <2>1. EndsWith(l, a, row)
    BY <1>2 DEF EndsWith
  <2> QED
    BY <1>3, <2>1, CountersWritten
<1>9. row.failed_login_count \in 0..(MaxFailures - 1)
  BY <1>4, <1>5, <1>6
<1>10. Counter(a)' \in 0..(MaxFailures - 1) /\ \A k \in Logins : InMind(k, a)' \in 0..(MaxFailures - 1)
  BY <1>4, <1>8, <1>9
<1>11. CASE Locks(login[l].read)
  <2>1. CountsFit(a)'
    BY <1>7, <1>10, <1>11, StreakEnds
  <2> QED
    BY <1>7, <1>8, <2>1, CountersKept
<1>12. CASE ~ Locks(login[l].read)
  <2>1. v + 1 < MaxFailures /\ row.failed_login_count = v + 1
    BY <1>4, <1>5, <1>6, <1>12
  <2>2. Further(Tally(a)', Tally(a))
    BY <1>4, <1>8, <2>1, FailureMovesOn
  <2>3. /\ Tally(a) \in AllTallies /\ Tally(a)' \in AllTallies
        /\ Behind(a) = {y \in AllTallies : Further(Tally(a), y)}
        /\ Behind(a)' = {y \in AllTallies : Further(Tally(a)', y)}
    BY <1>4, <1>10, TallyNow, NextTallyIsTally
  <2>4. /\ Cardinality(Behind(a)) \in Nat /\ Cardinality(Behind(a)') \in Nat
        /\ Cardinality(Behind(a)) + 1 <= Cardinality(Behind(a)')
    BY <2>2, <2>3, OneMoreBehind
  <2>5. streak[a] <= Cardinality(Behind(a)) /\ streak'[a] = streak[a] + 1
    BY <1>7, <1>12 DEF CountsFit
  <2>6. streak'[a] <= Cardinality(Behind(a)')
    BY <1>7, <2>4, <2>5
  <2>7. CountsFit(a)'
    BY <1>10, <2>6 DEF CountsFit
  <2> QED
    BY <1>7, <1>8, <2>7, CountersKept
<1> QED
  BY <1>11, <1>12

\* A right password ends the streak: it writes zero, or leaves the counter.
LEMMA RightPasswordFits ==
    ASSUME SessionInv, \A b \in Accounts : CountsFit(b), NEW l \in Logins, RightPassword(l)
    PROVE  \A b \in Accounts : CountsFit(b)'
<1>1. PICK a \in Accounts : a = login[l].account
  BY LoginUnderWay DEF RightPassword
<1> DEFINE row == Reset(user[a], login[l].read)
<1>2. /\ login[l].pc = "read" /\ login[l].account = a
      /\ login' = [login EXCEPT ![l] = Idle]
      /\ user' = [user EXCEPT ![a] = row]
      /\ streak' = [streak EXCEPT ![a] = 0]
  BY <1>1 DEF RightPassword
<1>3. user[a] \in Lockout /\ user[a] # None /\ row \in Lockout
  <2>1. user[a] \in Lockout /\ row \in Lockout
    BY <1>1, <1>2, LoginUnderWay, LoginRowTyped
  <2> QED
    BY <2>1
<1>4. row.failed_login_count = 0 \/ row.failed_login_count = Counter(a)
  BY <1>3 DEF Reset, Counter
<1>5. row.failed_login_count \in 0..(MaxFailures - 1)
  BY <1>4 DEF CountsFit
<1>6. streak'[a] = 0 /\ \A b \in Accounts : b # a => streak'[b] = streak[b]
  BY <1>2 DEF SessionInv, SessionTypeOK
<1> HIDE DEF row
<1>7. /\ \A b \in Accounts : b # a =>
             Counter(b)' = Counter(b) /\ \A k \in Logins : InMind(k, b)' = InMind(k, b)
      /\ Counter(a)' = row.failed_login_count
      /\ \A k \in Logins : \/ InMind(k, a)' = row.failed_login_count
                           \/ InMind(k, a)' = InMind(k, a)
  <2>1. EndsWith(l, a, row)
    BY <1>2 DEF EndsWith
  <2> QED
    BY <1>3, <2>1, CountersWritten
<1>8. Counter(a)' \in 0..(MaxFailures - 1) /\ \A k \in Logins : InMind(k, a)' \in 0..(MaxFailures - 1)
  BY <1>5, <1>7 DEF CountsFit
<1>9. CountsFit(a)'
  BY <1>6, <1>8, StreakEnds
<1> QED
  BY <1>6, <1>7, <1>9, CountersKept

\* Registration starts at zero, where an account without a row is counted.
LEMMA RegisterFits ==
    ASSUME SessionInv, \A b \in Accounts : CountsFit(b), NEW a \in Accounts, Register(a)
    PROVE  \A b \in Accounts : CountsFit(b)'
<1>1. /\ user[a] = None /\ user'[a] = NewUser /\ NewUser # None /\ NewUser.failed_login_count = 0
      /\ \A b \in Accounts : b # a => user'[b] = user[b]
      /\ UNCHANGED <<login, streak>>
  <2>1. NewUser \in Lockout /\ NewUser.failed_login_count = 0
    BY DEF NewUser, Lockout
  <2> QED
    BY <2>1 DEF Register, SessionInv, SessionTypeOK
<1>2. \A b \in Accounts : Counter(b)' = Counter(b)
  BY <1>1 DEF Counter
<1>3. \A b \in Accounts, k \in Logins : InMind(k, b)' = InMind(k, b)
  BY <1>1, <1>2 DEF InMind
<1> QED
  BY <1>1, <1>2, <1>3, CountersKept

\* A login that reads an account's row has the row's counter in mind, as before.
LEMMA ReadAccountFits ==
    ASSUME SessionInv, \A b \in Accounts : CountsFit(b), NEW l \in Logins, NEW a \in Accounts,
           ReadAccount(l, a)
    PROVE  \A b \in Accounts : CountsFit(b)'
<1>1. /\ login[l].pc = "idle" /\ user[a] # None /\ UNCHANGED <<user, streak>>
      /\ login' = [login EXCEPT ![l] = [pc |-> "read", account |-> a, read |-> user[a], at |-> clock]]
  BY DEF ReadAccount
<1>2. /\ login'[l].pc = "read" /\ login'[l].account = a /\ login'[l].read = user[a]
      /\ \A k \in Logins : k # l => login'[k] = login[k]
  BY <1>1 DEF SessionInv, SessionTypeOK
<1>3. \A b \in Accounts : Counter(b)' = Counter(b)
  BY <1>1 DEF Counter
<1>4. Counter(a) = user[a].failed_login_count
  BY <1>1 DEF Counter
<1>5. \A b \in Accounts, k \in Logins : InMind(k, b)' = InMind(k, b)
  BY <1>1, <1>2, <1>3, <1>4 DEF InMind
<1> QED
  BY <1>1, <1>3, <1>5, CountersKept

\* Any other step leaves the users and the logins alone.
LEMMA UntouchedCountsFit ==
    ASSUME \A b \in Accounts : CountsFit(b), UNCHANGED <<user, login, streak>>
    PROVE  \A b \in Accounts : CountsFit(b)'
<1>1. \A b \in Accounts : Counter(b)' = Counter(b)
  BY DEF Counter
<1>2. \A b \in Accounts, k \in Logins : InMind(k, b)' = InMind(k, b)
  BY <1>1 DEF InMind
<1> QED
  BY <1>1, <1>2, CountersKept

\* No request has begun.
LEMMA LockoutInvInit == SessionInit => LockoutInv
<1> SUFFICES ASSUME SessionInit, NEW a \in Accounts PROVE CountsFit(a)
  BY DEF LockoutInv, CountersBelowLimit, StreakHasRoom, CountsFit
<1>1. Counter(a) = 0 /\ \A l \in Logins : InMind(l, a) = 0
  BY DEF SessionInit, Counter, InMind, Idle
<1>2. Cardinality(Behind(a)) \in Nat
  <2>1. \A l \in Logins : InMind(l, a) \in 0..(MaxFailures - 1)
    BY <1>1
  <2> QED
    BY <2>1, TallyNow, NotAllBehind
<1>3. streak[a] = 0
  BY DEF SessionInit
<1> QED
  BY <1>1, <1>2, <1>3 DEF CountsFit

\* Every step of every request keeps the streaks behind their tallies.
LEMMA LockoutInvStep == SessionInv /\ LockoutInv /\ [SessionNext]_sessionVars => LockoutInv'
<1> SUFFICES ASSUME SessionInv, \A b \in Accounts : CountsFit(b), [SessionNext]_sessionVars
             PROVE  \A b \in Accounts : CountsFit(b)'
  BY DEF LockoutInv, CountersBelowLimit, StreakHasRoom, CountsFit
<1>1. CASE UNCHANGED <<user, login, streak>>
  BY <1>1, UntouchedCountsFit
<1> QED
  BY <1>1, RegisterFits, ReadAccountFits, WrongPasswordFits, RightPasswordFits
  DEF SessionNext, sessionVars, ReadToken, RevokeReused, RotateToken, Logout, SessionTick

\* LockoutInv holds in every reachable state.
LEMMA LockoutInvHolds == SessionSpec => []LockoutInv
BY LockoutInvInit, LockoutInvStep, SessionInvHolds, PTL DEF SessionSpec

\* However the logins of an account interleave and however many increments they
\* lose, auth.py's login locks the account after fewer wrong passwords in a row
\* than there are ways to divide the logins among the counters below the limit.
THEOREM LockoutComesInTimeThm == SessionSpec => []LockoutComesInTime
<1>1. SessionInv /\ LockoutInv => LockoutComesInTime
  <2> SUFFICES ASSUME SessionInv, LockoutInv, NEW a \in Accounts
               PROVE  streak[a] < Cardinality(AllTallies)
    BY DEF LockoutComesInTime, AllTallies
  <2>1. CountsFit(a)
    BY DEF LockoutInv, CountersBelowLimit, StreakHasRoom, CountsFit
  <2>2. /\ Cardinality(Behind(a)) \in Nat /\ Cardinality(AllTallies) \in Nat
        /\ Cardinality(Behind(a)) < Cardinality(AllTallies)
    BY <2>1, TallyNow, NotAllBehind DEF CountsFit
  <2>3. streak[a] \in Nat /\ streak[a] <= Cardinality(Behind(a))
    BY <2>1 DEF SessionInv, SessionTypeOK, CountsFit
  <2> QED
    BY <2>2, <2>3
<1> QED
  BY <1>1, SessionInvHolds, LockoutInvHolds, PTL

\* As long as the logins to a come one at a time, none of them has lost sight of
\* the counter, which has counted the whole streak.
NothingLost(a) ==
    /\ streak[a] <= Counter(a)
    /\ \A l \in Logins : InMind(l, a) = Counter(a)

\* A login to a ends with nobody else between read and write: it writes on from
\* the counter, and the others see what it wrote.
LEMMA NothingLostAtEnd ==
    ASSUME SessionInv, NEW a \in Accounts, CountsFit(a), NothingLost(a), OneLoginAtATime(a),
           NEW l \in Logins, login[l].pc = "read", login[l].account = a,
           WrongPassword(l) \/ RightPassword(l)
    PROVE  NothingLost(a)'
<1> DEFINE wrong == CountFailure(user[a], login[l].read, login[l].at)
           right == Reset(user[a], login[l].read)
           v == login[l].read.failed_login_count
<1>1. /\ user[a] \in Lockout /\ login[l].read \in Lockout
      /\ wrong \in Lockout /\ right \in Lockout /\ v \in Nat /\ streak[a] \in Nat
  <2>1. /\ user[a] \in Lockout /\ login[l].read \in Lockout /\ wrong \in Lockout /\ right \in Lockout
    BY LoginUnderWay, LoginRowTyped
  <2> QED
    BY <2>1 DEF Lockout, SessionInv, SessionTypeOK
<1>2. login' = [login EXCEPT ![l] = Idle]
  BY DEF WrongPassword, RightPassword
<1>3. ASSUME NEW row \in Lockout, user' = [user EXCEPT ![a] = row]
      PROVE  Counter(a)' = row.failed_login_count /\ \A k \in Logins : InMind(k, a)' = Counter(a)'
  <2>1. EndsWith(l, a, row)
    BY <1>2, <1>3 DEF EndsWith
  <2>2. /\ Counter(a)' = row.failed_login_count
        /\ \A k \in Logins : \/ InMind(k, a)' = row.failed_login_count
                             \/ k # l /\ login[k].pc = "read" /\ login[k].account = a
    BY <2>1, CountersWritten
  <2>3. \A k \in Logins : login[k].pc = "read" /\ login[k].account = a => k = l
    BY DEF OneLoginAtATime
  <2> QED
    BY <2>2, <2>3
<1>4. v = Counter(a) /\ streak[a] <= v
  BY DEF NothingLost, InMind
<1>5. CASE WrongPassword(l)
  <2>1. /\ user' = [user EXCEPT ![a] = wrong]
        /\ streak'[a] = IF Locks(login[l].read) THEN 0 ELSE streak[a] + 1
    BY <1>5 DEF WrongPassword, SessionInv, SessionTypeOK
  <2>2. wrong.failed_login_count = IF Locks(login[l].read) THEN 0 ELSE v + 1
    BY <1>1 DEF CountFailure, Lockout
  <2> HIDE DEF wrong, v
  <2>3. Counter(a)' = wrong.failed_login_count /\ \A k \in Logins : InMind(k, a)' = Counter(a)'
    BY <1>1, <1>3, <2>1
  <2>4. streak'[a] <= Counter(a)'
    BY <1>1, <1>4, <2>1, <2>2, <2>3
  <2> QED
    BY <2>3, <2>4 DEF NothingLost
<1>6. CASE RightPassword(l)
  <2>1. user' = [user EXCEPT ![a] = right] /\ streak'[a] = 0
    BY <1>6 DEF RightPassword, SessionInv, SessionTypeOK
  <2>2. right.failed_login_count \in Nat
    BY <1>1 DEF Lockout
  <2> HIDE DEF right, v
  <2>3. Counter(a)' = right.failed_login_count /\ \A k \in Logins : InMind(k, a)' = Counter(a)'
    BY <1>1, <1>3, <2>1
  <2> QED
    BY <2>1, <2>2, <2>3 DEF NothingLost
<1> QED
  BY <1>5, <1>6

\* Any other step leaves the counter of a's row, and those in mind, as they are.
LEMMA OthersLeaveCounters ==
    ASSUME SessionInv, [SessionNext]_sessionVars, NEW a \in Accounts,
           \A l \in Logins : login[l].pc = "read" /\ login[l].account = a =>
                                 ~ (WrongPassword(l) \/ RightPassword(l))
    PROVE  /\ streak'[a] = streak[a] /\ Counter(a)' = Counter(a)
           /\ \A k \in Logins : InMind(k, a)' = InMind(k, a)
<1> DEFINE Same == /\ streak'[a] = streak[a] /\ Counter(a)' = Counter(a)
                   /\ \A k \in Logins : InMind(k, a)' = InMind(k, a)
<1>1. CASE UNCHANGED <<user, login, streak>>
  <2>1. Counter(a)' = Counter(a)
    BY <1>1 DEF Counter
  <2> QED
    BY <1>1, <2>1 DEF InMind
<1>2. ASSUME NEW b \in Accounts, Register(b) PROVE Same
  <2>1. /\ user[b] = None /\ user'[b] = NewUser /\ NewUser # None /\ NewUser.failed_login_count = 0
        /\ a # b => user'[a] = user[a]
        /\ UNCHANGED <<login, streak>>
    <3>1. NewUser \in Lockout /\ NewUser.failed_login_count = 0
      BY DEF NewUser, Lockout
    <3> QED
      BY <1>2, <3>1 DEF Register, SessionInv, SessionTypeOK
  <2>2. Counter(a)' = Counter(a)
    BY <2>1 DEF Counter
  <2> QED
    BY <2>1, <2>2 DEF InMind
<1>3. ASSUME NEW l \in Logins, NEW b \in Accounts, ReadAccount(l, b) PROVE Same
  <2>1. /\ login[l].pc = "idle" /\ user[b] # None /\ UNCHANGED <<user, streak>>
        /\ login'[l].pc = "read" /\ login'[l].account = b /\ login'[l].read = user[b]
        /\ \A k \in Logins : k # l => login'[k] = login[k]
    BY <1>3 DEF ReadAccount, SessionInv, SessionTypeOK
  <2>2. Counter(a)' = Counter(a) /\ Counter(b) = user[b].failed_login_count
    BY <2>1 DEF Counter
  <2> QED
    BY <2>1, <2>2 DEF InMind
<1>4. ASSUME NEW l \in Logins, WrongPassword(l) \/ RightPassword(l) PROVE Same
  <2>1. login[l].pc = "read" /\ login' = [login EXCEPT ![l] = Idle]
    BY <1>4 DEF WrongPassword, RightPassword
  <2>2. PICK b \in Accounts : b = login[l].account
    BY <2>1, LoginUnderWay
  <2>3. PICK row \in Lockout : user' = [user EXCEPT ![b] = row]
    BY <1>4, <2>1, <2>2, LoginUnderWay, LoginRowTyped DEF WrongPassword, RightPassword
  <2>4. a # b
    BY <1>4, <2>1, <2>2
  <2>5. streak'[a] = streak[a]
    BY <1>4, <2>2, <2>4 DEF WrongPassword, RightPassword, SessionInv, SessionTypeOK
  <2>6. Counter(a)' = Counter(a) /\ \A k \in Logins : InMind(k, a)' = InMind(k, a)
    <3>1. EndsWith(l, b, row)
      BY <2>1, <2>2, <2>3 DEF EndsWith
    <3>2. \A c \in Accounts : c # b =>
              Counter(c)' = Counter(c) /\ \A k \in Logins : InMind(k, c)' = InMind(k, c)
      BY <3>1, CountersWritten
    <3> QED
      BY <2>4, <3>2
  <2> QED
    BY <2>5, <2>6
<1> QED
  BY <1>1, <1>2, <1>3, <1>4
  DEF SessionNext, sessionVars, ReadToken, RevokeReused, RotateToken, Logout, SessionTick

\* SECURITY.md's "per-account lockout after 5 failures": with its logins one at a
\* time an account is locked by the wrong password that login_max_failures names,
\* whatever the logins of other accounts, refreshes, logouts and the clock do.
THEOREM LockoutIsPunctualThm == SessionSpec => LockoutIsPunctual
<1>1. ASSUME NEW a \in Accounts
      PROVE  SessionSpec => LockoutPunctualFor(a)
  <2>1. SessionInit => NothingLost(a)
    BY DEF SessionInit, NothingLost, Counter, InMind, Idle
  <2>2. /\ OneLoginAtATime(a) /\ SessionInv /\ LockoutInv /\ NothingLost(a)
        /\ [SessionNext]_sessionVars
        => NothingLost(a)'
    <3> SUFFICES ASSUME OneLoginAtATime(a), SessionInv, LockoutInv, NothingLost(a),
                        [SessionNext]_sessionVars
                 PROVE  NothingLost(a)'
      OBVIOUS
    <3>1. CountsFit(a)
      BY DEF LockoutInv, CountersBelowLimit, StreakHasRoom, CountsFit
    <3>2. CASE \E l \in Logins : /\ login[l].pc = "read" /\ login[l].account = a
                                 /\ WrongPassword(l) \/ RightPassword(l)
      BY <3>1, <3>2, NothingLostAtEnd
    <3>3. CASE \A l \in Logins : login[l].pc = "read" /\ login[l].account = a =>
                                     ~ (WrongPassword(l) \/ RightPassword(l))
      BY <3>3, OthersLeaveCounters DEF NothingLost
    <3> QED
      BY <3>2, <3>3
  <2>3. SessionInv /\ LockoutInv /\ NothingLost(a) => streak[a] < MaxFailures
    BY DEF SessionInv, SessionTypeOK, LockoutInv, CountersBelowLimit, NothingLost
  <2> QED
    BY <2>1, <2>2, <2>3, SessionInvHolds, LockoutInvHolds, PTL DEF SessionSpec, LockoutPunctualFor
<1> QED
  BY <1>1 DEF LockoutIsPunctual
============================================================================
