------------------------------ MODULE Sessions ------------------------------
(***************************************************************************)
(* Sessions and login lockout: the users and refresh_tokens tables as      *)
(* app/api/auth.py and app/security/tokens.py read and write them.         *)
(*                                                                         *)
(* A login and a refresh read their row without a lock, decide in Python   *)
(* and write at commit, so each is two steps with other requests in        *)
(* between.  The ORM writes only the columns whose value it changed.       *)
(***************************************************************************)
EXTENDS Naturals, Sequences, FiniteSets

CONSTANTS
    None,
    Accounts,       \* e-mail addresses
    Logins,         \* login requests that may be under way at once
    Refreshes,      \* refresh requests that may be under way at once
    MaxFailures,    \* settings.login_max_failures
    LockoutTime,    \* settings.login_lockout_seconds
    RefreshTTL,     \* settings.refresh_token_ttl_seconds
    MaxTokens,      \* bound: refresh tokens ever issued
    MaxTime         \* bound: the clock stops here

\* The lockout columns of a users row.
Lockout == [failed_login_count : Nat, locked_until : Nat \cup {None}]

ASSUME SessionAssumption ==
    /\ MaxFailures \in Nat \ {0}
    /\ LockoutTime \in Nat \ {0}
    /\ RefreshTTL \in Nat \ {0}
    /\ MaxTokens \in Nat /\ MaxTime \in Nat
    /\ IsFiniteSet(Logins)
    /\ None \notin Accounts \cup Nat \cup Lockout

VARIABLES
    user,       \* user[a]: lockout columns of a's row, None before it registers
    token,      \* the refresh_tokens rows, in the order they were issued
    login,      \* login[l]: what login request l has read
    refresh,    \* refresh[r]: what refresh request r has read
    clock,      \* the host's clock
    late,       \* history: tokens issued into a family that had been revoked
    streak      \* history: wrong passwords since a's last success or lockout

sessionVars == <<user, token, login, refresh, clock, late, streak>>

NewUser == [failed_login_count |-> 0, locked_until |-> None]

\* A family is named by its first token; revoked_reason is not kept.
Token ==
    [family : Nat, user : Accounts, parent : Nat \cup {None},
     used_at : BOOLEAN, revoked_at : BOOLEAN, expires_at : Nat]

Idle == [pc |-> "idle", account |-> None, read |-> NewUser, at |-> 0]
Resting == [pc |-> "idle", token |-> 0]

Issued == DOMAIN token
Family(f) == {t \in Issued : token[t].family = f}

SessionInit ==
    /\ user = [a \in Accounts |-> None]
    /\ token = <<>>
    /\ login = [l \in Logins |-> Idle]
    /\ refresh = [r \in Refreshes |-> Resting]
    /\ clock = 0
    /\ late = {}
    /\ streak = [a \in Accounts |-> 0]

(***************************************************************************)
(* Refresh tokens                                                          *)
(***************************************************************************)

\* issue_refresh_token: a new family, or a child in its parent's.
NewToken(a, family, parent) ==
    [family |-> family, user |-> a, parent |-> parent,
     used_at |-> FALSE, revoked_at |-> FALSE, expires_at |-> clock + RefreshTTL]

NextToken == Len(token) + 1

StartSession(a) ==
    /\ NextToken <= MaxTokens
    /\ token' = Append(token, NewToken(a, NextToken, None))

\* Mutant of RevokedFamily: the presented token alone is revoked.
RevokedAlone(t) == [token EXCEPT ![t].revoked_at = TRUE]

\* revoke_family: the table after the UPDATE, which sees committed rows only.
RevokedFamily(t) ==
    [u \in Issued |->
        IF u \in Family(token[t].family) THEN [token[u] EXCEPT !.revoked_at = TRUE]
        ELSE token[u]]

\* rotate_refresh_token, the SELECT: unknown, revoked and expired tokens are
\* refused and nothing is written.
ReadToken(r, t) ==
    /\ refresh[r].pc = "idle"
    /\ ~ token[t].revoked_at
    /\ token[t].used_at \/ token[t].expires_at > clock
    /\ refresh' = [refresh EXCEPT ![r] = [pc |-> IF token[t].used_at THEN "reused" ELSE "rotating",
                                          token |-> t]]
    /\ UNCHANGED <<user, token, login, clock, late, streak>>

\* The token had been exchanged before: its family is revoked and committed.
RevokeReused(r) ==
    /\ refresh[r].pc = "reused"
    /\ token' = RevokedFamily(refresh[r].token)
    /\ refresh' = [refresh EXCEPT ![r] = Resting]
    /\ UNCHANGED <<user, login, clock, late, streak>>

\* Mutant of Exchanged: the ORM writes back the whole row it has read.
ExchangedWholeRow(row) == [row EXCEPT !.used_at = TRUE, !.revoked_at = FALSE]

\* used_at is the only column of the parent that changed.
Exchanged(row) == [row EXCEPT !.used_at = TRUE]

\* Mutant of RotateToken: family_id is not passed on, so the child has its own.
RotateIntoNewFamily(r) ==
    LET t == refresh[r].token IN
    /\ refresh[r].pc = "rotating"
    /\ NextToken <= MaxTokens
    /\ token' = Append([token EXCEPT ![t] = Exchanged(token[t])],
                       NewToken(token[t].user, NextToken, t))
    /\ refresh' = [refresh EXCEPT ![r] = Resting]
    /\ UNCHANGED <<user, login, clock, late, streak>>

\* refresh_tokens' commit: the parent is used up and the child inserted, whatever
\* became of the parent since it was read.
RotateToken(r) ==
    LET t == refresh[r].token IN
    /\ refresh[r].pc = "rotating"
    /\ NextToken <= MaxTokens
    /\ token' = Append([token EXCEPT ![t] = Exchanged(token[t])],
                       NewToken(token[t].user, token[t].family, t))
    /\ late' = IF \E u \in Family(token[t].family) : token[u].revoked_at
               THEN late \cup {NextToken} ELSE late
    /\ refresh' = [refresh EXCEPT ![r] = Resting]
    /\ UNCHANGED <<user, login, clock, streak>>

\* logout: whoever presents a token of the family ends all of it.
Logout(t) ==
    /\ token' = RevokedFamily(t)
    /\ UNCHANGED <<user, login, refresh, clock, late, streak>>

(***************************************************************************)
(* Accounts                                                                *)
(***************************************************************************)

\* register: a second row with the same e-mail is refused by its unique index.
Register(a) ==
    /\ user[a] = None
    /\ user' = [user EXCEPT ![a] = NewUser]
    /\ StartSession(a)
    /\ UNCHANGED <<login, refresh, clock, late, streak>>

IsLocked(row) == row.locked_until # None /\ row.locked_until > clock

\* login, the SELECT: an unknown or a locked account is refused.
ReadAccount(l, a) ==
    /\ login[l].pc = "idle"
    /\ user[a] # None
    /\ ~ IsLocked(user[a])
    /\ login' = [login EXCEPT ![l] = [pc |-> "read", account |-> a, read |-> user[a], at |-> clock]]
    /\ UNCHANGED <<user, token, refresh, clock, late, streak>>

\* This failure is the one that locks the account.
Locks(row) == row.failed_login_count + 1 >= MaxFailures

\* Mutant of CountFailure: the counter that was read is written back unchanged.
CountNothing(row, read, at) ==
    IF Locks(read)
    THEN [row EXCEPT !.failed_login_count = 0, !.locked_until = at + LockoutTime]
    ELSE [row EXCEPT !.failed_login_count = read.failed_login_count]

\* The row after a wrong password: read + 1, or a lockout that starts from zero.
CountFailure(row, read, at) ==
    IF Locks(read)
    THEN [row EXCEPT !.failed_login_count = 0, !.locked_until = at + LockoutTime]
    ELSE [row EXCEPT !.failed_login_count = read.failed_login_count + 1]

WrongPassword(l) ==
    LET a == login[l].account IN
    /\ login[l].pc = "read"
    /\ user' = [user EXCEPT ![a] = CountFailure(@, login[l].read, login[l].at)]
    /\ streak' = [streak EXCEPT ![a] = IF Locks(login[l].read) THEN 0 ELSE @ + 1]
    /\ login' = [login EXCEPT ![l] = Idle]
    /\ UNCHANGED <<token, refresh, clock, late>>

\* Mutant of Reset: both columns are set to NULL.
ResetToNull(row, read) ==
    [failed_login_count |-> IF read.failed_login_count = 0 THEN row.failed_login_count ELSE None,
     locked_until       |-> IF read.locked_until = None THEN row.locked_until ELSE None]

\* The columns a success resets: those that were not at rest when they were read.
Reset(row, read) ==
    [failed_login_count |-> IF read.failed_login_count = 0 THEN row.failed_login_count ELSE 0,
     locked_until       |-> IF read.locked_until = None THEN row.locked_until ELSE None]

RightPassword(l) ==
    LET a == login[l].account IN
    /\ login[l].pc = "read"
    /\ user' = [user EXCEPT ![a] = Reset(@, login[l].read)]
    /\ streak' = [streak EXCEPT ![a] = 0]
    /\ StartSession(a)
    /\ login' = [login EXCEPT ![l] = Idle]
    /\ UNCHANGED <<refresh, clock, late>>

SessionTick ==
    /\ clock < MaxTime
    /\ clock' = clock + 1
    /\ UNCHANGED <<user, token, login, refresh, late, streak>>

SessionNext ==
    \/ \E a \in Accounts : Register(a)
    \/ \E l \in Logins :
           \/ \E a \in Accounts : ReadAccount(l, a)
           \/ WrongPassword(l)
           \/ RightPassword(l)
    \/ \E r \in Refreshes :
           \/ \E t \in Issued : ReadToken(r, t)
           \/ RevokeReused(r)
           \/ RotateToken(r)
    \/ \E t \in Issued : Logout(t)
    \/ SessionTick

SessionSpec == SessionInit /\ [][SessionNext]_sessionVars

(***************************************************************************)
(* Properties                                                              *)
(***************************************************************************)

\* Type invariant: columns, requests and history have their types.
SessionTypeOK ==
    /\ user \in [Accounts -> Lockout \cup {None}]
    /\ token \in Seq(Token)
    /\ login \in [Logins -> [pc : {"idle", "read"}, account : Accounts \cup {None},
                             read : Lockout, at : Nat]]
    /\ refresh \in [Refreshes -> [pc : {"idle", "rotating", "reused"}, token : Nat]]
    /\ clock \in Nat
    /\ late \subseteq Nat
    /\ streak \in [Accounts -> Nat]

\* A family is revoked together, by logout and by reuse detection alike: the
\* only tokens of a revoked family that are not revoked were issued later, by
\* rotations that had read their token before the revocation, and by theirs.
FamilyRevokedTogether ==
    \A t, u \in Issued :
        /\ token[t].family = token[u].family
        /\ token[t].revoked_at
        /\ ~ token[u].revoked_at
        => u \in late

\* Being used and being revoked are final: a rotation that commits after a
\* logout or a reuse detection it did not see takes nothing of it back.
RevocationIsFinal ==
    [][\A t \in Issued :
           /\ token[t].revoked_at => token'[t].revoked_at
           /\ token[t].used_at => token'[t].used_at]_sessionVars

\* Every child hangs under an exchanged token of its own family and account, so
\* the family reaches each token that rotation ever made of a login.
ChildrenHaveUsedParents ==
    \A t \in Issued :
        IF token[t].parent = None
        THEN token[t].family = t
        ELSE LET p == token[t].parent IN
             /\ p \in Issued /\ p < t
             /\ token[p].used_at
             /\ token[p].family = token[t].family
             /\ token[p].user = token[t].user

\* The ways to divide k counters below m: n[i] of them are at most i.  Each wrong
\* password moves the counters that the k logins have in mind up through these.
Tallies(m, k) ==
    {n \in [0..(m - 1) -> 0..k] :
        /\ n[m - 1] = k
        /\ \A i, j \in 0..(m - 1) : i <= j => n[i] <= n[j]}

\* Lost increments delay the lockout but cannot put it off: SECURITY.md's "neither
\* ... gets unbounded guesses", with the bound that concurrency makes of it.
LockoutComesInTime ==
    \A a \in Accounts : streak[a] < Cardinality(Tallies(MaxFailures, Cardinality(Logins)))

\* No two login requests to account a are between their read and their write.
OneLoginAtATime(a) ==
    \A k, l \in Logins :
        (/\ login[k].pc = "read" /\ login[k].account = a
         /\ login[l].pc = "read" /\ login[l].account = a)
          => k = l

LockoutPunctualFor(a) == []OneLoginAtATime(a) => [](streak[a] < MaxFailures)

\* An account whose logins come one at a time is locked by the wrong password that
\* settings.login_max_failures names, whatever other accounts' logins do.
LockoutIsPunctual == \A a \in Accounts : LockoutPunctualFor(a)

(***************************************************************************)
(* The inductive invariant behind all but LockoutComesInTime               *)
(***************************************************************************)

\* What a request under way has read is there: rows are never deleted.
ReadsAreOfRows ==
    /\ \A r \in Refreshes : refresh[r].pc # "idle" => refresh[r].token \in Issued
    /\ \A l \in Logins : login[l].pc = "read" =>
           login[l].account \in Accounts /\ user[login[l].account] # None

\* A family's name is taken: the next session starts a family of its own.
FamiliesAreNamed == \A t \in Issued : token[t].family \in Issued

SessionInv ==
    /\ SessionTypeOK
    /\ ReadsAreOfRows
    /\ FamiliesAreNamed
    /\ FamilyRevokedTogether
    /\ ChildrenHaveUsedParents

(***************************************************************************)
(* The inductive invariant behind LockoutComesInTime                       *)
(***************************************************************************)

\* The counter of a's row.
Counter(a) == IF user[a] = None THEN 0 ELSE user[a].failed_login_count

\* The counter that request l writes on from if it is, or comes to be, a login to a.
InMind(l, a) ==
    IF login[l].pc = "read" /\ login[l].account = a THEN login[l].read.failed_login_count
    ELSE Counter(a)

\* The counter that reaches the limit locks the account and starts from zero.
CountersBelowLimit ==
    \A a \in Accounts :
        /\ Counter(a) \in 0..(MaxFailures - 1)
        /\ \A l \in Logins : InMind(l, a) \in 0..(MaxFailures - 1)

Tally(a) == [i \in 0..(MaxFailures - 1) |-> Cardinality({l \in Logins : InMind(l, a) <= i})]

\* Tally n is past old: fewer logins are at v or below, and no more are at any
\* lower value.
Further(n, old) ==
    \E v \in DOMAIN n : n[v] < old[v] /\ \A i \in 0..(v - 1) : n[i] <= old[i]

\* The tallies a's logins have left behind.
Behind(a) == {old \in Tallies(MaxFailures, Cardinality(Logins)) : Further(Tally(a), old)}

\* Every wrong password since the last success or lockout left one behind.
StreakHasRoom == \A a \in Accounts : streak[a] <= Cardinality(Behind(a))

LockoutInv == CountersBelowLimit /\ StreakHasRoom
============================================================================
