--------------------------- MODULE SlidingWindow ---------------------------
(***************************************************************************)
(* The sliding window that app/security/ratelimit.py and                   *)
(* app/security/carding.py keep in a Redis sorted set: a function from     *)
(* members to scores, the host's clock readings.                           *)
(***************************************************************************)
EXTENDS Integers

EmptyWindow == [m \in {} |-> 0]

\* Mutant of Trimmed: ZREMRANGEBYSCORE key 0 (cutoff, the bound left out.
TrimmedBelow(zset, cutoff) == [m \in {x \in DOMAIN zset : zset[x] >= cutoff} |-> zset[m]]

\* ZREMRANGEBYSCORE key 0 cutoff
Trimmed(zset, cutoff) == [m \in {x \in DOMAIN zset : zset[x] > cutoff} |-> zset[m]]

\* Mutant of Added: ZADD NX, a member that is there keeps its score.
AddedOnce(zset, m, t) ==
    [x \in DOMAIN zset \cup {m} |-> IF x \in DOMAIN zset THEN zset[x] ELSE t]

\* ZADD key {m: t}: a member that is there takes the new score.
Added(zset, m, t) ==
    [x \in DOMAIN zset \cup {m} |-> IF x = m THEN t ELSE zset[x]]

\* One MULTI/EXEC of trim and add, the host's clock having read t.
Touched(zset, m, t, width) == Added(Trimmed(zset, t - width), m, t)

\* History: the log of when Redis last added each member.
Logged(log, m, now) == [x \in DOMAIN log \cup {m} |-> IF x = m THEN now ELSE log[x]]

\* The clock readings a command that runs now may carry: taken after the
\* request's previous step, and at most delay ago.
Readings(since, now, delay) == {t \in since..now : now - t <= delay}
=============================================================================
