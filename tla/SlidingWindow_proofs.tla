------------------------ MODULE SlidingWindow_proofs ------------------------
(***************************************************************************)
(* What a sliding window keeps, for any members, scores and width.         *)
(***************************************************************************)
EXTENDS SlidingWindow, TLAPS

\* No recent entry is forgotten: let scores be at most delay older than the times
\* they were added, and the window hold what was added within its width, less the
\* delay; then the trim of any command that runs now, under a reading at most
\* delay old, leaves all of that in.
LEMMA TrimKeepsRecent ==
    ASSUME NEW zset, NEW log, NEW now \in Nat, NEW t \in Int, NEW width \in Nat, NEW delay \in Nat,
           t <= now,
           \A x \in DOMAIN log : log[x] \in Int,
           \A x \in DOMAIN zset : zset[x] \in (log[x] - delay)..log[x],
           DOMAIN zset \subseteq DOMAIN log,
           {x \in DOMAIN log : log[x] > now - (width - delay)} \subseteq DOMAIN zset
    PROVE  {x \in DOMAIN log : log[x] > now - (width - delay)}
             \subseteq {x \in DOMAIN zset : zset[x] > t - width}
<1> SUFFICES ASSUME NEW x \in DOMAIN log, log[x] > now - (width - delay)
             PROVE  x \in DOMAIN zset /\ zset[x] > t - width
  OBVIOUS
<1>1. x \in DOMAIN zset /\ log[x] \in Int /\ zset[x] \in (log[x] - delay)..log[x]
  OBVIOUS
<1> QED
  BY <1>1
=============================================================================
