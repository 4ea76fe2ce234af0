--------------------------- MODULE MCCancellation ---------------------------
(***************************************************************************)
(* One seat, two customers, and requests that cancel or amend a booking.   *)
(***************************************************************************)
EXTENDS Cancellation, TLC

CONSTANTS u1, u2, s1, b1, b2, k1, k2

TwoBuyers == b1 :> u1 @@ b2 :> u2
OwnKeys   == b1 :> k1 @@ b2 :> k2
OneFlight == s1 :> "AC101"
============================================================================
