--------------------------- MODULE MCBookingSaga ---------------------------
(***************************************************************************)
(* Two checkouts of two customers, or of one, over one or two seats.       *)
(***************************************************************************)
EXTENDS BookingSagaProps, TLC

CONSTANTS u1, u2, s1, s2, b1, b2, k1, k2

TwoBuyers == b1 :> u1 @@ b2 :> u2
OneBuyer  == b1 :> u1 @@ b2 :> u1
OwnKeys   == b1 :> k1 @@ b2 :> k2
SameKey   == b1 :> k1 @@ b2 :> k1
OneFlight == s1 :> "AC101" @@ s2 :> "AC101"
============================================================================
