--------------------------- MODULE MCCardVelocity ---------------------------
\* A card is used twice, by one customer or by two; then the first customer
\* pays with another card.
EXTENDS CardVelocity

CONSTANTS u1, u2, k1, k2, i1

CardsInTurn ==
    LET First == [user |-> u1, ip |-> i1, card |-> k1, small |-> TRUE]
    IN  << {First},
           {First, [user |-> u2, ip |-> i1, card |-> k1, small |-> FALSE]},
           {[user |-> u1, ip |-> None, card |-> k2, small |-> FALSE]} >>
=============================================================================
