-------------------------- MODULE MCMarketCheckout --------------------------
(* Instances of MarketCheckout for TLC.                                       *)
EXTENDS MarketCheckoutBook, TLC

CONSTANTS c1, c2, p1, p2, ann, r1, r2, b1

OneOwner  == [c \in Checkouts |-> ann]

Alike == Permutations({c1, c2})
=============================================================================
