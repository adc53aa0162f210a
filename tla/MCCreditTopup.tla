--------------------------- MODULE MCCreditTopup ---------------------------
(***************************************************************************)
(* Small instances of CreditTopup for TLC.                                 *)
(***************************************************************************)
EXTENDS CreditTopup, TLC

CONSTANTS i1, i2, a1, d1, d2

OneAccount == [i \in Intents |-> a1]

(* Amounts whose sums differ, so that a credit of the wrong intent shows. *)
TwoAmounts == [i \in Intents |-> IF i = i1 THEN 1 ELSE 2]

Symmetric == Permutations(Deliveries)
=============================================================================
