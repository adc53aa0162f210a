---------------------------- MODULE VoucherBook ----------------------------
(***************************************************************************)
(* What a voucher with a usage limit promises, with no stores, handlers or *)
(* money in it: a count of uses taken that stays within the limit, and     *)
(* covers at every moment the checkouts that hold the voucher or have used *)
(* it.  A use that is recorded stays recorded until it is refunded, and a  *)
(* refund is final.                                                        *)
(*                                                                         *)
(* MarketCheckout implements this specification in its orderly behaviours  *)
(* (MarketCheckoutBook!Book).                                              *)
(***************************************************************************)
EXTENDS Naturals, FiniteSets

CONSTANTS Checkouts, UsageLimit

VARIABLES
    claim,  \* claim[c]: what checkout c has of the voucher
    taken   \* the uses taken from the limit, for a checkout or on the way to one

bookVars == <<claim, taken>>

Standing == {c \in Checkouts : claim[c] \in {"held", "used"}}
Spare    == Cardinality(Standing) < taken

Becomes(c, k) == claim' = [claim EXCEPT ![c] = k]

BookInit ==
    /\ claim = [c \in Checkouts |-> "none"]
    /\ taken = 0

Take ==
    /\ taken < UsageLimit
    /\ taken' = taken + 1
    /\ UNCHANGED claim

GiveBack ==
    /\ Spare
    /\ taken' = taken - 1
    /\ UNCHANGED claim

(* A checkout holds the voucher or uses it on a use that was taken before. *)
Hold(c) ==
    /\ claim[c] = "none" /\ Spare
    /\ Becomes(c, "held")
    /\ UNCHANGED taken

Redeem(c) ==
    /\ claim[c] = "held" \/ (claim[c] = "none" /\ Spare)
    /\ Becomes(c, "used")
    /\ UNCHANGED taken

(* A hold ends with its use given back, or left to whoever ended it.       *)
Drop(c) ==
    /\ claim[c] = "held"
    /\ Becomes(c, "none")
    /\ taken' \in {taken, taken - 1}

Refund(c) ==
    /\ claim[c] = "used"
    /\ Becomes(c, "refunded")
    /\ UNCHANGED taken

BookNext ==
    \/ Take \/ GiveBack
    \/ \E c \in Checkouts : Hold(c) \/ Redeem(c) \/ Drop(c) \/ Refund(c)

BookSpec == BookInit /\ [][BookNext]_bookVars
=============================================================================
