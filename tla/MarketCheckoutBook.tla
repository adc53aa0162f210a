------------------------- MODULE MarketCheckoutBook -------------------------
(***************************************************************************)
(* What orderly behaviours of the checkouts promise: the voucher is kept   *)
(* like VoucherBook's, and a checkout that shows its money paid or         *)
(* returned has its orders settled and its discount recorded, or a handler *)
(* at work on it.                                                          *)
(***************************************************************************)
EXTENDS MarketCheckoutCounts

(* What checkout c has of the voucher: the claim's row once it is used, and *)
(* the reservation D1 shows until somebody gives it back.                   *)
ClaimOf(c) ==
    CASE usage[c][ClaimPart] = "active"   -> "used"
      [] usage[c][ClaimPart] = "refunded" -> "refunded"
      [] OTHER -> IF Reserving(c) THEN "held" ELSE "none"
ClaimsNow == [c \in Checkouts |-> ClaimOf(c)]

Book == INSTANCE VoucherBook WITH claim <- ClaimsNow, taken <- used

(* Most steps leave the book alone, which is quick to see.                  *)
StepOfBook == UNCHANGED <<ClaimsNow, used>> \/ Book!BookNext

(* As long as no disorder has happened, every step of every handler is a    *)
(* step of the book: used_count stays within the limit and covers, between  *)
(* any two calls, the checkouts that hold the voucher or used it.           *)
ImplementsVoucherBook ==
    /\ Book!BookInit
    /\ [][Orderly' => StepOfBook]_<<ClaimsNow, used>>

-----------------------------------------------------------------------------
(* Who is bringing the money to the orders of a checkout.                   *)
Settling(j) ==
    \/ j.op = "pay" /\ j.at \in {"persist", "upsert"} /\ j.sess.pay = "paid"
    \/ j.at \in {"session", "cached", "putBack"} /\ j.status = "paid"
    \/ j.at = "settle"

(* ... back from them ...                                                   *)
Returning(j) ==
    j.op = "refund" /\ j.at \in {"put", "persist", "upsert", "settleRefund"}

(* ... or recording the uses of the discount that was taken off them.       *)
Recording(c, j) ==
    \/ j.at \in {"load", "flip", "look"}
    \/ j.at = "insert" /\ \A p \in Parts : usage[c][p] # "active" => p \in j.todo

Unpaid(j) ==
    \/ j.op \in {"apply", "remove"}
    \/ j.op = "pay" /\ j.at \in {"claim", "hold", "giveback", "cache", "save", "charge",
                                 "release", "unhold"}
JobSettles(c, j) ==
    /\ Unpaid(j) => j.sess.pay # "paid"
    /\ j.op = "refund" => orders[c].st # "unpaid"
    /\ j.at = "mark" => orders[c].st = "refunded"

(* Whoever shows the checkout paid, its orders are, or somebody is at it.   *)
ShownPaid(c) == \/ db[c].pay = "paid" \/ row[c].st = "paid"
                \/ kv[c] # NONE /\ kv[c].pay = "paid"
PaidIsSettling(c) ==
    ShownPaid(c) => \/ orders[c].st # "unpaid"
                    \/ \E w \in Workers : On(w, c) /\ Settling(job[w])

ReturnedIsSettling(c) ==
    charge[c].st = "refunded" =>
      /\ charge[c].disc = (db[c].voucher # "none")
      /\ \/ orders[c].st = "refunded"
         \/ \E w \in Workers : On(w, c) /\ Returning(job[w])

UsesAreReturned(c) ==
    \A p \in Parts : usage[c][p] = "refunded" => orders[c].st = "refunded"

Discounted(c) ==
    orders[c].st = "completed" /\ orders[c].disc /\ db[c].voucher = "reserved"
DiscountIsRecording(c) ==
    Discounted(c) => \/ \A p \in Parts : usage[c][p] = "active"
                     \/ \E w \in Workers : On(w, c) /\ Recording(c, job[w])

SettlesAt(c) ==
    /\ \A w \in Workers : On(w, c) => JobSettles(c, job[w])
    /\ PaidIsSettling(c) /\ ReturnedIsSettling(c) /\ UsesAreReturned(c)
    /\ DiscountIsRecording(c)
SettleInv == Orderly => \A c \in Checkouts : SettlesAt(c)

(* Once no handler runs, money that any copy shows paid has reached the     *)
(* orders, and money that went back has left them: a paid row that the      *)
(* reconciliation no longer looks at is never an unpaid order.              *)
MoneyIsSettled ==
    Quiet /\ Orderly =>
      \A c \in Checkouts :
        /\ ShownPaid(c) => orders[c].st # "unpaid"
        /\ charge[c].st = "refunded" => orders[c].st = "refunded"
=============================================================================
