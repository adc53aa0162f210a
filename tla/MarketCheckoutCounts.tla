------------------------ MODULE MarketCheckoutCounts ------------------------
(***************************************************************************)
(* Why the voucher's two counters are exact in orderly behaviours: where   *)
(* each slot that was counted is, while a handler is between the count and *)
(* the copy that shows it.                                                 *)
(***************************************************************************)
EXTENDS MarketCheckout

(* A handler is at work on the checkout.                                   *)
On(w, c) == ~At(w, "idle") /\ job[w].c = c

(* The shopper's charge is not made, or failed: the voucher may be edited. *)
Open(c) == charge[c].st \in {"none", "failed"}

Redeeming == {"flip", "look", "slot", "insert", "unslot", "count"}
Used(c) == usage[c][ClaimPart] \in {"active", "refunded"}

-----------------------------------------------------------------------------
(* What fits a handler j at work on checkout c.                            *)

OpFits(j) ==
    /\ j.at \in {"claim", "hold", "giveback"} => j.op \in {"apply", "pay"}
    /\ j.at \in {"cache", "save"} => j.op \in {"apply", "remove", "pay"}
    /\ j.at \in {"release", "unhold"} => \/ j.op \in {"remove", "sweep"}
                                         \/ j.op = "pay" /\ j.refused
    /\ j.at = "charge" => j.op = "pay"
    /\ j.at \in {"put", "persist", "upsert"} => j.op \in {"pay", "refund"}
    /\ j.at = "find" => j.op = "hook"
    /\ j.at = "query" => j.op = "reconcile"
    /\ j.at \in {"row", "session", "cached", "putBack", "load"} => j.op \in {"hook", "reconcile"}
    /\ j.at \in Redeeming \cup {"settle"} => j.op \in {"pay", "hook", "reconcile"}
    /\ j.at = "settleRefund" => j.op \in {"hook", "reconcile", "refund"}
    /\ j.at \in {"callRefund", "mark", "fully", "uncount"} => j.op = "refund"
    /\ j.at = "cas" => j.op = "sweep"
    /\ j.op # "none"

(* The voucher it works with, against the one in D1.                       *)
VoucherFits(c, j) ==
    LET v == j.sess.voucher
        stored == db[c].voucher
    IN
    /\ j.op = "apply" => /\ stored = "none"
                         /\ v = IF j.at = "claim" THEN "none" ELSE "reserved"
    /\ j.op = "remove" => /\ v = "none"
                          /\ j.at \in {"release", "unhold"} => stored = "reserved"
    /\ j.op = "pay" /\ j.at \in {"claim", "hold", "giveback"} =>
         /\ stored = "released"
         /\ v = IF j.at = "claim" THEN "released" ELSE "reserved"
    /\ j.op = "pay" /\ j.at \in {"cache", "save"} =>
         v = "reserved" /\ stored \in {"reserved", "released"}
    /\ j.at \in {"charge", "callRefund"} \cup Redeeming => v = stored
    /\ j.at \in {"put", "persist", "upsert"} /\ ~j.refused => v = stored
    /\ j.at = "settle" /\ j.op = "pay" => v = stored
    /\ j.at \in {"save", "persist"} => kv[c] = NONE \/ kv[c].voucher = v
    /\ j.refused => /\ v # "reserved"
                    /\ j.at \in {"release", "unhold"} => v = "released" /\ stored = "reserved"
                    /\ j.at \in {"put", "persist"} => stored \in {v, "reserved"}
                    /\ j.at = "upsert" => stored = v
    /\ j.op = "sweep" => /\ kv[c] = NONE
                         /\ j.at = "cas" => stored = "reserved" /\ ~Used(c)
                         /\ j.at \in {"release", "unhold"} => stored = "released"

(* It changes the voucher, or gives its reservation back.                  *)
Editing(c, j) ==
    \/ j.op \in {"apply", "remove"}
    \/ j.op = "pay" /\ \/ j.at \in {"claim", "hold", "giveback"}
                       \/ j.refused
                       \/ j.at \in {"cache", "save"} /\ db[c].voucher # "reserved"
ChargeFits(c, j) ==
    /\ Editing(c, j) => Open(c)
    /\ j.op \in {"apply", "remove", "pay"} => charge[c].st # "refunded"
    /\ j.op = "reconcile" => charge[c].st # "none"
    /\ j.op = "reconcile" /\ j.status = "pending" => charge[c].st # "refunded"

(* The claim's row.                                                        *)
UsageFits(c, j) ==
    LET u == usage[c][ClaimPart] IN
    /\ j.at = "hold" => PerUser
    /\ \/ j.at \in {"claim", "hold", "giveback", "look", "slot", "insert"}
       \/ j.op = "remove" /\ j.at \in {"cache", "save"}
       \/ j.refused /\ j.at \in {"put", "persist", "upsert"}
       => u # "reserved"
    /\ j.at \in {"look", "slot", "insert"} /\ j.won => Used(c)
    /\ j.at \in {"slot", "insert"} /\ ClaimPart \notin j.todo => Used(c)
    /\ j.at = "fully" => \A p \in Parts : usage[c][p] # "active"

(* The slot a redemption takes when it finds none held for it.             *)
SlotFits(j) ==
    /\ j.at \notin {"insert", "unslot", "count"} => ~j.inserted
    /\ j.at = "slot" => j.claimed
    /\ j.at \in {"slot", "insert"} =>
         /\ j.claimed => j.sess.voucher # "reserved"
         /\ ClaimPart \in j.todo /\ j.sess.voucher # "reserved" => j.claimed
         /\ ClaimPart \in j.todo => ~j.inserted
    /\ j.at = "unslot" => j.sess.voucher # "reserved"
    /\ j.at = "count" => j.won /\ j.sess.voucher = "reserved"

(* The payment's status and amount.                                        *)
PayFits(c, j) ==
    /\ j.at \in {"put", "persist", "upsert"} =>
         /\ j.op = "refund" => j.sess.pay = "refunded"
         /\ j.op = "pay" /\ ~j.refused => /\ j.sess.pay \in {"pending", "paid"}
                                          /\ j.disc = (j.sess.voucher # "none")
                                          /\ charge[c].st # "none"
    /\ j.op = "hook" => j.status \in {"paid", "failed", "refunded"}
    /\ j.at \in {"row", "session", "cached", "putBack"} => j.status # "none"
    /\ j.at = "upsert" /\ j.sess.pay \in {"paid", "refunded"} =>
         db[c].pay \in {"paid", "refunded"}
    /\ j.at \in {"upsert", "cached", "putBack", "settle", "load"} \cup Redeeming => c \notin idle
    /\ \/ j.at \in {"settle", "load"} \cup Redeeming
       \/ j.at \in {"session", "cached", "putBack"} /\ j.status = "paid"
       => row[c].st \notin {"none", "failed"}

JobFits(c, j) ==
    /\ OpFits(j) /\ VoucherFits(c, j) /\ ChargeFits(c, j)
    /\ UsageFits(c, j) /\ SlotFits(j) /\ PayFits(c, j)

(* A sweep and a refund are alone at a checkout, and so is a request among *)
(* requests.                                                               *)
Beside(o, q) ==
    /\ o \notin {"sweep", "refund"} /\ q \notin {"sweep", "refund"}
    /\ ~(o \in {"apply", "remove", "pay"} /\ q \in {"apply", "remove", "pay"})
Alone(c) ==
    \A v, w \in Workers : v # w /\ On(v, c) /\ On(w, c) => Beside(job[v].op, job[w].op)

-----------------------------------------------------------------------------
(* What fits a checkout.                                                   *)

(* The copies show one voucher, except to a handler that is changing it.   *)
EditsCopies(c, j) == Editing(c, j) /\ j.at \in {"save", "persist"}
CopiesAgree(c) ==
    \/ kv[c] = NONE \/ kv[c].voucher = db[c].voucher
    \/ \E w \in Workers : On(w, c) /\ EditsCopies(c, job[w])

(* A held row stands for the reservation in D1, or is about to.            *)
HoldsRow(j) == \/ j.op \in {"apply", "pay"} /\ j.at \in {"cache", "save"}
               \/ j.op = "sweep" /\ j.at \in {"release", "unhold"}
HeldIsReserved(c) ==
    usage[c][ClaimPart] = "reserved" =>
      /\ PerUser
      /\ \/ db[c].voucher = "reserved"
         \/ \E w \in Workers : On(w, c) /\ HoldsRow(job[w])

(* The claim's row comes first, and is the one that is stamped.            *)
Unstamped(c) == usage[c][ClaimPart] = "refunded" /\ <<c, ClaimPart>> \notin countReleased
Stamping(j) == j.at = "fully"
ClaimIsFirst(c) ==
    /\ \A p \in Parts \ {ClaimPart} :
         usage[c][p] # "reserved" /\ (usage[c][p] # "none" => Used(c))
    /\ <<c, ClaimPart>> \in countReleased => usage[c][ClaimPart] = "refunded"
    /\ Unstamped(c) => \E w \in Workers : On(w, c) /\ Stamping(job[w])

(* A checkout whose voucher was used is not taken for an unpaid one.       *)
UsedIsPaid(c) ==
    Used(c) => /\ row[c].st \notin {"none", "failed"}
               /\ db[c].pay \in {"paid", "refunded"} \/ c \notin idle
Telling(j) == \/ j.at = "session" /\ j.status \in {"paid", "refunded"}
              \/ j.at = "upsert"
PaidIsTold(c) ==
    row[c].st \in {"paid", "refunded"} /\ db[c].pay \notin {"paid", "refunded"} =>
      \E w \in Workers : On(w, c) /\ Telling(job[w])
Answering(j) == j.op = "pay" /\ ~j.refused /\ j.at \in {"put", "persist", "upsert"}
AmountsAgree(c) ==
    /\ charge[c].st \in {"pending", "paid"} =>
         /\ charge[c].disc = (db[c].voucher # "none")
         /\ \/ row[c].disc = charge[c].disc
            \/ \E w \in Workers : On(w, c) /\ Answering(job[w])
    /\ row[c].st = "pending" => charge[c].st # "none"
Storing(j) == j.at \in {"save", "persist"}
IdleIsGone(c) ==
    c \in idle /\ kv[c] # NONE => \E w \in Workers : On(w, c) /\ Storing(job[w])

CheckoutFits(c) ==
    /\ CopiesAgree(c) /\ HeldIsReserved(c) /\ ClaimIsFirst(c) /\ UsedIsPaid(c)
    /\ PaidIsTold(c) /\ AmountsAgree(c) /\ IdleIsGone(c)

-----------------------------------------------------------------------------
(* Where the slots are.                                                    *)

(* The reservation D1 shows was given back already.                        *)
GivesBack(w, c) ==
    /\ On(w, c)
    /\ \/ job[w].op = "remove" /\ job[w].at \in {"unhold", "cache", "save"}
       \/ job[w].refused /\ job[w].at \in {"unhold", "put", "persist"}
Reserving(c) == Holding(c) /\ ~\E w \in Workers : GivesBack(w, c)

(* The slot of a checkout, held, used or refunded and not yet given back.  *)
Using(c) == Reserving(c) \/ Redeemed(c) \/ Unstamped(c)

(* A slot a handler claimed and D1 does not show, or shows no more.        *)
Carrying(w) ==
    \/ /\ job[w].op \in {"apply", "pay"}
       /\ job[w].at \in {"hold", "giveback", "cache", "save"}
       /\ db[job[w].c].voucher # "reserved"
    \/ job[w].op = "sweep" /\ job[w].at = "release"

(* The row is used and still counted as reserved ...                       *)
OwesCount(w) ==
    /\ job[w].at \in {"look", "slot", "insert", "unslot", "count"}
    /\ job[w].won /\ job[w].sess.voucher = "reserved"

(* ... or counted as used and no row.                                      *)
OwesUse(w) ==
    \/ job[w].at = "insert" /\ job[w].claimed /\ ~job[w].inserted
    \/ job[w].at \in {"unslot", "uncount"}

ReservedIsExact ==
    reserved = Cardinality({c \in Checkouts : Reserving(c)})
               + Cardinality({w \in Workers : Carrying(w)})
               + Cardinality({w \in Workers : OwesCount(w)})
UsedIsExact ==
    used = Cardinality({c \in Checkouts : Using(c)})
           + Cardinality({w \in Workers : Carrying(w)})
           + Cardinality({w \in Workers : OwesUse(w)})

FitsAt(c) ==
    /\ Alone(c) /\ CheckoutFits(c)
    /\ \A w \in Workers : On(w, c) => JobFits(c, job[w])
Fits == \A c \in Checkouts : FitsAt(c)

Exact == Fits /\ ReservedIsExact /\ UsedIsExact
CountInv == Orderly => Exact
=============================================================================
