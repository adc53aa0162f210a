---------------------- MODULE MarketCheckoutBookProofs ----------------------
(***************************************************************************)
(* In orderly behaviours the voucher is kept like VoucherBook's, a         *)
(* discount is recorded as a use, and money that is shown paid or returned *)
(* has reached the orders, for every number of checkouts, stalls and       *)
(* handlers in flight.                                                     *)
(***************************************************************************)
EXTENDS MarketCheckoutCountProofs, MarketCheckoutBook

Settled == \A c \in Checkouts : SettlesAt(c)

AllActive(c) == \A p \in Parts : usage[c][p] = "active"

-----------------------------------------------------------------------------
(* One handler's step, and the money of its checkout.                      *)

(* The voucher in D1 changes while the checkout is unpaid, or is released  *)
(* by the sweep.                                                           *)
VoucherStays(d) ==
    \/ db'[d].voucher = db[d].voucher
    \/ db[d].voucher = "reserved" /\ db'[d].voucher = "released"
    \/ orders[d].st = "unpaid" /\ charge[d].st # "refunded"

(* No money reaches the orders or goes back, and the uses stay, ...        *)
KeptMoney(d) ==
    /\ orders'[d] = orders[d] /\ VoucherStays(d)
    /\ charge'[d].st = "refunded" =>
         charge[d].st = "refunded" /\ charge'[d].disc = charge[d].disc
    /\ \A p \in Parts : \A u \in {"active", "refunded"} :
         usage'[d][p] = u <=> usage[d][p] = u

(* ... and no copy comes to show it paid.                                  *)
Kept(d) == KeptMoney(d) /\ (ShownPaid(d)' => ShownPaid(d))

(* A checkout whose handlers do not move settles as before.                *)
LEMMA SettlesElsewhere ==
    ASSUME NEW d, SettlesAt(d), Kept(d),
           \A v \in Workers : On(v, d)' <=> On(v, d),
           \A v \in Workers : On(v, d) => job'[v] = job[v]
    PROVE  SettlesAt(d)'
  <1>1. ASSUME NEW v \in Workers, On(v, d)' PROVE JobSettles(d, job[v])'
    BY <1>1 DEF SettlesAt, JobSettles, Unpaid, Kept, KeptMoney
  <1>2. PaidIsSettling(d)'
    BY DEF SettlesAt, PaidIsSettling, Settling, Kept, KeptMoney
  <1>3. ReturnedIsSettling(d)'
    BY DEF SettlesAt, ReturnedIsSettling, Returning, Kept, KeptMoney, VoucherStays
  <1>4. UsesAreReturned(d)'
    BY DEF SettlesAt, UsesAreReturned, Kept, KeptMoney
  <1>5. DiscountIsRecording(d)'
    BY DEF SettlesAt, DiscountIsRecording, Discounted, Recording, Kept, KeptMoney, VoucherStays
  <1> QED BY <1>1, <1>2, <1>3, <1>4, <1>5 DEF SettlesAt

(* A step of no handler: the bank's, or a day that passes.                 *)
LEMMA SettlesStill ==
    ASSUME Settled, UNCHANGED job, \A d \in Checkouts : Kept(d) PROVE Settled'
  BY SettlesElsewhere DEF Settled, On, At

(* The orders move on: from unpaid to completed to refunded.               *)
OrdersGrow(c) ==
    /\ orders[c].st # "unpaid" => orders'[c].st # "unpaid"
    /\ orders[c].st = "refunded" => orders'[c].st = "refunded"

(* Handler k answers for the money that the step shows paid, and for what  *)
(* the handler before it had begun, ...                                    *)
PaidMoves(w, c, k) ==
    /\ ShownPaid(c)' => ShownPaid(c) \/ Settling(k) \/ orders'[c].st # "unpaid"
    /\ Settling(job[w]) => Settling(k) \/ orders'[c].st # "unpaid"

(* ... for the money that goes back, ...                                   *)
ReturnMoves(w, c, k) ==
    /\ charge'[c].st = "refunded" =>
         /\ charge'[c].disc = (db'[c].voucher # "none")
         /\ charge[c].st = "refunded" \/ Returning(k)
    /\ Returning(job[w]) => Returning(k) \/ orders'[c].st = "refunded"

(* ... and for the uses of the discount.                                   *)
DiscountMoves(w, c, k) ==
    Discounted(c)' =>
      /\ Discounted(c) \/ Recording(c, k)' \/ AllActive(c)'
      /\ \A p \in Parts : usage[c][p] = "active" => usage'[c][p] = "active"
      /\ Recording(c, job[w]) => Recording(c, k)' \/ AllActive(c)'

LEMMA SettlesOn ==
    ASSUME TypeOK, Settled, NEW w \in Workers, NEW c \in Checkouts, NEW k, Moves(w, c, k),
           \A d \in Checkouts \ {c} : Kept(d),
           OrdersGrow(c), k.at # "idle" => JobSettles(c, k)',
           PaidMoves(w, c, k), ReturnMoves(w, c, k), UsesAreReturned(c)',
           DiscountMoves(w, c, k)
    PROVE  Settled'
  <1>1. job'[w] = k /\ \A v \in Workers \ {w} : job'[v] = job[v]
    BY OthersStay
  <1>2. \A v \in Workers \ {w} : On(v, c)' <=> On(v, c)
    BY <1>1 DEF On, At
  <1>3. On(w, c)' <=> k.at # "idle"
    BY <1>1 DEF On, At, Moves
  <1>4. On(w, c) \/ At(w, "idle")
    BY DEF On, Moves
  <1>5. SettlesAt(c)
    BY DEF Settled
  <1>6. ASSUME NEW v \in Workers, On(v, c)' PROVE JobSettles(c, job[v])'
    <2>1. CASE v = w
      BY <1>1, <1>3, <1>6, <2>1 DEF JobSettles, Unpaid
    <2>2. CASE v # w
      BY <1>1, <1>2, <1>5, <1>6, <2>2 DEF JobSettles, Unpaid, SettlesAt, OrdersGrow
    <2> QED BY <2>1, <2>2
  <1>7. PaidIsSettling(c)'
    <2>1. ASSUME NEW v \in Workers, On(v, c), Settling(job[v])
          PROVE  \/ orders'[c].st # "unpaid" \/ Settling(k)
                 \/ v # w /\ On(v, c)' /\ Settling(job'[v])
      BY <1>1, <1>2, <2>1 DEF PaidMoves
    <2>2. ASSUME Settling(k) PROVE On(w, c)' /\ Settling(job'[w])
      BY <1>1, <1>3, <2>2 DEF Settling
    <2>3. ShownPaid(c)' => ShownPaid(c) \/ Settling(k) \/ orders'[c].st # "unpaid"
      BY DEF PaidMoves
    <2>4. ShownPaid(c) => \/ orders'[c].st # "unpaid"
                          \/ \E v \in Workers : On(v, c) /\ Settling(job[v])
      BY <1>5 DEF SettlesAt, PaidIsSettling, OrdersGrow
    <2>5. ASSUME ShownPaid(c)', orders'[c].st = "unpaid"
          PROVE  \E v \in Workers : On(v, c)' /\ Settling(job'[v])
      BY <2>1, <2>2, <2>3, <2>4, <2>5
    <2>6. \A v : Settling(job[v])' <=> Settling(job'[v])
      BY DEF Settling
    <2> QED BY <2>5, <2>6 DEF PaidIsSettling
  <1>8. ReturnedIsSettling(c)'
    <2>1. ASSUME NEW v \in Workers, On(v, c), Returning(job[v])
          PROVE  \/ orders'[c].st = "refunded" \/ Returning(k)
                 \/ v # w /\ On(v, c)' /\ Returning(job'[v])
      BY <1>1, <1>2, <2>1 DEF ReturnMoves
    <2>2. ASSUME Returning(k) PROVE On(w, c)' /\ Returning(job'[w])
      BY <1>1, <1>3, <2>2 DEF Returning
    <2>3. charge[c].st = "refunded" =>
            \/ orders'[c].st = "refunded"
            \/ \E v \in Workers : On(v, c) /\ Returning(job[v])
      BY <1>5 DEF SettlesAt, ReturnedIsSettling, OrdersGrow
    <2>4. ASSUME charge'[c].st = "refunded", orders'[c].st # "refunded"
          PROVE  \E v \in Workers : On(v, c)' /\ Returning(job'[v])
      BY <2>1, <2>2, <2>3, <2>4 DEF ReturnMoves
    <2>5. \A v : Returning(job[v])' <=> Returning(job'[v])
      BY DEF Returning
    <2> QED BY <2>4, <2>5 DEF ReturnedIsSettling, ReturnMoves
  <1>9. DiscountIsRecording(c)'
    <2> SUFFICES ASSUME Discounted(c)'
                 PROVE  AllActive(c)' \/ \E v \in Workers : On(v, c)' /\ Recording(c, job[v])'
      BY DEF DiscountIsRecording, AllActive
    <2>1. ASSUME NEW v \in Workers, On(v, c), Recording(c, job[v])
          PROVE  \/ AllActive(c)' \/ Recording(c, k)'
                 \/ v # w /\ On(v, c)' /\ Recording(c, job[v])'
      <3>1. CASE v = w
        BY <2>1, <3>1 DEF DiscountMoves
      <3>2. CASE v # w
        BY <1>1, <1>2, <2>1, <3>2 DEF DiscountMoves, Recording
      <3> QED BY <3>1, <3>2
    <2>2. ASSUME Recording(c, k)' PROVE On(w, c)' /\ Recording(c, job[w])'
      BY <1>1, <1>3, <2>2 DEF Recording
    <2>3. CASE ~Discounted(c)
      BY <2>2, <2>3 DEF DiscountMoves
    <2>4. CASE AllActive(c)
      BY <2>4 DEF DiscountMoves, AllActive
    <2>5. CASE \E v \in Workers : On(v, c) /\ Recording(c, job[v])
      BY <2>1, <2>2, <2>5
    <2> QED BY <1>5, <2>3, <2>4, <2>5 DEF SettlesAt, DiscountIsRecording, AllActive
  <1>10. SettlesAt(c)'
    BY <1>6, <1>7, <1>8, <1>9 DEF SettlesAt
  <1>11. \A d \in Checkouts \ {c} : SettlesAt(d)'
    <2>1. ASSUME NEW d \in Checkouts \ {c} PROVE SettlesAt(d)'
      <3>1. /\ \A v \in Workers : On(v, d)' <=> On(v, d)
            /\ \A v \in Workers : On(v, d) => job'[v] = job[v]
        BY <1>1 DEF Moves, On, At
      <3> QED BY <3>1, SettlesElsewhere DEF Settled
    <2> QED BY <2>1
  <1> QED BY <1>10, <1>11 DEF Settled

(* A step that brings no money to the orders or back, of a handler that    *)
(* goes on with what it had begun.                                         *)
LEMMA Steady ==
    ASSUME IInv, Settled, NEW w \in Workers, NEW c \in Checkouts, NEW k, Moves(w, c, k),
           \A d \in Checkouts \ {c} : Kept(d), KeptMoney(c), PaidMoves(w, c, k),
           k.at # "idle" => JobSettles(c, k), Returning(job[w]) => Returning(k),
           Discounted(c) /\ Recording(c, job[w]) => Recording(c, k) \/ AllActive(c)
    PROVE  Settled'
  <1>1. SettlesAt(c)
    BY DEF Settled
  <1>2. OrdersGrow(c)
    BY DEF OrdersGrow, KeptMoney
  <1>3. k.at # "idle" => JobSettles(c, k)'
    BY DEF JobSettles, Unpaid, KeptMoney
  <1>4. ReturnMoves(w, c, k)
    BY <1>1 DEF ReturnMoves, SettlesAt, ReturnedIsSettling, KeptMoney, VoucherStays
  <1>5. UsesAreReturned(c)'
    BY <1>1 DEF SettlesAt, UsesAreReturned, KeptMoney
  <1>6. DiscountMoves(w, c, k)
    BY <1>1 DEF DiscountMoves, Discounted, Recording, AllActive, KeptMoney, VoucherStays
  <1> QED BY <1>2, <1>3, <1>4, <1>5, <1>6, SettlesOn DEF IInv

(* A handler on the way to the money, or past it.                          *)
Apart(j) == j.at \in {"idle", "claim", "hold", "giveback", "cache", "save", "charge", "release",
                      "unhold", "find", "query", "callRefund", "slot", "unslot", "count", "mark",
                      "fully", "uncount", "cas"}

(* Its steps have only themselves to fit.                                  *)
LEMMA ApartSettles ==
    ASSUME IInv, Settled, NEW w \in Workers, NEW c \in Checkouts, NEW k, Moves(w, c, k),
           \A d \in Checkouts : Kept(d), Apart(job[w]), k.at # "idle" => JobSettles(c, k)
    PROVE  Settled'
  <1>1. ~Settling(job[w]) /\ ~Returning(job[w]) /\ ~Recording(c, job[w])
    BY DEF Apart, Settling, Returning, Recording
  <1>2. KeptMoney(c) /\ PaidMoves(w, c, k)
    BY <1>1 DEF Kept, PaidMoves
  <1> QED BY <1>1, <1>2, Steady

(* An open checkout is an unpaid one.                                      *)
LEMMA OpenIsUnpaid ==
    ASSUME IInv, NEW c \in Checkouts, Open(c)
    PROVE  orders[c].st = "unpaid" /\ charge[c].st # "refunded"
  BY DEF IInv, SharesMatchTheCharge, Open

(* The handler that takes a step, and what it answers for.                 *)
LEMMA Settler ==
    ASSUME IInv, Exact, Settled, NEW w \in Workers, ~At(w, "idle")
    PROVE  /\ JobSettles(job[w].c, job[w]) /\ SettlesAt(job[w].c)
           /\ job[w] \in Job /\ job[w].c \in Checkouts
           /\ JobTrue(job[w]) /\ JobFits(job[w].c, job[w]) /\ CheckoutFits(job[w].c)
  BY AtWork DEF Exact, Settled, SettlesAt

(* A handler that goes on unpaid, or is paid, fits.                        *)
LEMMA FollowerSettles ==
    ASSUME NEW c, NEW j, NEW k, JobSettles(c, j), Follows(j, k), Unpaid(k) => Unpaid(j),
           k.at # "mark"
    PROVE  JobSettles(c, k)
  BY DEF JobSettles, Follows

(* A step that leaves a handler's worker with another one.                 *)
LEMMA MovesTo ==
    ASSUME TypeOK', NEW w \in Workers, NEW c, TypeOK,
           \A v \in Workers \ {w} : job'[v] = job[v],
           At(w, "idle") \/ job[w].c = c, job'[w].at = "idle" \/ job'[w].c = c
    PROVE  \E k : k = job'[w] /\ Moves(w, c, k)
  <1>1. PICK k : k = job'[w]
    OBVIOUS
  <1>2. k \in Job /\ job' = [job EXCEPT ![w] = k]
    BY <1>1 DEF TypeOK
  <1> QED BY <1>1, <1>2 DEF Moves

-----------------------------------------------------------------------------
(* The handlers that begin.                                                *)

(* A job begins that has nothing to answer for.                            *)
LEMMA BeginSettles ==
    ASSUME IInv, Settled, NEW w \in Workers, NEW c \in Checkouts, NEW k \in Job,
           At(w, "idle"), job' = [job EXCEPT ![w] = k], k.c = c, JobSettles(c, k),
           UNCHANGED <<voucherVars, kv, db, row, orders, charge>>
    PROVE  Settled'
  <1>1. Moves(w, c, k) /\ Apart(job[w])
    BY DEF Moves, Apart, At
  <1>2. \A d \in Checkouts : Kept(d)
    BY DEF Kept, KeptMoney, VoucherStays, ShownPaid, voucherVars
  <1> QED BY <1>1, <1>2, ApartSettles

(* A request begins when the checkout does not show the money paid.        *)
LEMMA AskSettles ==
    ASSUME IInv, Settled, NEW w \in Workers, NEW c \in Checkouts,
           Apply(w, c) \/ Remove(w, c) \/ Pay(w, c)
    PROVE  Settled'
  <1>1. PICK s : s = Read(c)
    OBVIOUS
  <1>2. s \in Session /\ s.pay # "paid"
    BY <1>1, ReadIsTrue DEF IInv, Apply, Remove, Pay
  <1>3. At(w, "idle") /\ UNCHANGED <<voucherVars, kv, db, row, orders, charge>>
    BY DEF Apply, Remove, Pay, Ask, Begin, sessionVars, ledgerVars
  <1>4. PICK o \in {"apply", "remove", "pay"}, l \in {"claim", "release", "cache", "charge"},
             t \in Session :
          Begin(w, o, l, c, t) /\ t.pay # "paid"
    <2>1. CASE Apply(w, c)
      BY <1>1, <1>2, <2>1 DEF Apply, Ask
    <2>2. CASE Remove(w, c)
      <3>1. PICK t : t = [s EXCEPT !.voucher = "none"]
        OBVIOUS
      <3>2. t \in Session /\ t.pay # "paid"
        BY <1>2, <3>1 DEF Session
      <3> QED BY <1>1, <2>2, <3>1, <3>2 DEF Remove, Ask
    <2>3. CASE Pay(w, c)
      <3>1. s.voucher \in {"none", "reserved", "released"}
        BY <1>2 DEF Session
      <3> QED BY <1>1, <1>2, <2>3, <3>1 DEF Pay, Ask
    <2> QED BY <2>1, <2>2, <2>3
  <1>5. PICK k \in Job : Fresh(k, o, l, c, t) /\ job' = [job EXCEPT ![w] = k]
    BY <1>4, FreshJob DEF Ops, Labels
  <1>6. JobSettles(c, k)
    BY <1>4, <1>5 DEF Fresh, JobSettles
  <1> QED BY <1>3, <1>5, <1>6, BeginSettles DEF Fresh

(* A refund begins when a copy shows the money paid and nobody is on the   *)
(* way to the orders: they are paid.                                       *)
LEMMA BackSettles ==
    ASSUME IInv, Exact, Orderly', Settled, NEW w \in Workers, NEW c \in Checkouts,
           \/ Reconcile(w, c) \/ Refund(w, c) \/ Sweep(w, c)
           \/ \E e \in Events : Hook(w, c, e)
    PROVE  Settled'
  <1>1. At(w, "idle") /\ UNCHANGED <<voucherVars, kv, db, row, orders, charge>>
    BY DEF Reconcile, Refund, Sweep, Hook, Begin, sessionVars, ledgerVars
  <1>2. row[c].disc \in BOOLEAN /\ db[c] \in Session /\ Read(c) \in Session
    BY ReadIsTrue DEF IInv, TypeOK, Money
  <1>3. CASE Reconcile(w, c)
    <2>1. PICK k : k = [Idle EXCEPT !.op = "reconcile", !.at = "query", !.c = c,
                                    !.disc = row[c].disc]
      OBVIOUS
    <2>2. k \in Job /\ k.op = "reconcile" /\ k.at = "query" /\ k.c = c
      BY <1>2, <2>1 DEF Idle, Job, Ops, Labels, NewSession, Session
    <2>3. JobSettles(c, k)
      BY <2>2 DEF JobSettles, Unpaid
    <2> QED BY <1>1, <1>3, <2>1, <2>2, <2>3, BeginSettles DEF Reconcile
  <1>4. ASSUME NEW e \in Events, Hook(w, c, e) PROVE Settled'
    <2>1. PICK k : k = [Idle EXCEPT !.op = "hook", !.at = "find", !.c = c,
                                    !.status = EventStatus(e)]
      OBVIOUS
    <2>2. k \in Job /\ k.op = "hook" /\ k.at = "find" /\ k.c = c
      BY <2>1 DEF Idle, Job, Ops, Labels, NewSession, Session, EventStatus, Events
    <2>3. JobSettles(c, k)
      BY <2>2 DEF JobSettles, Unpaid
    <2> QED BY <1>1, <1>4, <2>1, <2>2, <2>3, BeginSettles DEF Hook
  <1>5. CASE Refund(w, c)
    <2>1. PICK k : k = [Idle EXCEPT !.op = "refund", !.at = "callRefund", !.c = c,
                                    !.sess = Read(c), !.disc = row[c].disc]
      OBVIOUS
    <2>2. k \in Job /\ k.op = "refund" /\ k.at = "callRefund" /\ k.c = c
      BY <1>2, <2>1 DEF Idle, Job, Ops, Labels
    <2>3. \A v \in Workers : ~On(v, c)
      BY <1>5, NoStray DEF Refund, Running, On
    <2>4. ShownPaid(c)
      BY <1>5 DEF Refund, Read, ShownPaid
    <2>5. orders[c].st # "unpaid"
      BY <2>3, <2>4 DEF Settled, SettlesAt, PaidIsSettling
    <2>6. JobSettles(c, k)
      BY <2>2, <2>5 DEF JobSettles, Unpaid
    <2> QED BY <1>1, <1>5, <2>1, <2>2, <2>6, BeginSettles DEF Refund
  <1>6. CASE Sweep(w, c)
    <2>1. PICK k \in Job : Fresh(k, "sweep", "cas", c, db[c]) /\ job' = [job EXCEPT ![w] = k]
      BY <1>2, <1>6, FreshJob DEF Sweep, Ops, Labels
    <2>2. JobSettles(c, k)
      BY <2>1 DEF Fresh, JobSettles, Unpaid
    <2> QED BY <1>1, <2>1, <2>2, BeginSettles DEF Fresh
  <1> QED BY <1>3, <1>4, <1>5, <1>6

-----------------------------------------------------------------------------
(* The steps that bring nothing to the orders.                             *)

(* A handler counts, gives back or looks, and goes on or ends.             *)
LEMMA CountSettles ==
    ASSUME IInv, Exact, Settled, Orderly', NEW w \in Workers,
           \/ GiveBack(w) \/ Release(w) \/ Unhold(w) \/ Slot(w) \/ Unslot(w) \/ CountPaid(w)
           \/ Fully(w) \/ Uncount(w) \/ Hold(w)
    PROVE  Settled'
  <1>1. PICK c, j : c = job[w].c /\ j = job[w]
    OBVIOUS
  <1>2. /\ j.at \in {"giveback", "release", "unhold", "slot", "unslot", "count", "fully",
                      "uncount", "hold"}
        /\ ~At(w, "idle")
    BY <1>1 DEF GiveBack, Release, Unhold, Slot, Unslot, CountPaid, Fully, Uncount, Hold, At
  <1>3. JobSettles(c, j) /\ c \in Checkouts /\ JobTrue(j) /\ JobFits(c, j) /\ j.c = c
    BY <1>1, <1>2, Settler
  <1>4. \A d \in Checkouts : Kept(d)
    <2>1. /\ UNCHANGED <<kv, db, row, orders, charge>>
      BY DEF GiveBack, Release, Unhold, Slot, Unslot, CountPaid, Fully, Uncount, Hold,
             sessionVars, ledgerVars
    <2>2. ASSUME NEW d \in Checkouts, NEW p \in Parts, NEW u \in {"active", "refunded"}
          PROVE  usage'[d][p] = u <=> usage[d][p] = u
      <3>1. CASE Hold(w)
        <4>1. \/ usage'[d][p] = usage[d][p]
              \/ usage[d][p] = "none" /\ usage'[d][p] = "reserved"
              \/ usage[d][p] = "reserved" /\ usage'[d][p] = "none"
          BY <1>1, <1>3, <3>1, HoldInOrder
        <4> QED BY <4>1
      <3>2. CASE Unhold(w)
        BY <1>1, <1>3, <3>2, CheckoutAssumption DEF Unhold, IInv, TypeOK
      <3>3. CASE ~Hold(w) /\ ~Unhold(w)
        BY <3>3 DEF GiveBack, Release, Slot, Unslot, CountPaid, Fully, Uncount
      <3> QED BY <3>1, <3>2, <3>3
    <2> QED BY <2>1, <2>2 DEF Kept, KeptMoney, VoucherStays, ShownPaid
  <1>5. Apart(j)
    BY <1>2 DEF Apart
  <1>6. ASSUME NEW l \in {"cache", "giveback", "unhold", "put", "insert", "count", "uncount"},
               Goto(w, l),
               l \in {"cache", "giveback", "unhold"} => j.at \in {"hold", "release", "unhold"}
        PROVE  Settled'
    <2>1. PICK k : Moves(w, c, k) /\ k.at = l /\ Follows(j, k)
      BY <1>1, <1>2, <1>6, Goes DEF Labels, Exact
    <2>2. JobSettles(c, k)
      BY <1>3, <1>6, <2>1, FollowerSettles DEF Unpaid, Follows
    <2> QED BY <1>1, <1>3, <1>4, <1>5, <2>1, <2>2, ApartSettles
  <1>7. ASSUME Finish(w) PROVE Settled'
    <2>1. PICK k : Moves(w, c, k) /\ k.at = "idle"
      BY <1>1, <1>2, <1>7, Ends
    <2> QED BY <1>1, <1>3, <1>4, <1>5, <2>1, ApartSettles
  <1>8. CASE GiveBack(w) \/ CountPaid(w) \/ Uncount(w)
    BY <1>7, <1>8 DEF GiveBack, CountPaid, Uncount
  <1>9. CASE Release(w) \/ Unhold(w)
    BY <1>1, <1>6, <1>7, <1>9 DEF Release, Unhold, Back, At
  <1>10. CASE Slot(w) \/ Unslot(w) \/ Fully(w)
    BY <1>1, <1>6, <1>7, <1>10 DEF Slot, Unslot, Then, Last, Fully, At
  <1>11. CASE Hold(w)
    BY <1>1, <1>2, <1>3, <1>6, <1>11, HoldInOrder DEF Hold, At
  <1> QED BY <1>8, <1>9, <1>10, <1>11

(* A slot is claimed by a handler that shows no money.                     *)
LEMMA ClaimSettles ==
    ASSUME IInv, IInv', Exact, Settled, NEW w \in Workers, ClaimSlot(w) PROVE Settled'
  <1>1. PICK c, j : c = job[w].c /\ j = job[w]
    OBVIOUS
  <1>2. j.at = "claim" /\ ~At(w, "idle") /\ Apart(j)
    BY <1>1 DEF ClaimSlot, At, Apart
  <1>3. /\ JobSettles(c, j) /\ c \in Checkouts /\ j \in Job /\ j.c = c
        /\ j.op \in {"apply", "pay"}
    BY <1>1, <1>2, Settler DEF JobFits, OpFits
  <1>4. \A d \in Checkouts : Kept(d)
    BY DEF ClaimSlot, sessionVars, ledgerVars, Kept, KeptMoney, VoucherStays, ShownPaid
  <1>5. CASE Finish(w)
    <2>1. PICK k : Moves(w, c, k) /\ k.at = "idle"
      BY <1>1, <1>2, <1>5, Ends
    <2> QED BY <1>1, <1>2, <1>3, <1>4, <2>1, ApartSettles
  <1>6. CASE job' = [job EXCEPT ![w].at = IF PerUser THEN "hold" ELSE "cache",
                                ![w].sess.voucher = "reserved"]
    <2>1. PICK k : k = [j EXCEPT !.at = IF PerUser THEN "hold" ELSE "cache",
                                 !.sess = [j.sess EXCEPT !.voucher = "reserved"]]
      OBVIOUS
    <2>2. /\ k \in Job /\ k.at \in {"hold", "cache"} /\ k.c = c /\ k.op = j.op
          /\ k.sess.pay = j.sess.pay
      BY <1>3, <2>1 DEF Job, Labels, Session
    <2>3. job' = [job EXCEPT ![w] = k]
      BY <1>1, <1>6, <2>1
    <2>4. Moves(w, c, k) /\ JobSettles(c, k)
      BY <1>1, <1>2, <1>3, <2>2, <2>3 DEF Moves, JobSettles, Unpaid
    <2> QED BY <1>1, <1>2, <1>3, <1>4, <2>4, ApartSettles
  <1> QED BY <1>1, <1>5, <1>6 DEF ClaimSlot

(* A handler that is not paid writes its copies.                           *)
LEMMA CacheSettles ==
    ASSUME IInv, Exact, Settled, NEW w \in Workers, Cache(w) \/ Save(w) PROVE Settled'
  <1>1. PICK c, j : c = job[w].c /\ j = job[w]
    OBVIOUS
  <1>2. j.at \in {"cache", "save"} /\ ~At(w, "idle") /\ Apart(j)
    BY <1>1 DEF Cache, Save, At, Apart
  <1>3. /\ JobSettles(c, j) /\ c \in Checkouts /\ JobFits(c, j)
        /\ j.op \in {"apply", "remove", "pay"} /\ j.sess.pay # "paid"
    BY <1>1, <1>2, Settler DEF JobFits, OpFits, JobSettles, Unpaid
  <1>4. /\ UNCHANGED <<usage, row, orders, charge>>
        /\ \A d \in Checkouts \ {c} : kv'[d] = kv[d] /\ db'[d] = db[d]
        /\ db'[c].pay = db[c].pay
        /\ kv'[c] = kv[c] \/ kv'[c] = j.sess
    <2>1. CASE Cache(w)
      BY <1>1, <1>3, <2>1 DEF Cache, IInv, TypeOK, voucherVars, ledgerVars
    <2>2. CASE Save(w)
      <3>1. db[c] \in Session /\ db \in [Checkouts -> Session]
        BY <1>3 DEF IInv, TypeOK
      <3>2. db' = [db EXCEPT ![c] = [db[c] EXCEPT !.voucher = j.sess.voucher]]
        BY <1>1, <2>2 DEF Save, Update
      <3>3. (\A d \in Checkouts \ {c} : db'[d] = db[d]) /\ db'[c].pay = db[c].pay
        BY <1>3, <3>1, <3>2 DEF Session
      <3> QED BY <2>2, <3>3 DEF Save, voucherVars, ledgerVars
    <2> QED BY <2>1, <2>2
  <1>5. db'[c].voucher = db[c].voucher \/ Open(c)
    <2>1. CASE Cache(w)
      BY <2>1 DEF Cache
    <2>2. CASE Save(w)
      <3>1. j.at = "save" /\ db'[c].voucher = j.sess.voucher
        BY <1>1, <1>3, <2>2 DEF Save, At, Update, IInv, TypeOK, Session
      <3>2. Editing(c, j) \/ j.sess.voucher = db[c].voucher
        BY <1>3, <3>1 DEF Editing, JobFits, VoucherFits
      <3> QED BY <1>3, <3>1, <3>2 DEF JobFits, ChargeFits
    <2> QED BY <2>1, <2>2
  <1>6. ASSUME NEW d \in Checkouts PROVE Kept(d)
    <2>1. KeptMoney(d)
      BY <1>3, <1>4, <1>5, OpenIsUnpaid DEF KeptMoney, VoucherStays
    <2>2. ShownPaid(d)' => ShownPaid(d)
      BY <1>3, <1>4 DEF ShownPaid
    <2> QED BY <2>1, <2>2 DEF Kept
  <1>7. ASSUME NEW l \in {"save", "charge"}, Goto(w, l) PROVE Settled'
    <2>1. PICK k : Moves(w, c, k) /\ k.at = l /\ Follows(j, k)
      BY <1>1, <1>2, <1>7, Goes DEF Labels, Exact
    <2>2. JobSettles(c, k)
      BY <1>2, <1>3, <1>7, <2>1, FollowerSettles DEF Unpaid, Follows
    <2> QED BY <1>1, <1>2, <1>3, <1>6, <2>1, <2>2, ApartSettles
  <1>8. CASE Finish(w)
    <2>1. PICK k : Moves(w, c, k) /\ k.at = "idle"
      BY <1>1, <1>2, <1>8, Ends
    <2> QED BY <1>1, <1>2, <1>3, <1>6, <2>1, ApartSettles
  <1> QED BY <1>7, <1>8 DEF Cache, Save

(* A handler is stopped before it wrote anything.                          *)
LEMMA StopSettles ==
    ASSUME IInv, Exact, Settled, Orderly', NEW w \in Workers, Stop(w) \/ StoreFails(w)
    PROVE  Settled'
  <1>1. PICK c, j : c = job[w].c /\ j = job[w]
    OBVIOUS
  <1>2. Stop(w) /\ j.at \in {"find", "query", "row"}
    <2>1. ~StoreFails(w)
      BY NoStray DEF StoreFails
    <2> QED BY <1>1, <2>1, NoStray DEF Stop
  <1>3. ~At(w, "idle") /\ c \in Checkouts
    BY <1>1, <1>2, Settler DEF Stop
  <1>4. \A d \in Checkouts : Kept(d)
    BY <1>2 DEF Stop, voucherVars, sessionVars, ledgerVars, Kept, KeptMoney, VoucherStays, ShownPaid
  <1>5. PICK k : Moves(w, c, k) /\ k.at = "idle"
    BY <1>1, <1>2, <1>3, Ends DEF Stop
  <1>6. ~Settling(j) /\ ~Returning(j) /\ ~Recording(c, j)
    BY <1>2 DEF Settling, Returning, Recording
  <1>7. KeptMoney(c) /\ PaidMoves(w, c, k)
    BY <1>1, <1>3, <1>4, <1>6 DEF Kept, PaidMoves
  <1> QED BY <1>1, <1>3, <1>4, <1>5, <1>6, <1>7, Steady

(* The provider is charged: no money goes back, and who shows that it came *)
(* is on the way to the orders.                                            *)
LEMMA ChargeSettles ==
    ASSUME IInv, IInv', Exact, Settled, NEW w \in Workers, Charge(w) PROVE Settled'
  <1>1. PICK c, j : c = job[w].c /\ j = job[w]
    OBVIOUS
  <1>2. j.at = "charge" /\ ~At(w, "idle") /\ Apart(j)
    BY <1>1 DEF Charge, At, Apart
  <1>3. c \in Checkouts /\ j.op = "pay"
    BY <1>1, <1>2, Settler DEF JobFits, OpFits
  <1>4. ASSUME NEW d \in Checkouts PROVE Kept(d)
    <2>1. UNCHANGED <<usage, kv, db, row, orders>>
      BY DEF Charge, voucherVars, sessionVars
    <2>2. charge'[d].st = "refunded" => charge'[d] = charge[d]
      BY <1>1, <1>3 DEF Charge, IInv, TypeOK
    <2> QED BY <2>1, <2>2 DEF Kept, KeptMoney, VoucherStays, ShownPaid
  <1>5. ASSUME NEW st \in {"pending", "paid"}, Answered(w, st) PROVE Settled'
    <2>1. PICK k : Moves(w, c, k) /\ k.at = "put" /\ k.op = "pay"
      BY <1>1, <1>2, <1>3, <1>5, AnsweredMoves DEF At
    <2>2. JobSettles(c, k)
      BY <2>1 DEF JobSettles, Unpaid
    <2> QED BY <1>1, <1>2, <1>3, <1>4, <2>1, <2>2, ApartSettles
  <1>6. ASSUME Refused(w) PROVE Settled'
    <2>1. PICK k : Moves(w, c, k) /\ k.at \in {"release", "put"} /\ k.op = "pay" /\ k.refused
      BY <1>1, <1>3, <1>6, RefusedMoves
    <2>2. job'[w] = k
      BY <2>1, OthersStay DEF IInv
    <2>3. k.sess.pay = "failed"
      BY <2>1, <2>2 DEF IInv, JobsTrue, JobTrue
    <2>4. JobSettles(c, k)
      BY <2>1, <2>3 DEF JobSettles
    <2> QED BY <1>1, <1>2, <1>3, <1>4, <2>1, <2>4, ApartSettles
  <1> QED BY <1>5, <1>6 DEF Charge

-----------------------------------------------------------------------------
(* The steps that show the money.                                          *)

(* An outcome is written: a paid one on the way to the orders.             *)
LEMMA OutcomeSettles ==
    ASSUME IInv, Exact, Settled, NEW w \in Workers, Put(w) \/ Persist(w) \/ Upsert(w)
    PROVE  Settled'
  <1>1. PICK c, j : c = job[w].c /\ j = job[w]
    OBVIOUS
  <1>2. j.at \in {"put", "persist", "upsert"} /\ ~At(w, "idle")
    BY <1>1 DEF Put, Persist, Upsert, At
  <1>3. /\ JobSettles(c, j) /\ c \in Checkouts /\ JobTrue(j) /\ JobFits(c, j) /\ j \in Job
        /\ j.op \in {"pay", "refund"} /\ (j.op = "refund" => j.sess.pay = "refunded")
    BY <1>1, <1>2, Settler DEF JobFits, OpFits, PayFits
  <1>4. /\ UNCHANGED <<usage, orders, charge>>
        /\ \A d \in Checkouts \ {c} : kv'[d] = kv[d] /\ db'[d] = db[d] /\ row'[d] = row[d]
        /\ kv'[c] = kv[c] \/ kv'[c] = j.sess
        /\ db'[c] = db[c] \/ (Persist(w) /\ db'[c] = j.sess)
        /\ row'[c] = row[c] \/ row'[c].st = j.sess.pay
    BY <1>1, <1>3 DEF Put, Persist, Upsert, Update, IInv, TypeOK, voucherVars, ledgerVars,
                      sessionVars
  <1>5. VoucherStays(c)
    <2>1. ASSUME Persist(w), j.sess.voucher # db[c].voucher PROVE Open(c)
      <3>1. j.at = "persist"
        BY <1>1, <2>1 DEF Persist, At
      <3>2. j.refused
        BY <1>3, <2>1, <3>1 DEF JobFits, VoucherFits
      <3>3. Editing(c, j)
        BY <1>3, <3>1, <3>2 DEF JobTrue, Editing
      <3> QED BY <1>3, <3>3 DEF JobFits, ChargeFits
    <2> QED BY <1>3, <1>4, <2>1, OpenIsUnpaid DEF VoucherStays
  <1>6. KeptMoney(c) /\ \A d \in Checkouts \ {c} : Kept(d)
    BY <1>4, <1>5 DEF Kept, KeptMoney, VoucherStays, ShownPaid
  <1>7. ShownPaid(c)' => ShownPaid(c) \/ (j.op = "pay" /\ j.sess.pay = "paid")
    BY <1>3, <1>4 DEF ShownPaid
  <1>8. ASSUME NEW l \in {"persist", "upsert", "settle", "settleRefund"}, Goto(w, l),
               l = "settleRefund" => j.sess.pay = "refunded",
               l = "settle" => j.sess.pay = "paid"
        PROVE  Settled'
    <2>1. PICK k : Moves(w, c, k) /\ k.at = l /\ Follows(j, k)
      BY <1>1, <1>2, <1>8, Goes DEF Labels, Exact
    <2>2. JobSettles(c, k)
      BY <1>3, <1>8, <2>1, FollowerSettles DEF Unpaid, Follows
    <2>3. PaidMoves(w, c, k)
      BY <1>1, <1>2, <1>3, <1>7, <1>8, <2>1 DEF PaidMoves, Settling, Follows
    <2>4. /\ Returning(j) => Returning(k)
          /\ ~Recording(c, j)
      BY <1>2, <1>3, <1>8, <2>1 DEF Returning, Recording, Follows
    <2> QED BY <1>1, <1>3, <1>6, <2>1, <2>2, <2>3, <2>4, Steady
  <1>9. CASE Upsert(w) /\ Finish(w) /\ j.sess.pay \notin {"paid", "refunded"}
    <2>1. PICK k : Moves(w, c, k) /\ k.at = "idle"
      BY <1>1, <1>2, <1>9, Ends
    <2>2. ~Settling(j) /\ ~Returning(j) /\ ~Recording(c, j)
      BY <1>2, <1>3, <1>9 DEF Settling, Returning, Recording
    <2>3. PaidMoves(w, c, k)
      BY <1>1, <1>7, <1>9, <2>2 DEF PaidMoves
    <2> QED BY <1>1, <1>3, <1>6, <2>1, <2>2, <2>3, Steady
  <1> QED BY <1>1, <1>8, <1>9 DEF Put, Persist, Upsert

(* A webhook or a tick has no request to answer.                           *)
LEMMA TellerFits ==
    ASSUME NEW c, NEW k, k.op \in {"hook", "reconcile"}, k.at # "mark" PROVE JobSettles(c, k)
  BY DEF JobSettles, Unpaid

(* It finds the row, or asks the provider, ...                             *)
LEMMA FindSettles ==
    ASSUME IInv, IInv', Exact, Settled, NEW w \in Workers, Find(w) \/ Query(w) PROVE Settled'
  <1>1. PICK c, j : c = job[w].c /\ j = job[w]
    OBVIOUS
  <1>2. j.at \in {"find", "query"} /\ ~At(w, "idle") /\ Apart(j)
    BY <1>1 DEF Find, Query, At, Apart
  <1>3. c \in Checkouts /\ j \in Job /\ j.op \in {"hook", "reconcile"}
    BY <1>1, <1>2, Settler DEF JobFits, OpFits
  <1>4. \A d \in Checkouts : Kept(d)
    BY DEF Find, Query, voucherVars, sessionVars, ledgerVars, Kept, KeptMoney, VoucherStays,
           ShownPaid
  <1>5. CASE Finish(w)
    <2>1. PICK k : Moves(w, c, k) /\ k.at = "idle"
      BY <1>1, <1>2, <1>5, Ends
    <2> QED BY <1>1, <1>2, <1>3, <1>4, <2>1, ApartSettles
  <1>6. CASE ~Finish(w)
    <2>1. /\ \A v \in Workers \ {w} : job'[v] = job[v]
          /\ job'[w].c = c /\ job'[w].at = "row" /\ job'[w].op = j.op
      <3>1. PICK k : k.at = "row" /\ k.c = c /\ k.op = j.op /\ job' = [job EXCEPT ![w] = k]
        <4>1. j.c = c /\ job \in [Workers -> Job]
          BY <1>1 DEF IInv, TypeOK
        <4>2. CASE Find(w)
          <5>1. PICK k : k = [j EXCEPT !.at = "row", !.disc = row[c].disc]
            OBVIOUS
          <5>2. k.at = "row" /\ k.c = c /\ k.op = j.op
            BY <1>3, <4>1, <5>1 DEF Job
          <5>3. job' = [job EXCEPT ![w] = k]
            BY ZenonT(60), <1>1, <1>6, <4>2, <5>1 DEF Find
          <5> QED BY <5>2, <5>3
        <4>3. CASE Query(w)
          <5>1. PICK k : k = [j EXCEPT !.at = "row", !.status = charge[c].st]
            OBVIOUS
          <5>2. k.at = "row" /\ k.c = c /\ k.op = j.op
            BY <1>3, <4>1, <5>1 DEF Job
          <5>3. job' = [job EXCEPT ![w] = k]
            BY ZenonT(60), <1>1, <1>6, <4>3, <5>1 DEF Query
          <5> QED BY <5>2, <5>3
        <4> QED BY <4>2, <4>3
      <3> QED BY <3>1 DEF IInv, TypeOK
    <2>2. PICK k : k = job'[w] /\ Moves(w, c, k)
      BY <1>1, <2>1, MovesTo DEF IInv
    <2>3. JobSettles(c, k)
      BY <1>3, <2>1, <2>2, TellerFits
    <2> QED BY <1>1, <1>2, <1>3, <1>4, <2>2, <2>3, ApartSettles
  <1> QED BY <1>5, <1>6

(* The KV copy is read or put back, and the handler goes on.               *)
LEMMA CachedMoves ==
    ASSUME IInv, Fits, NEW w \in Workers, ReadCached(w) \/ WriteCached(w)
    PROVE  \E k : /\ Moves(w, job[w].c, k)
                  /\ (k.at = "putBack" /\ Resumes(job[w], k)) \/ GoesForOwed(job[w], k)
  <1>1. PICK c, j : c = job[w].c /\ j = job[w]
    OBVIOUS
  <1>2. ~At(w, "idle")
    BY DEF ReadCached, WriteCached, At
  <1>3. c \in Checkouts /\ j \in Job /\ j.sess \in Session /\ NewSession \in Session
    BY <1>1, <1>2, AtWork DEF Job, NewSession, Session
  <1>4. CASE ReadCached(w) /\ kv[c] = NONE
    <2>1. job' = [job EXCEPT ![w] = IF Owed(w) = "idle" THEN Idle
                                    ELSE [job[w] EXCEPT !.at = Owed(w)]]
      BY <1>1, <1>4 DEF ReadCached
    <2>2. [job[w] EXCEPT !.at = Owed(w), !.sess = j.sess] = [job[w] EXCEPT !.at = Owed(w)]
      BY <1>1, <1>3 DEF Job
    <2> QED BY <1>2, <1>3, <2>1, <2>2, OwedJob
  <1>5. CASE ReadCached(w) /\ kv[c] # NONE
    <2>1. PICK k : k = [j EXCEPT !.at = "putBack", !.sess = kv[c]]
      OBVIOUS
    <2>2. kv[c] \in Session
      BY <1>3, <1>5 DEF IInv, TypeOK
    <2>3. k \in Job /\ k.at = "putBack" /\ Resumes(j, k)
      BY <1>3, <2>1, <2>2 DEF Job, Labels, Resumes
    <2>4. job' = [job EXCEPT ![w] = k]
      BY <1>1, <1>5, <2>1 DEF ReadCached
    <2> QED BY <1>1, <2>3, <2>4 DEF Moves, Resumes
  <1>6. CASE WriteCached(w)
    <2>1. job' = [job EXCEPT ![w] = IF Owed(w) = "idle" THEN Idle
                                    ELSE [job[w] EXCEPT !.at = Owed(w), !.sess = NewSession]]
      BY <1>6 DEF WriteCached
    <2> QED BY <1>2, <1>3, <2>1, OwedJob
  <1> QED BY <1>4, <1>5, <1>6

(* ... and writes what it was told: paid, on the way to the orders.        *)
LEMMA TellSettles ==
    ASSUME IInv, Exact, Settled, NEW w \in Workers,
           WriteRow(w) \/ WriteSession(w) \/ ReadCached(w) \/ WriteCached(w)
    PROVE  Settled'
  <1>1. PICK c, j : c = job[w].c /\ j = job[w]
    OBVIOUS
  <1>2. j.at \in {"row", "session", "cached", "putBack"} /\ ~At(w, "idle")
    BY <1>1 DEF WriteRow, WriteSession, ReadCached, WriteCached, At
  <1>3. c \in Checkouts /\ j \in Job /\ j.op \in {"hook", "reconcile"}
    BY <1>1, <1>2, Settler DEF JobFits, OpFits
  <1>4. /\ UNCHANGED <<usage, orders, charge>>
        /\ \A d \in Checkouts \ {c} : kv'[d] = kv[d] /\ db'[d] = db[d] /\ row'[d] = row[d]
        /\ kv'[c] = kv[c] \/ kv'[c].pay = j.status
        /\ db'[c] = db[c] \/ (db'[c].pay = j.status /\ db'[c].voucher = db[c].voucher)
        /\ row'[c] = row[c] \/ row'[c].st = j.status
    <2>1. CASE WriteRow(w)
      <3>1. row' = [row EXCEPT ![c] = [row[c] EXCEPT !.st = j.status]]
        BY <1>1, <2>1 DEF WriteRow
      <3>2. row[c] \in Money({"none", "pending", "paid", "failed", "refunded"})
        BY <1>3 DEF IInv, TypeOK
      <3>3. row'[c].st = j.status /\ \A d \in Checkouts \ {c} : row'[d] = row[d]
        BY <1>3, <3>1, <3>2 DEF IInv, TypeOK, Money
      <3> QED BY <2>1, <3>3 DEF WriteRow, voucherVars, sessionVars
    <2>2. CASE WriteSession(w)
      <3>1. db' = [db EXCEPT ![c] = [db[c] EXCEPT !.pay = j.status]]
        BY <1>1, <2>2 DEF WriteSession, Update
      <3>2. db[c] \in Session /\ db \in [Checkouts -> Session]
        BY <1>3 DEF IInv, TypeOK
      <3>3. /\ db'[c].pay = j.status /\ db'[c].voucher = db[c].voucher
            /\ \A d \in Checkouts \ {c} : db'[d] = db[d]
        BY <1>3, <3>1, <3>2 DEF Session
      <3> QED BY <2>2, <3>3 DEF WriteSession, voucherVars, ledgerVars
    <2>3. CASE WriteCached(w)
      <3>1. kv' = [kv EXCEPT ![c] = [j.sess EXCEPT !.pay = j.status]]
        BY <1>1, <2>3 DEF WriteCached
      <3>2. j.sess \in Session /\ kv \in [Checkouts -> Session \cup {NONE}]
        BY <1>3 DEF IInv, TypeOK, Job
      <3>3. kv'[c].pay = j.status /\ \A d \in Checkouts \ {c} : kv'[d] = kv[d]
        BY <1>3, <3>1, <3>2 DEF Session
      <3> QED BY <2>3, <3>3 DEF WriteCached, voucherVars, ledgerVars
    <2>4. CASE ReadCached(w)
      BY <2>4 DEF ReadCached, voucherVars, sessionVars, ledgerVars
    <2> QED BY <2>1, <2>2, <2>3, <2>4
  <1>5. KeptMoney(c) /\ \A d \in Checkouts \ {c} : Kept(d)
    BY <1>4 DEF Kept, KeptMoney, VoucherStays, ShownPaid
  <1>6. ShownPaid(c)' => ShownPaid(c) \/ j.status = "paid"
    BY <1>4 DEF ShownPaid
  <1>7. ~Returning(j) /\ ~Recording(c, j)
    BY <1>2, <1>3 DEF Returning, Recording
  <1>8. ASSUME NEW l \in {"session", "cached"}, Goto(w, l) PROVE Settled'
    <2>1. PICK k : Moves(w, c, k) /\ k.at = l /\ Follows(j, k)
      BY <1>1, <1>2, <1>8, Goes DEF Labels, Exact
    <2>2. JobSettles(c, k)
      BY <1>3, <1>8, <2>1, TellerFits DEF Follows
    <2>3. PaidMoves(w, c, k)
      BY <1>1, <1>2, <1>3, <1>6, <1>8, <2>1 DEF PaidMoves, Settling, Follows
    <2> QED BY <1>1, <1>3, <1>5, <1>7, <2>1, <2>2, <2>3, Steady
  <1>9. ASSUME NEW k, Moves(w, c, k), (k.at = "putBack" /\ Resumes(j, k)) \/ GoesForOwed(j, k)
        PROVE  Settled'
    <2>1. k.at # "idle" => JobSettles(c, k)
      BY <1>3, <1>9, TellerFits DEF GoesForOwed, Resumes
    <2>2. PaidMoves(w, c, k)
      BY <1>1, <1>2, <1>3, <1>6, <1>9 DEF PaidMoves, Settling, GoesForOwed, Resumes
    <2> QED BY <1>1, <1>3, <1>5, <1>7, <1>9, <2>1, <2>2, Steady
  <1>10. CASE ReadCached(w) \/ WriteCached(w)
    BY <1>1, <1>9, <1>10, CachedMoves DEF Exact
  <1> QED BY <1>8, <1>10 DEF WriteRow, WriteSession

-----------------------------------------------------------------------------
(* The steps that bring the money to the orders.                           *)

(* The sweep releases what it was alone to hold.                           *)
LEMMA CompareSettles ==
    ASSUME IInv, Exact, Settled, NEW w \in Workers, CompareAndSet(w) PROVE Settled'
  <1>1. PICK c, j : c = job[w].c /\ j = job[w]
    OBVIOUS
  <1>2. j.at = "cas" /\ ~At(w, "idle") /\ Apart(j)
    BY <1>1 DEF CompareAndSet, At, Apart
  <1>3. c \in Checkouts /\ j.op = "sweep" /\ db[c].voucher = "reserved" /\ db[c] \in Session
    BY <1>1, <1>2, Settler DEF JobFits, OpFits, VoucherFits, IInv, TypeOK
  <1>4. ASSUME NEW d \in Checkouts PROVE Kept(d)
    <2>1. UNCHANGED <<usage, kv, row, orders, charge>>
      BY DEF CompareAndSet, voucherVars, ledgerVars
    <2>2. \/ db' = db
          \/ db' = [db EXCEPT ![c] = [db[c] EXCEPT !.voucher = "released"]]
      BY <1>1 DEF CompareAndSet, Update
    <2>3. \/ db'[d] = db[d]
          \/ /\ db'[d].pay = db[d].pay
             /\ db[d].voucher = "reserved" /\ db'[d].voucher = "released"
      BY <1>3, <2>2 DEF IInv, TypeOK, Session
    <2> QED BY <2>1, <2>3 DEF Kept, KeptMoney, VoucherStays, ShownPaid
  <1>5. CASE Goto(w, "release")
    <2>1. PICK k : Moves(w, c, k) /\ k.at = "release" /\ Follows(j, k)
      BY <1>1, <1>2, <1>5, Goes DEF Labels, Exact
    <2>2. JobSettles(c, k)
      BY <1>3, <2>1 DEF JobSettles, Unpaid, Follows
    <2> QED BY <1>1, <1>2, <1>3, <1>4, <2>1, <2>2, ApartSettles
  <1>6. CASE Finish(w)
    <2>1. PICK k : Moves(w, c, k) /\ k.at = "idle"
      BY <1>1, <1>2, <1>6, Ends
    <2> QED BY <1>1, <1>2, <1>3, <1>4, <2>1, ApartSettles
  <1> QED BY <1>5, <1>6 DEF CompareAndSet

(* The bank decides, a day passes, a batch leaves a row out or comes to it. *)
LEMMA StillSettles ==
    ASSUME IInv, Settled, NEW c \in Checkouts,
           Decide(c) \/ DayPasses(c) \/ FallsBehind(c) \/ CatchesUp(c)
    PROVE  Settled'
  <1>1. UNCHANGED <<usage, db, row, orders, job>>
    BY DEF Decide, DayPasses, FallsBehind, CatchesUp, voucherVars, sessionVars, ledgerVars
  <1>2. ASSUME NEW d \in Checkouts PROVE Kept(d)
    <2>1. charge'[d].st = "refunded" => charge'[d] = charge[d]
      BY DEF Decide, DayPasses, FallsBehind, CatchesUp, ledgerVars, IInv, TypeOK
    <2>2. kv'[d] = kv[d] \/ kv'[d] = NONE
      BY DEF Decide, DayPasses, FallsBehind, CatchesUp, sessionVars, IInv, TypeOK
    <2> QED BY <1>1, <2>1, <2>2 DEF Kept, KeptMoney, VoucherStays, ShownPaid
  <1> QED BY <1>1, <1>2, SettlesStill

(* The amount a webhook works with is the sum of the shares: an orderly    *)
(* behaviour has no review.                                                *)
LEMMA SharesAddUp ==
    ASSUME IInv, Exact, Settled, NEW w \in Workers, At(w, "settle")
    PROVE  Shares(w) = job[w].disc
  <1>1. PICK c, j : c = job[w].c /\ j = job[w]
    OBVIOUS
  <1>2. j.at = "settle" /\ ~At(w, "idle")
    BY <1>1 DEF At
  <1>3. SettlesAt(c) /\ c \in Checkouts /\ j.c = c /\ JobTrue(j) /\ CheckoutFits(c)
    BY <1>1, <1>2, Settler
  <1>4. j.disc = charge[c].disc /\ charge[c].st \in {"paid", "refunded"}
    BY <1>2, <1>3 DEF JobTrue, KnowsAmount, Paying, Took
  <1>5. charge[c].disc = (db[c].voucher # "none")
    BY <1>3, <1>4 DEF CheckoutFits, AmountsAgree, SettlesAt, ReturnedIsSettling
  <1> QED BY <1>1, <1>4, <1>5 DEF Shares

(* The orders are paid, and the discount goes on to be recorded.           *)
LEMMA SettleSettles ==
    ASSUME IInv, Exact, Settled, NEW w \in Workers, Settle(w) PROVE Settled'
  <1>1. PICK c, j : c = job[w].c /\ j = job[w]
    OBVIOUS
  <1>2. j.at = "settle" /\ ~At(w, "idle") /\ PayOrders(w)
    BY <1>1, SharesAddUp DEF Settle, At
  <1>3. /\ SettlesAt(c) /\ JobSettles(c, j) /\ c \in Checkouts /\ JobFits(c, j)
        /\ j.op \in {"pay", "hook", "reconcile"}
    BY <1>1, <1>2, Settler DEF JobFits, OpFits
  <1>4. /\ UNCHANGED <<usage, kv, db, row, charge>>
        /\ \A d \in Checkouts \ {c} : orders'[d] = orders[d]
        /\ orders'[c].st # "unpaid"
        /\ orders[c].st # "unpaid" => orders'[c] = orders[c]
    <2>1. UNCHANGED <<usage, kv, db, row, charge>>
      BY <1>2 DEF PayOrders, voucherVars, sessionVars
    <2>2. PICK r : r = [st |-> "completed", disc |-> Shares(w)]
      OBVIOUS
    <2>3. orders' = IF orders[c].st = "unpaid" THEN [orders EXCEPT ![c] = r] ELSE orders
      BY <1>1, <1>2, <2>2 DEF PayOrders
    <2>4. r.st # "unpaid" /\ c \in DOMAIN orders
      BY <1>3, <2>2 DEF IInv, TypeOK
    <2> QED BY <2>1, <2>3, <2>4
  <1>5. PICK k : /\ Moves(w, c, k)
                 /\ \/ k.at \in {"load", "flip"} /\ Follows(j, k)
                    \/ k.at = "idle" /\ db[c].voucher = "none"
    <2>1. CASE Finish(w) /\ j.op = "pay" /\ j.sess.voucher = "none"
      BY <1>1, <1>2, <1>3, <2>1, Ends DEF JobFits, VoucherFits
    <2>2. ASSUME NEW l \in {"load", "flip"}, Goto(w, l)
          PROVE  \E k : Moves(w, c, k) /\ k.at \in {"load", "flip"} /\ Follows(j, k)
      BY <1>1, <1>2, <2>2, Goes DEF Labels, Exact
    <2> QED BY <1>1, <1>2, <2>1, <2>2 DEF PayOrders
  <1>6. \A d \in Checkouts \ {c} : Kept(d)
    BY <1>4 DEF Kept, KeptMoney, VoucherStays, ShownPaid
  <1>7. OrdersGrow(c) /\ PaidMoves(w, c, k)
    BY <1>4 DEF OrdersGrow, PaidMoves
  <1>8. k.at # "idle" => JobSettles(c, k)'
    BY <1>3, <1>5 DEF JobSettles, Unpaid, Follows
  <1>9. ~Returning(j) /\ ReturnMoves(w, c, k)
    BY <1>1, <1>2, <1>3, <1>4 DEF ReturnMoves, SettlesAt, ReturnedIsSettling, Returning
  <1>10. UsesAreReturned(c)'
    BY <1>3, <1>4 DEF SettlesAt, UsesAreReturned
  <1>11. DiscountMoves(w, c, k)
    BY <1>4, <1>5 DEF DiscountMoves, Discounted, Recording
  <1> QED BY <1>1, <1>3, <1>5, <1>6, <1>7, <1>8, <1>9, <1>10, <1>11, SettlesOn DEF IInv

(* The voucher is loaded: the reserved one when there is a discount.       *)
LEMMA LoadSettles ==
    ASSUME IInv, IInv', Exact, Settled, NEW w \in Workers, Load(w) PROVE Settled'
  <1>1. PICK c, j : c = job[w].c /\ j = job[w]
    OBVIOUS
  <1>2. j.at = "load" /\ ~At(w, "idle")
    BY <1>1 DEF Load, At
  <1>3. /\ c \in Checkouts /\ j \in Job /\ j.c = c /\ j.op \in {"hook", "reconcile"}
        /\ JobTrue(j)
    BY <1>1, <1>2, Settler DEF JobFits, OpFits
  <1>4. \A d \in Checkouts : Kept(d)
    BY DEF Load, voucherVars, sessionVars, ledgerVars, Kept, KeptMoney, VoucherStays, ShownPaid
  <1>5. ~Settling(j) /\ ~Returning(j)
    BY <1>2, <1>3 DEF Settling, Returning
  <1>6. ~Open(c)
    BY <1>2, <1>3 DEF JobTrue, Paying, Took, Open
  <1>7. kv[c] = NONE \/ kv[c].voucher = db[c].voucher
    BY <1>3, <1>6, PaidCopiesAgree DEF Exact
  <1>8. PICK k : /\ Moves(w, c, k)
                 /\ \/ k.at = "idle" /\ db[c].voucher = "none"
                    \/ k.at = "flip" /\ k.op = j.op
    <2>1. CASE Finish(w) /\ db[c].voucher = "none"
      BY <1>1, <1>2, <2>1, Ends
    <2>2. ASSUME NEW v, v = db[c].voucher,
                 job' = [job EXCEPT ![w].at = "flip", ![w].sess.voucher = v]
          PROVE  \E k : Moves(w, c, k) /\ k.at = "flip" /\ k.op = j.op
      <3>1. PICK k : k = [j EXCEPT !.at = "flip", !.sess = [j.sess EXCEPT !.voucher = v]]
        OBVIOUS
      <3>2. k.at = "flip" /\ k.c = c /\ k.op = j.op
        BY <1>3, <3>1 DEF Job
      <3>3. job' = [job EXCEPT ![w] = k]
        BY <1>1, <2>2, <3>1
      <3>4. k \in Job
        BY <3>3 DEF IInv, TypeOK
      <3> QED BY <1>1, <3>2, <3>3, <3>4 DEF Moves
    <2> QED BY <1>1, <1>7, <2>1, <2>2 DEF Load
  <1>9. KeptMoney(c) /\ PaidMoves(w, c, k)
    BY <1>1, <1>3, <1>4, <1>5 DEF Kept, PaidMoves
  <1>10. k.at # "idle" => JobSettles(c, k)
    BY <1>3, <1>8, TellerFits
  <1>11. Discounted(c) => Recording(c, k)
    BY <1>8 DEF Discounted, Recording
  <1> QED BY <1>1, <1>3, <1>4, <1>5, <1>8, <1>9, <1>10, <1>11, Steady

(* The hold becomes a use.                                                 *)
LEMMA FlipSettles ==
    ASSUME IInv, Exact, Settled, NEW w \in Workers, Flip(w) PROVE Settled'
  <1>1. PICK c, j : c = job[w].c /\ j = job[w]
    OBVIOUS
  <1>2. j.at = "flip" /\ ~At(w, "idle") /\ UNCHANGED orders
    BY <1>1 DEF Flip, At, ledgerVars
  <1>3. /\ c \in Checkouts /\ SettlesAt(c) /\ JobSettles(c, j)
        /\ j.op \in {"pay", "hook", "reconcile"}
    BY <1>1, <1>2, Settler DEF JobFits, OpFits, Redeeming
  <1>4. PICK won, k : Flips(w, c, j, won, k)
    BY <1>1, FlipMoves
  <1>5. /\ UNCHANGED <<kv, db, row, charge>> /\ Moves(w, c, k)
        /\ k.at = "look" /\ k.op = j.op
        /\ \A d \in Checkouts \ {c} : usage'[d] = usage[d]
        /\ \A p \in Parts : usage'[c][p] = IF usage[c][p] = "reserved" THEN "active"
                                           ELSE usage[c][p]
    BY <1>4 DEF Flips
  <1>6. ~Settling(j) /\ ~Returning(j)
    BY <1>2, <1>3 DEF Settling, Returning
  <1>7. \A d \in Checkouts \ {c} : Kept(d)
    BY <1>2, <1>5 DEF Kept, KeptMoney, VoucherStays, ShownPaid
  <1>8. OrdersGrow(c) /\ JobSettles(c, k)'
    BY <1>2, <1>3, <1>5 DEF OrdersGrow, JobSettles, Unpaid
  <1>9. PaidMoves(w, c, k)
    BY <1>1, <1>5, <1>6 DEF PaidMoves, ShownPaid
  <1>10. ReturnMoves(w, c, k)
    BY <1>1, <1>3, <1>5, <1>6 DEF ReturnMoves, SettlesAt, ReturnedIsSettling
  <1>11. UsesAreReturned(c)'
    BY <1>2, <1>3, <1>5 DEF SettlesAt, UsesAreReturned
  <1>12. DiscountMoves(w, c, k)
    BY <1>5 DEF DiscountMoves, Recording
  <1> QED BY <1>1, <1>3, <1>5, <1>7, <1>8, <1>9, <1>10, <1>11, <1>12, SettlesOn DEF IInv

(* At a redemption of a discount, a row that is there is a use.            *)
LEMMA RowsAreUses ==
    ASSUME IInv, NEW c \in Checkouts, NEW j, CheckoutFits(c), JobFits(c, j), SettlesAt(c),
           j.at \in {"look", "insert"}, Discounted(c), NEW p \in Parts, usage[c][p] # "none"
    PROVE  usage[c][p] = "active"
  <1>1. usage[c][p] \in {"none", "reserved", "active", "refunded"}
    BY DEF IInv, TypeOK
  <1>2. usage[c][p] # "refunded"
    BY DEF SettlesAt, UsesAreReturned, Discounted
  <1>3. usage[c][p] # "reserved"
    BY DEF CheckoutFits, ClaimIsFirst, JobFits, UsageFits
  <1> QED BY <1>1, <1>2, <1>3

(* The rows that are missing are looked up.                                *)
LEMMA LookSettles ==
    ASSUME IInv, IInv', Exact, Settled, NEW w \in Workers, Look(w) PROVE Settled'
  <1>1. PICK c, j : c = job[w].c /\ j = job[w]
    OBVIOUS
  <1>2. j.at = "look" /\ ~At(w, "idle")
    BY <1>1 DEF Look, At
  <1>3. /\ c \in Checkouts /\ SettlesAt(c) /\ JobSettles(c, j) /\ j \in Job /\ j.c = c
        /\ CheckoutFits(c) /\ JobFits(c, j)
        /\ j.op \in {"pay", "hook", "reconcile"}
    BY <1>1, <1>2, Settler DEF JobFits, OpFits, Redeeming
  <1>4. \A d \in Checkouts : Kept(d)
    BY DEF Look, voucherVars, sessionVars, ledgerVars, Kept, KeptMoney, VoucherStays, ShownPaid
  <1>5. ~Settling(j) /\ ~Returning(j)
    BY <1>2, <1>3 DEF Settling, Returning
  <1>6. Discounted(c) => /\ j.sess.voucher = "reserved"
                         /\ \A p \in Parts : usage[c][p] # "none" => usage[c][p] = "active"
    BY <1>2, <1>3, RowsAreUses DEF Discounted, JobFits, VoucherFits, Redeeming
  <1>7. ASSUME NEW k, Moves(w, c, k), k.at # "idle" => k.op = j.op,
               k.at \in {"idle", "count", "slot", "insert"},
               Discounted(c) => Recording(c, k) \/ AllActive(c)
        PROVE  Settled'
    <2>1. KeptMoney(c) /\ PaidMoves(w, c, k)
      BY <1>1, <1>3, <1>4, <1>5 DEF Kept, PaidMoves
    <2>2. k.at # "idle" => JobSettles(c, k)
      BY <1>3, <1>7 DEF JobSettles, Unpaid
    <2> QED BY <1>1, <1>3, <1>4, <1>5, <1>7, <2>1, <2>2, Steady
  <1>8. CASE Live(c) = Parts /\ Then(w, Last(w, job[w].won))
    <2>1. AllActive(c) \/ ~Discounted(c)
      BY <1>6, <1>8 DEF AllActive, Live
    <2>2. CASE Finish(w)
      <3>1. PICK k : Moves(w, c, k) /\ k.at = "idle"
        BY <1>1, <1>2, <2>2, Ends
      <3> QED BY <1>7, <2>1, <3>1
    <2>3. CASE Goto(w, "count")
      <3>1. PICK k : Moves(w, c, k) /\ k.at = "count" /\ Follows(j, k)
        BY <1>1, <1>2, <2>3, Goes DEF Labels, Exact
      <3> QED BY <1>7, <2>1, <3>1 DEF Follows
    <2> QED BY <1>8, <2>2, <2>3 DEF Then, Last
  <1>9. ASSUME NEW claimed \in BOOLEAN, claimed = (Live(c) = {} /\ j.sess.voucher # "reserved"),
               job' = [job EXCEPT ![w].at = IF claimed THEN "slot" ELSE "insert",
                                  ![w].todo = Parts \ Live(c), ![w].claimed = claimed]
        PROVE  Settled'
    <2>1. PICK l \in {"slot", "insert"} : /\ l = IF claimed THEN "slot" ELSE "insert"
                                          /\ l = "slot" <=> claimed
      OBVIOUS
    <2>2. PICK k : k = [j EXCEPT !.at = l, !.todo = Parts \ Live(c), !.claimed = claimed]
      OBVIOUS
    <2>3. k.at = l /\ k.c = c /\ k.op = j.op /\ k.todo = Parts \ Live(c)
      BY <1>3, <2>2 DEF Job
    <2>4. job' = [job EXCEPT ![w] = k]
      BY ZenonT(60), <1>1, <1>9, <2>1, <2>2
    <2>5. k \in Job
      BY <2>4 DEF IInv, TypeOK
    <2>6. Moves(w, c, k)
      BY <1>1, <2>3, <2>4, <2>5 DEF Moves
    <2>7. ASSUME Discounted(c) PROVE Recording(c, k)
      <3>1. k.at = "insert"
        BY <1>6, <1>9, <2>1, <2>3, <2>7
      <3>2. \A p \in Parts : usage[c][p] # "active" => p \in k.todo
        BY <1>6, <2>3, <2>7 DEF Live
      <3> QED BY <3>1, <3>2 DEF Recording
    <2> QED BY <1>7, <2>1, <2>3, <2>6, <2>7
  <1> QED BY <1>1, <1>8, <1>9 DEF Look

(* A row is added, until all of them are uses.                             *)
LEMMA InsertSettles ==
    ASSUME IInv, Exact, Settled, Orderly', NEW w \in Workers, Insert(w) PROVE Settled'
  <1>1. PICK c, j : c = job[w].c /\ j = job[w]
    OBVIOUS
  <1>2. /\ j.at = "insert" /\ ~At(w, "idle") /\ UNCHANGED <<kv, db, row, orders, charge>>
    <2>1. At(w, "insert") /\ UNCHANGED <<sessionVars, ledgerVars>>
      BY Zenon DEF Insert
    <2> QED BY <1>1, <2>1 DEF At, sessionVars, ledgerVars
  <1>3. /\ c \in Checkouts /\ SettlesAt(c) /\ JobSettles(c, j) /\ j \in Job
        /\ CheckoutFits(c) /\ JobFits(c, j)
        /\ j.op \in {"pay", "hook", "reconcile"}
    BY <1>1, <1>2, Settler DEF JobFits, OpFits, Redeeming
  <1>4. PICK p, added, claim, k : Inserts(w, c, j, p, added, claim, k)
    BY Zenon, <1>1, InsertInOrder
  <1>5. /\ p \in Parts /\ Moves(w, c, k)
        /\ k.at \in {"insert", "unslot", "count", "idle"}
        /\ k.at # "idle" => k.op = j.op /\ k.todo = j.todo \ {p}
        /\ k.at = "insert" \/ j.todo = {p}
        /\ added => usage[c][p] = "none"
        /\ usage[c][p] = "none" => added
        /\ usage' = IF added THEN [usage EXCEPT ![c][p] = "active"] ELSE usage
    BY <1>3, <1>4 DEF Inserts, Job
  <1>6. /\ \A d \in Checkouts \ {c} : usage'[d] = usage[d]
        /\ \A q \in Parts : usage'[c][q] = IF added /\ q = p THEN "active" ELSE usage[c][q]
    BY <1>3, <1>5 DEF IInv, TypeOK
  <1>7. ~Settling(j) /\ ~Returning(j)
    BY <1>2, <1>3 DEF Settling, Returning
  <1>8. \A d \in Checkouts \ {c} : Kept(d)
    BY <1>2, <1>6 DEF Kept, KeptMoney, VoucherStays, ShownPaid
  <1>9. OrdersGrow(c) /\ (k.at # "idle" => JobSettles(c, k)')
    BY <1>2, <1>3, <1>5 DEF OrdersGrow, JobSettles, Unpaid
  <1>10. PaidMoves(w, c, k)
    BY <1>1, <1>2, <1>7 DEF PaidMoves, ShownPaid
  <1>11. ReturnMoves(w, c, k)
    BY <1>1, <1>2, <1>3, <1>7 DEF ReturnMoves, SettlesAt, ReturnedIsSettling
  <1>12. UsesAreReturned(c)'
    BY <1>2, <1>3, <1>6 DEF SettlesAt, UsesAreReturned
  <1>13. DiscountMoves(w, c, k)
    <2> SUFFICES ASSUME Discounted(c)' PROVE
          /\ Discounted(c)
          /\ \A q \in Parts : usage[c][q] = "active" => usage'[c][q] = "active"
          /\ Recording(c, j) => Recording(c, k)' \/ AllActive(c)'
      BY <1>1 DEF DiscountMoves
    <2>1. Discounted(c)
      BY <1>2 DEF Discounted
    <2>2. \A q \in Parts : usage[c][q] = "active" => usage'[c][q] = "active"
      BY <1>6
    <2>3. usage'[c][p] = "active"
      BY <1>2, <1>3, <1>5, <1>6, <2>1, RowsAreUses
    <2>4. ASSUME Recording(c, j) PROVE Recording(c, k)' \/ AllActive(c)'
      <3>1. \A q \in Parts : usage[c][q] # "active" => q \in j.todo
        BY <1>2, <2>4 DEF Recording
      <3>2. \A q \in Parts : usage'[c][q] # "active" => q \in j.todo \ {p}
        BY <2>2, <2>3, <3>1
      <3> QED BY <1>5, <3>2 DEF Recording, AllActive
    <2> QED BY <2>1, <2>2, <2>4
  <1> QED BY <1>1, <1>3, <1>5, <1>8, <1>9, <1>10, <1>11, <1>12, <1>13, SettlesOn DEF IInv

-----------------------------------------------------------------------------
(* The refund.                                                             *)

(* The money goes back: the handler is on the way to take it from the      *)
(* orders.                                                                 *)
LEMMA CallRefundSettles ==
    ASSUME IInv, Exact, Settled, NEW w \in Workers, CallRefund(w) PROVE Settled'
  <1>1. PICK c, j : c = job[w].c /\ j = job[w]
    OBVIOUS
  <1>2. /\ j.at = "callRefund" /\ ~At(w, "idle") /\ Apart(j)
        /\ UNCHANGED <<usage, kv, db, row, orders>>
    BY <1>1 DEF CallRefund, At, Apart, voucherVars, sessionVars
  <1>3. /\ c \in Checkouts /\ SettlesAt(c) /\ JobSettles(c, j) /\ j \in Job /\ j.c = c
        /\ CheckoutFits(c) /\ j.op = "refund" /\ orders[c].st # "unpaid"
    BY <1>1, <1>2, Settler DEF JobFits, OpFits, JobSettles
  <1>4. CASE UNCHANGED charge /\ Finish(w)
    <2>1. \A d \in Checkouts : Kept(d)
      BY <1>2, <1>4 DEF Kept, KeptMoney, VoucherStays, ShownPaid
    <2>2. PICK k : Moves(w, c, k) /\ k.at = "idle"
      BY <1>1, <1>2, <1>4, Ends
    <2> QED BY <1>1, <1>2, <1>3, <2>1, <2>2, ApartSettles
  <1>5. CASE /\ charge[c].st \in {"paid", "refunded"}
             /\ charge' = [charge EXCEPT ![c].st = "refunded"]
             /\ job' = [job EXCEPT ![w].at = "put", ![w].sess.pay = "refunded"]
    <2>1. PICK k : k = [j EXCEPT !.at = "put", !.sess = [j.sess EXCEPT !.pay = "refunded"]]
      OBVIOUS
    <2>2. k \in Job /\ k.at = "put" /\ k.c = c /\ k.op = "refund"
      BY <1>3, <2>1 DEF Job, Labels, Session
    <2>3. Moves(w, c, k)
      BY <1>1, <1>5, <2>1, <2>2 DEF Moves
    <2>4. /\ charge'[c].st = "refunded" /\ charge'[c].disc = charge[c].disc
          /\ \A d \in Checkouts \ {c} : charge'[d] = charge[d]
      BY <1>3, <1>5 DEF IInv, TypeOK
    <2>5. \A d \in Checkouts \ {c} : Kept(d)
      BY <1>2, <2>4 DEF Kept, KeptMoney, VoucherStays, ShownPaid
    <2>6. OrdersGrow(c) /\ JobSettles(c, k)'
      BY <1>2, <1>3, <2>2 DEF OrdersGrow, JobSettles, Unpaid
    <2>7. ~Settling(j) /\ ~Returning(j) /\ ~Recording(c, j)
      BY <1>2 DEF Settling, Returning, Recording
    <2>8. PaidMoves(w, c, k)
      BY <1>1, <1>2, <2>7 DEF PaidMoves, ShownPaid
    <2>9. charge[c].disc = (db[c].voucher # "none")
      BY <1>3, <1>5 DEF SettlesAt, ReturnedIsSettling, CheckoutFits, AmountsAgree
    <2>10. ReturnMoves(w, c, k)
      BY <1>1, <1>2, <2>2, <2>4, <2>7, <2>9 DEF ReturnMoves, Returning
    <2>11. UsesAreReturned(c)'
      BY <1>2, <1>3 DEF SettlesAt, UsesAreReturned
    <2>12. DiscountMoves(w, c, k)
      BY <1>1, <1>2, <2>7 DEF DiscountMoves, Discounted
    <2> QED BY <1>1, <1>3, <2>3, <2>5, <2>6, <2>8, <2>10, <2>11, <2>12, SettlesOn DEF IInv
  <1> QED BY <1>1, <1>4, <1>5 DEF CallRefund

(* It leaves the orders that were paid.                                    *)
LEMMA SettleRefundSettles ==
    ASSUME IInv, Exact, Settled, NEW w \in Workers, SettleRefund(w) PROVE Settled'
  <1>1. PICK c, j : c = job[w].c /\ j = job[w]
    OBVIOUS
  <1>2. /\ j.at = "settleRefund" /\ ~At(w, "idle")
        /\ UNCHANGED <<usage, kv, db, row, charge>>
    BY <1>1 DEF SettleRefund, At, voucherVars, sessionVars
  <1>3. /\ c \in Checkouts /\ SettlesAt(c) /\ JobSettles(c, j)
        /\ j.op \in {"hook", "reconcile", "refund"}
    BY <1>1, <1>2, Settler DEF JobFits, OpFits
  <1>4. /\ \A d \in Checkouts \ {c} : orders'[d] = orders[d]
        /\ orders[c].st = "unpaid" => orders'[c].st = "unpaid"
        /\ orders[c].st # "unpaid" => orders'[c].st = "refunded"
    <2>1. orders' = IF orders[c].st = "completed" THEN [orders EXCEPT ![c].st = "refunded"]
                    ELSE orders
      BY <1>1 DEF SettleRefund
    <2>2. orders[c] \in Money({"unpaid", "completed", "refunded"})
      BY <1>3 DEF IInv, TypeOK
    <2> QED BY <1>3, <2>1, <2>2 DEF IInv, TypeOK, Money
  <1>5. \A d \in Checkouts \ {c} : Kept(d)
    BY <1>2, <1>4 DEF Kept, KeptMoney, VoucherStays, ShownPaid
  <1>6. ~Settling(j) /\ (Returning(j) => orders'[c].st = "refunded")
    BY <1>2, <1>3, <1>4 DEF Settling, Returning, JobSettles
  <1>7. ASSUME NEW k, Moves(w, c, k),
               k.at # "idle" => k.at = "mark" /\ j.op = "refund" /\ k.op = "refund"
        PROVE  Settled'
    <2>1. OrdersGrow(c) /\ (k.at # "idle" => JobSettles(c, k)')
      BY <1>3, <1>4, <1>7 DEF OrdersGrow, JobSettles, Unpaid
    <2>2. PaidMoves(w, c, k)
      BY <1>1, <1>2, <1>6 DEF PaidMoves, ShownPaid
    <2>3. ReturnMoves(w, c, k)
      BY <1>1, <1>2, <1>3, <1>6 DEF ReturnMoves, SettlesAt, ReturnedIsSettling
    <2>4. UsesAreReturned(c)'
      BY <1>2, <1>3, <1>4 DEF SettlesAt, UsesAreReturned
    <2>5. DiscountMoves(w, c, k)
      BY <1>4 DEF DiscountMoves, Discounted
    <2> QED BY <1>1, <1>3, <1>5, <1>7, <2>1, <2>2, <2>3, <2>4, <2>5, SettlesOn DEF IInv
  <1>8. CASE j.op = "refund" /\ Goto(w, "mark")
    <2>1. PICK k : Moves(w, c, k) /\ k.at = "mark" /\ Follows(j, k)
      BY <1>1, <1>2, <1>8, Goes DEF Labels, Exact
    <2> QED BY <1>7, <1>8, <2>1 DEF Follows
  <1>9. CASE Finish(w)
    <2>1. PICK k : Moves(w, c, k) /\ k.at = "idle"
      BY <1>1, <1>2, <1>9, Ends
    <2> QED BY <1>7, <2>1
  <1> QED BY <1>1, <1>8, <1>9 DEF SettleRefund

(* The uses become refunded: the orders are.                               *)
LEMMA MarkSettles ==
    ASSUME IInv, Exact, Settled, NEW w \in Workers, Mark(w) PROVE Settled'
  <1>1. PICK c, j : c = job[w].c /\ j = job[w]
    OBVIOUS
  <1>2. /\ j.at = "mark" /\ ~At(w, "idle") /\ Apart(j)
        /\ UNCHANGED <<kv, db, row, orders, charge>>
    BY <1>1 DEF Mark, At, Apart, sessionVars, ledgerVars
  <1>3. /\ c \in Checkouts /\ SettlesAt(c) /\ JobSettles(c, j) /\ orders[c].st = "refunded"
    BY <1>1, <1>2, Settler DEF JobSettles
  <1>4. \A d \in Checkouts \ {c} : usage'[d] = usage[d]
    BY <1>1, <1>3 DEF Mark, IInv, TypeOK
  <1>5. PICK k : Moves(w, c, k) /\ k.at = "fully" /\ Follows(j, k)
    BY <1>1, <1>2, Goes DEF Mark, Labels, Exact
  <1>6. \A d \in Checkouts \ {c} : Kept(d)
    BY <1>2, <1>4 DEF Kept, KeptMoney, VoucherStays, ShownPaid
  <1>7. OrdersGrow(c) /\ JobSettles(c, k)' /\ UsesAreReturned(c)'
    BY <1>2, <1>3, <1>5 DEF OrdersGrow, JobSettles, Unpaid, Follows, UsesAreReturned
  <1>8. ~Settling(j) /\ ~Returning(j)
    BY <1>2 DEF Settling, Returning
  <1>9. PaidMoves(w, c, k)
    BY <1>1, <1>2, <1>8 DEF PaidMoves, ShownPaid
  <1>10. ReturnMoves(w, c, k)
    BY <1>1, <1>2, <1>3, <1>8 DEF ReturnMoves, SettlesAt, ReturnedIsSettling
  <1>11. DiscountMoves(w, c, k)
    BY <1>2, <1>3 DEF DiscountMoves, Discounted
  <1> QED BY <1>1, <1>3, <1>5, <1>6, <1>7, <1>9, <1>10, <1>11, SettlesOn DEF IInv

-----------------------------------------------------------------------------
(* The money is settled at the beginning ...                               *)
LEMMA InitSettles == Init => Settled
  <1> SUFFICES ASSUME Init, NEW c \in Checkouts PROVE SettlesAt(c)
    BY DEF Settled
  <1>1. ~ShownPaid(c)
    <2>1. PICK s : s = NewSession
      OBVIOUS
    <2>2. kv[c] = s /\ db[c] = s /\ s.pay # "paid"
      BY <2>1 DEF Init, NewSession
    <2>3. row[c].st # "paid"
      BY DEF Init
    <2> QED BY <2>2, <2>3 DEF ShownPaid
  <1>2. charge[c].st # "refunded" /\ orders[c].st = "unpaid"
    BY DEF Init
  <1>3. \A p \in Parts : usage[c][p] # "refunded"
    BY DEF Init
  <1>4. \A w \in Workers : ~On(w, c)
    BY DEF Init, On, At, Idle
  <1> QED BY <1>1, <1>2, <1>3, <1>4
          DEF SettlesAt, PaidIsSettling, ReturnedIsSettling, UsesAreReturned,
              DiscountIsRecording, Discounted

(* ... and after every step of an orderly behaviour.                       *)
LEMMA NextSettles == IInv /\ CountInv /\ SettleInv /\ [Next]_vars => SettleInv'
  <1> SUFFICES ASSUME IInv, CountInv, SettleInv, [Next]_vars, Orderly' PROVE Settled'
    BY DEF SettleInv, Settled
  <1>1. Orderly /\ Exact /\ Settled
    BY OrderIsLost DEF CountInv, SettleInv, Settled
  <1>2. IInv'
    BY NextIInv
  <1>3. CASE UNCHANGED vars
    <2>1. UNCHANGED <<job, usage, kv, db, row, orders, charge>>
      BY <1>3 DEF vars, voucherVars, sessionVars, ledgerVars
    <2>2. \A d \in Checkouts : Kept(d)
      BY <2>1 DEF Kept, KeptMoney, VoucherStays, ShownPaid
    <2> QED BY <1>1, <2>1, <2>2, SettlesStill
  <1>4. ASSUME NEW w \in Workers, NEW c \in Checkouts,
               \/ Apply(w, c) \/ Remove(w, c) \/ Pay(w, c)
               \/ Reconcile(w, c) \/ Refund(w, c) \/ Sweep(w, c)
               \/ \E e \in Events : Hook(w, c, e)
        PROVE  Settled'
    BY <1>1, <1>4, AskSettles, BackSettles
  <1>5. ASSUME NEW w \in Workers, Step(w) PROVE Settled'
    <2>1. CASE ClaimSlot(w) \/ Hold(w) \/ GiveBack(w) \/ Cache(w) \/ Save(w) \/ Release(w)
      BY <1>1, <1>2, <2>1, ClaimSettles, CountSettles, CacheSettles
    <2>2. CASE Unhold(w) \/ Charge(w) \/ Put(w) \/ Persist(w) \/ Upsert(w) \/ Find(w) \/ Query(w)
      BY <1>1, <1>2, <2>2, CountSettles, ChargeSettles, OutcomeSettles, FindSettles
    <2>3. CASE \/ WriteRow(w) \/ WriteSession(w) \/ ReadCached(w) \/ WriteCached(w)
               \/ Settle(w) \/ Load(w)
      BY <1>1, <1>2, <2>3, TellSettles, SettleSettles, LoadSettles
    <2>4. CASE Flip(w) \/ Look(w) \/ Slot(w) \/ Insert(w) \/ Unslot(w) \/ CountPaid(w)
      BY <1>1, <1>2, <2>4, FlipSettles, LookSettles, InsertSettles, CountSettles
    <2>5. CASE \/ CallRefund(w) \/ SettleRefund(w) \/ Mark(w) \/ Fully(w) \/ Uncount(w)
               \/ CompareAndSet(w)
      BY <1>1, <2>5, CallRefundSettles, SettleRefundSettles, MarkSettles, CountSettles,
         CompareSettles
    <2> QED BY <1>5, <2>1, <2>2, <2>3, <2>4, <2>5 DEF Step
  <1>6. ASSUME NEW w \in Workers, StoreFails(w) \/ Stop(w) PROVE Settled'
    BY <1>1, <1>6, StopSettles
  <1>7. ASSUME NEW c \in Checkouts, Decide(c) \/ DayPasses(c) \/ FallsBehind(c) \/ CatchesUp(c)
        PROVE  Settled'
    BY <1>1, <1>7, StillSettles
  <1> QED BY <1>3, <1>4, <1>5, <1>6, <1>7 DEF Next

(* Both invariants hold in every behaviour.                                *)
LEMMA AlwaysSettled == Spec => [](CountInv /\ SettleInv)
  <1>1. Init => CountInv /\ SettleInv
    BY InitExact, InitSettles DEF CountInv, SettleInv, Settled
  <1> QED BY <1>1, NextCounts, NextSettles, AlwaysIInv, PTL DEF Spec

(* Once no handler runs, nobody answers for what is not settled.           *)
LEMMA QuietSettles == SettleInv => DiscountIsRecorded /\ MoneyIsSettled
  <1> SUFFICES ASSUME SettleInv, Quiet, Orderly, NEW c \in Checkouts
               PROVE  /\ Discounted(c) => AllActive(c)
                      /\ ShownPaid(c) => orders[c].st # "unpaid"
                      /\ charge[c].st = "refunded" => orders[c].st = "refunded"
    BY DEF DiscountIsRecorded, MoneyIsSettled, Discounted, AllActive
  <1>1. SettlesAt(c) /\ \A w \in Workers : ~On(w, c)
    BY DEF SettleInv, Quiet, On
  <1> QED BY <1>1 DEF SettlesAt, DiscountIsRecording, AllActive, PaidIsSettling,
                      ReturnedIsSettling

(* A discount that was reserved until the money came is recorded as a use  *)
(* for every order it was taken off, by the request or by the event that   *)
(* tells.                                                                  *)
THEOREM DiscountsAreRecorded == Spec => []DiscountIsRecorded
  BY QuietSettles, AlwaysSettled, PTL

(* Money that any copy of the session shows paid has reached the stalls'   *)
(* orders once no handler runs, and money that went back has left them.    *)
THEOREM MoneyReachesOrders == Spec => []MoneyIsSettled
  BY QuietSettles, AlwaysSettled, PTL

-----------------------------------------------------------------------------
(* The book: what a step does to the claims and to the uses taken.         *)

(* At most the handler of w moves, at checkout c.                          *)
Only(w, c) ==
    /\ \A v \in Workers \ {w} : job'[v] = job[v]
    /\ At(w, "idle") \/ job[w].c = c
    /\ job'[w].at = "idle" \/ job'[w].c = c

(* The claim's row is a use, or refunded, as it was.                       *)
RowStays(d) ==
    \A u \in {"active", "refunded"} : usage'[d][ClaimPart] = u <=> usage[d][ClaimPart] = u

(* A claim stays when the voucher and the row do, and the handler does not *)
(* begin or cease to give it back.                                         *)
LEMMA ClaimStays ==
    ASSUME IInv, IInv', NEW w \in Workers, NEW c, Only(w, c), NEW d \in Checkouts,
           db'[d].voucher = db[d].voucher, RowStays(d),
           d # c \/ (GivesBack(w, d)' <=> GivesBack(w, d))
    PROVE  ClaimOf(d)' = ClaimOf(d)
  <1>1. /\ usage[d][ClaimPart] \in {"none", "reserved", "active", "refunded"}
        /\ usage'[d][ClaimPart] \in {"none", "reserved", "active", "refunded"}
    BY CheckoutAssumption DEF IInv, TypeOK
  <1>2. Holding(d)' <=> Holding(d)
    BY <1>1 DEF Holding, RowStays
  <1>3. ASSUME NEW v \in Workers PROVE GivesBack(v, d)' <=> GivesBack(v, d)
    <2>1. CASE v # w
      BY <2>1 DEF Only, GivesBack, On, At
    <2>2. CASE v = w /\ d # c
      BY <2>2 DEF Only, GivesBack, On, At
    <2> QED BY <2>1, <2>2
  <1>4. Reserving(d)' <=> Reserving(d)
    BY <1>2, <1>3 DEF Reserving
  <1> QED BY <1>1, <1>4 DEF ClaimOf, RowStays

(* The uses taken cover the checkouts that hold the voucher or used it.    *)
LEMMA TakenCovers ==
    ASSUME Exact'
    PROVE  Cardinality({c \in Checkouts : ClaimOf(c)' \in {"held", "used"}}) <= used'
  <1> DEFINE S == {c \in Checkouts : ClaimOf(c)' \in {"held", "used"}}
             U == {c \in Checkouts : Using(c)'}
             C == {v \in Workers : Carrying(v)'}     E == {v \in Workers : OwesUse(v)'}
  <1>1. ASSUME NEW c \in Checkouts, ClaimOf(c)' \in {"held", "used"} PROVE Using(c)'
    BY <1>1 DEF ClaimOf, Using, Redeemed
  <1>2. S \subseteq U
    BY <1>1
  <1>3. IsFiniteSet(Checkouts) /\ IsFiniteSet(Workers)
    BY CheckoutAssumption, FS_Union DEF Workers
  <1>4. IsFiniteSet(U) /\ Cardinality(C) \in Nat /\ Cardinality(E) \in Nat
    BY <1>3, FS_Subset, FS_CardinalityType
  <1>5. Cardinality(S) <= Cardinality(U) /\ Cardinality(U) \in Nat /\ Cardinality(S) \in Nat
    BY <1>2, <1>4, FS_Subset, FS_CardinalityType
  <1>6. used' = Cardinality(U) + Cardinality(C) + Cardinality(E)
    BY DEF Exact, UsedIsExact
  <1> HIDE DEF S, U, C, E
  <1>7. Cardinality(S) <= used'
    BY <1>4, <1>5, <1>6
  <1> QED BY <1>7 DEF S

(* The uses taken follow the claim of c, which goes from x to y.           *)
TakenFollows(x, y) ==
    \/ used' = used
    \/ x = y /\ used < UsageLimit /\ used' = used + 1
    \/ x = y /\ used' = Less(used)
    \/ x = "held" /\ y = "none" /\ used' = Less(used)

(* One checkout's claim moves on, and the book does.                       *)
LEMMA BookMoves ==
    ASSUME IInv, IInv', Exact', NEW c \in Checkouts,
           \A d \in Checkouts \ {c} : ClaimOf(d)' = ClaimOf(d),
           usage[c][ClaimPart] = "active" => usage'[c][ClaimPart] \in {"active", "refunded"},
           usage[c][ClaimPart] = "refunded" => usage'[c][ClaimPart] = "refunded",
           usage'[c][ClaimPart] = "refunded" => usage[c][ClaimPart] \in {"active", "refunded"},
           TakenFollows(ClaimOf(c), ClaimOf(c)')
    PROVE  [Book!BookNext]_<<ClaimsNow, used>>
  <1>1. PICK x, y : x = ClaimOf(c) /\ y = ClaimOf(c)'
    OBVIOUS
  <1>2. /\ x \in {"none", "held", "used", "refunded"}
        /\ y \in {"none", "held", "used", "refunded"}
        /\ x = "used" => y \in {"used", "refunded"}
        /\ x = "refunded" => y = "refunded"
        /\ y = "refunded" => x \in {"used", "refunded"}
    <2>1. /\ usage[c][ClaimPart] \in {"none", "reserved", "active", "refunded"}
          /\ usage'[c][ClaimPart] \in {"none", "reserved", "active", "refunded"}
      BY CheckoutAssumption DEF IInv, TypeOK
    <2> QED BY <1>1, <2>1 DEF ClaimOf
  <1>3. ClaimsNow[c] = x /\ ClaimsNow' = [ClaimsNow EXCEPT ![c] = y]
    BY <1>1 DEF ClaimsNow
  <1>4. used \in Nat /\ used' \in Nat
    BY DEF IInv, TypeOK
  <1> DEFINE S == {d \in Checkouts : ClaimOf(d) \in {"held", "used"}}
             T == {d \in Checkouts : ClaimOf(d)' \in {"held", "used"}}
  <1>5. /\ Cardinality(S) \in Nat /\ Cardinality(T) \in Nat
        /\ Cardinality(T) = Cardinality(S) + Bit(c \in T) - Bit(c \in S)
    BY CheckoutAssumption, OneDiffers
  <1>6. Cardinality(T) <= used'
    BY TakenCovers
  <1>7. Book!Spare <=> Cardinality(S) < used
    <2>1. Book!Standing = S
      BY DEF Book!Standing, ClaimsNow
    <2>2. Book!Cardinality(S) = Cardinality(S)
      BY Zenon DEF Book!Cardinality, Cardinality
    <2> QED BY <2>1, <2>2 DEF Book!Spare
  <1>8. (c \in S <=> x \in {"held", "used"}) /\ (c \in T <=> y \in {"held", "used"})
    BY <1>1
  <1> HIDE DEF S, T
  <1>9. CASE x = y
    <2>1. UNCHANGED ClaimsNow
      BY <1>3, <1>9 DEF ClaimsNow
    <2>2. CASE used' = used
      BY <2>1, <2>2
    <2>3. CASE used < UsageLimit /\ used' = used + 1
      BY <2>1, <2>3 DEF Book!BookNext, Book!Take
    <2>4. CASE used' = Less(used) /\ used' # used
      <3>1. used' = used - 1
        BY <1>4, <2>4 DEF Less
      <3>2. Cardinality(T) = Cardinality(S)
        BY <1>5, <1>8, <1>9 DEF Bit
      <3>3. Book!Spare
        BY <1>4, <1>5, <1>6, <1>7, <3>1, <3>2
      <3> QED BY <2>1, <3>1, <3>3 DEF Book!BookNext, Book!GiveBack
    <2> QED BY <1>1, <1>9, <2>2, <2>3, <2>4 DEF TakenFollows
  <1>10. CASE x = "none" /\ y \in {"held", "used"}
    <2>1. used' = used
      BY <1>1, <1>10 DEF TakenFollows
    <2>2. Book!Spare
      BY <1>4, <1>5, <1>6, <1>7, <1>8, <1>10, <2>1 DEF Bit
    <2> QED BY <1>3, <1>10, <2>1, <2>2
            DEF Book!BookNext, Book!Hold, Book!Redeem, Book!Becomes
  <1>11. CASE \/ x = "held" /\ y = "used"
              \/ x = "used" /\ y = "refunded"
    <2>1. used' = used
      BY <1>1, <1>11 DEF TakenFollows
    <2> QED BY <1>3, <1>11, <2>1 DEF Book!BookNext, Book!Redeem, Book!Refund, Book!Becomes
  <1>12. CASE x = "held" /\ y = "none"
    <2>1. used' \in {used, used - 1}
      BY <1>1, <1>4, <1>12 DEF TakenFollows, Less
    <2> QED BY <1>3, <1>12, <2>1 DEF Book!BookNext, Book!Drop, Book!Becomes
  <1> QED BY <1>2, <1>9, <1>10, <1>11, <1>12

(* Handler j of checkout c has gone on, or ended, and no other has moved.  *)
GoesOn(w, c, j) ==
    /\ Only(w, c)
    /\ \/ job'[w].at = "idle"
       \/ job'[w].op = j.op /\ (job'[w].refused = j.refused \/ Charge(w))

(* A handler that goes on is the only one that moves.                      *)
LEMMA OnlyOne ==
    ASSUME IInv, Exact, Orderly', NEW w \in Workers,
           Step(w) \/ StoreFails(w) \/ Stop(w)
    PROVE  ~At(w, "idle") /\ job[w].c \in Checkouts /\ GoesOn(w, job[w].c, job[w])
  <1>1. ~At(w, "idle")
    <2>1. CASE Insert(w)
      <3>1. At(w, "insert")
        BY Zenon, <2>1 DEF Insert
      <3> QED BY <3>1 DEF At
    <2>2. CASE ~Insert(w)
      BY <2>2 DEF Step, ClaimSlot, Hold, GiveBack, Cache, Save, Release, Unhold, Charge, Put,
                  Persist, Upsert, Find, Query, WriteRow, WriteSession, ReadCached,
                  WriteCached, Settle, Load, Flip, Look, Slot, Unslot, CountPaid, CallRefund, SettleRefund, Mark,
                  Fully, Uncount, CompareAndSet, StoreFails, Stop, At
    <2> QED BY <2>1, <2>2
  <1>2. PICK c, j : c = job[w].c /\ j = job[w]
    OBVIOUS
  <1>3. /\ c \in Checkouts /\ j \in Job /\ job \in [Workers -> Job] /\ ~At(w, "idle")
    BY <1>1, <1>2, AtWork DEF IInv, TypeOK, Exact
  <1> SUFFICES GoesOn(w, c, j)
    BY <1>2, <1>3
  <1>4. ASSUME NEW k, Moves(w, c, k),
               k.at = "idle" \/ (k.op = j.op /\ (k.refused = j.refused \/ Charge(w)))
        PROVE  GoesOn(w, c, j)
    <2>1. job'[w] = k /\ \A v \in Workers \ {w} : job'[v] = job[v]
      BY <1>4, OthersStay DEF IInv
    <2> QED BY <1>4, <2>1 DEF GoesOn, Only, Moves
  <1>5. CASE Finish(w)
    BY <1>2, <1>3, <1>4, <1>5, Ends
  <1>6. ASSUME NEW l \in Labels, Goto(w, l)
        PROVE  \E k : Moves(w, c, k) /\ k.op = j.op /\ k.refused = j.refused
    BY <1>2, <1>3, <1>6, Goes DEF Exact, Follows
  <1>7. ASSUME NEW k, k.c = c /\ k.op = j.op /\ (k.refused = j.refused \/ Charge(w)),
               job' = [job EXCEPT ![w] = k]
        PROVE  GoesOn(w, c, j)
    BY <1>2, <1>3, <1>7 DEF GoesOn, Only
  <1>8. CASE \E l \in Labels : Goto(w, l)
    <2>1. PICK k : Moves(w, c, k) /\ k.op = j.op /\ k.refused = j.refused
      BY <1>6, <1>8
    <2> QED BY <1>4, <2>1
  <1>9. CASE \/ Hold(w) \/ GiveBack(w) \/ Cache(w) \/ Save(w) \/ Release(w) \/ Unhold(w)
             \/ Put(w) \/ Persist(w) \/ Upsert(w) \/ WriteRow(w) \/ WriteSession(w)
             \/ Settle(w) \/ Slot(w) \/ Unslot(w) \/ CountPaid(w)
             \/ SettleRefund(w) \/ Mark(w) \/ Fully(w) \/ Uncount(w) \/ CompareAndSet(w)
             \/ StoreFails(w) \/ Stop(w)
    <2>1. Finish(w) \/ \E l \in Labels : Goto(w, l)
      <3>1. CASE Hold(w)
        <4>1. PICK l \in {"cache", "giveback"} : Goto(w, l)
          BY <1>2, <1>3, <3>1, HoldInOrder
        <4> QED BY <4>1 DEF Labels
      <3>2. CASE \/ GiveBack(w) \/ Cache(w) \/ Save(w) \/ Release(w) \/ Unhold(w)
                 \/ Put(w) \/ Persist(w) \/ Upsert(w)
        BY <3>2 DEF GiveBack, Cache, Save, Release, Unhold, Back, Put, Persist, Upsert, Labels
      <3>3. CASE \/ WriteRow(w) \/ WriteSession(w) \/ Settle(w)
        BY <3>3 DEF WriteRow, WriteSession, Settle, PayOrders, Labels
      <3>4. CASE \/ Slot(w) \/ Unslot(w) \/ CountPaid(w) \/ SettleRefund(w) \/ Mark(w)
                 \/ Fully(w) \/ Uncount(w) \/ CompareAndSet(w) \/ StoreFails(w) \/ Stop(w)
        BY <3>4 DEF Slot, Unslot, Then, Last, CountPaid, SettleRefund, Mark, Fully, Uncount,
                    CompareAndSet, StoreFails, Stop, Labels
      <3> QED BY <1>9, <3>1, <3>2, <3>3, <3>4
    <2> QED BY <1>2, <1>5, <1>8, <2>1
  <1>10. CASE ClaimSlot(w) /\ ~Finish(w)
    <2>1. job' = [job EXCEPT ![w].at = IF PerUser THEN "hold" ELSE "cache",
                             ![w].sess.voucher = "reserved"]
      BY <1>10 DEF ClaimSlot
    <2>2. PICK k : k = [j EXCEPT !.at = IF PerUser THEN "hold" ELSE "cache",
                                 !.sess = [j.sess EXCEPT !.voucher = "reserved"]]
      OBVIOUS
    <2>3. k.c = c /\ k.op = j.op /\ k.refused = j.refused
      BY <1>2, <1>3, <2>2 DEF Job
    <2>4. job' = [job EXCEPT ![w] = k]
      BY <1>2, <2>1, <2>2
    <2> QED BY <1>7, <2>3, <2>4
  <1>11. CASE Charge(w)
    <2>1. At(w, "charge")
      BY <1>11 DEF Charge
    <2>2. ASSUME NEW st \in {"pending", "paid"}, Answered(w, st)
          PROVE  \E k : Moves(w, c, k) /\ k.op = j.op
      BY <1>2, <2>1, <2>2, AnsweredMoves
    <2>3. Refused(w) => \E k : Moves(w, c, k) /\ k.op = j.op
      BY <1>2, RefusedMoves
    <2>4. Refused(w) \/ \E st \in {"pending", "paid"} : Answered(w, st)
      BY <1>11 DEF Charge
    <2>5. PICK k : Moves(w, c, k) /\ k.op = j.op
      BY <2>2, <2>3, <2>4
    <2> QED BY <1>4, <1>11, <2>5
  <1>12. CASE Find(w) /\ ~Finish(w)
    <2>1. PICK k : k = [j EXCEPT !.at = "row", !.disc = row[c].disc]
      OBVIOUS
    <2>2. job' = [job EXCEPT ![w] = k]
      BY ZenonT(60), <1>2, <1>12, <2>1 DEF Find
    <2>3. k.c = c /\ k.op = j.op /\ k.refused = j.refused
      BY <1>2, <1>3, <2>1 DEF Job
    <2> QED BY <1>7, <2>2, <2>3
  <1>13. CASE Query(w) /\ ~Finish(w)
    <2>1. PICK k : k = [j EXCEPT !.at = "row", !.status = charge[c].st]
      OBVIOUS
    <2>2. job' = [job EXCEPT ![w] = k]
      BY ZenonT(60), <1>2, <1>13, <2>1 DEF Query
    <2>3. k.c = c /\ k.op = j.op /\ k.refused = j.refused
      BY <1>2, <1>3, <2>1 DEF Job
    <2> QED BY <1>7, <2>2, <2>3
  <1>14. CASE Load(w) /\ ~Finish(w)
    <2>1. PICK v : job' = [job EXCEPT ![w].at = "flip", ![w].sess.voucher = v]
      BY <1>14 DEF Load
    <2>2. PICK k : k = [j EXCEPT !.at = "flip", !.sess = [j.sess EXCEPT !.voucher = v]]
      OBVIOUS
    <2>3. k.c = c /\ k.op = j.op /\ k.refused = j.refused
      BY <1>2, <1>3, <2>2 DEF Job
    <2>4. job' = [job EXCEPT ![w] = k]
      BY <1>2, <2>1, <2>2
    <2> QED BY <1>7, <2>3, <2>4
  <1>15. CASE Flip(w)
    <2>1. PICK won, k : Flips(w, c, j, won, k)
      BY <1>2, <1>15, FlipMoves
    <2>2. Moves(w, c, k) /\ k.op = j.op /\ ~k.refused
      BY <2>1 DEF Flips
    <2>3. j.at = "flip" /\ ~j.refused
      BY <1>2, <1>3, <1>15, AtWork DEF Flip, At, Exact, JobTrue
    <2>4. k.refused = j.refused
      BY <1>3, <2>2, <2>3 DEF Moves, Job
    <2> QED BY <1>4, <2>2, <2>4
  <1>16. CASE Look(w)
    <2>1. ASSUME NEW l, NEW todo, NEW claimed,
                 job' = [job EXCEPT ![w].at = l, ![w].todo = todo, ![w].claimed = claimed]
          PROVE  GoesOn(w, c, j)
      <3>1. PICK k : k = [j EXCEPT !.at = l, !.todo = todo, !.claimed = claimed]
        OBVIOUS
      <3>2. k.c = c /\ k.op = j.op /\ k.refused = j.refused
        BY <1>2, <1>3, <3>1 DEF Job
      <3>3. job' = [job EXCEPT ![w] = k]
        BY ZenonT(60), <1>2, <2>1, <3>1
      <3> QED BY <1>7, <3>2, <3>3
    <2>2. CASE Finish(w) \/ Goto(w, "count")
      BY <1>2, <1>5, <1>8, <2>2 DEF Labels
    <2>3. CASE Then(w, Last(w, job[w].won))
      BY <2>2, <2>3 DEF Then, Last
    <2> QED BY <1>16, <2>1, <2>3 DEF Look
  <1>17. CASE Insert(w)
    <2>1. PICK p, added, claim, k : Inserts(w, c, j, p, added, claim, k)
      BY Zenon, <1>2, <1>17, InsertInOrder
    <2>2. Moves(w, c, k) /\ (k.at # "idle" => k.op = j.op /\ k.refused = j.refused)
      BY <2>1 DEF Inserts
    <2> QED BY <1>4, <2>2
  <1>18. CASE CallRefund(w) /\ ~Finish(w)
    <2>1. job' = [job EXCEPT ![w].at = "put", ![w].sess.pay = "refunded"]
      BY <1>18 DEF CallRefund
    <2>2. PICK k : k = [j EXCEPT !.at = "put", !.sess = [j.sess EXCEPT !.pay = "refunded"]]
      OBVIOUS
    <2>3. k.c = c /\ k.op = j.op /\ k.refused = j.refused
      BY <1>2, <1>3, <2>2 DEF Job
    <2>4. job' = [job EXCEPT ![w] = k]
      BY <1>2, <2>1, <2>2
    <2> QED BY <1>7, <2>3, <2>4
  <1>19. CASE ReadCached(w) \/ WriteCached(w)
    <2>1. PICK k : /\ Moves(w, c, k)
                   /\ (k.at = "putBack" /\ Resumes(j, k)) \/ GoesForOwed(j, k)
      BY <1>2, <1>19, CachedMoves DEF Exact
    <2> QED BY <1>4, <2>1 DEF GoesForOwed, Resumes
  <1> QED BY <1>2, <1>3, <1>5, <1>9, <1>10, <1>11, <1>12, <1>13, <1>14, <1>15, <1>16, <1>17,
             <1>18, <1>19 DEF Step

(* A claim's row moves on: from a hold to a use to its refund.             *)
RowGrows(c) ==
    /\ usage[c][ClaimPart] = "active" => usage'[c][ClaimPart] \in {"active", "refunded"}
    /\ usage[c][ClaimPart] = "refunded" => usage'[c][ClaimPart] = "refunded"
    /\ usage'[c][ClaimPart] = "refunded" => usage[c][ClaimPart] \in {"active", "refunded"}

(* No use is taken or given back.                                          *)
LEMMA BookKeeps ==
    ASSUME IInv, IInv', Exact', NEW w \in Workers, NEW c \in Checkouts, Only(w, c), used' = used,
           \A d \in Checkouts \ {c} : db'[d].voucher = db[d].voucher /\ RowStays(d), RowGrows(c)
    PROVE  [Book!BookNext]_<<ClaimsNow, used>>
  <1>1. \A d \in Checkouts \ {c} : ClaimOf(d)' = ClaimOf(d)
    BY ClaimStays
  <1>2. TakenFollows(ClaimOf(c), ClaimOf(c)')
    BY DEF TakenFollows
  <1> QED BY <1>1, <1>2, BookMoves DEF RowGrows

(* A use is taken or given back, and no row is touched.                    *)
LEMMA BookTakes ==
    ASSUME IInv, IInv', Exact', NEW w \in Workers, NEW c \in Checkouts, Only(w, c),
           UNCHANGED <<usage, db>>, TakenFollows(ClaimOf(c), ClaimOf(c)')
    PROVE  [Book!BookNext]_<<ClaimsNow, used>>
  <1>1. \A d \in Checkouts : RowStays(d)
    BY DEF RowStays
  <1>2. \A d \in Checkouts \ {c} : ClaimOf(d)' = ClaimOf(d)
    BY <1>1, ClaimStays
  <1>3. usage[c][ClaimPart] = usage'[c][ClaimPart]
    OBVIOUS
  <1> QED BY <1>2, <1>3, BookMoves

(* The handlers that begin.                                                *)
LEMMA BeginsBook ==
    ASSUME IInv, IInv', Exact', NEW w \in Workers, NEW c \in Checkouts,
           \/ Apply(w, c) \/ Remove(w, c) \/ Pay(w, c)
           \/ Reconcile(w, c) \/ Refund(w, c) \/ Sweep(w, c)
           \/ \E e \in Events : Hook(w, c, e)
    PROVE  [Book!BookNext]_<<ClaimsNow, used>>
  <1>1. At(w, "idle") /\ UNCHANGED <<used, usage, db>>
    BY DEF Apply, Remove, Pay, Ask, Reconcile, Refund, Sweep, Hook, Begin, voucherVars, sessionVars
  <1>2. ASSUME NEW k, k.c = c, job' = [job EXCEPT ![w] = k] PROVE Only(w, c)
    BY <1>1, <1>2 DEF Only, IInv, TypeOK
  <1>3. ASSUME NEW o, NEW l, NEW s, Begin(w, o, l, c, s) PROVE Only(w, c)
    <2>1. PICK k : k = [Idle EXCEPT !.op = o, !.at = l, !.c = c, !.sess = s]
      OBVIOUS
    <2>2. k.c = c
      BY <2>1 DEF Idle
    <2> QED BY <1>2, <1>3, <2>1, <2>2 DEF Begin
  <1>4. ASSUME Apply(w, c) \/ Remove(w, c) \/ Pay(w, c) \/ Sweep(w, c) PROVE Only(w, c)
    <2>1. \E o, l, s : Begin(w, o, l, c, s)
      <3>1. CASE Apply(w, c)
        BY Zenon, <3>1 DEF Apply, Ask
      <3>2. CASE Remove(w, c)
        BY Zenon, <3>2 DEF Remove, Ask
      <3>3. CASE Pay(w, c)
        BY Zenon, <3>3 DEF Pay, Ask
      <3>4. CASE Sweep(w, c)
        BY Zenon, <3>4 DEF Sweep
      <3> QED BY <1>4, <3>1, <3>2, <3>3, <3>4
    <2> QED BY <1>3, <2>1
  <1>5. ASSUME NEW e \in Events, Hook(w, c, e) PROVE Only(w, c)
    <2>1. PICK k : k = [Idle EXCEPT !.op = "hook", !.at = "find", !.c = c,
                                    !.status = EventStatus(e)]
      OBVIOUS
    <2>2. k.c = c
      BY <2>1 DEF Idle
    <2> QED BY <1>2, <1>5, <2>1, <2>2 DEF Hook
  <1>6. ASSUME Reconcile(w, c) PROVE Only(w, c)
    <2>1. PICK k : k = [Idle EXCEPT !.op = "reconcile", !.at = "query", !.c = c,
                                    !.disc = row[c].disc]
      OBVIOUS
    <2>2. k.c = c
      BY <2>1 DEF Idle
    <2> QED BY <1>2, <1>6, <2>1, <2>2 DEF Reconcile
  <1>7. ASSUME Refund(w, c) PROVE Only(w, c)
    <2>1. PICK k : k = [Idle EXCEPT !.op = "refund", !.at = "callRefund", !.c = c,
                                    !.sess = Read(c), !.disc = row[c].disc]
      OBVIOUS
    <2>2. k.c = c
      BY <2>1 DEF Idle
    <2> QED BY <1>2, <1>7, <2>1, <2>2 DEF Refund
  <1>8. Only(w, c)
    BY <1>4, <1>5, <1>6, <1>7
  <1> QED BY <1>1, <1>8, BookKeeps DEF RowStays, RowGrows

(* The steps that leave the counts alone.                                  *)
LEMMA KeepsBook ==
    ASSUME IInv, IInv', Exact, Exact', Orderly', NEW w \in Workers,
           Step(w) \/ StoreFails(w) \/ Stop(w),
           ~(\/ ClaimSlot(w) \/ GiveBack(w) \/ Release(w) \/ Slot(w) \/ Unslot(w) \/ Uncount(w))
    PROVE  [Book!BookNext]_<<ClaimsNow, used>>
  <1>1. PICK c, j : c = job[w].c /\ j = job[w]
    OBVIOUS
  <1>2. c \in Checkouts /\ Only(w, c) /\ ~At(w, "idle")
    BY <1>1, OnlyOne DEF GoesOn
  <1>3. /\ usage \in [Checkouts -> [Parts -> {"none", "reserved", "active", "refunded"}]]
        /\ db \in [Checkouts -> Session] /\ ClaimPart \in Parts
    BY CheckoutAssumption DEF IInv, TypeOK
  <1>4. ASSUME used' = used, usage' = usage, \A d \in Checkouts \ {c} : db'[d] = db[d]
        PROVE  [Book!BookNext]_<<ClaimsNow, used>>
    BY <1>2, <1>4, BookKeeps DEF RowStays, RowGrows
  <1>5. ASSUME used' = used, db' = db, \A d \in Checkouts \ {c} : RowStays(d), RowGrows(c)
        PROVE  [Book!BookNext]_<<ClaimsNow, used>>
    BY <1>2, <1>5, BookKeeps
  <1>6. CASE Hold(w)
    <2>1. /\ \A d \in Checkouts \ {c} : RowStays(d)
          /\ RowGrows(c)
      BY <1>1, <1>2, <1>6, HoldInOrder DEF RowStays, RowGrows
    <2> QED BY <1>5, <1>6, <2>1 DEF Hold, sessionVars
  <1>7. CASE Unhold(w)
    <2>1. /\ \A d \in Checkouts \ {c} : RowStays(d)
          /\ RowGrows(c)
      BY <1>1, <1>2, <1>3, <1>7 DEF Unhold, RowStays, RowGrows
    <2> QED BY <1>5, <1>7, <2>1 DEF Unhold, sessionVars
  <1>8. CASE Flip(w)
    <2>1. PICK won, k : Flips(w, c, j, won, k)
      BY <1>1, <1>8, FlipMoves
    <2>2. /\ \A d \in Checkouts \ {c} : RowStays(d)
          /\ RowGrows(c) /\ used' = used /\ db' = db
      BY <1>3, <2>1 DEF Flips, RowStays, RowGrows
    <2> QED BY <1>5, <2>2
  <1>9. CASE Insert(w)
    <2>1. PICK p, added, claim, k : Inserts(w, c, j, p, added, claim, k)
      BY Zenon, <1>1, <1>9, InsertInOrder
    <2>2. /\ added => usage[c][p] = "none"
          /\ usage' = IF added THEN [usage EXCEPT ![c][p] = "active"] ELSE usage
      BY <2>1 DEF Inserts
    <2>3. /\ \A d \in Checkouts \ {c} : RowStays(d)
          /\ RowGrows(c)
      BY <1>2, <1>3, <2>2 DEF RowStays, RowGrows
    <2>4. used' = used /\ db' = db
      <3>1. UNCHANGED <<used, sessionVars>>
        BY Zenon, <1>9 DEF Insert
      <3> QED BY <3>1 DEF sessionVars
    <2> QED BY <1>5, <2>3, <2>4
  <1>10. CASE Mark(w)
    <2>1. PICK u : u = [p \in Parts |-> IF usage[c][p] = "active" THEN "refunded"
                                        ELSE usage[c][p]]
      OBVIOUS
    <2>2. usage' = [usage EXCEPT ![c] = u]
      BY <1>1, <1>10, <2>1 DEF Mark
    <2>3. /\ \A d \in Checkouts \ {c} : RowStays(d)
          /\ RowGrows(c)
      BY <1>2, <1>3, <2>1, <2>2 DEF RowStays, RowGrows
    <2> QED BY <1>5, <1>10, <2>3 DEF Mark, sessionVars
  <1>11. CASE Save(w) \/ Persist(w) \/ WriteSession(w) \/ CompareAndSet(w)
    <2>1. \A d \in Checkouts \ {c} : db'[d] = db[d]
      BY <1>1, <1>2, <1>3, <1>11 DEF Save, Persist, WriteSession, CompareAndSet, Update
    <2>2. used' = used /\ usage' = usage
      BY <1>11 DEF Save, Persist, WriteSession, CompareAndSet, voucherVars
    <2> QED BY <1>4, <2>1, <2>2
  <1>12. CASE \/ Cache(w) \/ Charge(w) \/ Put(w) \/ Upsert(w) \/ Find(w) \/ Query(w)
              \/ WriteRow(w) \/ ReadCached(w) \/ WriteCached(w) \/ Settle(w) \/ Load(w)
              \/ Look(w) \/ CountPaid(w) \/ CallRefund(w) \/ SettleRefund(w) \/ Fully(w)
              \/ StoreFails(w) \/ Stop(w)
    <2>1. used' = used /\ usage' = usage /\ db' = db
      BY <1>12 DEF Cache, Charge, Put, Upsert, Find, Query, WriteRow, ReadCached, WriteCached,
                   Settle, PayOrders, Load, Look, CountPaid, CallRefund, SettleRefund, Fully,
                   StoreFails, Stop, voucherVars, sessionVars
    <2> QED BY <1>4, <2>1
  <1> QED BY <1>6, <1>7, <1>8, <1>9, <1>10, <1>11, <1>12 DEF Step

(* The steps that take a use or give one back.                             *)
LEMMA TakesBook ==
    ASSUME IInv, IInv', Exact, Exact', Orderly', NEW w \in Workers,
           \/ ClaimSlot(w) \/ GiveBack(w) \/ Release(w) \/ Slot(w) \/ Unslot(w) \/ Uncount(w)
    PROVE  [Book!BookNext]_<<ClaimsNow, used>>
  <1>1. PICK c, j : c = job[w].c /\ j = job[w]
    OBVIOUS
  <1>2. c \in Checkouts /\ GoesOn(w, c, j) /\ Only(w, c) /\ ~At(w, "idle")
    BY <1>1, OnlyOne DEF GoesOn, Step
  <1>3. /\ j.at \in {"claim", "giveback", "release", "slot", "unslot", "uncount"}
        /\ UNCHANGED <<usage, db>> /\ ~Charge(w)
    BY <1>1 DEF ClaimSlot, GiveBack, Release, Slot, Unslot, Uncount, Charge, At, sessionVars
  <1>4. JobFits(c, j) /\ JobTrue(j) /\ j.c = c
    BY <1>1, <1>2, AtWork DEF Exact
  <1>5. \A d \in Checkouts : RowStays(d)
    BY <1>3 DEF RowStays
  <1>6. \/ used' = used
        \/ ~Release(w) /\ used < UsageLimit /\ used' = used + 1
        \/ used' = Less(used)
    BY DEF ClaimSlot, GiveBack, Release, Slot, Unslot, Uncount
  <1>7. ASSUME GivesBack(w, c)' <=> GivesBack(w, c)
        PROVE  [Book!BookNext]_<<ClaimsNow, used>>
    <2>1. ClaimOf(c)' = ClaimOf(c)
      BY <1>2, <1>3, <1>5, <1>7, ClaimStays
    <2> QED BY <1>2, <1>3, <1>6, <2>1, BookTakes DEF TakenFollows
  <1>8. CASE j.op # "remove" /\ ~j.refused
    <2>1. ~GivesBack(w, c) /\ ~GivesBack(w, c)'
      BY <1>1, <1>2, <1>3, <1>8 DEF GivesBack, GoesOn, On, At
    <2> QED BY <1>7, <2>1
  <1>9. CASE j.op = "remove" \/ j.refused
    <2>1. Release(w)
      <3>1. j.at = "release"
        BY <1>3, <1>4, <1>9 DEF JobTrue, JobFits, OpFits, Redeeming
      <3> QED BY <1>1, <3>1 DEF ClaimSlot, GiveBack, Release, Slot, Unslot, Uncount, At
    <2>2. GivesBack(w, c)'
      <3>1. PICK l : /\ Goto(w, l) /\ l \in {"unhold", "cache", "put"}
                     /\ l # "unhold" => l = IF j.op = "remove" THEN "cache" ELSE "put"
        <4>1. CASE PerUser
          <5>1. Goto(w, "unhold")
            BY Zenon, <2>1, <4>1 DEF Release
          <5> QED BY <5>1
        <4>2. CASE ~PerUser /\ j.op = "remove"
          <5>1. Goto(w, "cache")
            <6>1. Back(w)
              BY Zenon, <2>1, <4>2 DEF Release
            <6>2. ~job[w].refused
              BY <1>1, <1>3, <1>4, <4>2 DEF JobTrue
            <6> QED BY <1>1, <4>2, <6>1, <6>2 DEF Back
          <5> QED BY <4>2, <5>1
        <4>3. CASE ~PerUser /\ j.op # "remove"
          <5>1. Goto(w, "put")
            <6>1. Back(w)
              BY Zenon, <2>1, <4>3 DEF Release
            <6> QED BY <1>1, <1>9, <4>3, <6>1 DEF Back
          <5> QED BY <4>3, <5>1
        <4> QED BY <4>1, <4>2, <4>3
      <3>2. PICK k : Moves(w, c, k) /\ k.at = l /\ Follows(j, k)
        BY <1>1, <1>2, <3>1, Goes DEF Exact, Labels
      <3>3. job'[w] = k
        BY <3>2, OthersStay DEF IInv
      <3>4. k.c = c /\ k.op = j.op /\ k.refused = j.refused
        BY <1>1, <3>2 DEF Follows
      <3> QED BY <1>9, <3>1, <3>2, <3>3, <3>4 DEF GivesBack, On, At
    <2>3. ~Reserving(c)'
      BY <2>2 DEF Reserving
    <2>4. \/ ClaimOf(c)' = ClaimOf(c)
          \/ ClaimOf(c) = "held" /\ ClaimOf(c)' = "none"
      BY <1>3, <2>3 DEF ClaimOf
    <2> QED BY <1>2, <1>3, <1>6, <2>1, <2>4, BookTakes DEF TakenFollows
  <1> QED BY <1>8, <1>9

-----------------------------------------------------------------------------
(* The book's beginning, and its steps.                                    *)
LEMMA InitIsBookInit == Init => Book!BookInit
  <1> SUFFICES ASSUME Init PROVE Book!BookInit
    OBVIOUS
  <1>1. ASSUME NEW c \in Checkouts PROVE ClaimOf(c) = "none"
    <2>1. usage[c][ClaimPart] = "none" /\ db[c].voucher # "reserved"
      BY CheckoutAssumption DEF Init, NewSession
    <2> QED BY <2>1 DEF ClaimOf, Reserving, Holding
  <1>2. ClaimsNow = [c \in Checkouts |-> "none"]
    BY <1>1 DEF ClaimsNow
  <1> QED BY <1>2 DEF Book!BookInit, Init

LEMMA NextIsBookNext ==
    IInv /\ CountInv /\ [Next]_vars => [Orderly' => StepOfBook]_<<ClaimsNow, used>>
  <1> SUFFICES ASSUME IInv, CountInv, [Next]_vars, Orderly'
               PROVE  [Book!BookNext]_<<ClaimsNow, used>>
    BY DEF StepOfBook
  <1>1. IInv' /\ Exact /\ Exact'
    BY OrderIsLost, NextIInv, NextCounts DEF CountInv
  <1>2. ASSUME UNCHANGED <<job, usage, db, used>> PROVE UNCHANGED <<ClaimsNow, used>>
    BY <1>2 DEF ClaimsNow, ClaimOf, Reserving, Holding, GivesBack, On, At
  <1>3. CASE UNCHANGED vars
    BY <1>2, <1>3 DEF vars, voucherVars, sessionVars
  <1>4. ASSUME NEW w \in Workers, NEW c \in Checkouts,
               \/ Apply(w, c) \/ Remove(w, c) \/ Pay(w, c)
               \/ Reconcile(w, c) \/ Refund(w, c) \/ Sweep(w, c)
               \/ \E e \in Events : Hook(w, c, e)
        PROVE  [Book!BookNext]_<<ClaimsNow, used>>
    BY <1>1, <1>4, BeginsBook
  <1>5. ASSUME NEW w \in Workers, Step(w) \/ StoreFails(w) \/ Stop(w)
        PROVE  [Book!BookNext]_<<ClaimsNow, used>>
    BY <1>1, <1>5, KeepsBook, TakesBook
  <1>6. ASSUME NEW c \in Checkouts, Decide(c) \/ DayPasses(c) \/ FallsBehind(c) \/ CatchesUp(c)
        PROVE  [Book!BookNext]_<<ClaimsNow, used>>
    BY <1>2, <1>6 DEF Decide, DayPasses, FallsBehind, CatchesUp, voucherVars, sessionVars
  <1> QED BY <1>3, <1>4, <1>5, <1>6 DEF Next

(* In orderly behaviours every step of every handler keeps the voucher's   *)
(* book: used_count stays within the limit and covers, between any two     *)
(* calls, the checkouts that hold the voucher or used it.                  *)
THEOREM CheckoutImplementsBook == Spec => ImplementsVoucherBook
  BY InitIsBookInit, NextIsBookNext, AlwaysIInv, AlwaysSettled, PTL DEF Spec, ImplementsVoucherBook
=============================================================================
