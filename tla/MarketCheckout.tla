--------------------------- MODULE MarketCheckout ---------------------------
(* A market checkout: one payment for the orders of several stalls, with a    *)
(* voucher.  The session is stored twice (a KV copy with a four-hour life and *)
(* a D1 row) and written by the shopper's requests, the provider's webhooks,  *)
(* the reconciliation worker, the administrator's refund and the sweep of     *)
(* stale voucher reservations.  Each handler is cut at its awaits: one action *)
(* per read or write of a store, so any two handlers interleave there.        *)
(* One voucher stands for the stack a checkout may carry, an amount is known  *)
(* by whether the discount was taken off it, and the payments are those of    *)
(* split mode provider_split, the only one POST /pay can construct.           *)
EXTENDS Naturals, FiniteSets

CONSTANTS
    Checkouts,          \* market checkouts; all carry the same voucher
    Parts,              \* the stalls' orders of a checkout the voucher applies to
    ClaimPart,          \* the smallest order id, whose row carries the customer
    Customers, Owner,   \* Owner[c]: the customer who holds checkout c
    UsageLimit,         \* coupons.usage_limit
    PerUserLimit,       \* coupons.usage_limit_per_user; 0 when there is none
    RequestWorkers,     \* requests of shoppers in flight at a time
    BackWorkers,        \* webhooks, worker ticks and refunds in flight at a time
    Disorders,          \* which of Strays a behaviour may begin
    MaxDisorders,       \* bound: how many of them
    Outnumbered,        \* checkouts whose rows others may keep out of a worker's batch
    MaxRequests,        \* bound: shopper requests
    NONE                \* no KV copy

(* The disorders: steps the handlers do not guard against, each of which      *)
(* breaks the bookkeeping.  A run names those its behaviours may begin; what  *)
(* a handler on its way meets is never held up, only remembered.              *)
Strays == {"overlap",       \* two requests of one checkout in flight
           "editPending",   \* the voucher edited while its payment is open
           "editRefunded",  \* ... or after its refund
           "sweepOverlap",  \* a request or an event while the sweep releases
           "refundOverlap", \* ... or while the refund is written
           "storeError",    \* KV or D1 refuses a write after the reservation
           "lateStatus",    \* a status that is no longer the charge's is written
           "unreconciled",  \* a decided payment is still pending here after a day
           "staleCopy",     \* a KV copy is put back with the voucher it had before
           "claimLost",     \* a payment finds the customer's limit used up
           "lostReply",     \* the reply to a charge that was made is lost
           "crash",         \* the Worker stops between two writes
           "reclaimed"}     \* the hold of a checkout in payment is reclaimed

ASSUME CheckoutAssumption ==
    /\ IsFiniteSet(Checkouts) /\ IsFiniteSet(RequestWorkers) /\ IsFiniteSet(BackWorkers)
    /\ ClaimPart \in Parts
    /\ Owner \in [Checkouts -> Customers]
    /\ UsageLimit \in Nat /\ PerUserLimit \in Nat
    /\ MaxRequests \in Nat /\ MaxDisorders \in Nat /\ Disorders \subseteq Strays
    /\ Outnumbered \subseteq Checkouts

Workers == RequestWorkers \cup BackWorkers

VARIABLES
    used, reserved,     \* coupons.used_count and coupons.reserved_count
    usage,              \* coupon_usage: status of the live row per checkout and order
    countReleased,      \* rows whose refund_count_released_at is set
    kv, db,             \* the two copies of the checkout session
    row,                \* market_checkout_payments
    orders,             \* the child orders' payment, and the discount in their shares
    audited,            \* provider event ids in the payment audit log
    idle,               \* checkouts whose D1 row is a day old
    unmoved,            \* checkouts whose D1 row has its updatedAt of the sweep's read
    behind,             \* checkouts with a full batch of older rows before theirs
    charge,             \* the provider's own record of the charge
    job,                \* the handler each worker is running
    asked,              \* bound: requests sent
    strayed             \* the disorders that have happened

voucherVars == <<used, reserved, usage, countReleased>>
sessionVars == <<kv, db, idle, unmoved, behind>>
ledgerVars  == <<row, orders, audited, charge>>
boundVars   == <<asked, strayed>>
vars == <<voucherVars, sessionVars, ledgerVars, job, boundVars>>

Events == {"paid1", "paid2", "failed", "refunded"}   \* two event types both say paid
(* Mutant: the event's type is taken for its status. *)
EventType(e) == e

EventStatus(e) == IF e \in {"paid1", "paid2"} THEN "paid" ELSE e

Session == [voucher : {"none", "reserved", "released"},
            pay     : {"none", "pending", "paid", "failed", "refunded"}]
NewSession == [voucher |-> "none", pay |-> "none"]
Money(s) == [st : s, disc : BOOLEAN]

(* Labels of a job: the write or read it does next.                           *)
Labels == {"idle", "claim", "hold", "giveback", "cache", "save", "charge",
           "release", "unhold", "put", "persist", "upsert", "find", "query",
           "row", "session", "cached", "putBack", "settle", "load", "flip",
           "look", "slot", "insert", "unslot", "count", "callRefund", "settleRefund",
           "mark", "fully", "uncount", "cas"}
Ops == {"none", "apply", "remove", "pay", "hook", "reconcile", "refund", "sweep"}
Job == [op : Ops, at : Labels, c : Checkouts \cup {NONE}, sess : Session,
        refused : BOOLEAN,                       \* the provider refused the payment
        disc : BOOLEAN,                          \* the amount it works with
        status : {"none", "pending", "paid", "failed", "refunded"},
        todo : SUBSET Parts,                     \* orders redeem() still has to insert
        claimed : BOOLEAN, inserted : BOOLEAN, won : BOOLEAN]
Idle == [op |-> "none", at |-> "idle", c |-> NONE, sess |-> NewSession,
         refused |-> FALSE, disc |-> FALSE, status |-> "none", todo |-> {},
         claimed |-> FALSE, inserted |-> FALSE, won |-> FALSE]

Init ==
    /\ used = 0 /\ reserved = 0
    /\ usage = [c \in Checkouts |-> [p \in Parts |-> "none"]]
    /\ countReleased = {}
    /\ kv = [c \in Checkouts |-> NewSession]
    /\ db = [c \in Checkouts |-> NewSession]
    /\ row = [c \in Checkouts |-> [st |-> "none", disc |-> FALSE]]
    /\ orders = [c \in Checkouts |-> [st |-> "unpaid", disc |-> FALSE]]
    /\ audited = [c \in Checkouts |-> {}]
    /\ idle = {} /\ unmoved = {} /\ behind = {}
    /\ charge = [c \in Checkouts |-> [st |-> "none", disc |-> FALSE, failed |-> FALSE]]
    /\ job = [w \in Workers |-> Idle]
    /\ asked = 0
    /\ strayed = {}

-----------------------------------------------------------------------------
(* Shared pieces                                                              *)

Running(c) == {w \in Workers : job[w].c = c}
Asking(c)  == {w \in Running(c) : job[w].op \in {"apply", "remove", "pay"}}

At(w, label) == job[w].at = label
Finish(w)    == job' = [job EXCEPT ![w] = Idle]
Goto(w, l)   == job' = [job EXCEPT ![w].at = l]
Begin(w, o, l, c, s) ==
    /\ At(w, "idle")
    /\ job' = [job EXCEPT ![w] = [Idle EXCEPT !.op = o, !.at = l, !.c = c, !.sess = s]]

(* A handler reads the KV copy, and D1 when there is none.                    *)
Read(c) == IF kv[c] = NONE THEN db[c] ELSE kv[c]

(* Every UPDATE of the D1 session also sets updatedAt, by which the cron       *)
(* workers order their lists.                                                 *)
Update(c, s) == /\ db' = [db EXCEPT ![c] = s]
                /\ idle' = idle \ {c}
                /\ unmoved' = unmoved \ {c}
                /\ behind' = behind \ {c}

Less(n) == IF n > 0 THEN n - 1 ELSE 0
PerUser == PerUserLimit > 0
Live(c) == {p \in Parts : usage[c][p] # "none"}

(* The rows the coupon_usage_guest_limit trigger counts.                      *)
ClaimsOf(u) == {c \in Checkouts : /\ Owner[c] = u
                                  /\ usage[c][ClaimPart] \in {"reserved", "active"}}
HasClaimLeft(c) == Cardinality(ClaimsOf(Owner[c])) < PerUserLimit

Stray(d) == /\ d \subseteq Disorders
            /\ Cardinality(strayed \cup d) <= MaxDisorders
            /\ strayed' = strayed \cup d
Meets(c) ==      \* a job starts while another one of the checkout runs
    (IF \E w \in Running(c) : job[w].op = "sweep" THEN {"sweepOverlap"} ELSE {})
    \cup (IF \E w \in Running(c) : job[w].op = "refund" THEN {"refundOverlap"} ELSE {})
Edits(c, o, s) ==
    Meets(c)
    \cup (IF Asking(c) # {} THEN {"overlap"} ELSE {})
    \cup (IF charge[c].st = "refunded" THEN {"editRefunded"} ELSE {})
    \cup (IF /\ charge[c].st \in {"pending", "paid"}
             /\ o = "pay" => s.voucher = "released"
          THEN {"editPending"} ELSE {})
    \cup (IF /\ o = "pay" /\ PerUser
             /\ s.voucher = "reserved" /\ usage[c][ClaimPart] = "none"
          THEN {"reclaimed"} ELSE {})

-----------------------------------------------------------------------------
(* Requests of the shopper                                                    *)

Ask(w, c, o, l, s) ==
    /\ w \in RequestWorkers
    /\ asked < MaxRequests
    /\ asked' = asked + 1
    /\ Begin(w, o, l, c, s)

(* POST /:id/voucher: the coupon's limits are read here, and claimed below.   *)
Apply(w, c) ==
    LET s == Read(c) IN
    /\ s.pay # "paid"
    /\ s.voucher = "none"
    /\ used < UsageLimit
    /\ PerUser => HasClaimLeft(c)
    /\ Ask(w, c, "apply", "claim", s)
    /\ Stray(Edits(c, "apply", s))
    /\ UNCHANGED <<voucherVars, sessionVars, ledgerVars>>

(* DELETE /:id/voucher                                                        *)
Remove(w, c) ==
    LET s == Read(c) IN
    /\ s.pay # "paid"
    /\ Ask(w, c, "remove", IF s.voucher = "reserved" THEN "release" ELSE "cache",
           [s EXCEPT !.voucher = "none"])
    /\ Stray(Edits(c, "remove", s))
    /\ UNCHANGED <<voucherVars, sessionVars, ledgerVars>>

(* POST /:id/pay: a voucher released meanwhile is reserved again.             *)
Pay(w, c) ==
    LET s == Read(c) IN
    /\ s.pay # "paid"
    /\ Ask(w, c, "pay", CASE s.voucher = "none" -> "charge"
                          [] s.voucher = "reserved" -> "cache"
                          [] s.voucher = "released" -> "claim", s)
    /\ Stray(Edits(c, "pay", s))
    /\ UNCHANGED <<voucherVars, sessionVars, ledgerVars>>

(* reserveUsage(): claimUsageSlot, one guarded UPDATE of the coupon ...       *)
ClaimSlot(w) ==
    /\ At(w, "claim")
    /\ \/ /\ used < UsageLimit
          /\ used' = used + 1 /\ reserved' = reserved + 1
          /\ job' = [job EXCEPT ![w].at = IF PerUser THEN "hold" ELSE "cache",
                                ![w].sess.voucher = "reserved"]
       \/ /\ used >= UsageLimit
          /\ Finish(w)
          /\ UNCHANGED <<used, reserved>>
    /\ UNCHANGED <<usage, countReleased, sessionVars, ledgerVars, boundVars>>

(* ... then the per-user hold.  When the trigger refuses it, the customer's   *)
(* holds on unpaid orders of half an hour ago are cancelled and the insert is *)
(* tried once more; a hold that is left of a running request is younger.      *)
Hold(w) ==
    LET c == job[w].c
        stale == {d \in ClaimsOf(Owner[c]) : /\ d # c
                                             /\ usage[d][ClaimPart] = "reserved"
                                             /\ orders[d].st = "unpaid"}
    IN
    /\ At(w, "hold")
    /\ \E old \in SUBSET stale :
         /\ HasClaimLeft(c) => old = {}
         /\ LET kept == [d \in Checkouts |->
                           IF d \in old THEN [usage[d] EXCEPT ![ClaimPart] = "none"]
                           ELSE usage[d]]
                fits == /\ HasClaimLeft(c) \/ old # {}
                        /\ usage[c][ClaimPart] = "none"
            IN /\ usage' = IF fits THEN [kept EXCEPT ![c][ClaimPart] = "reserved"] ELSE kept
               /\ Goto(w, IF fits THEN "cache" ELSE "giveback")
         /\ Stray(IF \E d \in old : Running(d) # {} \/ charge[d].st \in {"pending", "paid"}
                  THEN {"reclaimed"} ELSE {})
    /\ UNCHANGED <<used, reserved, countReleased, sessionVars, ledgerVars, asked>>

(* Mutant: the slot is kept when the customer has reached the limit. *)
KeepSlot(w) ==
    /\ At(w, "giveback")
    /\ Finish(w)
    /\ UNCHANGED <<voucherVars, sessionVars, ledgerVars, boundVars>>

GiveBack(w) ==
    /\ At(w, "giveback")
    /\ used' = Less(used) /\ reserved' = Less(reserved)
    /\ Finish(w)
    /\ UNCHANGED <<usage, countReleased, sessionVars, ledgerVars, boundVars>>

(* The session goes to KV, then the voucher to D1; when a store refuses, an   *)
(* apply or a payment gives its reservation back and answers the error.       *)
Cache(w) ==
    /\ At(w, "cache")
    /\ kv' = [kv EXCEPT ![job[w].c] = job[w].sess]
    /\ Goto(w, "save")
    /\ UNCHANGED <<voucherVars, db, idle, unmoved, behind, ledgerVars, boundVars>>

Save(w) ==
    LET c == job[w].c IN
    /\ At(w, "save")
    /\ Update(c, [db[c] EXCEPT !.voucher = job[w].sess.voucher])
    /\ IF job[w].op = "pay" THEN Goto(w, "charge") ELSE Finish(w)
    /\ UNCHANGED <<voucherVars, kv, ledgerVars, boundVars>>

StoreFails(w) ==
    /\ job[w].at \in {"cache", "save"}
    /\ Stray({"storeError"})
    /\ IF job[w].op = "remove" THEN Finish(w) ELSE Goto(w, "release")
    /\ UNCHANGED <<voucherVars, sessionVars, ledgerVars, asked>>

(* releaseReservation(): the caller's copy says reserved; the counts go down, *)
(* then the hold is cancelled if it is still one.                             *)
Back(w) == CASE job[w].op = "remove" -> Goto(w, "cache")
             [] job[w].refused        -> Goto(w, "put")
             [] OTHER                 -> Finish(w)

Release(w) ==
    /\ At(w, "release")
    /\ used' = Less(used) /\ reserved' = Less(reserved)
    /\ IF PerUser THEN Goto(w, "unhold") ELSE Back(w)
    /\ UNCHANGED <<usage, countReleased, sessionVars, ledgerVars, boundVars>>

Unhold(w) ==
    /\ At(w, "unhold")
    /\ usage' = [usage EXCEPT ![job[w].c][ClaimPart] = IF @ = "reserved" THEN "none" ELSE @]
    /\ Back(w)
    /\ UNCHANGED <<used, reserved, countReleased, sessionVars, ledgerVars, boundVars>>

(* paymentProvider.process(): one charge per idempotency key.  The key is     *)
(* `market-checkout:<id>' when the request brings none, and the shop's own    *)
(* client brings none: a checkout has one charge.  A refusal is a throw, and  *)
(* so is an authorized amount that is not the one asked for; the reply to a   *)
(* charge that was made may be lost.                                          *)
Answered(w, st) ==
    job' = [job EXCEPT ![w].sess.pay = st, ![w].at = "put",
                       ![w].disc = job[w].sess.voucher # "none"]
Refused(w) ==
    LET held == job[w].sess.voucher = "reserved" IN
    job' = [job EXCEPT ![w].sess.pay = "failed", ![w].disc = FALSE,
                       ![w].sess.voucher = IF held THEN "released" ELSE @,
                       ![w].at = IF held THEN "release" ELSE "put",
                       ![w].refused = TRUE]
Charge(w) ==
    LET c == job[w].c
        d == job[w].sess.voucher # "none"
    IN
    /\ At(w, "charge")
    /\ \/ /\ charge[c].st \in {"none", "failed"}
          /\ \/ \E st \in {"pending", "paid"} :
                  /\ charge' = [charge EXCEPT ![c].st = st, ![c].disc = d]
                  /\ \/ Answered(w, st) /\ UNCHANGED strayed
                     \/ Refused(w) /\ Stray({"lostReply"})
             \/ Refused(w) /\ UNCHANGED <<charge, strayed>>
       \/ /\ charge[c].st = "pending"
          /\ Answered(w, "pending")
          /\ UNCHANGED <<charge, strayed>>
       \/ /\ charge[c].st \in {"paid", "refunded"}
          /\ IF charge[c].disc = d THEN Answered(w, "paid") ELSE Refused(w)
          /\ UNCHANGED <<charge, strayed>>
    /\ UNCHANGED <<voucherVars, sessionVars, row, orders, audited, asked>>

(* The outcome is written to KV, to the D1 session and to the payment's row.  *)
Put(w) ==
    /\ At(w, "put")
    /\ kv' = [kv EXCEPT ![job[w].c] = job[w].sess]
    /\ Goto(w, "persist")
    /\ UNCHANGED <<voucherVars, db, idle, unmoved, behind, ledgerVars, boundVars>>

Persist(w) ==
    /\ At(w, "persist")
    /\ Update(job[w].c, job[w].sess)
    /\ Goto(w, "upsert")
    /\ UNCHANGED <<voucherVars, kv, ledgerVars, boundVars>>

(* Mutant: a refund stops at the payment's row. *)
UpsertRefundOnly(w) ==
    /\ At(w, "upsert")
    /\ row' = [row EXCEPT ![job[w].c] = [st |-> job[w].sess.pay, disc |-> job[w].disc]]
    /\ CASE job[w].sess.pay = "paid"     -> Goto(w, "settle")
         [] OTHER                        -> Finish(w)
    /\ UNCHANGED <<voucherVars, sessionVars, orders, audited, charge, boundVars>>

(* Mutant: a pending charge is settled as a paid one. *)
UpsertPending(w) ==
    /\ At(w, "upsert")
    /\ row' = [row EXCEPT ![job[w].c] = [st |-> job[w].sess.pay, disc |-> job[w].disc]]
    /\ CASE job[w].sess.pay \in {"paid", "pending"} -> Goto(w, "settle")
         [] job[w].sess.pay = "refunded" -> Goto(w, "settleRefund")
         [] OTHER                        -> Finish(w)
    /\ UNCHANGED <<voucherVars, sessionVars, orders, audited, charge, boundVars>>

Upsert(w) ==
    /\ At(w, "upsert")
    /\ row' = [row EXCEPT ![job[w].c] = [st |-> job[w].sess.pay, disc |-> job[w].disc]]
    /\ CASE job[w].sess.pay = "paid"     -> Goto(w, "settle")
         [] job[w].sess.pay = "refunded" -> Goto(w, "settleRefund")
         [] OTHER                        -> Finish(w)
    /\ UNCHANGED <<voucherVars, sessionVars, orders, audited, charge, boundVars>>

-----------------------------------------------------------------------------
(* The provider, and what it tells                                            *)

(* A pending charge is decided by the shopper's bank.                         *)
Decide(c) ==
    /\ charge[c].st = "pending"
    /\ \E st \in {"paid", "failed"} :
         charge' = [charge EXCEPT ![c].st = st, ![c].failed = @ \/ st = "failed"]
    /\ UNCHANGED <<voucherVars, sessionVars, row, orders, audited, job, boundVars>>

Told(c, e) ==
    \/ e \in {"paid1", "paid2"} /\ charge[c].st \in {"paid", "refunded"}
    \/ e = "failed" /\ charge[c].failed
    \/ e = "refunded" /\ charge[c].st = "refunded"

(* POST /payment-webhooks/:provider: the audit row is inserted first, and a   *)
(* second delivery of the event stops at it.                                  *)
Hook(w, c, e) ==
    /\ w \in BackWorkers
    /\ Told(c, e)
    /\ e \notin audited[c]
    /\ audited' = [audited EXCEPT ![c] = @ \cup {e}]
    /\ At(w, "idle")
    /\ job' = [job EXCEPT ![w] = [Idle EXCEPT !.op = "hook", !.at = "find", !.c = c,
                                              !.status = EventStatus(e)]]
    /\ Stray(Meets(c))
    /\ UNCHANGED <<voucherVars, sessionVars, row, orders, charge, asked>>

(* The payment's row is found, and the money the event reports compared with  *)
(* it: an event that names no row answers 404, one that disagrees is held for *)
(* review, and neither changes anything more.                                 *)
Agrees(c, st) == st = "paid" => row[c].disc = charge[c].disc
Find(w) ==
    LET c == job[w].c IN
    /\ At(w, "find")
    /\ IF row[c].st # "none" /\ Agrees(c, job[w].status)
       THEN job' = [job EXCEPT ![w].at = "row", ![w].disc = row[c].disc]
       ELSE Finish(w)
    /\ UNCHANGED <<voucherVars, sessionVars, ledgerVars, boundVars>>

(* The reconciliation worker asks the provider about the payments that have   *)
(* been pending longest, a batch of them.  A lookup that fails ends like one  *)
(* that is stopped, and leaves the row its place in the list.                 *)
Reconcile(w, c) ==
    /\ w \in BackWorkers
    /\ c \notin behind
    /\ row[c].st = "pending"
    /\ At(w, "idle")
    /\ job' = [job EXCEPT ![w] = [Idle EXCEPT !.op = "reconcile", !.at = "query", !.c = c,
                                              !.disc = row[c].disc]]
    /\ Stray(Meets(c))
    /\ UNCHANGED <<voucherVars, sessionVars, ledgerVars, asked>>

Query(w) ==
    LET c == job[w].c IN
    /\ At(w, "query")
    /\ IF charge[c].st = "paid" /\ charge[c].disc # job[w].disc
       THEN Finish(w)
       ELSE job' = [job EXCEPT ![w].at = "row", ![w].status = charge[c].st]
    /\ UNCHANGED <<voucherVars, sessionVars, ledgerVars, boundVars>>

(* Both then write the status to the row, to the D1 session and to the KV     *)
(* copy if there is one, whatever each says by now.                           *)
Late(w, current) ==
    IF \/ job[w].status = "failed" /\ charge[job[w].c].st # "failed"
       \/ job[w].status \in {"pending", "failed"} /\ current = "paid"
    THEN {"lateStatus"} ELSE {}
NoteLate(w, current) == strayed' = strayed \cup Late(w, current)

WriteRow(w) ==
    /\ At(w, "row")
    /\ row' = [row EXCEPT ![job[w].c].st = job[w].status]
    /\ Goto(w, "session")
    /\ NoteLate(w, row[job[w].c].st)
    /\ UNCHANGED <<voucherVars, sessionVars, orders, audited, charge, asked>>

WriteSession(w) ==
    LET c == job[w].c IN
    /\ At(w, "session")
    /\ Update(c, [db[c] EXCEPT !.pay = job[w].status])
    /\ Goto(w, "cached")
    /\ NoteLate(w, db[c].pay)
    /\ UNCHANGED <<voucherVars, kv, ledgerVars, asked>>

(* Mutant: the reconciliation does not settle the orders. *)
OwedByEvents(w) ==
    CASE job[w].status = "paid" /\ job[w].op = "hook" -> "settle"
      [] job[w].status = "refunded" -> "settleRefund"
      [] OTHER                      -> "idle"

(* What is left to do for the status once the copies show it.                 *)
Owed(w) ==
    CASE job[w].status = "paid"     -> "settle"
      [] job[w].status = "refunded" -> "settleRefund"
      [] OTHER                      -> "idle"

(* updateCachedSession(): the KV copy is read ...                             *)
ReadCached(w) ==
    LET c == job[w].c IN
    /\ At(w, "cached")
    /\ job' = IF kv[c] # NONE
              THEN [job EXCEPT ![w].at = "putBack", ![w].sess = kv[c]]
              ELSE [job EXCEPT ![w] = IF Owed(w) = "idle" THEN Idle
                                      ELSE [@ EXCEPT !.at = Owed(w)]]
    /\ UNCHANGED <<voucherVars, sessionVars, ledgerVars, boundVars>>

(* ... and put back whole with the payment changed.                           *)
Stale(w) ==
    IF kv[job[w].c] = NONE \/ kv[job[w].c].voucher # job[w].sess.voucher
    THEN {"staleCopy"} ELSE {}
WriteCached(w) ==
    LET c == job[w].c IN
    /\ At(w, "putBack")
    /\ kv' = [kv EXCEPT ![c] = [job[w].sess EXCEPT !.pay = job[w].status]]
    /\ job' = [job EXCEPT ![w] = IF Owed(w) = "idle" THEN Idle
                                 ELSE [@ EXCEPT !.at = Owed(w), !.sess = NewSession]]
    /\ strayed' = strayed \cup Late(w, Read(c).pay) \cup Stale(w)
    /\ UNCHANGED <<voucherVars, db, idle, unmoved, behind, ledgerVars, asked>>

(* The Worker may be stopped at any await.  A webhook or a tick that has not  *)
(* written the row yet is made up for by the next reconciliation.             *)
Stop(w) ==
    /\ ~At(w, "idle")
    /\ Finish(w)
    /\ Stray(IF job[w].at \in {"find", "query", "row"} THEN {} ELSE {"crash"})
    /\ UNCHANGED <<voucherVars, sessionVars, ledgerVars, asked>>

-----------------------------------------------------------------------------
(* Child orders and the redemption of the voucher                             *)

(* settleMarketCheckoutChildOrdersPaid(): one batch.  A webhook derives the   *)
(* shares from the D1 session, and leaves the orders alone when they do not   *)
(* add up to the charge; a refunded order stays refunded.                     *)
Shares(w) == IF job[w].op = "pay" THEN job[w].disc ELSE db[job[w].c].voucher # "none"
PayOrders(w) ==
    LET c == job[w].c IN
    /\ orders' = IF orders[c].st = "unpaid"
                 THEN [orders EXCEPT ![c] = [st |-> "completed", disc |-> Shares(w)]]
                 ELSE orders
    /\ IF job[w].op # "pay" THEN Goto(w, "load")
       ELSE IF job[w].sess.voucher = "none" THEN Finish(w) ELSE Goto(w, "flip")
    /\ UNCHANGED <<voucherVars, sessionVars, row, audited, charge, boundVars>>
(* Mutant: the shares are not compared with the charge. *)
SettleUnchecked(w) == At(w, "settle") /\ PayOrders(w)

Settle(w) ==
    /\ At(w, "settle")
    /\ \/ Shares(w) = job[w].disc /\ PayOrders(w)
       \/ /\ Shares(w) # job[w].disc
          /\ Goto(w, "load")
          /\ UNCHANGED <<voucherVars, sessionVars, ledgerVars, boundVars>>

(* redeemCachedMarketCheckoutVoucher(): the voucher of the KV copy, or of D1. *)
Load(w) ==
    LET c == job[w].c
        v == IF kv[c] # NONE /\ kv[c].voucher # "none" THEN kv[c].voucher ELSE db[c].voucher
    IN
    /\ At(w, "load")
    /\ IF v = "none" THEN Finish(w)
       ELSE job' = [job EXCEPT ![w].at = "flip", ![w].sess.voucher = v]
    /\ UNCHANGED <<voucherVars, sessionVars, ledgerVars, boundVars>>

(* redeem(): the hold becomes a use, and the call that turns it has the claim.*)
Flip(w) ==
    LET c == job[w].c IN
    /\ At(w, "flip")
    /\ usage' = [usage EXCEPT ![c] =
                   [p \in Parts |-> IF @[p] = "reserved" THEN "active" ELSE @[p]]]
    /\ job' = [job EXCEPT ![w].at = "look",
                          ![w].won = \E p \in Parts : usage[c][p] = "reserved"]
    /\ UNCHANGED <<used, reserved, countReleased, sessionVars, ledgerVars, boundVars>>

(* settleReservedCount() follows when the call has the claim and its copy of  *)
(* the voucher says reserved.                                                 *)
Last(w, won) == IF won /\ job[w].sess.voucher = "reserved" THEN "count" ELSE "idle"
Then(w, l)   == IF l = "idle" THEN Finish(w) ELSE Goto(w, l)

(* Mutant: a checkout with any row counts as redeemed. *)
LookForAny(w) ==
    LET c == job[w].c
        claimed == Live(c) = {} /\ job[w].sess.voucher # "reserved"
    IN
    /\ At(w, "look")
    /\ IF Live(c) # {} THEN Then(w, Last(w, job[w].won))
       ELSE job' = [job EXCEPT ![w].at = IF claimed THEN "slot" ELSE "insert",
                               ![w].todo = Parts \ Live(c), ![w].claimed = claimed]
    /\ UNCHANGED <<voucherVars, sessionVars, ledgerVars, boundVars>>

Look(w) ==
    LET c == job[w].c
        claimed == Live(c) = {} /\ job[w].sess.voucher # "reserved"
    IN
    /\ At(w, "look")
    /\ IF Live(c) = Parts THEN Then(w, Last(w, job[w].won))
       ELSE job' = [job EXCEPT ![w].at = IF claimed THEN "slot" ELSE "insert",
                               ![w].todo = Parts \ Live(c), ![w].claimed = claimed]
    /\ UNCHANGED <<voucherVars, sessionVars, ledgerVars, boundVars>>

(* Mutant: a redemption that comes after the sweep takes no use. *)
SlotUncounted(w) ==
    /\ At(w, "slot") /\ Goto(w, "insert")
    /\ UNCHANGED <<voucherVars, sessionVars, ledgerVars, boundVars>>

Slot(w) ==
    /\ At(w, "slot")
    /\ \/ used < UsageLimit /\ used' = used + 1 /\ Goto(w, "insert")
       \/ used >= UsageLimit /\ used' = used /\ Finish(w)
    /\ UNCHANGED <<reserved, usage, countReleased, sessionVars, ledgerVars, boundVars>>

(* A row per order; the unique index and the per-user trigger skip one.  The  *)
(* stalls' orders are created one after another and their ids (uuid v7) grow, *)
(* so the allocations begin with the claim's order.                           *)
NextOrders(w) ==
    IF ClaimPart \in job[w].todo THEN {ClaimPart} ELSE job[w].todo

Insert(w) ==
    LET c == job[w].c IN
    /\ At(w, "insert")
    /\ \E p \in NextOrders(w) :
         LET added == /\ usage[c][p] = "none"
                      /\ p = ClaimPart /\ PerUser => HasClaimLeft(c)
             claim == added /\ p = ClaimPart
             won   == job[w].won \/ claim
             last  == job[w].todo = {p}
             next  == IF job[w].claimed /\ ~(job[w].inserted \/ claim) THEN "unslot"
                      ELSE Last(w, won)
         IN /\ usage' = IF added THEN [usage EXCEPT ![c][p] = "active"] ELSE usage
            /\ IF last /\ next = "idle" THEN Finish(w)
               ELSE job' = [job EXCEPT ![w].at = IF last THEN next ELSE "insert",
                                       ![w].todo = @ \ {p}, ![w].won = won,
                                       ![w].inserted = @ \/ claim]
            /\ strayed' = IF p = ClaimPart /\ ~added /\ usage[c][p] = "none"
                          THEN strayed \cup {"claimLost"} ELSE strayed
    /\ UNCHANGED <<used, reserved, countReleased, sessionVars, ledgerVars, asked>>

Unslot(w) ==
    /\ At(w, "unslot")
    /\ used' = Less(used)
    /\ Then(w, Last(w, job[w].won))
    /\ UNCHANGED <<reserved, usage, countReleased, sessionVars, ledgerVars, boundVars>>

CountPaid(w) ==
    /\ At(w, "count")
    /\ reserved' = Less(reserved)
    /\ Finish(w)
    /\ UNCHANGED <<used, usage, countReleased, sessionVars, ledgerVars, boundVars>>

-----------------------------------------------------------------------------
(* The administrator's refund and the sweep                                   *)

(* POST /:id/refund gives the whole charge back, under one idempotency key.   *)
Refund(w, c) ==
    LET s == Read(c) IN
    /\ w \in BackWorkers
    /\ s.pay = "paid"
    /\ At(w, "idle")
    /\ job' = [job EXCEPT ![w] = [Idle EXCEPT !.op = "refund", !.at = "callRefund", !.c = c,
                                              !.sess = s, !.disc = row[c].disc]]
    /\ Stray(IF Running(c) = {} THEN {} ELSE {"refundOverlap"})
    /\ UNCHANGED <<voucherVars, sessionVars, ledgerVars, asked>>

CallRefund(w) ==
    LET c == job[w].c IN
    /\ At(w, "callRefund")
    /\ \/ /\ charge[c].st \in {"paid", "refunded"}
          /\ charge' = [charge EXCEPT ![c].st = "refunded"]
          /\ job' = [job EXCEPT ![w].at = "put", ![w].sess.pay = "refunded"]
       \/ UNCHANGED charge /\ Finish(w)      \* the provider refuses
    /\ UNCHANGED <<voucherVars, sessionVars, row, orders, audited, boundVars>>

(* settleMarketCheckoutChildOrdersRefunded(): the orders this checkout paid.  *)
SettleRefund(w) ==
    LET c == job[w].c IN
    /\ At(w, "settleRefund")
    /\ orders' = IF orders[c].st = "completed" THEN [orders EXCEPT ![c].st = "refunded"]
                 ELSE orders
    /\ IF job[w].op = "refund" /\ job[w].sess.voucher # "none"
       THEN Goto(w, "mark") ELSE Finish(w)
    /\ UNCHANGED <<voucherVars, sessionVars, row, audited, charge, boundVars>>

(* markRefunded(): the uses become refunded, and when all of the checkout's   *)
(* are, the call that stamps the claim's row gives the use back.              *)
Mark(w) ==
    /\ At(w, "mark")
    /\ usage' = [usage EXCEPT ![job[w].c] =
                   [p \in Parts |-> IF @[p] = "active" THEN "refunded" ELSE @[p]]]
    /\ Goto(w, "fully")
    /\ UNCHANGED <<used, reserved, countReleased, sessionVars, ledgerVars, boundVars>>

Fully(w) ==
    LET c == job[w].c
        stampable == {p \in Live(c) : ClaimPart \in Live(c) => p = ClaimPart}
    IN
    /\ At(w, "fully")
    /\ \/ /\ \A p \in Live(c) : usage[c][p] = "refunded"
          /\ \E p \in stampable :
               /\ <<c, p>> \notin countReleased
               /\ countReleased' = countReleased \cup {<<c, p>>}
          /\ Goto(w, "uncount")
       \/ /\ \/ \E p \in Live(c) : usage[c][p] # "refunded"
             \/ \A p \in stampable : <<c, p>> \in countReleased
          /\ Finish(w)
          /\ UNCHANGED countReleased
    /\ UNCHANGED <<used, reserved, usage, sessionVars, ledgerVars, boundVars>>

Uncount(w) ==
    /\ At(w, "uncount")
    /\ used' = Less(used)
    /\ Finish(w)
    /\ UNCHANGED <<reserved, usage, countReleased, sessionVars, ledgerVars, boundVars>>

(* A day without a request or an event of the checkout outlives the KV copy,  *)
(* and the reconciliation of a payment that was pending half an hour, unless  *)
(* its batch never came to the row or the lookup failed all day.              *)
Unreconciled(c) ==
    row[c].st = "pending" /\ charge[c].st # "pending" /\ Agrees(c, charge[c].st)
DayPasses(c) ==
    /\ Running(c) = {}
    /\ c \notin idle
    /\ Stray(IF Unreconciled(c) THEN {"unreconciled"} ELSE {})
    /\ idle' = idle \cup {c}
    /\ kv' = [kv EXCEPT ![c] = NONE]
    /\ UNCHANGED <<voucherVars, db, unmoved, behind, ledgerVars, job, asked>>

(* Each worker reads its oldest rows only, 50 sessions the sweep and 25       *)
(* payments the reconciliation.  Rows that were released still match, and a   *)
(* failed lookup leaves its row where it is: those before the checkout's own  *)
(* may fill the batch, for as long as they stay.  While a handler of the      *)
(* checkout runs it makes no difference that no tick begins as well.          *)
FallsBehind(c) ==
    /\ c \in Outnumbered \ behind
    /\ Running(c) = {}
    /\ c \in idle \/ row[c].st = "pending"
    /\ behind' = behind \cup {c}
    /\ UNCHANGED <<voucherVars, kv, db, idle, unmoved, ledgerVars, job, boundVars>>

CatchesUp(c) ==
    /\ c \in behind
    /\ behind' = behind \ {c}
    /\ UNCHANGED <<voucherVars, kv, db, idle, unmoved, ledgerVars, job, boundVars>>

(* Mutant: only checkouts nobody tried to pay are swept. *)
SweepUntried(w, c) ==
    /\ w \in BackWorkers
    /\ db[c].voucher = "reserved"
    /\ db[c].pay \in {"none", "pending"}
    /\ c \in idle \ behind
    /\ Begin(w, "sweep", "cas", c, db[c])
    /\ unmoved' = unmoved \cup {c}
    /\ Stray(IF Running(c) = {} THEN {} ELSE {"sweepOverlap"})
    /\ UNCHANGED <<voucherVars, kv, db, idle, behind, ledgerVars, asked>>

(* The sweep reads the stale unpaid rows that hold a reservation, then writes *)
(* released over those whose updatedAt is still the one it read, and only     *)
(* then gives the reservation back.                                           *)
Sweep(w, c) ==
    /\ w \in BackWorkers
    /\ db[c].voucher = "reserved"
    /\ db[c].pay \in {"none", "pending", "failed"}
    /\ c \in idle \ behind
    /\ Begin(w, "sweep", "cas", c, db[c])
    /\ unmoved' = unmoved \cup {c}
    /\ Stray(IF Running(c) = {} THEN {} ELSE {"sweepOverlap"})
    /\ UNCHANGED <<voucherVars, kv, db, idle, behind, ledgerVars, asked>>

CompareAndSet(w) ==
    LET c == job[w].c IN
    /\ At(w, "cas")
    /\ \/ /\ c \in unmoved
          /\ Update(c, [db[c] EXCEPT !.voucher = "released"])
          /\ Goto(w, "release")
       \/ /\ c \notin unmoved
          /\ Finish(w)
          /\ UNCHANGED <<db, idle, unmoved, behind>>
    /\ UNCHANGED <<voucherVars, kv, ledgerVars, boundVars>>

-----------------------------------------------------------------------------
Step(w) ==      \* a handler that has begun goes on
    \/ ClaimSlot(w) \/ Hold(w) \/ GiveBack(w) \/ Cache(w) \/ Save(w)
    \/ Release(w) \/ Unhold(w) \/ Charge(w) \/ Put(w) \/ Persist(w) \/ Upsert(w)
    \/ Find(w) \/ Query(w) \/ WriteRow(w) \/ WriteSession(w) \/ ReadCached(w)
    \/ WriteCached(w) \/ Settle(w) \/ Load(w) \/ Flip(w) \/ Look(w) \/ Slot(w) \/ Insert(w)
    \/ Unslot(w) \/ CountPaid(w)
    \/ CallRefund(w) \/ SettleRefund(w) \/ Mark(w) \/ Fully(w) \/ Uncount(w)
    \/ CompareAndSet(w)

Next ==
    \/ \E w \in Workers, c \in Checkouts :
         \/ Apply(w, c) \/ Remove(w, c) \/ Pay(w, c)
         \/ Reconcile(w, c) \/ Refund(w, c) \/ Sweep(w, c)
         \/ \E e \in Events : Hook(w, c, e)
    \/ \E w \in Workers : Step(w) \/ StoreFails(w) \/ Stop(w)
    \/ \E c \in Checkouts : Decide(c) \/ DayPasses(c) \/ FallsBehind(c) \/ CatchesUp(c)

Spec == Init /\ [][Next]_vars

(* A handler that has begun ends, the bank decides, days pass, and the cron   *)
(* worker ticks, not stopped for ever at the same await; requests, webhooks   *)
(* and refunds are owed by nobody.                                            *)
Fairness ==
    /\ \A w \in Workers : WF_vars(Step(w)) /\ SF_vars(Query(w)) /\ SF_vars(WriteRow(w))
    /\ \A c \in Checkouts :
         /\ WF_vars(Decide(c))
         /\ WF_vars(DayPasses(c))
         /\ SF_vars(\E w \in BackWorkers : Reconcile(w, c))
         /\ SF_vars(\E w \in BackWorkers : Sweep(w, c))
FairSpec == Spec /\ Fairness

-----------------------------------------------------------------------------
(* Properties                                                                 *)

Quiet == \A w \in Workers : At(w, "idle")
Orderly == strayed = {}

(* The values of every variable.                                              *)
TypeOK ==
    /\ used \in Nat /\ reserved \in Nat
    /\ usage \in [Checkouts -> [Parts -> {"none", "reserved", "active", "refunded"}]]
    /\ countReleased \subseteq Checkouts \X Parts
    /\ kv \in [Checkouts -> Session \cup {NONE}]
    /\ db \in [Checkouts -> Session]
    /\ row \in [Checkouts -> Money({"none", "pending", "paid", "failed", "refunded"})]
    /\ orders \in [Checkouts -> Money({"unpaid", "completed", "refunded"})]
    /\ audited \in [Checkouts -> SUBSET Events]
    /\ idle \subseteq Checkouts /\ unmoved \subseteq Checkouts /\ behind \subseteq Checkouts
    /\ charge \in [Checkouts -> [st : {"none", "pending", "paid", "failed", "refunded"},
                                 disc : BOOLEAN, failed : BOOLEAN]]
    /\ job \in [Workers -> Job]
    /\ asked \in 0 .. MaxRequests
    /\ strayed \subseteq Strays

(* used_count and reserved_count are exact whenever no handler runs: a slot   *)
(* per reservation that was neither released nor redeemed, and a used one per *)
(* redemption that was not refunded.                                          *)
Redeemed(c) == usage[c][ClaimPart] = "active"
Holding(c)  == db[c].voucher = "reserved" /\ usage[c][ClaimPart] \in {"none", "reserved"}
UsesAreCounted ==
    Quiet /\ Orderly =>
      /\ used = Cardinality({c \in Checkouts : Holding(c) \/ Redeemed(c)})
      /\ reserved = Cardinality({c \in Checkouts : Holding(c)})

(* A redemption the trigger refuses the customer's claim records nothing.     *)
RefusedClaimRecordsNothing ==
    Quiet /\ strayed \subseteq {"claimLost"} =>
      \A c \in Checkouts : usage[c][ClaimPart] = "none" => Live(c) = {}

(* A reservation that was redeemed and refunded is not released once more:    *)
(* used_count never falls below the reservations and uses there are.          *)
ReleasesOnlyReserved ==
    Quiet /\ strayed \subseteq {"editRefunded"} =>
      used >= Cardinality({c \in Checkouts : Holding(c) \/ Redeemed(c)})

(* A discount that was reserved until the money came is recorded as a use for *)
(* every order it was taken off, by the request or by the event that tells.   *)
DiscountIsRecorded ==
    \A c \in Checkouts :
      (Quiet /\ Orderly /\ orders[c].st = "completed" /\ orders[c].disc
         /\ db[c].voucher = "reserved")
        => \A p \in Parts : usage[c][p] = "active"

(* The shares written to the stalls' orders add up to the charge, and follow  *)
(* it no further than it went, whatever happened to the voucher between the   *)
(* charge and the settlement.                                                 *)
SharesMatchTheCharge ==
    \A c \in Checkouts :
      orders[c].st # "unpaid" =>
        /\ charge[c].st \in (IF orders[c].st = "refunded" THEN {"refunded"}
                             ELSE {"paid", "refunded"})
        /\ orders[c].disc = charge[c].disc

(* No order uses the voucher before the money came, and no use is refunded    *)
(* before the money went back, whichever request, event or tick comes late.   *)
UsesAreOfPaidCheckouts ==
    \A c \in Checkouts, p \in Parts :
      /\ usage[c][p] = "active" => charge[c].st \in {"paid", "refunded"}
      /\ usage[c][p] = "refunded" => charge[c].st = "refunded"

(* Money the provider took reaches the orders of the stalls, provided that    *)
(* the reconciliation's batch reaches the payment again and again.            *)
Reached(c) == []<>(c \notin behind)
PaidIsSettled ==
    \A c \in Checkouts :
      Reached(c) => (charge[c].st = "paid" ~> (orders[c].st # "unpaid" \/ ~Orderly))

(* A refund reaches the orders, through the request or the event that tells.  *)
RefundIsSettled ==
    \A c \in Checkouts :
      charge[c].st = "refunded" ~> (orders[c].st = "refunded" \/ ~Orderly)

(* A reservation does not outlive a checkout nobody pays, provided that the   *)
(* sweep's batch reaches it again and again.                                  *)
HoldsAreReturned ==
    \A c \in Checkouts :
      Reached(c) => (Holding(c) ~> (~Holding(c) \/ ~Orderly))
=============================================================================
