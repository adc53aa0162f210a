----------------------------- MODULE GroupOrder -----------------------------
(***************************************************************************)
(* The life of one group order: GroupOrdersService                         *)
(* (apps/api/src/features/group-orders/services) and the expiry sweep      *)
(* (apps/api/src/workers/group-order-expiry.ts).  Diners fill a shared     *)
(* cart; a finalizer claims the group, turns the cart into one real order  *)
(* and splits the bill; the sweep submits or cancels an expired group and  *)
(* takes over claims whose holder died.                                    *)
(*                                                                         *)
(* A call is as many actions as it has database calls that others can come *)
(* between; reads that follow each other, and the bills one split writes,  *)
(* are one action.  Every dish costs one unit of the currency and carries  *)
(* no fees, so a cart and an order are quantities by item, and split_bills *)
(* is the cart the last successful split charged.  A dish is asked for and *)
(* a member leaves once.  Of the settings only finalizeFailure is state:   *)
(* the sweep finds autoSubmitOnExpiry either way.  Joining, payments, logs *)
(* and caches are left out.                                                *)
(***************************************************************************)
EXTENDS Integers, Sequences, Functions, FiniteSetsExt

CONSTANTS
    Items,          \* the dishes diners may put into the cart
    MaxQuantity,
    Members,
    Host,           \* the member with role "creator"
    OwnerOf,        \* OwnerOf[i]: the member who orders dish i
    Finalizers,     \* calls of finalizeGroupOrder by the host or the staff
    Recoveries,     \* calls of recoverFinalization
    Sweeps,         \* runs of the expiry sweep, one after the other
    Cleaners,       \* calls of cleanupExpiredGroups
    Settings,       \* calls of setFeeMode and setAutoSubmitOnExpiry
    Prompt,         \* the calls that end within FINALIZING_STALE_MS
    MaxFaults       \* bound of the model: evictions and failed calls

Procs == Finalizers \cup Recoveries \cup Sweeps \cup Cleaners \cup Settings

ASSUME GroupAssumption ==
    /\ Host \in Members
    /\ OwnerOf \in [Items -> Members]
    /\ MaxQuantity \in Nat \ {0}
    /\ Finalizers \cap (Recoveries \cup Sweeps \cup Cleaners \cup Settings) = {}
    /\ Recoveries \cap (Sweeps \cup Cleaners \cup Settings) = {}
    /\ Sweeps \cap (Cleaners \cup Settings) = {}
    /\ Prompt \subseteq Procs
    /\ MaxFaults \in Nat
    /\ "none" \notin Procs

Statuses == {"active", "finalizing", "finalizing_failed", "completed",
             "checkout", "cancelled"}
Quantities == 0 .. MaxQuantity
Carts == [Items -> Quantities]
FinalizeStages == {"claim", "reread", "snapshot", "release", "order", "record",
                   "split", "complete", "fail", "reopen", "reopenFreed"}
SweepStages == {"idle", "read", "cancel", "reset", "scan", "demote"}
RecoveryStages == {"idle", "claim", "split", "settle", "fail", "ok", "over"}
OtherStages == {"idle", "clean", "write", "ok"}
Stages == FinalizeStages \cup SweepStages \cup RecoveryStages \cup OtherStages

VARIABLES
    status,     \* group_orders.status
    master,     \* masterOrderId: the position of the order, 0 for null
    lockedAt,   \* lockedAt: the call that wrote it, "none" for null
    stale,      \* lockedAt is longer than FINALIZING_STALE_MS ago
    failure,    \* settings.finalizeFailure is present
    expired,    \* expiresAt has passed
    refusing,   \* a rule of createOrder refuses the cart as things stand
    ousted,     \* history: a call gave back a claim that was not its own
    cart,       \* cart[i]: the quantity of i in an active cart row, 0 for none
    asked,      \* asked[i]: how far the request to add i is
    leaving,    \* leaving[m]: how far m is in leaveGroup
    orders,     \* the orders placed for the group, by clientMutationId
    billed,     \* the quantities the last successful split charged
    stage,      \* stage[p]: the database call p is about to make, or its answer
    local,      \* local[p]: what call p has read
    faults

cartVars == <<cart, asked, leaving>>
rowVars == <<status, master, lockedAt, stale, failure>>
others == <<expired, refusing, ousted>>
vars == <<status, master, lockedAt, stale, failure, expired, refusing, ousted,
          cart, asked, leaving, orders, billed, stage, local, faults>>

Nothing == [i \in Items |-> 0]

(* A finalizer reads the cart, a change of the settings reads whether they  *)
(* hold a failure, and the sweep reads lockedAt.                            *)
NothingRead == [cart |-> Nothing, failure |-> FALSE, lock |-> "none"]

(* The members whose leftAt is set. *)
Left == {m \in Members : leaving[m] \in {"clear", "gone"}}

Init ==
    /\ status = "active"
    /\ master = 0
    /\ lockedAt = "none"
    /\ stale = FALSE
    /\ failure = FALSE
    /\ expired = FALSE
    /\ refusing = FALSE
    /\ ousted = FALSE
    /\ cart = Nothing
    /\ asked = [i \in Items |-> "no"]
    /\ leaving = [m \in Members |-> "no"]
    /\ orders = <<>>
    /\ billed = Nothing
    /\ stage = [p \in Procs |-> "idle"]
    /\ local = [p \in Procs |-> NothingRead]
    /\ faults = 0

Fault == faults < MaxFaults /\ faults' = faults + 1
GoTo(p, s) == stage' = [stage EXCEPT ![p] = s]
-----------------------------------------------------------------------------
(* Diners. *)

(* addCartItem: validateGroupOrderAndMember.  The row inserted next is      *)
(* staged: no reader sees it before it is published.                        *)
AskToAdd(i) ==
    /\ asked[i] = "no"
    /\ status = "active" /\ ~expired /\ OwnerOf[i] \notin Left
    /\ asked' = [asked EXCEPT ![i] = "staged"]
    /\ UNCHANGED <<rowVars, others, cart, leaving, orders, billed,
                   stage, local, faults>>

(* Mutant: the staged row is published whatever the group's status. *)
OpenToAll(i) == TRUE

(* groupOrderIsActive, a condition of every write to the cart. *)
AcceptsChanges(i) == status = "active"

(* The staged row becomes active, or is deleted. *)
Publish(i) ==
    /\ asked[i] = "staged"
    /\ asked' = [asked EXCEPT ![i] = "done"]
    /\ cart' = IF AcceptsChanges(i) THEN [cart EXCEPT ![i] = 1] ELSE cart
    /\ UNCHANGED <<rowVars, others, leaving, orders, billed, stage,
                   local, faults>>

(* updateCartItem and removeCartItem (a quantity of 0). *)
ChangeItem(i, quantity) ==
    /\ cart[i] > 0
    /\ AcceptsChanges(i)
    /\ cart' = [cart EXCEPT ![i] = quantity]
    /\ UNCHANGED <<rowVars, others, asked, leaving, orders, billed,
                   stage, local, faults>>

AskToLeave(m) ==
    /\ leaving[m] = "no"
    /\ status = "active"
    /\ m = Host => Left = Members \ {Host}
    /\ leaving' = [leaving EXCEPT ![m] = "mark"]
    /\ UNCHANGED <<rowVars, others, cart, asked, orders, billed, stage,
                   local, faults>>

Leave(m) ==
    /\ leaving[m] = "mark"
    /\ leaving' = [leaving EXCEPT ![m] = "clear"]
    /\ UNCHANGED <<rowVars, others, cart, asked, orders, billed, stage, local, faults>>

ClearItems(m) ==
    /\ leaving[m] = "clear"
    /\ cart' = [i \in Items |-> IF OwnerOf[i] = m THEN 0 ELSE cart[i]]
    /\ leaving' = [leaving EXCEPT ![m] = "gone"]
    /\ UNCHANGED <<rowVars, others, asked, orders, billed, stage, local,
                   faults>>

DinerStep ==
    \/ \E i \in Items : AskToAdd(i) \/ Publish(i)
    \/ \E i \in Items, quantity \in Quantities : ChangeItem(i, quantity)
    \/ \E m \in Members : AskToLeave(m) \/ Leave(m) \/ ClearItems(m)
-----------------------------------------------------------------------------
(* finalizeGroupOrder *)

(* Mutant: the sweep stops at its finalizer's answer. *)
EndAll(p, result) == GoTo(p, IF result = "empty" THEN "over" ELSE result)

(* The call is over: a finalizer answers its caller; a sweep goes on. *)
End(p, result) ==
    GoTo(p, IF p \in Sweeps THEN IF result = "empty" THEN "cancel" ELSE "reset"
            ELSE IF result = "empty" THEN "over" ELSE result)

Forget(p) == local' = [local EXCEPT ![p] = NothingRead]

(* What a finalizer answers that does not get the claim. *)
Standing == IF status = "completed" THEN "ok" ELSE "over"

ReadGroup(p) ==
    /\ stage[p] = IF p \in Sweeps THEN "read" ELSE "idle"
    /\ IF status = "active" THEN GoTo(p, "claim") ELSE End(p, Standing)
    /\ UNCHANGED <<rowVars, others, cartVars, orders, billed, local, faults>>

(* Mutant: the claim does not ask for the status. *)
AnyStatus == master = 0

(* The condition of the claiming UPDATE. *)
Claimable == status = "active" /\ master = 0

Claim(p) ==
    /\ stage[p] = "claim"
    /\ IF Claimable
       THEN /\ status' = "finalizing"
            /\ lockedAt' = p
            /\ stale' = FALSE
            /\ GoTo(p, "snapshot")
       ELSE /\ GoTo(p, "reread")
            /\ UNCHANGED <<status, lockedAt, stale>>
    /\ UNCHANGED <<master, failure, others, cartVars, orders, billed,
                   local, faults>>

Reread(p) ==
    /\ stage[p] = "reread"
    /\ End(p, Standing)
    /\ UNCHANGED <<rowVars, others, cartVars, orders, billed, local, faults>>

TakeSnapshot(p) ==
    /\ stage[p] = "snapshot"
    /\ local' = [local EXCEPT ![p].cart = cart]
    /\ GoTo(p, IF cart = Nothing THEN "release" ELSE "order")
    /\ UNCHANGED <<rowVars, others, cartVars, orders, billed, faults>>

(* A claim without an order. *)
Unordered == status = "finalizing" /\ master = 0

(* The UPDATE that gives a claim back names no holder. *)
GiveBack ==
    IF Unordered
    THEN status' = "active" /\ lockedAt' = "none"
    ELSE UNCHANGED <<status, lockedAt>>

(* The claim on an empty group is given back. *)
Release(p) ==
    /\ stage[p] = "release"
    /\ GiveBack
    /\ End(p, "empty")
    /\ UNCHANGED <<master, stale, failure, others, cartVars, orders,
                   billed, local, faults>>

(* ... and the answer is lost while `claimed' still says that it is held. *)
ReleaseLost(p) ==
    /\ stage[p] = "release"
    /\ GiveBack
    /\ Fault
    /\ GoTo(p, "reopenFreed")
    /\ UNCHANGED <<master, stale, failure, others, cartVars, orders, billed, local>>

(* createOrder: UNIQUE(restaurant_id, client_mutation_id) lets one order of *)
(* the group in; a duplicate stands for the order that is there.            *)
PlaceOnce(p) ==
    orders' = IF orders = <<>> THEN <<local[p].cart>> ELSE orders

PlaceOrder(p) ==
    /\ stage[p] = "order"
    /\ ~refusing
    /\ PlaceOnce(p)
    /\ GoTo(p, "record")
    /\ UNCHANGED <<rowVars, others, cartVars, billed, local, faults>>

(* A business rule refuses the cart: a dish is out of stock, the minimum is *)
(* not met, the restaurant does not deliver.  It is looked at before the    *)
(* order is inserted, whether or not the group has one already.             *)
OrderRefused(p) ==
    /\ stage[p] = "order"
    /\ refusing
    /\ GoTo(p, "reopen")
    /\ UNCHANGED <<rowVars, others, cartVars, orders, billed, local, faults>>

(* createOrder fails before or after its batch committed. *)
OrderFails(p) ==
    /\ stage[p] = "order"
    /\ Fault
    /\ PlaceOnce(p) \/ UNCHANGED orders
    /\ GoTo(p, "reopen")
    /\ UNCHANGED <<rowVars, others, cartVars, billed, local>>

(* The UPDATE that records the order names the group only. *)
RecordOrder(p) ==
    /\ stage[p] = "record"
    /\ master' = Len(orders)
    /\ status' = "finalizing"
    /\ GoTo(p, "split")
    /\ UNCHANGED <<lockedAt, stale, failure, others, cartVars, orders,
                   billed, local, faults>>

Total(quantities) == MapThenSumSet(LAMBDA i : quantities[i], Items)

(* The part of the cart a split charges: all of it when the shares are      *)
(* equal, that of the present members when each pays for its own.           *)
Charged(quantities, own) ==
    [i \in Items |-> IF own /\ OwnerOf[i] \in Left THEN 0 ELSE quantities[i]]

(* computeSplitBills: the shares add up to the order's total, or it is a    *)
(* SPLIT_TOTAL_MISMATCH.                                                    *)
Splits(charge) ==
    /\ status # "cancelled"
    /\ Left # Members
    /\ Total(charge) = Total(orders[master])

SplitBill(p, quantities, next) ==
    \E own \in BOOLEAN :
        LET charge == Charged(quantities, own)
        IN  IF Splits(charge)
            THEN billed' = charge /\ GoTo(p, next)
            ELSE UNCHANGED billed /\ GoTo(p, "fail")

Split(p) ==
    /\ stage[p] = "split"
    /\ SplitBill(p, IF p \in Recoveries THEN cart ELSE local[p].cart,
                 IF p \in Recoveries THEN "settle" ELSE "complete")
    /\ UNCHANGED <<rowVars, others, cartVars, orders, local, faults>>

SplitFails(p) ==
    /\ stage[p] = "split"
    /\ Fault
    /\ GoTo(p, "fail")
    /\ UNCHANGED <<rowVars, others, cartVars, orders, billed, local>>

Complete(p) ==
    /\ stage[p] = "complete"
    /\ status' = "completed"
    /\ Forget(p)
    /\ End(p, "ok")
    /\ UNCHANGED <<master, lockedAt, stale, failure, others, cartVars,
                   orders, billed, faults>>

MarkFailed(p) ==
    /\ stage[p] = "fail" /\ p \notin Recoveries
    /\ status' = "finalizing_failed"
    /\ failure' = TRUE
    /\ Forget(p)
    /\ End(p, "over")
    /\ UNCHANGED <<master, lockedAt, stale, others, cartVars, orders, billed, faults>>

(* The condition of the catch block's UPDATE. *)
Reopenable == status = "finalizing" /\ master = 0

(* After a release whose answer was lost it frees the claim of whoever has  *)
(* claimed since.                                                           *)
Reopen(p) ==
    /\ stage[p] \in {"reopen", "reopenFreed"}
    /\ status' = IF Reopenable THEN "active" ELSE status
    /\ ousted' = (ousted \/ (stage[p] = "reopenFreed" /\ Reopenable))
    /\ Forget(p)
    /\ End(p, "over")
    /\ UNCHANGED <<master, lockedAt, stale, failure, expired, refusing,
                   cartVars, orders, billed, faults>>

(* A database call between the claim and the answer fails, before it has    *)
(* committed.  A write whose answer alone is lost is ReleaseLost, or the    *)
(* action and then this one at the next stage, or Evicted.                  *)
CallFails(p) ==
    /\ stage[p] \in {"snapshot", "release", "record", "split", "complete", "fail"}
    /\ p \notin Recoveries
    /\ Fault
    /\ GoTo(p, "reopen")
    /\ UNCHANGED <<rowVars, others, cartVars, orders, billed, local>>

FinalizeStep(p) ==
    \/ Claim(p) \/ Reread(p) \/ TakeSnapshot(p) \/ Release(p)
    \/ PlaceOrder(p) \/ OrderRefused(p) \/ RecordOrder(p) \/ Split(p)
    \/ Complete(p) \/ MarkFailed(p) \/ Reopen(p)
-----------------------------------------------------------------------------
(* recoverFinalization *)

ReadFailed(r) ==
    /\ stage[r] = "idle"
    /\ GoTo(r, IF status = "finalizing_failed" /\ master # 0 /\ failure
               THEN "claim" ELSE "over")
    /\ UNCHANGED <<rowVars, others, cartVars, orders, billed, local, faults>>

ClaimRecovery(r) ==
    /\ stage[r] = "claim"
    /\ IF status = "finalizing_failed" /\ master # 0
       THEN /\ status' = "finalizing"
            /\ lockedAt' = r
            /\ stale' = FALSE
            /\ GoTo(r, "split")
       ELSE /\ GoTo(r, "over")
            /\ UNCHANGED <<status, lockedAt, stale>>
    /\ UNCHANGED <<master, failure, others, cartVars, orders, billed,
                   local, faults>>

(* One member bears the whole order. *)
SplitOnBearer(r) ==
    /\ stage[r] = "split"
    /\ \E m \in Members :
        IF status # "cancelled" /\ m \notin Left
        THEN billed' = orders[master] /\ GoTo(r, "settle")
        ELSE UNCHANGED billed /\ GoTo(r, "fail")
    /\ UNCHANGED <<rowVars, others, cartVars, orders, local, faults>>

(* The condition of both closing UPDATEs: the claim is still there. *)
StillClaimed == status = "finalizing" /\ master # 0

(* Mutant: the rows the settling UPDATE returns are not looked at. *)
AnyOutcome == "ok"

(* What the settling UPDATE's returned rows say. *)
Outcome == IF StillClaimed THEN "ok" ELSE "over"

Settle(r) ==
    /\ stage[r] = "settle"
    /\ IF StillClaimed
       THEN /\ status' = "checkout"
            /\ failure' = FALSE
            /\ lockedAt' = r
            /\ stale' = FALSE
       ELSE UNCHANGED <<status, failure, lockedAt, stale>>
    /\ GoTo(r, Outcome)
    /\ UNCHANGED <<master, others, cartVars, orders, billed, local, faults>>

FailAgain(r) ==
    /\ stage[r] = "fail" /\ r \in Recoveries
    /\ IF StillClaimed
       THEN status' = "finalizing_failed" /\ failure' = TRUE
       ELSE UNCHANGED <<status, failure>>
    /\ GoTo(r, "over")
    /\ UNCHANGED <<master, lockedAt, stale, others, cartVars, orders, billed,
                   local, faults>>

RecoverStep(r) ==
    ClaimRecovery(r) \/ Split(r) \/ SplitOnBearer(r) \/ Settle(r) \/ FailAgain(r)
-----------------------------------------------------------------------------
(* sweepExpiringGroupOrders, from its selection of expired groups on *)

SweepStart(s) ==
    /\ stage[s] = "idle"
    /\ IF status = "active" /\ expired
       THEN GoTo(s, "read") \/ GoTo(s, "cancel")
       ELSE GoTo(s, "reset")
    /\ UNCHANGED <<rowVars, others, cartVars, orders, billed, local, faults>>

(* cancelExpiredGroupOrder *)
CancelExpired(s) ==
    /\ stage[s] = "cancel"
    /\ status' = IF status = "active" THEN "cancelled" ELSE status
    /\ GoTo(s, "reset")
    /\ UNCHANGED <<master, lockedAt, stale, failure, others, cartVars,
                   orders, billed, local, faults>>

(* Mutant: a claim is given back although its order is placed. *)
AnyAbandoned == status = "finalizing" /\ lockedAt # "none" /\ stale

(* A claim nobody holds any more, before its order was recorded. *)
Abandoned == Unordered /\ lockedAt # "none" /\ stale

FreeAbandoned(s) ==
    /\ stage[s] = "reset"
    /\ IF Abandoned
       THEN status' = "active" /\ lockedAt' = "none"
       ELSE UNCHANGED <<status, lockedAt>>
    /\ GoTo(s, "scan")
    /\ UNCHANGED <<master, stale, failure, others, cartVars, orders,
                   billed, local, faults>>

(* ... and after. *)
Stranded == status = "finalizing" /\ master # 0 /\ lockedAt # "none" /\ stale

FindStranded(s) ==
    /\ stage[s] = "scan"
    /\ IF Stranded
       THEN local' = [local EXCEPT ![s].lock = lockedAt] /\ GoTo(s, "demote")
       ELSE UNCHANGED local /\ GoTo(s, "idle")
    /\ UNCHANGED <<rowVars, others, cartVars, orders, billed, faults>>

(* Mutant: the demotion leaves the group in `finalizing'. *)
LeaveStranded(s) == UNCHANGED <<status, failure>>

(* demoteAbandonedFinalizeClaim *)
Demote(s) ==
    IF status = "finalizing" /\ master # 0 /\ lockedAt = local[s].lock
    THEN status' = "finalizing_failed" /\ failure' = TRUE
    ELSE UNCHANGED <<status, failure>>

DemoteStranded(s) ==
    /\ stage[s] = "demote"
    /\ Demote(s)
    /\ Forget(s)
    /\ GoTo(s, "idle")
    /\ UNCHANGED <<master, lockedAt, stale, others, cartVars, orders, billed, faults>>

SweepStep(s) ==
    \/ SweepStart(s) \/ ReadGroup(s) \/ FinalizeStep(s) \/ CancelExpired(s)
    \/ FreeAbandoned(s) \/ FindStranded(s) \/ DemoteStranded(s)
-----------------------------------------------------------------------------
(* cleanupExpiredGroups: a read, and a write that names the group only. *)
FindExpired(c) ==
    /\ stage[c] = "idle"
    /\ status \in {"active", "checkout"} /\ expired
    /\ GoTo(c, "clean")
    /\ UNCHANGED <<rowVars, others, cartVars, orders, billed, local, faults>>

CancelFound(c) ==
    /\ stage[c] = "clean"
    /\ status' = "cancelled"
    /\ GoTo(c, "ok")
    /\ UNCHANGED <<master, lockedAt, stale, failure, others, cartVars,
                   orders, billed, local, faults>>

(* setFeeMode and setAutoSubmitOnExpiry rewrite the settings they read. *)
ReadSettings(p) ==
    /\ stage[p] = "idle"
    /\ local' = [local EXCEPT ![p].failure = failure]
    /\ GoTo(p, "write")
    /\ UNCHANGED <<rowVars, others, cartVars, orders, billed, faults>>

RewriteSettings(p) ==
    /\ stage[p] = "write"
    /\ failure' = local[p].failure
    /\ Forget(p)
    /\ GoTo(p, "ok")
    /\ UNCHANGED <<status, master, lockedAt, stale, others, cartVars, orders,
                   billed, faults>>

Live(p) == stage[p] \notin {"idle", "ok", "over"}

(* The isolate of a call is evicted; the next sweep starts over. *)
Evicted(p) ==
    /\ Live(p)
    /\ Fault
    /\ Forget(p)
    /\ GoTo(p, IF p \in Sweeps THEN "idle" ELSE "over")
    /\ UNCHANGED <<rowVars, others, cartVars, orders, billed>>

(* p has claimed the group and is not done with it. *)
HoldStages == {"snapshot", "release", "order", "record", "split", "complete",
               "fail", "reopen", "settle"}
Holding(p) == stage[p] \in HoldStages

(* The claim's lockedAt becomes FINALIZING_STALE_MS old; a call that ends   *)
(* within that time is over by then.                                        *)
ClaimAges ==
    /\ status = "finalizing" /\ lockedAt # "none" /\ ~stale
    /\ \A p \in Prompt : ~Holding(p)
    /\ stale' = TRUE
    /\ UNCHANGED <<status, master, lockedAt, failure, others, cartVars,
                   orders, billed, stage, local, faults>>

Expire ==
    /\ ~expired
    /\ expired' = TRUE
    /\ UNCHANGED <<rowVars, refusing, ousted, cartVars, orders, billed, stage,
                   local, faults>>

(* The stock, the menu, the opening hours or the settings change. *)
RulesChange ==
    /\ refusing' = ~refusing
    /\ UNCHANGED <<rowVars, expired, ousted, cartVars, orders, billed, stage,
                   local, faults>>

Next ==
    \/ DinerStep
    \/ \E p \in Finalizers : ReadGroup(p) \/ FinalizeStep(p)
    \/ \E p \in Finalizers \cup Sweeps : OrderFails(p) \/ CallFails(p) \/ ReleaseLost(p)
    \/ \E p \in Finalizers \cup Sweeps \cup Recoveries : SplitFails(p) \/ Evicted(p)
    \/ \E r \in Recoveries : ReadFailed(r) \/ RecoverStep(r)
    \/ \E s \in Sweeps : SweepStep(s)
    \/ \E c \in Cleaners : FindExpired(c) \/ CancelFound(c)
    \/ \E p \in Settings : ReadSettings(p) \/ RewriteSettings(p)
    \/ ClaimAges
    \/ Expire
    \/ RulesChange

Spec == Init /\ [][Next]_vars

(* Time passes, the sweep runs every five minutes and a call that has begun *)
(* goes on until it ends or is evicted.                                     *)
Fairness ==
    /\ WF_vars(Expire) /\ WF_vars(ClaimAges)
    /\ \A s \in Sweeps : WF_vars(SweepStep(s))
    /\ \A p \in Finalizers : WF_vars(FinalizeStep(p))
    /\ \A r \in Recoveries : WF_vars(RecoverStep(r))

FairSpec == Spec /\ Fairness
-----------------------------------------------------------------------------
(* Each kind of call goes through stages of its own. *)
StageOK ==
    /\ stage \in [Procs -> Stages]
    /\ \A p \in Finalizers : stage[p] \in FinalizeStages \cup {"idle", "ok", "over"}
    /\ \A s \in Sweeps : stage[s] \in FinalizeStages \cup SweepStages
    /\ \A r \in Recoveries : stage[r] \in RecoveryStages
    /\ \A p \in Cleaners \cup Settings : stage[p] \in OtherStages

(* Every variable holds what its column or local variable can hold. *)
TypeOK ==
    /\ status \in Statuses
    /\ master \in 0 .. Len(orders)
    /\ lockedAt \in Procs \cup {"none"}
    /\ {stale, failure, expired, refusing, ousted} \subseteq BOOLEAN
    /\ cart \in Carts
    /\ asked \in [Items -> {"no", "staged", "done"}]
    /\ leaving \in [Members -> {"no", "mark", "clear", "gone"}]
    /\ orders \in Seq(Carts)
    /\ billed \in Carts
    /\ StageOK
    /\ local \in [Procs -> [cart : Carts, failure : BOOLEAN,
                            lock : Procs \cup {"none"}]]
    /\ faults \in Nat

(* "A group whose real order was already created is never handed back to a  *)
(* second finalizer": with a recorded order the cart never opens again.     *)
RecordedOrderCloses == master # 0 => status # "active"

(* "Claims the group-order mutex": while finalizers end within the stale    *)
(* time, the claim of one excludes every other finalizer and recovery, even *)
(* when recoveries outlive theirs, until a lost answer makes a call free    *)
(* the claim of another.                                                    *)
ClaimIsExclusive ==
    ~ousted => \A p \in Finalizers \cup Sweeps, q \in Procs :
        Holding(p) /\ Holding(q) => p = q

(* "Claim before taking the cart snapshot": no dish whose diner was told it *)
(* is in the cart is missing from the order the finalizer goes on to place, *)
(* unless a call has freed a claim that was not its own.                    *)
SnapshotIsWhole ==
    ~ousted => \A p \in Finalizers \cup Sweeps :
        stage[p] \in {"order", "record", "split"} =>
            \A i \in Items : cart[i] <= local[p].cart[i]

(* "What is not safe is telling the caller this settled when the row says   *)
(* otherwise": a group reported as settled stays so until it is cleaned up, *)
(* unless a call has freed a claim that was not its own.                    *)
SettledIsTrue ==
    ~ousted => \A p \in Finalizers \cup Recoveries :
        stage[p] = "ok" => /\ master # 0
                           /\ status \in {"completed", "checkout", "cancelled"}

(* No claim is stuck and no expired group stays open: it is completed,      *)
(* cancelled or in the hands of the staff, whichever isolate dies, provided *)
(* that the rules of createOrder do not refuse its cart for ever.           *)
EveryGroupCloses ==
    <>[]~refusing => <>(status \notin {"active", "finalizing"})

(* "Every item used for the canonical order and split bills now comes from  *)
(* one immutable view": what a completed group is billed for is what the    *)
(* kitchen was told to cook.                                                *)
BilledIsOrdered == status = "completed" => billed = orders[master]

(* "The recovery endpoint has the amounts it needs to re-run": a failed     *)
(* group carries the diagnostics recoverFinalization asks for.              *)
FailedIsRecoverable == status = "finalizing_failed" => failure /\ master # 0
-----------------------------------------------------------------------------
(* The inductive invariants behind the properties. *)

(* The unique clientMutationId lets one order of the group in. *)
OneOrder == Len(orders) <= 1

(* What the stages and the statuses after an order's placing rely on. *)
OrderBeforeUse ==
    /\ status \in {"finalizing_failed", "completed", "checkout"} => master # 0
    /\ \A p \in Procs :
        /\ stage[p] = "record" => orders # <<>>
        /\ stage[p] \in {"split", "complete", "settle", "fail"} => master # 0

CoreInv == TypeOK /\ OneOrder /\ RecordedOrderCloses /\ OrderBeforeUse

(* No finalizer is at work, nor will one be. *)
Over == master # 0 /\ \A p \in Finalizers \cup Sweeps : ~Holding(p)

(* Finalizers and sweeps end within FINALIZING_STALE_MS. *)
FinalizersArePrompt == Finalizers \cup Sweeps \subseteq Prompt

HolderOwnsGroup ==
    \A p \in Finalizers \cup Sweeps : Holding(p) =>
        /\ status \in {"finalizing", "cancelled"}
        /\ lockedAt = p /\ ~stale
        /\ \A r \in Recoveries : ~Holding(r)

PromptInv ==
    /\ HolderOwnsGroup
    /\ \A s \in Sweeps : stage[s] = "demote" => Over
    /\ \A p \in Finalizers \cup Recoveries : stage[p] = "ok" => Over
    /\ SettledIsTrue
    /\ SnapshotIsWhole

(* ... until a call frees a claim that is not its own. *)
UntilOusted == ~ousted => PromptInv
=============================================================================
