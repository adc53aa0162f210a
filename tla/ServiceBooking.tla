--------------------------- MODULE ServiceBooking ---------------------------
(* Bookings of a service in time slots.  A slot row caps its time; without a  *)
(* row the time is not capped.  A booking takes its place in the slot first   *)
(* and is inserted later; a series takes one slot a week and is taken back as *)
(* a whole when one week is full.  Confirming spends credits in another       *)
(* service before the booking is marked; cancelling gives the place and the   *)
(* voucher's use back in one batch.  Each request is cut at its awaits.       *)
EXTENDS Naturals, FiniteSets

CONSTANTS
    Bookings,       \* ids of bookings
    Slots,          \* (service, date, time)
    MaxCapacity,    \* bound: the largest max_capacity an operator enters
    UsageLimit,     \* coupons.usage_limit of the one voucher
    Workers,        \* requests in flight at a time
    Disorders,      \* which of Strays a behaviour may begin
    NONE            \* no booking, no slot

(* Steps that break the counts and that no handler guards against.            *)
Strays == {"lateSlot",      \* a slot row is made for a time that is booked already
           "sameTick",      \* two batches of one booking stamp the same millisecond
           "overLimit",     \* a voucher is confirmed after its limit was reached
           "rollbackLate",  \* a series takes back a booking that went on meanwhile
           "lostAnswer",    \* a statement is done and its answer is lost
           "crash"}         \* the Worker stops between the place and the booking

ASSUME BookingAssumption ==
    /\ MaxCapacity \in Nat /\ UsageLimit \in Nat
    /\ IsFiniteSet(Bookings) /\ IsFiniteSet(Workers)
    /\ NONE \notin Bookings \cup Slots
    /\ Disorders \subseteq Strays

VARIABLES
    slot,       \* service_booking_slots
    booking,    \* service_bookings
    used,       \* coupons.used_count
    spent,      \* bookings whose spend is in the credit ledger
    job,        \* the request each worker is running
    strayed     \* the disorders that have happened

vars == <<slot, booking, used, spent, job, strayed>>

(* A booking that is over is completed or a no-show; a slot that is blocked   *)
(* has no capacity until an operator enters one again.                        *)
Statuses == {"none", "pending", "confirmed", "cancelled", "over", "deleted"}
Booking == [st : Statuses, slot : Slots \cup {NONE}, coupon : BOOLEAN, credits : BOOLEAN]
NoBooking == [st |-> "none", slot |-> NONE, coupon |-> FALSE, credits |-> FALSE]
Slot == [made : BOOLEAN, cap : 0 .. MaxCapacity, count : 0 .. MaxCapacity]
Job == [at : {"idle", "reserve", "look", "price", "insert", "release", "delete",
              "spend", "mark", "batch"},
        todo : SUBSET Slots, made : SUBSET Bookings,    \* a series: to come, and done
        slot : Slots \cup {NONE}, coupon : BOOLEAN,
        b : Bookings \cup {NONE}, credits : BOOLEAN, seen : Statuses]
Idle == [at |-> "idle", todo |-> {}, made |-> {}, slot |-> NONE, coupon |-> FALSE,
         b |-> NONE, credits |-> FALSE, seen |-> "none"]

Init ==
    /\ slot = [s \in Slots |-> [made |-> FALSE, cap |-> 0, count |-> 0]]
    /\ booking = [b \in Bookings |-> NoBooking]
    /\ used = 0 /\ spent = {}
    /\ job = [w \in Workers |-> Idle]
    /\ strayed = {}

At(w, label) == job[w].at = label
Finish(w) == job' = [job EXCEPT ![w] = Idle]
Goto(w, l) == job' = [job EXCEPT ![w].at = l]
Less(n) == IF n > 0 THEN n - 1 ELSE 0
Stray(d) == d \subseteq Disorders /\ strayed' = strayed \cup d

(* Bookings that hold a place, and requests that hold one for a booking.      *)
Placed(s) == {b \in Bookings : /\ booking[b].slot = s
                               /\ booking[b].st \in {"pending", "confirmed", "over"}}
Holds(s)  == {w \in Workers : /\ job[w].slot = s
                              /\ job[w].at \in {"price", "insert", "release"}}

-----------------------------------------------------------------------------
(* createBooking() and createRecurringBookings()                              *)

(* A voucher goes with single bookings only.                                  *)
Book(w, series, coupon) ==
    /\ At(w, "idle")
    /\ coupon => Cardinality(series) = 1
    /\ job' = [job EXCEPT ![w] = [Idle EXCEPT !.at = "reserve", !.todo = series,
                                              !.coupon = coupon]]
    /\ UNCHANGED <<slot, booking, used, spent, strayed>>

Priced(w) == IF job[w].coupon THEN "price" ELSE "insert"

(* Mutant: the guarded UPDATE does not look at max_capacity. *)
HasRoomAlways(s) == slot[s].made /\ slot[s].cap > 0

HasRoom(s) == slot[s].made /\ slot[s].count < slot[s].cap

(* reserveSlotCapacity(): one guarded UPDATE; when it changes nothing, a read *)
(* tells a full slot from a time without a row.                               *)
Reserve(w, s) ==
    /\ At(w, "reserve")
    /\ s \in job[w].todo
    /\ IF HasRoom(s)
       THEN /\ slot' = [slot EXCEPT ![s].count = @ + 1]
            /\ job' = [job EXCEPT ![w].slot = s, ![w].at = Priced(w)]
       ELSE /\ slot' = slot
            /\ job' = [job EXCEPT ![w].slot = s, ![w].at = "look"]
    /\ UNCHANGED <<booking, used, spent, strayed>>

(* The series is taken back, last booking first.                              *)
TakeBack(w) == IF job[w].made = {} THEN Finish(w) ELSE Goto(w, "delete")

(* The week is refused before the UPDATE, or the UPDATE throws: whether it    *)
(* took a place or not, the request does not count it as reserved.            *)
ReserveFails(w, s) ==
    /\ At(w, "reserve")
    /\ s \in job[w].todo
    /\ \/ UNCHANGED <<slot, strayed>>
       \/ /\ HasRoom(s)
          /\ slot' = [slot EXCEPT ![s].count = @ + 1]
          /\ Stray({"lostAnswer"})
    /\ TakeBack(w)
    /\ UNCHANGED <<booking, used, spent>>

Look(w) ==
    /\ At(w, "look")
    /\ \/ TakeBack(w)        \* there is a row, or the read throws
       \/ ~slot[job[w].slot].made /\ Goto(w, Priced(w))
    /\ UNCHANGED <<slot, booking, used, spent, strayed>>

(* priceVoucher(): a voucher that does not apply gives the place back.        *)
Price(w) ==
    /\ At(w, "price")
    /\ \/ used < UsageLimit /\ Goto(w, "insert")
       \/ Goto(w, "release")
    /\ UNCHANGED <<slot, booking, used, spent, strayed>>

Wanted(w) == [NoBooking EXCEPT !.st = "pending", !.slot = job[w].slot, !.coupon = job[w].coupon]

Insert(w, b) ==
    LET rest == job[w].todo \ {job[w].slot} IN
    /\ At(w, "insert")
    /\ booking[b].st = "none"
    /\ booking' = [booking EXCEPT ![b] = Wanted(w)]
    /\ IF rest = {} THEN Finish(w)
       ELSE job' = [job EXCEPT ![w].at = "reserve", ![w].todo = rest,
                               ![w].made = @ \cup {b}, ![w].slot = NONE]
    /\ UNCHANGED <<slot, used, spent, strayed>>

(* The INSERT throws, and the place is given back: also that of a booking     *)
(* that was inserted and whose answer was lost.                               *)
InsertFails(w) ==
    /\ At(w, "insert")
    /\ \/ UNCHANGED <<booking, strayed>>
       \/ /\ \E b \in Bookings : /\ booking[b].st = "none"
                                  /\ booking' = [booking EXCEPT ![b] = Wanted(w)]
          /\ Stray({"lostAnswer"})
    /\ Goto(w, "release")
    /\ UNCHANGED <<slot, used, spent>>

(* Mutant: a place is given back only while the slot is not blocked. *)
VacatedOpen(s) == IF slot[s].made /\ slot[s].cap > 0
                  THEN [slot EXCEPT ![s].count = Less(@)] ELSE slot

(* One place of the slot is given back, if the slot has a row.                *)
Vacated(s) == IF slot[s].made THEN [slot EXCEPT ![s].count = Less(@)] ELSE slot

(* releaseSlotCapacity(), of the booking that failed or of one taken back.    *)
Release(w) ==
    /\ At(w, "release")
    /\ slot' = Vacated(job[w].slot)
    /\ TakeBack(w)
    /\ UNCHANGED <<booking, used, spent, strayed>>

(* The database refuses it: the error is only logged.                         *)
ReleaseFails(w) ==
    /\ At(w, "release")
    /\ Stray({"crash"})
    /\ TakeBack(w)
    /\ UNCHANGED <<slot, booking, used, spent>>

(* rollbackRecurringBookings(): the row is deleted whatever it says by now,   *)
(* then its place is given back; when the DELETE throws the place is left,    *)
(* with the row or, when only the answer was lost, without it.                *)
Delete(w, b) ==
    LET left == job[w].made \ {b} IN
    /\ At(w, "delete")
    /\ b \in job[w].made
    /\ \/ /\ booking' = [booking EXCEPT ![b] = [NoBooking EXCEPT !.st = "deleted"]]
          /\ job' = [job EXCEPT ![w].at = "release", ![w].made = left,
                                ![w].slot = booking[b].slot]
          /\ strayed' = IF booking[b].st = "pending" THEN strayed
                        ELSE strayed \cup {"rollbackLate"}
       \/ /\ IF left = {} THEN Finish(w) ELSE job' = [job EXCEPT ![w].made = left]
          /\ \/ UNCHANGED <<booking, strayed>>
             \/ /\ booking' = [booking EXCEPT ![b] = [NoBooking EXCEPT !.st = "deleted"]]
                /\ Stray({"lostAnswer"})
    /\ UNCHANGED <<slot, used, spent>>

-----------------------------------------------------------------------------
(* payWithCredits(), confirmCash(), cancelBookingRow() and transition()       *)

(* A booking with nothing due is confirmed without a spend, as one in cash.   *)
Confirm(w, b, credits) ==
    /\ At(w, "idle")
    /\ booking[b].st = "pending"
    /\ job' = [job EXCEPT ![w] = [Idle EXCEPT !.at = IF credits THEN "spend" ELSE "mark",
                                              !.b = b, !.credits = credits]]
    /\ UNCHANGED <<slot, booking, used, spent, strayed>>

(* Mutant: a refused spend confirms the booking all the same. *)
SpendUnchecked(w) ==
    /\ At(w, "spend")
    /\ \/ spent' = spent \cup {job[w].b} /\ (Goto(w, "mark") \/ Finish(w))
       \/ spent' = spent /\ Goto(w, "mark")
    /\ UNCHANGED <<slot, booking, used, strayed>>

(* CreditService.spend() under the booking's key: a repeated key replays; the *)
(* balance or the PIN may refuse it, and an answer may be lost.               *)
Spend(w) ==
    /\ At(w, "spend")
    /\ \/ spent' = spent \cup {job[w].b} /\ (Goto(w, "mark") \/ Finish(w))
       \/ spent' = spent /\ Finish(w)
    /\ UNCHANGED <<slot, booking, used, strayed>>

(* markConfirmed(): the booking if it is still pending, and the voucher's use *)
(* if there is a booking confirmed in this millisecond.                       *)
Mark(w) ==
    LET b == job[w].b
        counts == booking[b].coupon /\ used < UsageLimit
    IN
    /\ At(w, "mark")
    /\ \/ /\ booking[b].st = "pending"
          /\ booking' = [booking EXCEPT ![b].st = "confirmed", ![b].credits = job[w].credits]
          /\ used' = IF counts THEN used + 1 ELSE used
          /\ strayed' = IF booking[b].coupon /\ ~counts THEN strayed \cup {"overLimit"}
                        ELSE strayed
       \/ /\ booking[b].st # "pending"
          /\ UNCHANGED <<booking, used, strayed>>
       \/ /\ booking[b].st = "confirmed"
          /\ counts
          /\ Stray({"sameTick"})
          /\ used' = used + 1
          /\ UNCHANGED booking
    /\ Finish(w)
    /\ UNCHANGED <<slot, spent>>

Cancel(w, b) ==
    /\ At(w, "idle")
    /\ booking[b].st \in {"pending", "confirmed"}
    /\ job' = [job EXCEPT ![w] = [Idle EXCEPT !.at = "batch", !.b = b,
                                              !.seen = booking[b].st]]
    /\ UNCHANGED <<slot, booking, used, spent, strayed>>

(* Mutant: the use of a voucher is given back for a pending booking too. *)
GivesUseBackAlways(w) == booking[job[w].b].coupon

GivesUseBack(w) == booking[job[w].b].coupon /\ job[w].seen = "confirmed"

(* The batch: the booking if it has the status that was read, its place and   *)
(* its voucher's use if there is a booking cancelled in this millisecond.     *)
Batch(w) ==
    LET b == job[w].b IN
    /\ At(w, "batch")
    /\ \/ /\ booking[b].st = job[w].seen
          /\ booking' = [booking EXCEPT ![b].st = "cancelled"]
          /\ slot' = Vacated(booking[b].slot)
          /\ used' = IF GivesUseBack(w) THEN Less(used) ELSE used
          /\ UNCHANGED strayed
       \/ /\ booking[b].st # job[w].seen
          /\ UNCHANGED <<slot, booking, used, strayed>>
       \/ /\ booking[b].st = "cancelled"
          /\ Stray({"sameTick"})
          /\ slot' = Vacated(booking[b].slot)
          /\ used' = IF GivesUseBack(w) THEN Less(used) ELSE used
          /\ UNCHANGED booking
    /\ Finish(w)
    /\ UNCHANGED spent

Transition(b) ==
    /\ booking[b].st = "confirmed"
    /\ booking' = [booking EXCEPT ![b].st = "over"]
    /\ UNCHANGED <<slot, used, spent, job, strayed>>

-----------------------------------------------------------------------------
(* The operator's slots                                                       *)

LateSlot(s) ==
    IF ~slot[s].made /\ (Placed(s) # {} \/ Holds(s) # {} \/ \E w \in Workers : job[w].slot = s)
    THEN {"lateSlot"} ELSE {}

(* createSlot(): a new row starts at no bookings, an old one keeps its count. *)
CreateSlot(s, n) ==
    /\ slot' = [slot EXCEPT ![s].made = TRUE, ![s].cap = n]
    /\ Stray(LateSlot(s))
    /\ UNCHANGED <<booking, used, spent, job>>

BlockSlot(s) ==
    /\ slot' = [slot EXCEPT ![s].made = TRUE, ![s].cap = 0]
    /\ Stray(LateSlot(s))
    /\ UNCHANGED <<booking, used, spent, job>>

Stop(w) ==
    /\ ~At(w, "idle")
    /\ Stray(IF job[w].at \in {"price", "insert", "release"} THEN {"crash"} ELSE {})
    /\ Finish(w)
    /\ UNCHANGED <<slot, booking, used, spent>>

-----------------------------------------------------------------------------
Next ==
    \/ \E w \in Workers :
         \/ \E series \in SUBSET Slots \ {{}}, coupon \in BOOLEAN : Book(w, series, coupon)
         \/ \E s \in Slots : Reserve(w, s) \/ ReserveFails(w, s)
         \/ Look(w) \/ Price(w) \/ InsertFails(w) \/ Release(w) \/ ReleaseFails(w)
         \/ Spend(w) \/ Mark(w) \/ Batch(w) \/ Stop(w)
         \/ \E b \in Bookings :
              \/ Insert(w, b) \/ Delete(w, b) \/ Cancel(w, b)
              \/ \E credits \in BOOLEAN : Confirm(w, b, credits)
    \/ \E b \in Bookings : Transition(b)
    \/ \E s \in Slots :
         \/ \E n \in 1 .. MaxCapacity : CreateSlot(s, n)
         \/ BlockSlot(s)

Spec == Init /\ [][Next]_vars

-----------------------------------------------------------------------------
(* Properties                                                                 *)

Orderly == strayed = {}

(* The values of every variable.                                              *)
TypeOK ==
    /\ slot \in [Slots -> Slot]
    /\ booking \in [Bookings -> Booking]
    /\ used \in 0 .. UsageLimit
    /\ spent \subseteq Bookings
    /\ job \in [Workers -> Job]
    /\ strayed \subseteq Strays

(* The count of a slot is the places taken: by bookings that were neither     *)
(* cancelled nor taken back, and by requests between the two writes.          *)
SlotIsCounted ==
    Orderly =>
      \A s \in Slots : slot[s].made =>
        slot[s].count = Cardinality(Placed(s)) + Cardinality(Holds(s))

(* used_count is the bookings confirmed with the voucher, however confirming, *)
(* cancelling and repeating them interleave.                                  *)
Redeeming == {b \in Bookings : /\ booking[b].coupon
                               /\ booking[b].st \in {"confirmed", "over"}}
CouponIsCounted == Orderly => used = Cardinality(Redeeming)

(* A booking that stands as paid with credits has its spend in the ledger,    *)
(* also when the request that spent died and another one marked it.           *)
CreditsWereSpent ==
    \A b \in Bookings : booking[b].credits => b \in spent
=============================================================================
