------------------------ MODULE ServiceBookingProofs ------------------------
(***************************************************************************)
(* What a slot and a voucher count is what was booked with them, for every *)
(* number of bookings, slots and requests in flight: the counts are        *)
(* written apart from the rows they count.                                 *)
(***************************************************************************)
EXTENDS ServiceBooking, FiniteSetTheorems, TLAPS

(* A request knows its slot from its first write to its last one.          *)
JobsFit ==
    \A w \in Workers :
      /\ job[w].at \in {"look", "price", "insert", "release"} => job[w].slot \in Slots
      /\ job[w].at \in {"spend", "mark", "batch"} => job[w].b \in Bookings
      /\ job[w].at = "batch" => job[w].seen \in {"pending", "confirmed"}
      /\ job[w].at = "mark" /\ job[w].credits => job[w].b \in spent

(* The bookings of a series are known to the request that made them alone, *)
(* and it is the only one that deletes them.                               *)
MadeIsMine ==
    \A w \in Workers :
      /\ \A b \in job[w].made : booking[b].st \notin {"none", "deleted"}
      /\ \A v \in Workers \ {w} : job[v].made \cap job[w].made = {}

BookingsFit ==
    \A b \in Bookings : booking[b].st \notin {"none", "deleted"} => booking[b].slot \in Slots

UnmadeIsEmpty == \A s \in Slots : ~slot[s].made => slot[s].count = 0

Shape == TypeOK /\ JobsFit /\ MadeIsMine /\ BookingsFit /\ UnmadeIsEmpty

(* What a step does to the job of the request that takes it.               *)
LEMMA JobStep ==
    ASSUME TypeOK, NEW w \in Workers, NEW j \in Job, job' = [job EXCEPT ![w] = j]
    PROVE  /\ job' \in [Workers -> Job]
           /\ job'[w] = j
           /\ \A v \in Workers \ {w} : job'[v] = job[v]
  BY DEF TypeOK

(* A request that ends leaves the idle job.                                 *)
LEMMA FinishStep ==
    ASSUME TypeOK, NEW w \in Workers, Finish(w)
    PROVE  /\ job' \in [Workers -> Job]
           /\ job'[w] = Idle
           /\ \A v \in Workers \ {w} : job'[v] = job[v]
  <1>1. Idle \in Job
    BY DEF Idle, Job, Statuses
  <1> QED BY <1>1, JobStep DEF Finish

(* A request that goes on changes its label only.                           *)
LEMMA GotoStep ==
    ASSUME TypeOK, NEW w \in Workers, NEW l, Goto(w, l),
           l \in {"idle", "reserve", "look", "price", "insert", "release", "delete",
                  "spend", "mark", "batch"}
    PROVE  /\ job' \in [Workers -> Job]
           /\ job'[w] = [job[w] EXCEPT !.at = l]
           /\ \A v \in Workers \ {w} : job'[v] = job[v]
  <1>1. job[w] \in Job
    BY DEF TypeOK
  <1>2. [job[w] EXCEPT !.at = l] \in Job
    BY <1>1 DEF Job
  <1>3. job' = [job EXCEPT ![w] = [job[w] EXCEPT !.at = l]]
    BY DEF Goto
  <1> QED BY <1>2, <1>3, JobStep

(* Giving a place back keeps the slots typed.                              *)
LEMMA VacatedType ==
    ASSUME TypeOK, NEW s \in Slots
    PROVE  /\ Vacated(s) \in [Slots -> Slot]
           /\ \A t \in Slots : Vacated(s)[t].made = slot[t].made
           /\ \A t \in Slots : Vacated(s)[t].count =
                IF t = s /\ slot[t].made THEN Less(slot[t].count) ELSE slot[t].count
  <1>1. slot \in [Slots -> Slot] /\ MaxCapacity \in Nat
    BY BookingAssumption DEF TypeOK
  <1>2. slot[s] \in Slot /\ Less(slot[s].count) \in 0 .. MaxCapacity
    BY <1>1 DEF Slot, Less
  <1>3. [slot[s] EXCEPT !.count = Less(@)] \in Slot
    BY <1>2 DEF Slot
  <1>4. CASE slot[s].made
    <2>1. Vacated(s) = [slot EXCEPT ![s] = [slot[s] EXCEPT !.count = Less(@)]]
      BY <1>4 DEF Vacated
    <2>2. \A t \in Slots : Vacated(s)[t] =
             IF t = s THEN [slot[s] EXCEPT !.count = Less(@)] ELSE slot[t]
      BY <2>1, <1>1
    <2> QED BY <2>1, <2>2, <1>1, <1>2, <1>3, <1>4 DEF Slot
  <1>5. CASE ~slot[s].made
    BY <1>5, <1>1 DEF Vacated
  <1> QED BY <1>4, <1>5

(* The end of a request that takes its series back.                        *)
LEMMA TakeBackStep ==
    ASSUME TypeOK, NEW w \in Workers, TakeBack(w)
    PROVE  /\ job' \in [Workers -> Job]
           /\ job'[w] = Idle \/ job'[w] = [job[w] EXCEPT !.at = "delete"]
           /\ \A v \in Workers \ {w} : job'[v] = job[v]
  <1>1. CASE Finish(w)
    BY <1>1, FinishStep
  <1>2. CASE Goto(w, "delete")
    BY <1>2, GotoStep
  <1> QED BY <1>1, <1>2 DEF TakeBack

(* A step that changes one job, and no booking, keeps what is known of the *)
(* jobs when the new job keeps it.                                         *)
LEMMA JobKeeps ==
    ASSUME Shape, NEW w \in Workers, UNCHANGED booking, spent \subseteq spent',
           job' \in [Workers -> Job], \A v \in Workers \ {w} : job'[v] = job[v],
           job'[w].made \subseteq job[w].made,
           job'[w].at \in {"look", "price", "insert", "release"} => job'[w].slot \in Slots,
           job'[w].at \in {"spend", "mark", "batch"} => job'[w].b \in Bookings,
           job'[w].at = "batch" => job'[w].seen \in {"pending", "confirmed"},
           job'[w].at = "mark" /\ job'[w].credits => job'[w].b \in spent'
    PROVE  JobsFit' /\ MadeIsMine' /\ BookingsFit'
  <1>1. JobsFit'
    BY DEF Shape, JobsFit
  <1>2. MadeIsMine'
    BY DEF Shape, MadeIsMine
  <1> QED BY <1>1, <1>2 DEF Shape, BookingsFit

(* A request that ends, or takes its series back, keeps them.              *)
LEMMA EndKeeps ==
    ASSUME Shape, NEW w \in Workers, UNCHANGED booking, spent \subseteq spent',
           Finish(w) \/ TakeBack(w)
    PROVE  JobsFit' /\ MadeIsMine' /\ BookingsFit' /\ job' \in [Workers -> Job]
  <1>1. /\ job' \in [Workers -> Job]
        /\ job'[w] = Idle \/ job'[w] = [job[w] EXCEPT !.at = "delete"]
        /\ \A v \in Workers \ {w} : job'[v] = job[v]
    BY FinishStep, TakeBackStep DEF Shape
  <1>2. job[w] \in Job
    BY DEF Shape, TypeOK
  <1>3. job'[w].at \in {"idle", "delete"} /\ job'[w].made \subseteq job[w].made
    BY <1>1, <1>2 DEF Idle, Job
  <1> QED BY <1>1, <1>3, JobKeeps

-----------------------------------------------------------------------------
(* The shape holds initially ... *)
LEMMA InitShape == Init => Shape
  <1> SUFFICES ASSUME Init PROVE Shape
    OBVIOUS
  <1>1. Idle \in Job /\ NoBooking \in Booking /\ MaxCapacity \in Nat /\ UsageLimit \in Nat
    BY BookingAssumption DEF Idle, Job, Statuses, NoBooking, Booking
  <1>2. TypeOK
    BY <1>1 DEF Init, TypeOK, Slot
  <1>3. JobsFit /\ MadeIsMine
    BY DEF Init, JobsFit, MadeIsMine, Idle
  <1>4. BookingsFit /\ UnmadeIsEmpty
    BY DEF Init, BookingsFit, UnmadeIsEmpty, NoBooking
  <1> QED BY <1>2, <1>3, <1>4 DEF Shape

(* ... and every step of a customer's or an operator's booking keeps it.   *)
LEMMA BookKeeps ==
    ASSUME Shape, NEW w \in Workers, NEW series \in SUBSET Slots, NEW coupon \in BOOLEAN,
           Book(w, series, coupon)
    PROVE  Shape'
  <1> DEFINE j == [Idle EXCEPT !.at = "reserve", !.todo = series, !.coupon = coupon]
  <1>1. j \in Job /\ j.at = "reserve" /\ j.made = {}
    BY DEF Idle, Job, Statuses
  <1>2. job' = [job EXCEPT ![w] = j] /\ UNCHANGED <<slot, booking, used, spent, strayed>>
    BY DEF Book
  <1> HIDE DEF j
  <1>3. /\ job' \in [Workers -> Job] /\ job'[w] = j
        /\ \A v \in Workers \ {w} : job'[v] = job[v]
    BY <1>1, <1>2, JobStep DEF Shape
  <1>4. JobsFit' /\ MadeIsMine' /\ BookingsFit'
    BY <1>1, <1>2, <1>3, JobKeeps
  <1>5. TypeOK' /\ UnmadeIsEmpty'
    BY <1>2, <1>3 DEF Shape, TypeOK, UnmadeIsEmpty
  <1> QED BY <1>4, <1>5 DEF Shape

(* The guarded update of a slot keeps the shape.                            *)
LEMMA ReserveKeeps ==
    ASSUME Shape, NEW w \in Workers, NEW s \in Slots, Reserve(w, s)
    PROVE  Shape'
  <1> DEFINE l == IF HasRoom(s) THEN Priced(w) ELSE "look"
             j == [job[w] EXCEPT !.slot = s, !.at = l]
  <1>0. job[w] \in Job /\ slot \in [Slots -> Slot] /\ MaxCapacity \in Nat
    BY BookingAssumption DEF Shape, TypeOK
  <1>1. l \in {"look", "price", "insert"}
    BY DEF Priced
  <1>2. job' = [job EXCEPT ![w] = j] /\ UNCHANGED <<booking, used, spent, strayed>>
    BY <1>0 DEF Reserve
  <1>3. slot' \in [Slots -> Slot] /\ UnmadeIsEmpty'
    <2>1. CASE HasRoom(s)
      <3>1. slot' = [slot EXCEPT ![s].count = @ + 1] /\ slot[s].made
            /\ slot[s].count < slot[s].cap /\ slot[s] \in Slot
        BY <2>1, <1>0 DEF Reserve, HasRoom
      <3>2. [slot[s] EXCEPT !.count = @ + 1] \in Slot
        BY <3>1, <1>0 DEF Slot
      <3>3. slot' = [slot EXCEPT ![s] = [slot[s] EXCEPT !.count = @ + 1]]
        BY <3>1
      <3>4. slot' \in [Slots -> Slot] /\ slot'[s].made
            /\ \A t \in Slots \ {s} : slot'[t] = slot[t]
        BY <3>1, <3>2, <3>3, <1>0 DEF Slot
      <3> QED BY <3>4 DEF Shape, UnmadeIsEmpty
    <2>2. CASE ~HasRoom(s)
      BY <2>2, <1>0 DEF Reserve, Shape, UnmadeIsEmpty
    <2> QED BY <2>1, <2>2
  <1> HIDE DEF l
  <1>4. j \in Job /\ j.at = l /\ j.made = job[w].made /\ j.slot = s
    BY <1>0, <1>1 DEF Job
  <1> HIDE DEF j
  <1>5. /\ job' \in [Workers -> Job] /\ job'[w] = j
        /\ \A v \in Workers \ {w} : job'[v] = job[v]
    BY <1>2, <1>4, JobStep DEF Shape
  <1>6. JobsFit' /\ MadeIsMine' /\ BookingsFit'
    BY <1>1, <1>2, <1>4, <1>5, JobKeeps
  <1>7. TypeOK'
    BY <1>2, <1>3, <1>5 DEF Shape, TypeOK
  <1> QED BY <1>3, <1>6, <1>7 DEF Shape

(* A request that only goes on from a place it holds.                      *)
LEMMA GoOnKeeps ==
    ASSUME Shape, NEW w \in Workers, NEW l \in {"price", "insert", "release"}, Goto(w, l),
           job[w].at \in {"look", "price", "insert", "release"},
           UNCHANGED <<slot, booking, used, spent, strayed>>
    PROVE  Shape'
  <1>1. job[w] \in Job /\ job[w].slot \in Slots
    BY DEF Shape, TypeOK, JobsFit
  <1>2. /\ job' \in [Workers -> Job] /\ job'[w] = [job[w] EXCEPT !.at = l]
        /\ \A v \in Workers \ {w} : job'[v] = job[v]
    BY GotoStep DEF Shape
  <1>3. job'[w].at = l /\ job'[w].slot \in Slots /\ job'[w].made = job[w].made
    BY <1>1, <1>2 DEF Job
  <1>4. JobsFit' /\ MadeIsMine' /\ BookingsFit'
    BY <1>2, <1>3, JobKeeps
  <1>5. TypeOK' /\ UnmadeIsEmpty'
    BY <1>2 DEF Shape, TypeOK, UnmadeIsEmpty
  <1> QED BY <1>4, <1>5 DEF Shape

(* A request that ends without a write of its own.                         *)
LEMMA LeaveKeeps ==
    ASSUME Shape, NEW w \in Workers, Finish(w) \/ TakeBack(w),
           UNCHANGED <<slot, booking, used, spent>>, strayed' \subseteq Strays
    PROVE  Shape'
  <1>1. JobsFit' /\ MadeIsMine' /\ BookingsFit' /\ job' \in [Workers -> Job]
    BY EndKeeps
  <1>2. TypeOK' /\ UnmadeIsEmpty'
    BY <1>1 DEF Shape, TypeOK, UnmadeIsEmpty
  <1> QED BY <1>1, <1>2 DEF Shape

(* The booking a request inserts.                                           *)
LEMMA WantedFits ==
    ASSUME NEW w \in Workers, job[w] \in Job
    PROVE  /\ Wanted(w) \in Booking /\ Wanted(w).st = "pending" /\ ~Wanted(w).credits
           /\ Wanted(w).slot = job[w].slot /\ Wanted(w).coupon = job[w].coupon
  BY DEF Wanted, NoBooking, Booking, Job, Statuses

(* So does the insert of a booking.                                         *)
LEMMA InsertKeeps ==
    ASSUME Shape, NEW w \in Workers, NEW b \in Bookings, Insert(w, b)
    PROVE  Shape'
  <1> DEFINE rest == job[w].todo \ {job[w].slot}
             new == Wanted(w)
             j == [job[w] EXCEPT !.at = "reserve", !.todo = rest,
                                 !.made = @ \cup {b}, !.slot = NONE]
  <1>0. /\ job[w] \in Job /\ job[w].slot \in Slots /\ booking[b].st = "none"
        /\ booking \in [Bookings -> Booking]
    BY DEF Shape, TypeOK, JobsFit, Insert, At
  <1>1. new \in Booking /\ new.st = "pending" /\ new.slot \in Slots
    BY <1>0, WantedFits
  <1>2. j \in Job /\ j.at = "reserve" /\ j.made = job[w].made \cup {b}
    BY <1>0 DEF Job
  <1>3. booking' = [booking EXCEPT ![b] = new] /\ UNCHANGED <<slot, used, spent, strayed>>
    BY DEF Insert
  <1>4. Finish(w) \/ job' = [job EXCEPT ![w] = j]
    BY <1>0 DEF Insert
  <1>5. Idle.made = {} /\ Idle.at = "idle"
    BY DEF Idle
  <1> HIDE DEF new, j
  <1>6. /\ job' \in [Workers -> Job] /\ (job'[w] = Idle \/ job'[w] = j)
        /\ \A v \in Workers \ {w} : job'[v] = job[v]
    BY <1>2, <1>4, FinishStep, JobStep DEF Shape
  <1>7. /\ job'[w].made \subseteq job[w].made \cup {b}
        /\ job'[w].at \in {"idle", "reserve"}
    BY <1>2, <1>5, <1>6
  <1>8. JobsFit'
    BY <1>3, <1>6, <1>7 DEF Shape, JobsFit
  <1>9. \A v \in Workers : b \notin job[v].made
    BY <1>0 DEF Shape, MadeIsMine
  <1>10. MadeIsMine'
    <2>1. booking'[b].st = "pending" /\ \A c \in Bookings \ {b} : booking'[c] = booking[c]
      BY <1>0, <1>1, <1>3
    <2>2. \A v \in Workers : job'[v].made \subseteq Bookings
      BY <1>6 DEF Job
    <2> QED BY <1>6, <1>7, <1>9, <2>1, <2>2 DEF Shape, MadeIsMine
  <1>11. BookingsFit' /\ UnmadeIsEmpty' /\ TypeOK'
    BY <1>0, <1>1, <1>3, <1>6 DEF Shape, BookingsFit, UnmadeIsEmpty, TypeOK
  <1> QED BY <1>8, <1>10, <1>11 DEF Shape

(* So does an insert that throws, whether it inserted the booking or not.   *)
LEMMA InsertFailsKeeps ==
    ASSUME Shape, NEW w \in Workers, InsertFails(w)
    PROVE  Shape'
  <1>0. /\ job[w] \in Job /\ job[w].slot \in Slots /\ job[w].at = "insert"
        /\ Goto(w, "release") /\ booking \in [Bookings -> Booking]
    BY DEF Shape, TypeOK, JobsFit, InsertFails, At
  <1>1. CASE UNCHANGED <<booking, strayed>>
    BY <1>0, <1>1, GoOnKeeps DEF InsertFails
  <1>2. ASSUME NEW b \in Bookings, booking[b].st = "none",
               booking' = [booking EXCEPT ![b] = Wanted(w)], Stray({"lostAnswer"}),
               UNCHANGED <<slot, used, spent>>
        PROVE  Shape'
    <2>1. /\ job' \in [Workers -> Job] /\ job'[w] = [job[w] EXCEPT !.at = "release"]
          /\ \A v \in Workers \ {w} : job'[v] = job[v]
      BY <1>0, GotoStep DEF Shape
    <2>2. /\ job'[w].at = "release" /\ job'[w].slot \in Slots
          /\ \A v \in Workers : job'[v].made = job[v].made
      BY <1>0, <2>1 DEF Job
    <2>3. /\ booking' \in [Bookings -> Booking] /\ booking'[b].st = "pending"
          /\ booking'[b].slot \in Slots /\ \A c \in Bookings \ {b} : booking'[c] = booking[c]
      BY <1>0, <1>2, WantedFits
    <2>4. JobsFit'
      BY <1>2, <2>1, <2>2 DEF Shape, JobsFit
    <2>5. MadeIsMine'
      <3>1. \A v \in Workers : job[v].made \subseteq Bookings
        BY DEF Shape, TypeOK, Job
      <3> QED BY <2>2, <2>3, <3>1 DEF Shape, MadeIsMine
    <2>6. BookingsFit' /\ UnmadeIsEmpty'
      BY <1>2, <2>3 DEF Shape, BookingsFit, UnmadeIsEmpty
    <2>7. TypeOK'
      BY <1>2, <2>1, <2>3 DEF Shape, TypeOK, Stray, Strays
    <2> QED BY <2>4, <2>5, <2>6, <2>7 DEF Shape
  <1> QED BY <1>1, <1>2 DEF InsertFails

(* So does a reservation that throws.                                       *)
LEMMA ReserveFailsKeeps ==
    ASSUME Shape, NEW w \in Workers, NEW s \in Slots, ReserveFails(w, s)
    PROVE  Shape'
  <1>1. JobsFit' /\ MadeIsMine' /\ BookingsFit' /\ job' \in [Workers -> Job]
    BY EndKeeps DEF ReserveFails
  <1>2. slot' \in [Slots -> Slot] /\ UnmadeIsEmpty'
    <2>1. CASE UNCHANGED slot
      BY <2>1 DEF Shape, TypeOK, UnmadeIsEmpty
    <2>2. CASE HasRoom(s) /\ slot' = [slot EXCEPT ![s].count = @ + 1]
      <3>1. slot[s] \in Slot /\ slot \in [Slots -> Slot] /\ MaxCapacity \in Nat
        BY BookingAssumption DEF Shape, TypeOK
      <3>2. /\ [slot[s] EXCEPT !.count = @ + 1] \in Slot
            /\ [slot[s] EXCEPT !.count = @ + 1].made
        BY <2>2, <3>1 DEF Slot, HasRoom
      <3>3. slot' = [slot EXCEPT ![s] = [slot[s] EXCEPT !.count = @ + 1]]
        BY <2>2
      <3>4. /\ slot' \in [Slots -> Slot] /\ slot'[s].made
            /\ \A t \in Slots \ {s} : slot'[t] = slot[t]
        BY <3>1, <3>2, <3>3
      <3> QED BY <3>4 DEF Shape, UnmadeIsEmpty
    <2> QED BY <2>1, <2>2 DEF ReserveFails
  <1>3. TypeOK'
    BY <1>1, <1>2 DEF Shape, TypeOK, ReserveFails, Stray, Strays
  <1> QED BY <1>1, <1>2, <1>3 DEF Shape

(* So does giving a place back.                                             *)
LEMMA ReleaseKeeps ==
    ASSUME Shape, NEW w \in Workers, Release(w)
    PROVE  Shape'
  <1>0. job[w].slot \in Slots /\ At(w, "release")
    BY DEF Shape, JobsFit, Release, At
  <1>1. TakeBack(w) /\ slot' = Vacated(job[w].slot) /\ UNCHANGED <<booking, used, spent, strayed>>
    BY DEF Release
  <1>2. JobsFit' /\ MadeIsMine' /\ BookingsFit' /\ job' \in [Workers -> Job]
    BY <1>1, EndKeeps
  <1>3. TypeOK' /\ UnmadeIsEmpty'
    BY <1>0, <1>1, <1>2, VacatedType DEF Shape, TypeOK, UnmadeIsEmpty
  <1> QED BY <1>2, <1>3 DEF Shape

(* So does taking a booking of a series back.                               *)
LEMMA DeleteKeeps ==
    ASSUME Shape, NEW w \in Workers, NEW b \in Bookings, Delete(w, b)
    PROVE  Shape'
  <1> DEFINE left == job[w].made \ {b}
             gone == [NoBooking EXCEPT !.st = "deleted"]
             j == [job[w] EXCEPT !.at = "release", !.made = left, !.slot = booking[b].slot]
             k == [job[w] EXCEPT !.made = left]
  <1>0. /\ job[w] \in Job /\ b \in job[w].made /\ booking \in [Bookings -> Booking]
        /\ booking[b].slot \in Slots /\ job[w].at = "delete"
    BY DEF Shape, TypeOK, MadeIsMine, BookingsFit, Delete, At
  <1>1. /\ j \in Job /\ j.at = "release" /\ j.made = left /\ j.slot = booking[b].slot
        /\ k \in Job /\ k.at = "delete" /\ k.made = left
    BY <1>0 DEF Job
  <1>2. gone \in Booking /\ gone.st = "deleted"
    BY DEF NoBooking, Booking, Statuses
  <1>3. CASE /\ booking' = [booking EXCEPT ![b] = gone]
             /\ job' = [job EXCEPT ![w] = j] \/ job' = [job EXCEPT ![w] = k] \/ Finish(w)
             /\ strayed' \subseteq Strays
             /\ UNCHANGED <<slot, used, spent>>
    <2>0. Idle.at = "idle" /\ Idle.made = {}
      BY DEF Idle
    <2> HIDE DEF j, k, gone
    <2>1. /\ job' \in [Workers -> Job] /\ job'[w] \in {j, k, Idle}
          /\ \A v \in Workers \ {w} : job'[v] = job[v]
      <3>1. CASE job' = [job EXCEPT ![w] = j]
        BY <1>1, <3>1, JobStep DEF Shape
      <3>2. CASE job' = [job EXCEPT ![w] = k]
        BY <1>1, <3>2, JobStep DEF Shape
      <3>3. CASE Finish(w)
        BY <3>3, FinishStep DEF Shape
      <3> QED BY <1>3, <3>1, <3>2, <3>3
    <2>2. /\ booking' \in [Bookings -> Booking] /\ booking'[b].st = "deleted"
          /\ \A c \in Bookings \ {b} : booking'[c] = booking[c]
      BY <1>0, <1>2, <1>3
    <2>3. JobsFit'
      BY <1>0, <1>1, <1>3, <2>0, <2>1 DEF Shape, JobsFit
    <2>4. \A v \in Workers : b \notin job'[v].made /\ job'[v].made \subseteq job[v].made
      <3>1. b \notin job'[w].made /\ job'[w].made \subseteq job[w].made
        BY <1>1, <2>0, <2>1
      <3> QED BY <1>0, <2>1, <3>1 DEF Shape, MadeIsMine
    <2>5. MadeIsMine'
      <3>1. \A v \in Workers : job[v].made \subseteq Bookings
        BY DEF Shape, TypeOK, Job
      <3> QED BY <2>2, <2>4, <3>1 DEF Shape, MadeIsMine
    <2>6. BookingsFit' /\ UnmadeIsEmpty'
      BY <1>3, <2>2 DEF Shape, BookingsFit, UnmadeIsEmpty
    <2>7. TypeOK'
      BY <1>3, <2>1, <2>2 DEF Shape, TypeOK
    <2> QED BY <2>3, <2>5, <2>6, <2>7 DEF Shape
  <1>4. CASE /\ Finish(w) \/ job' = [job EXCEPT ![w] = k]
             /\ UNCHANGED <<slot, booking, used, spent, strayed>>
    <2>1. CASE Finish(w)
      BY <1>4, <2>1, LeaveKeeps DEF Shape, TypeOK
    <2>2. CASE job' = [job EXCEPT ![w] = k]
      <3> HIDE DEF j, k, gone
      <3>1. /\ job' \in [Workers -> Job] /\ job'[w] = k
            /\ \A v \in Workers \ {w} : job'[v] = job[v]
        BY <1>1, <2>2, JobStep DEF Shape
      <3>2. JobsFit' /\ MadeIsMine' /\ BookingsFit'
        BY <1>1, <1>4, <3>1, JobKeeps
      <3>3. TypeOK' /\ UnmadeIsEmpty'
        BY <1>4, <3>1 DEF Shape, TypeOK, UnmadeIsEmpty
      <3> QED BY <3>2, <3>3 DEF Shape
    <2> QED BY <1>4, <2>1, <2>2
  <1>5. strayed \cup {"rollbackLate"} \subseteq Strays /\ strayed \cup {"lostAnswer"} \subseteq Strays
    BY DEF Shape, TypeOK, Strays
  <1>6. UNCHANGED <<slot, used, spent>>
    BY DEF Delete
  <1>7. \/ /\ booking' = [booking EXCEPT ![b] = gone] /\ job' = [job EXCEPT ![w] = j]
           /\ strayed' \in {strayed, strayed \cup {"rollbackLate"}}
        \/ /\ Finish(w) \/ job' = [job EXCEPT ![w] = k]
           /\ \/ UNCHANGED <<booking, strayed>>
              \/ /\ booking' = [booking EXCEPT ![b] = gone]
                 /\ strayed' = strayed \cup {"lostAnswer"}
    BY <1>0 DEF Delete, Stray
  <1> QED BY <1>3, <1>4, <1>5, <1>6, <1>7

(* A request about one booking begins, with what it read of it.            *)
LEMMA OpenKeeps ==
    ASSUME Shape, NEW w \in Workers, NEW b \in Bookings,
           Cancel(w, b) \/ \E credits \in BOOLEAN : Confirm(w, b, credits)
    PROVE  Shape'
  <1>0. booking[b].st \in {"pending", "confirmed"}
    BY DEF Cancel, Confirm
  <1>1. PICK j \in Job :
           /\ job' = [job EXCEPT ![w] = j] /\ j.b = b /\ j.made = {}
           /\ \/ j.at = "batch" /\ j.seen \in {"pending", "confirmed"}
              \/ j.at = "spend"
              \/ j.at = "mark" /\ j.credits = FALSE
    <2>1. CASE Cancel(w, b)
      <3> DEFINE j == [Idle EXCEPT !.at = "batch", !.b = b, !.seen = booking[b].st]
      <3>1. j \in Job /\ j.at = "batch" /\ j.b = b /\ j.made = {} /\ j.seen = booking[b].st
        BY <1>0 DEF Idle, Job, Statuses
      <3> QED BY <1>0, <2>1, <3>1 DEF Cancel
    <2>2. ASSUME NEW credits \in BOOLEAN, Confirm(w, b, credits)
          PROVE  \E j \in Job :
                   /\ job' = [job EXCEPT ![w] = j] /\ j.b = b /\ j.made = {}
                   /\ \/ j.at = "batch" /\ j.seen \in {"pending", "confirmed"}
                      \/ j.at = "spend"
                      \/ j.at = "mark" /\ j.credits = FALSE
      <3> DEFINE j == [Idle EXCEPT !.at = IF credits THEN "spend" ELSE "mark",
                                   !.b = b, !.credits = credits]
      <3>1. /\ j \in Job /\ j.b = b /\ j.made = {}
            /\ j.at = "spend" \/ (j.at = "mark" /\ j.credits = FALSE)
        BY DEF Idle, Job, Statuses
      <3> QED BY <2>2, <3>1 DEF Confirm
    <2> QED BY <2>1, <2>2
  <1>2. UNCHANGED <<slot, booking, used, spent, strayed>>
    BY DEF Cancel, Confirm
  <1>3. /\ job' \in [Workers -> Job] /\ job'[w] = j
        /\ \A v \in Workers \ {w} : job'[v] = job[v]
    BY <1>1, JobStep DEF Shape
  <1>4. JobsFit' /\ MadeIsMine' /\ BookingsFit'
    BY <1>1, <1>2, <1>3, JobKeeps
  <1>5. TypeOK' /\ UnmadeIsEmpty'
    BY <1>2, <1>3 DEF Shape, TypeOK, UnmadeIsEmpty
  <1> QED BY <1>4, <1>5 DEF Shape

(* So does the spend, which is remembered before the booking is marked.     *)
LEMMA SpendKeeps ==
    ASSUME Shape, NEW w \in Workers, Spend(w)
    PROVE  Shape'
  <1>0. job[w] \in Job /\ job[w].at = "spend" /\ job[w].b \in Bookings
    BY DEF Shape, TypeOK, JobsFit, Spend, At
  <1>1. /\ UNCHANGED <<slot, booking, used, strayed>>
        /\ spent \subseteq spent' /\ spent' \subseteq spent \cup {job[w].b}
        /\ Finish(w) \/ (Goto(w, "mark") /\ job[w].b \in spent')
    BY DEF Spend
  <1>2. TypeOK' \/ job' \notin [Workers -> Job]
    BY <1>0, <1>1 DEF Shape, TypeOK
  <1>3. UnmadeIsEmpty'
    BY <1>1 DEF Shape, UnmadeIsEmpty
  <1>4. CASE Finish(w)
    BY <1>1, <1>2, <1>3, <1>4, EndKeeps DEF Shape
  <1>5. CASE Goto(w, "mark") /\ job[w].b \in spent'
    <2>1. /\ job' \in [Workers -> Job] /\ job'[w] = [job[w] EXCEPT !.at = "mark"]
          /\ \A v \in Workers \ {w} : job'[v] = job[v]
      BY <1>5, GotoStep DEF Shape
    <2>2. job'[w].at = "mark" /\ job'[w].b = job[w].b /\ job'[w].made = job[w].made
      BY <1>0, <2>1 DEF Job
    <2> QED BY <1>0, <1>1, <1>2, <1>3, <1>5, <2>1, <2>2, JobKeeps DEF Shape
  <1> QED BY <1>1, <1>4, <1>5

(* A batch changes the status of one booking that is not deleted.          *)
LEMMA BatchKeeps ==
    ASSUME Shape, NEW w \in Workers, Mark(w) \/ Batch(w)
    PROVE  Shape'
  <1>0. job[w] \in Job /\ job[w].b \in Bookings /\ UsageLimit \in Nat
    BY BookingAssumption DEF Shape, TypeOK, JobsFit, Mark, Batch, At
  <1>1. Finish(w) /\ spent' = spent
    BY DEF Mark, Batch
  <1>2. /\ job' \in [Workers -> Job] /\ job'[w] = Idle
        /\ \A v \in Workers \ {w} : job'[v] = job[v]
    BY <1>1, FinishStep DEF Shape
  <1>3. \/ booking' = booking
        \/ /\ booking[job[w].b].st \notin {"none", "deleted"}
           /\ booking' \in [Bookings -> Booking]
           /\ booking'[job[w].b].st \notin {"none", "deleted"}
           /\ booking'[job[w].b].slot = booking[job[w].b].slot
           /\ \A c \in Bookings \ {job[w].b} : booking'[c] = booking[c]
    <2>0. booking \in [Bookings -> Booking]
      BY DEF Shape, TypeOK
    <2>1. CASE Mark(w)
      BY <1>0, <2>0, <2>1 DEF Mark, Booking, Statuses, Job
    <2>2. CASE Batch(w)
      <3>1. job[w].seen \in {"pending", "confirmed"}
        BY <2>2 DEF Shape, JobsFit, Batch, At
      <3> QED BY <1>0, <2>0, <2>2, <3>1 DEF Batch, Booking, Statuses
    <2> QED BY <2>1, <2>2
  <1>4. JobsFit' /\ MadeIsMine' /\ BookingsFit'
    <2>1. Idle.at = "idle" /\ Idle.made = {}
      BY DEF Idle
    <2>2. JobsFit'
      BY <1>1, <1>2, <2>1 DEF Shape, JobsFit
    <2>3. MadeIsMine'
      <3>1. \A v \in Workers : job[v].made \subseteq Bookings
        BY DEF Shape, TypeOK, Job
      <3> QED BY <1>2, <1>3, <2>1, <3>1 DEF Shape, MadeIsMine
    <2>4. BookingsFit'
      BY <1>0, <1>3 DEF Shape, BookingsFit
    <2> QED BY <2>2, <2>3, <2>4
  <1>5. slot' \in [Slots -> Slot] /\ UnmadeIsEmpty'
    <2>1. slot' = slot \/ (job[w].b \in Bookings /\ booking[job[w].b].slot \in Slots
                           /\ slot' = Vacated(booking[job[w].b].slot))
      <3>1. Batch(w) => job[w].seen \in {"pending", "confirmed"}
        BY DEF Shape, JobsFit, Batch, At
      <3> QED BY <1>0, <3>1 DEF Mark, Batch, Shape, BookingsFit
    <2>2. CASE slot' = slot
      BY <2>2 DEF Shape, TypeOK, UnmadeIsEmpty
    <2>3. CASE booking[job[w].b].slot \in Slots /\ slot' = Vacated(booking[job[w].b].slot)
      BY SMTT(30), <2>3, VacatedType DEF Shape, TypeOK, UnmadeIsEmpty
    <2> QED BY <2>1, <2>2, <2>3
  <1>6. used' \in 0 .. UsageLimit /\ strayed' \subseteq Strays
    <2>1. used \in 0 .. UsageLimit /\ strayed \subseteq Strays
      BY DEF Shape, TypeOK
    <2>2. \/ used' = used \/ used' = Less(used)
          \/ used < UsageLimit /\ used' = used + 1
      BY DEF Mark, Batch
    <2>3. strayed' \in {strayed, strayed \cup {"overLimit"}, strayed \cup {"sameTick"}}
      BY DEF Mark, Batch, Stray
    <2> QED BY <1>0, <2>1, <2>2, <2>3 DEF Less, Strays
  <1>7. TypeOK'
    BY <1>1, <1>2, <1>3, <1>5, <1>6 DEF Shape, TypeOK
  <1> QED BY <1>4, <1>5, <1>7 DEF Shape

(* So do the operator's steps.                                              *)
LEMMA OperatorKeeps ==
    ASSUME Shape,
           \/ \E b \in Bookings : Transition(b)
           \/ \E s \in Slots : BlockSlot(s) \/ \E n \in 1 .. MaxCapacity : CreateSlot(s, n)
    PROVE  Shape'
  <1>0. /\ booking \in [Bookings -> Booking] /\ slot \in [Slots -> Slot]
        /\ MaxCapacity \in Nat /\ strayed \subseteq Strays
    BY BookingAssumption DEF Shape, TypeOK
  <1>1. ASSUME NEW b \in Bookings, Transition(b) PROVE Shape'
    <2>1. /\ booking' \in [Bookings -> Booking]
          /\ booking[b].st = "confirmed" /\ booking'[b].st = "over"
          /\ booking'[b].slot = booking[b].slot
          /\ \A c \in Bookings \ {b} : booking'[c] = booking[c]
          /\ UNCHANGED <<slot, used, spent, job, strayed>>
      BY <1>0, <1>1 DEF Transition, Booking, Statuses
    <2>2. \A v \in Workers : job[v].made \subseteq Bookings
      BY DEF Shape, TypeOK, Job
    <2>3. MadeIsMine'
      BY <2>1, <2>2 DEF Shape, MadeIsMine
    <2> QED BY <2>1, <2>3 DEF Shape, TypeOK, JobsFit, BookingsFit, UnmadeIsEmpty
  <1>2. ASSUME NEW s \in Slots, NEW n \in 0 .. MaxCapacity,
               slot' = [slot EXCEPT ![s].made = TRUE, ![s].cap = n],
               Stray(LateSlot(s)), UNCHANGED <<booking, used, spent, job>>
        PROVE  Shape'
    <2>1. slot' = [slot EXCEPT ![s] = [slot[s] EXCEPT !.made = TRUE, !.cap = n]]
      BY <1>0, <1>2
    <2>2. [slot[s] EXCEPT !.made = TRUE, !.cap = n] \in Slot
      BY <1>0 DEF Slot
    <2>3. slot' \in [Slots -> Slot]
      BY <1>0, <2>1, <2>2
    <2>4. slot'[s].made /\ \A t \in Slots \ {s} : slot'[t] = slot[t]
      BY <1>0, <2>1 DEF Slot
    <2>5. strayed' \subseteq Strays
      BY <1>0, <1>2 DEF Stray, LateSlot, Strays
    <2>6. TypeOK' /\ UnmadeIsEmpty'
      BY <1>2, <2>3, <2>4, <2>5 DEF Shape, TypeOK, UnmadeIsEmpty
    <2>7. JobsFit' /\ MadeIsMine' /\ BookingsFit'
      BY <1>2 DEF Shape, JobsFit, MadeIsMine, BookingsFit
    <2> QED BY <2>6, <2>7 DEF Shape
  <1>3. ASSUME NEW s \in Slots, BlockSlot(s) PROVE Shape'
    <2>1. 0 \in 0 .. MaxCapacity
      BY <1>0
    <2>2. /\ slot' = [slot EXCEPT ![s].made = TRUE, ![s].cap = 0]
          /\ Stray(LateSlot(s)) /\ UNCHANGED <<booking, used, spent, job>>
      BY <1>3 DEF BlockSlot
    <2> QED BY ONLY <1>2, <2>1, <2>2
  <1>4. ASSUME NEW s \in Slots, NEW n \in 1 .. MaxCapacity, CreateSlot(s, n) PROVE Shape'
    <2>1. n \in 0 .. MaxCapacity
      BY <1>0
    <2>2. /\ slot' = [slot EXCEPT ![s].made = TRUE, ![s].cap = n]
          /\ Stray(LateSlot(s)) /\ UNCHANGED <<booking, used, spent, job>>
      BY <1>4 DEF CreateSlot
    <2> QED BY ONLY <1>2, <2>1, <2>2
  <1> QED BY <1>1, <1>3, <1>4

(* ... so that every step does.                                            *)
LEMMA NextShape == Shape /\ [Next]_vars => Shape'
  <1> SUFFICES ASSUME Shape, [Next]_vars PROVE Shape'
    OBVIOUS
  <1>1. ASSUME UNCHANGED vars PROVE Shape'
    BY <1>1 DEF vars, Shape, TypeOK, JobsFit, MadeIsMine, BookingsFit, UnmadeIsEmpty
  <1>2. strayed \subseteq Strays
    BY DEF Shape, TypeOK
  <1>3. ASSUME NEW w \in Workers, Look(w) PROVE Shape'
    <2>1. CASE TakeBack(w)
      BY <1>2, <1>3, <2>1, LeaveKeeps DEF Look
    <2>2. CASE Goto(w, Priced(w))
      BY <1>3, <2>2, GoOnKeeps DEF Look, At, Priced
    <2> QED BY <1>3, <2>1, <2>2 DEF Look
  <1>4. ASSUME NEW w \in Workers, Price(w) PROVE Shape'
    <2>1. PICK l \in {"insert", "release"} : Goto(w, l)
      BY <1>4 DEF Price
    <2> QED BY <1>4, <2>1, GoOnKeeps DEF Price, At
  <1>5. ASSUME NEW w \in Workers, ReleaseFails(w) \/ Stop(w) PROVE Shape'
    <2>1. strayed' \subseteq Strays
      BY <1>2, <1>5 DEF ReleaseFails, Stop, Stray, Strays
    <2> QED BY <1>5, <2>1, LeaveKeeps DEF ReleaseFails, Stop
  <1> QED BY <1>1, <1>3, <1>4, <1>5, BookKeeps, ReserveKeeps, ReserveFailsKeeps, InsertKeeps,
             InsertFailsKeeps, ReleaseKeeps, DeleteKeeps, OpenKeeps, SpendKeeps, BatchKeeps, OperatorKeeps DEF Next

(* The types are kept, disorders included.                                  *)
THEOREM TypeCorrect == Spec => []TypeOK
  <1>1. Init => Shape
    BY InitShape
  <1>2. Shape /\ [Next]_vars => Shape'
    BY NextShape
  <1>3. Shape => TypeOK
    BY DEF Shape
  <1> QED BY <1>1, <1>2, <1>3, PTL DEF Spec

-----------------------------------------------------------------------------
(* A booking that is marked paid with credits was spent for before: by the *)
(* request that marks it, and no step takes a spend back.                  *)
LEMMA CreditsKept == Shape /\ CreditsWereSpent /\ [Next]_vars => CreditsWereSpent'
  <1> SUFFICES ASSUME Shape, CreditsWereSpent, [Next]_vars PROVE CreditsWereSpent'
    OBVIOUS
  <1>0. booking \in [Bookings -> Booking] /\ NoBooking.credits = FALSE
    BY DEF Shape, TypeOK, NoBooking
  <1>1. CASE UNCHANGED booking /\ spent \subseteq spent'
    BY <1>1 DEF CreditsWereSpent
  <1>2. ASSUME NEW b \in Bookings, NEW new, new.credits = FALSE,
               booking' = [booking EXCEPT ![b] = new], spent' = spent
        PROVE  CreditsWereSpent'
    BY <1>0, <1>2 DEF CreditsWereSpent
  <1>3. ASSUME NEW w \in Workers, NEW b \in Bookings, Insert(w, b) PROVE CreditsWereSpent'
    <2>1. Wanted(w).credits = FALSE
      BY DEF Wanted, NoBooking
    <2> QED BY <1>2, <1>3, <2>1 DEF Insert
  <1>4. ASSUME NEW w \in Workers, NEW b \in Bookings, Delete(w, b) PROVE CreditsWereSpent'
    <2>1. [NoBooking EXCEPT !.st = "deleted"].credits = FALSE
      BY DEF NoBooking
    <2> QED BY <1>1, <1>2, <1>4, <2>1 DEF Delete
  <1>5. ASSUME NEW w \in Workers, Mark(w) PROVE CreditsWereSpent'
    <2>1. job[w].b \in Bookings /\ (job[w].credits => job[w].b \in spent)
      BY <1>5 DEF Shape, JobsFit, Mark, At
    <2>2. spent' = spent /\ \A c \in Bookings \ {job[w].b} : booking'[c] = booking[c]
      BY <1>0, <1>5 DEF Mark
    <2>3. booking'[job[w].b].credits \in {booking[job[w].b].credits, job[w].credits}
      BY <1>0, <1>5, <2>1 DEF Mark, Booking
    <2> QED BY <2>1, <2>2, <2>3 DEF CreditsWereSpent
  <1>6. ASSUME NEW w \in Workers, Batch(w) PROVE CreditsWereSpent'
    <2>1. job[w].b \in Bookings
      BY <1>6 DEF Shape, JobsFit, Batch, At
    <2>2. spent' = spent /\ \A c \in Bookings : booking'[c].credits = booking[c].credits
      BY <1>0, <1>6, <2>1 DEF Batch, Booking
    <2> QED BY <2>2 DEF CreditsWereSpent
  <1>7. ASSUME NEW b \in Bookings, Transition(b) PROVE CreditsWereSpent'
    <2>1. spent' = spent /\ \A c \in Bookings : booking'[c].credits = booking[c].credits
      BY <1>0, <1>7 DEF Transition, Booking
    <2> QED BY <2>1 DEF CreditsWereSpent
  <1>8. ASSUME NEW w \in Workers,
               \/ Look(w) \/ Price(w) \/ Release(w) \/ ReleaseFails(w)
               \/ Spend(w) \/ Stop(w)
               \/ \E s \in Slots : Reserve(w, s) \/ ReserveFails(w, s)
        PROVE  CreditsWereSpent'
    BY <1>1, <1>8 DEF Look, Price, Release, ReleaseFails, Spend, Stop, Reserve, ReserveFails
  <1>9. ASSUME NEW w \in Workers,
               \/ \E series \in SUBSET Slots, coupon \in BOOLEAN : Book(w, series, coupon)
               \/ \E b \in Bookings :
                    Cancel(w, b) \/ \E credits \in BOOLEAN : Confirm(w, b, credits)
        PROVE  CreditsWereSpent'
    BY <1>1, <1>9 DEF Book, Cancel, Confirm
  <1>10. ASSUME NEW s \in Slots, BlockSlot(s) \/ \E n \in 1 .. MaxCapacity : CreateSlot(s, n)
         PROVE  CreditsWereSpent'
    BY <1>1, <1>10 DEF BlockSlot, CreateSlot
  <1>11. ASSUME UNCHANGED vars PROVE CreditsWereSpent'
    BY <1>1, <1>11 DEF vars
  <1>12. ASSUME NEW w \in Workers, InsertFails(w) PROVE CreditsWereSpent'
    <2>1. Wanted(w).credits = FALSE
      BY DEF Wanted, NoBooking
    <2> QED BY <1>1, <1>2, <1>12, <2>1 DEF InsertFails
  <1> QED BY <1>3, <1>4, <1>5, <1>6, <1>7, <1>8, <1>9, <1>10, <1>11, <1>12 DEF Next

(* A booking that stands as paid with credits has its spend.               *)
THEOREM CreditsAreSpent == Spec => []CreditsWereSpent
  <1>1. Init => Shape /\ CreditsWereSpent
    BY InitShape DEF Init, CreditsWereSpent, NoBooking
  <1>2. Shape /\ CreditsWereSpent /\ [Next]_vars => (Shape /\ CreditsWereSpent)'
    BY NextShape, CreditsKept
  <1> QED BY <1>1, <1>2, PTL DEF Spec

-----------------------------------------------------------------------------
(* The places of a slot: what its count stands for.                        *)
Taken(s) == Cardinality(Placed(s)) + Cardinality(Holds(s))
Holding == {"price", "insert", "release"}
Placing == {"pending", "confirmed", "over"}

(* A new element counts one more.                                           *)
LEMMA AddOne ==
    ASSUME NEW S, IsFiniteSet(S), NEW x, x \notin S
    PROVE  Cardinality(S \cup {x}) = Cardinality(S) + 1
  BY FS_AddElement

(* An element less counts one less.                                         *)
LEMMA DropOne ==
    ASSUME NEW S, IsFiniteSet(S), NEW x \in S
    PROVE  Cardinality(S \ {x}) = Cardinality(S) - 1
  BY FS_RemoveElement

(* The places of a slot can be counted.                                     *)
LEMMA PlacesFinite ==
    ASSUME NEW s
    PROVE  /\ IsFiniteSet(Placed(s)) /\ Cardinality(Placed(s)) \in Nat
           /\ IsFiniteSet(Holds(s)) /\ Cardinality(Holds(s)) \in Nat
  <1>1. IsFiniteSet(Placed(s))
    BY BookingAssumption, FS_Subset DEF Placed
  <1>2. IsFiniteSet(Holds(s))
    BY BookingAssumption, FS_Subset DEF Holds
  <1> QED BY <1>1, <1>2, FS_CardinalityType

(* One request's job changes: it goes on holding its place, takes one, or  *)
(* leaves the one it held.                                                 *)
LEMMA HoldsStep ==
    ASSUME NEW w \in Workers, \A v \in Workers \ {w} : job'[v] = job[v],
           NEW s \in Slots
    PROVE  /\ (job'[w].at \in Holding <=> job[w].at \in Holding)
              /\ (job[w].at \in Holding => job'[w].slot = job[w].slot)
                => Holds(s)' = Holds(s)
           /\ job[w].at \notin Holding /\ job'[w].at \in Holding
                => /\ w \notin Holds(s)
                   /\ Holds(s)' = IF s = job'[w].slot THEN Holds(s) \cup {w} ELSE Holds(s)
           /\ job[w].at \in Holding /\ job'[w].at \notin Holding
                => /\ (w \in Holds(s) <=> s = job[w].slot)
                   /\ Holds(s)' = IF s = job[w].slot THEN Holds(s) \ {w} ELSE Holds(s)
  BY DEF Holds, Holding

(* One booking changes, likewise.                                          *)
LEMMA PlacedStep ==
    ASSUME NEW b \in Bookings, \A c \in Bookings \ {b} : booking'[c] = booking[c],
           NEW s \in Slots
    PROVE  /\ (booking'[b].st \in Placing <=> booking[b].st \in Placing)
              /\ (booking[b].st \in Placing => booking'[b].slot = booking[b].slot)
                => Placed(s)' = Placed(s)
           /\ booking[b].st \notin Placing /\ booking'[b].st \in Placing
                => /\ b \notin Placed(s)
                   /\ Placed(s)' = IF s = booking'[b].slot THEN Placed(s) \cup {b} ELSE Placed(s)
           /\ booking[b].st \in Placing /\ booking'[b].st \notin Placing
                => /\ (b \in Placed(s) <=> s = booking[b].slot)
                   /\ Placed(s)' = IF s = booking[b].slot THEN Placed(s) \ {b} ELSE Placed(s)
  BY DEF Placed, Placing

(* Bookings that do not change hold the places they held.                   *)
LEMMA PlacedSame ==
    ASSUME UNCHANGED booking, NEW s PROVE Placed(s)' = Placed(s)
  BY DEF Placed

(* So do requests that do not change.                                       *)
LEMMA HoldsSame ==
    ASSUME UNCHANGED job, NEW s PROVE Holds(s)' = Holds(s)
  BY DEF Holds

(* A place more or less, and the count with it.                            *)
LEMMA Same ==
    ASSUME NEW s \in Slots, Placed(s)' = Placed(s), Holds(s)' = Holds(s)
    PROVE  Taken(s)' = Taken(s)
  BY DEF Taken

(* One place more or less on each side changes the sum accordingly.         *)
LEMMA Moved ==
    ASSUME NEW s \in Slots,
           \/ \E b : b \notin Placed(s) /\ Placed(s)' = Placed(s) \cup {b}
           \/ Placed(s)' = Placed(s)
           \/ \E b \in Placed(s) : Placed(s)' = Placed(s) \ {b},
           \/ \E w : w \notin Holds(s) /\ Holds(s)' = Holds(s) \cup {w}
           \/ Holds(s)' = Holds(s)
           \/ \E w \in Holds(s) : Holds(s)' = Holds(s) \ {w}
    PROVE  /\ Taken(s) \in Nat
           /\ Taken(s)' = Taken(s)
                + (IF Placed(s)' = Placed(s) THEN 0
                   ELSE IF Placed(s) \subseteq Placed(s)' THEN 1 ELSE 0 - 1)
                + (IF Holds(s)' = Holds(s) THEN 0
                   ELSE IF Holds(s) \subseteq Holds(s)' THEN 1 ELSE 0 - 1)
  <1>0. /\ IsFiniteSet(Placed(s)) /\ Cardinality(Placed(s)) \in Nat
        /\ IsFiniteSet(Holds(s)) /\ Cardinality(Holds(s)) \in Nat
    BY PlacesFinite
  <1>1. Cardinality(Placed(s)') = Cardinality(Placed(s))
                + (IF Placed(s)' = Placed(s) THEN 0
                   ELSE IF Placed(s) \subseteq Placed(s)' THEN 1 ELSE 0 - 1)
    <2>1. ASSUME NEW b, b \notin Placed(s), Placed(s)' = Placed(s) \cup {b}
          PROVE  Cardinality(Placed(s)') = Cardinality(Placed(s)) + 1
                 /\ Placed(s)' # Placed(s) /\ Placed(s) \subseteq Placed(s)'
      <3>1. Cardinality(Placed(s) \cup {b}) = Cardinality(Placed(s)) + 1
        BY <1>0, <2>1, AddOne
      <3> QED BY <2>1, <3>1
    <2>2. ASSUME NEW b \in Placed(s), Placed(s)' = Placed(s) \ {b}
          PROVE  Cardinality(Placed(s)') = Cardinality(Placed(s)) - 1
                 /\ Placed(s)' # Placed(s) /\ ~(Placed(s) \subseteq Placed(s)')
      <3>1. Cardinality(Placed(s) \ {b}) = Cardinality(Placed(s)) - 1
        BY <1>0, DropOne
      <3> QED BY <2>2, <3>1
    <2> QED BY <1>0, <2>1, <2>2
  <1>2. Cardinality(Holds(s)') = Cardinality(Holds(s))
                + (IF Holds(s)' = Holds(s) THEN 0
                   ELSE IF Holds(s) \subseteq Holds(s)' THEN 1 ELSE 0 - 1)
    <2>1. ASSUME NEW w, w \notin Holds(s), Holds(s)' = Holds(s) \cup {w}
          PROVE  Cardinality(Holds(s)') = Cardinality(Holds(s)) + 1
                 /\ Holds(s)' # Holds(s) /\ Holds(s) \subseteq Holds(s)'
      <3>1. Cardinality(Holds(s) \cup {w}) = Cardinality(Holds(s)) + 1
        BY <1>0, <2>1, AddOne
      <3> QED BY <2>1, <3>1
    <2>2. ASSUME NEW w \in Holds(s), Holds(s)' = Holds(s) \ {w}
          PROVE  Cardinality(Holds(s)') = Cardinality(Holds(s)) - 1
                 /\ Holds(s)' # Holds(s) /\ ~(Holds(s) \subseteq Holds(s)')
      <3>1. Cardinality(Holds(s) \ {w}) = Cardinality(Holds(s)) - 1
        BY <1>0, DropOne
      <3> QED BY <2>2, <3>1
    <2> QED BY <1>0, <2>1, <2>2
  <1> QED BY <1>0, <1>1, <1>2 DEF Taken

(* The count follows the places through every step that is no disorder.    *)
Count == \A s \in Slots : slot[s].made => slot[s].count = Taken(s)

(* A disorder is never forgotten.                                           *)
LEMMA StrayStays == [Next]_vars /\ Orderly' => Orderly
  <1> SUFFICES ASSUME [Next]_vars PROVE strayed \subseteq strayed'
    BY DEF Orderly
  <1>1. CASE UNCHANGED vars
    BY <1>1 DEF vars
  <1>2. ASSUME NEW w \in Workers,
               \/ Look(w) \/ Price(w) \/ InsertFails(w) \/ Release(w) \/ ReleaseFails(w)
               \/ Spend(w) \/ Mark(w) \/ Batch(w) \/ Stop(w)
        PROVE  strayed \subseteq strayed'
    BY <1>2 DEF Look, Price, InsertFails, Release, ReleaseFails, Spend, Mark, Batch,
       Stop, Stray
  <1>3. ASSUME NEW w \in Workers,
               \/ \E series \in SUBSET Slots, coupon \in BOOLEAN : Book(w, series, coupon)
               \/ \E s \in Slots : Reserve(w, s) \/ ReserveFails(w, s)
               \/ \E b \in Bookings :
                    \/ Insert(w, b) \/ Delete(w, b) \/ Cancel(w, b)
                    \/ \E credits \in BOOLEAN : Confirm(w, b, credits)
        PROVE  strayed \subseteq strayed'
    BY <1>3 DEF Book, Reserve, ReserveFails, Insert, Delete, Cancel, Confirm, Stray
  <1>4. ASSUME \/ \E b \in Bookings : Transition(b)
               \/ \E s \in Slots : BlockSlot(s) \/ \E n \in 1 .. MaxCapacity : CreateSlot(s, n)
        PROVE  strayed \subseteq strayed'
    BY <1>4 DEF Transition, BlockSlot, CreateSlot, Stray
  <1> QED BY <1>1, <1>2, <1>3, <1>4 DEF Next

(* Steps that neither count nor take nor leave a place.                    *)
LEMMA QuietCounts ==
    ASSUME Shape, Count, UNCHANGED slot,
           \A s \in Slots : slot[s].made => Placed(s)' = Placed(s) /\ Holds(s)' = Holds(s)
    PROVE  Count'
  BY Same DEF Count

(* A request that goes on holding its place, or goes on without one.        *)
LEMMA JobCounts ==
    ASSUME Shape, Count, NEW w \in Workers, UNCHANGED <<slot, booking>>,
           \A v \in Workers \ {w} : job'[v] = job[v],
           job'[w].at \in Holding <=> job[w].at \in Holding,
           job[w].at \in Holding => job'[w].slot = job[w].slot
    PROVE  Count'
  <1>1. \A s \in Slots : Placed(s)' = Placed(s) /\ Holds(s)' = Holds(s)
    BY PlacedSame, HoldsStep
  <1> QED BY <1>1, QuietCounts

(* A request that begins holds no place.                                    *)
LEMMA BookCounts ==
    ASSUME Shape, Count, NEW w \in Workers,
           \/ \E series \in SUBSET Slots, coupon \in BOOLEAN : Book(w, series, coupon)
           \/ \E b \in Bookings : Cancel(w, b) \/ \E credits \in BOOLEAN : Confirm(w, b, credits)
    PROVE  Count'
  <1>1. PICK j \in Job : job' = [job EXCEPT ![w] = j] /\ j.at \notin Holding
    <2>1. ASSUME NEW series \in SUBSET Slots, NEW coupon \in BOOLEAN, Book(w, series, coupon)
          PROVE  \E j \in Job : job' = [job EXCEPT ![w] = j] /\ j.at \notin Holding
      <3>1. LET j == [Idle EXCEPT !.at = "reserve", !.todo = series, !.coupon = coupon]
            IN  j \in Job /\ j.at \notin Holding
        BY DEF Idle, Job, Statuses, Holding
      <3> QED BY <2>1, <3>1 DEF Book
    <2>2. ASSUME NEW b \in Bookings, Cancel(w, b)
          PROVE  \E j \in Job : job' = [job EXCEPT ![w] = j] /\ j.at \notin Holding
      <3>1. LET j == [Idle EXCEPT !.at = "batch", !.b = b, !.seen = booking[b].st]
            IN  j \in Job /\ j.at \notin Holding
        BY <2>2 DEF Idle, Job, Statuses, Holding, Cancel
      <3> QED BY <2>2, <3>1 DEF Cancel
    <2>3. ASSUME NEW b \in Bookings, NEW credits \in BOOLEAN, Confirm(w, b, credits)
          PROVE  \E j \in Job : job' = [job EXCEPT ![w] = j] /\ j.at \notin Holding
      <3>1. LET j == [Idle EXCEPT !.at = IF credits THEN "spend" ELSE "mark",
                                  !.b = b, !.credits = credits]
            IN  j \in Job /\ j.at \notin Holding
        BY DEF Idle, Job, Statuses, Holding
      <3> QED BY <2>3, <3>1 DEF Confirm
    <2> QED BY <2>1, <2>2, <2>3
  <1>2. job'[w].at \notin Holding /\ \A v \in Workers \ {w} : job'[v] = job[v]
    BY <1>1, JobStep DEF Shape
  <1>3. job[w].at \notin Holding /\ UNCHANGED <<slot, booking>>
    BY DEF Book, Cancel, Confirm, At, Holding
  <1> QED BY <1>2, <1>3, JobCounts

(* A request that ends holds no place any more.                            *)
LEMMA EndStep ==
    ASSUME Shape, NEW w \in Workers, Finish(w) \/ TakeBack(w)
    PROVE  job'[w].at \notin Holding /\ \A v \in Workers \ {w} : job'[v] = job[v]
  <1>1. job[w] \in Job
    BY DEF Shape, TypeOK
  <1>2. /\ job'[w] = Idle \/ job'[w] = [job[w] EXCEPT !.at = "delete"]
        /\ \A v \in Workers \ {w} : job'[v] = job[v]
    BY FinishStep, TakeBackStep DEF Shape
  <1> QED BY <1>1, <1>2 DEF Idle, Job, Holding

(* A request that finds no row holds a place that nothing counts.           *)
LEMMA LookCounts ==
    ASSUME Shape, Count, NEW w \in Workers, Look(w)
    PROVE  Count'
  <1>1. job[w].at = "look" /\ job[w].slot \in Slots /\ job[w] \in Job
    BY DEF Shape, TypeOK, JobsFit, Look, At
  <1>2. UNCHANGED <<slot, booking>>
    BY DEF Look
  <1>3. CASE TakeBack(w)
    BY <1>1, <1>2, <1>3, EndStep, JobCounts DEF Holding
  <1>4. CASE ~slot[job[w].slot].made /\ Goto(w, Priced(w))
    <2>1. /\ job'[w] = [job[w] EXCEPT !.at = Priced(w)]
          /\ \A v \in Workers \ {w} : job'[v] = job[v]
      BY <1>4, GotoStep DEF Shape, Priced
    <2>2. job'[w].slot = job[w].slot /\ job'[w].at \in Holding /\ job[w].at \notin Holding
      BY <1>1, <2>1 DEF Job, Priced, Holding
    <2>3. \A s \in Slots : slot[s].made => Placed(s)' = Placed(s) /\ Holds(s)' = Holds(s)
      BY ZenonT(60), <1>2, <1>4, <2>1, <2>2, HoldsStep, PlacedSame
    <2> QED BY <1>2, <2>3, QuietCounts
  <1> QED BY <1>3, <1>4 DEF Look

(* Steps inside a request that keep its place, or have none.                *)
LEMMA StayCounts ==
    ASSUME Shape, Count, NEW w \in Workers, Orderly',
           Price(w) \/ InsertFails(w) \/ ReleaseFails(w) \/ Spend(w) \/ Stop(w)
    PROVE  Count'
  <1>0. job[w] \in Job /\ UNCHANGED <<slot, booking>>
    BY DEF Shape, TypeOK, Price, InsertFails, ReleaseFails, Spend, Stop, Stray, Orderly
  <1>1. CASE Price(w) \/ InsertFails(w)
    <2>1. PICK l \in {"insert", "release"} : Goto(w, l)
      BY <1>1 DEF Price, InsertFails
    <2>2. /\ job'[w] = [job[w] EXCEPT !.at = l]
          /\ \A v \in Workers \ {w} : job'[v] = job[v]
      BY <2>1, GotoStep DEF Shape
    <2>3. job'[w].at \in Holding /\ job[w].at \in Holding /\ job'[w].slot = job[w].slot
      BY <1>0, <1>1, <2>2 DEF Job, Holding, Price, InsertFails, At
    <2> QED BY <1>0, <2>2, <2>3, JobCounts
  <1>2. ReleaseFails(w) => FALSE
    BY DEF ReleaseFails, Stray, Orderly
  <1>3. CASE Spend(w)
    <2>1. job[w].at \notin Holding
      BY <1>3 DEF Spend, At, Holding
    <2>2. job'[w].at \notin Holding /\ \A v \in Workers \ {w} : job'[v] = job[v]
      <3>1. CASE Finish(w)
        BY <3>1, EndStep
      <3>2. CASE Goto(w, "mark")
        <4>1. /\ job'[w] = [job[w] EXCEPT !.at = "mark"]
              /\ \A v \in Workers \ {w} : job'[v] = job[v]
          BY <3>2, GotoStep DEF Shape
        <4> QED BY <1>0, <4>1 DEF Job, Holding
      <3> QED BY <1>3, <3>1, <3>2 DEF Spend
    <2> QED BY <1>0, <2>1, <2>2, JobCounts
  <1>4. CASE Stop(w)
    <2>1. job[w].at \notin Holding
      BY <1>4 DEF Stop, Stray, Orderly, Holding
    <2>2. job'[w].at \notin Holding /\ \A v \in Workers \ {w} : job'[v] = job[v]
      BY <1>4, EndStep DEF Stop
    <2> QED BY <1>0, <2>1, <2>2, JobCounts
  <1> QED BY <1>1, <1>2, <1>3, <1>4

(* The guarded update counts the place it takes.                            *)
LEMMA ReserveCounts ==
    ASSUME Shape, Count, NEW w \in Workers, NEW s \in Slots, Reserve(w, s)
    PROVE  Count'
  <1>0. /\ job[w] \in Job /\ job[w].at = "reserve" /\ UNCHANGED booking
        /\ slot \in [Slots -> Slot]
    BY DEF Shape, TypeOK, Reserve, At
  <1>1. CASE HasRoom(s)
    <2>1. /\ job' = [job EXCEPT ![w] = [job[w] EXCEPT !.slot = s, !.at = Priced(w)]]
          /\ slot' = [slot EXCEPT ![s].count = @ + 1]
      BY <1>0, <1>1 DEF Reserve
    <2>2. [job[w] EXCEPT !.slot = s, !.at = Priced(w)] \in Job
      BY <1>0 DEF Job, Priced
    <2>3. /\ job'[w] = [job[w] EXCEPT !.slot = s, !.at = Priced(w)]
          /\ \A v \in Workers \ {w} : job'[v] = job[v]
      BY <2>1, <2>2, JobStep DEF Shape
    <2>4. job'[w].slot = s /\ job'[w].at \in Holding /\ job[w].at \notin Holding
      BY <1>0, <2>3 DEF Job, Priced, Holding
    <2>5. /\ w \notin Holds(s) /\ Holds(s)' = Holds(s) \cup {w}
          /\ \A t \in Slots \ {s} : Holds(t)' = Holds(t)
      BY <2>3, <2>4, HoldsStep
    <2>6. \A t \in Slots : Placed(t)' = Placed(t)
      BY <1>0, PlacedSame
    <2>7. Taken(s)' = Taken(s) + 1 /\ Taken(s) \in Nat
      BY <2>5, <2>6, Moved
    <2>8. \A t \in Slots \ {s} : Taken(t)' = Taken(t)
      BY <2>5, <2>6, Same
    <2>9. /\ slot[s].made /\ slot'[s].count = slot[s].count + 1
          /\ \A t \in Slots \ {s} : slot'[t] = slot[t]
      BY <1>0, <1>1, <2>1 DEF HasRoom, Slot
    <2> QED BY <2>7, <2>8, <2>9 DEF Count
  <1>2. CASE ~HasRoom(s)
    <2>1. /\ job' = [job EXCEPT ![w] = [job[w] EXCEPT !.slot = s, !.at = "look"]]
          /\ slot' = slot
      BY <1>0, <1>2 DEF Reserve
    <2>2. [job[w] EXCEPT !.slot = s, !.at = "look"] \in Job
      BY <1>0 DEF Job
    <2>3. /\ job'[w].at = "look" /\ \A v \in Workers \ {w} : job'[v] = job[v]
      BY <1>0, <2>1, <2>2, JobStep DEF Shape, Job
    <2> QED BY <1>0, <2>1, <2>3, JobCounts DEF Holding
  <1> QED BY <1>1, <1>2

(* A reservation that throws takes no place, or its answer was lost.        *)
LEMMA ReserveFailsCounts ==
    ASSUME Shape, Count, Orderly', NEW w \in Workers, NEW s \in Slots, ReserveFails(w, s)
    PROVE  Count'
  <1>1. job[w].at \notin Holding /\ UNCHANGED <<slot, booking>> /\ TakeBack(w)
    BY DEF ReserveFails, At, Holding, Stray, Orderly
  <1>2. job'[w].at \notin Holding /\ \A v \in Workers \ {w} : job'[v] = job[v]
    BY <1>1, EndStep
  <1> QED BY <1>1, <1>2, JobCounts

(* The place of the request becomes the place of its booking.              *)
LEMMA InsertCounts ==
    ASSUME Shape, Count, NEW w \in Workers, NEW b \in Bookings, Insert(w, b)
    PROVE  Count'
  <1>p. PICK p \in Slots : p = job[w].slot
    BY DEF Shape, JobsFit, Insert, At
  <1> DEFINE new == Wanted(w)
  <1>0. /\ job[w] \in Job /\ job[w].at = "insert" /\ job[w].slot = p /\ slot' = slot
        /\ booking[b].st = "none" /\ booking' = [booking EXCEPT ![b] = new]
        /\ booking \in [Bookings -> Booking]
    BY <1>p DEF Shape, TypeOK, Insert, At
  <1>1. job'[w].at \notin Holding /\ \A v \in Workers \ {w} : job'[v] = job[v]
    <2> DEFINE rest == job[w].todo \ {job[w].slot}
               j == [job[w] EXCEPT !.at = "reserve", !.todo = rest,
                                   !.made = @ \cup {b}, !.slot = NONE]
    <2>1. j \in Job /\ j.at = "reserve"
      BY <1>0 DEF Job
    <2>2. Finish(w) \/ job' = [job EXCEPT ![w] = j]
      BY <1>0 DEF Insert
    <2> HIDE DEF j
    <2> QED BY <2>1, <2>2, EndStep, JobStep DEF Shape, Holding
  <1>2. new.st = "pending" /\ new.slot = p
    BY <1>0, WantedFits
  <1>3. /\ booking'[b].st = "pending" /\ booking'[b].slot = p
        /\ \A c \in Bookings \ {b} : booking'[c] = booking[c]
    BY <1>0, <1>2
  <1>4. /\ b \notin Placed(p) /\ Placed(p)' = Placed(p) \cup {b}
        /\ w \in Holds(p) /\ Holds(p)' = Holds(p) \ {w}
        /\ \A t \in Slots \ {p} : Placed(t)' = Placed(t) /\ Holds(t)' = Holds(t)
    BY <1>0, <1>1, <1>3, HoldsStep, PlacedStep DEF Holding, Placing
  <1>5. Taken(p)' = Taken(p)
    BY <1>0, <1>4, Moved
  <1>6. \A t \in Slots \ {p} : Taken(t)' = Taken(t)
    BY <1>4, Same
  <1> QED BY <1>0, <1>5, <1>6 DEF Count

(* The place given back is the one the request held.                        *)
LEMMA ReleaseCounts ==
    ASSUME Shape, Count, NEW w \in Workers, Release(w)
    PROVE  Count'
  <1>p. PICK p \in Slots : p = job[w].slot
    BY DEF Shape, JobsFit, Release, At
  <1>0. /\ job[w].at = "release" /\ job[w].slot = p /\ UNCHANGED booking
        /\ slot' = Vacated(p) /\ TakeBack(w)
    BY <1>p DEF Release, At
  <1>1. job'[w].at \notin Holding /\ \A v \in Workers \ {w} : job'[v] = job[v]
    BY <1>0, EndStep
  <1>2. /\ w \in Holds(p) /\ Holds(p)' = Holds(p) \ {w}
        /\ \A t \in Slots \ {p} : Holds(t)' = Holds(t)
    BY <1>0, <1>1, HoldsStep DEF Holding
  <1>3. \A t \in Slots : Placed(t)' = Placed(t)
    BY <1>0, PlacedSame
  <1>4. Taken(p)' = Taken(p) - 1 /\ Taken(p) \in Nat /\ Taken(p)' \in Nat
    <2>1. Taken(p)' = Taken(p) - 1 /\ Taken(p) \in Nat
      BY <1>0, <1>2, <1>3, Moved
    <2>2. Cardinality(Holds(p)) # 0
      BY <1>2, PlacesFinite, FS_EmptySet
    <2>3. Taken(p) # 0
      BY <2>2, PlacesFinite DEF Taken
    <2> QED BY <2>1, <2>3
  <1>5. \A t \in Slots \ {p} : Taken(t)' = Taken(t)
    BY <1>2, <1>3, Same
  <1>6. /\ \A t \in Slots : slot'[t].made = slot[t].made
        /\ \A t \in Slots \ {p} : slot'[t].count = slot[t].count
        /\ slot[p].made => slot'[p].count = Less(slot[p].count)
    BY <1>0, VacatedType DEF Shape
  <1> QED BY <1>0, <1>4, <1>5, <1>6 DEF Count, Less

(* A booking taken back leaves its place to the request that takes it.     *)
LEMMA DeleteCounts ==
    ASSUME Shape, Count, Orderly', NEW w \in Workers, NEW b \in Bookings, Delete(w, b)
    PROVE  Count'
  <1>p. PICK p \in Slots : p = booking[b].slot
    BY DEF Shape, MadeIsMine, BookingsFit, Delete
  <1> DEFINE left == job[w].made \ {b}
             gone == [NoBooking EXCEPT !.st = "deleted"]
             j == [job[w] EXCEPT !.at = "release", !.made = left, !.slot = p]
             k == [job[w] EXCEPT !.made = left]
  <1>0. /\ job[w] \in Job /\ job[w].at = "delete" /\ booking[b].slot = p /\ slot' = slot
        /\ booking \in [Bookings -> Booking] /\ gone.st = "deleted"
        /\ j \in Job /\ j.at = "release" /\ j.slot = p /\ k \in Job /\ k.at = "delete"
    <2>1. /\ job[w] \in Job /\ job[w].at = "delete" /\ slot' = slot
          /\ booking \in [Bookings -> Booking]
      BY DEF Shape, TypeOK, Delete, At
    <2>2. gone.st = "deleted"
      BY DEF NoBooking
    <2> QED BY <1>p, <2>1, <2>2 DEF Job
  <1>1. CASE /\ booking' = [booking EXCEPT ![b] = gone] /\ job' = [job EXCEPT ![w] = j]
             /\ booking[b].st = "pending"
    <2> HIDE DEF j, k, gone
    <2>1. job'[w] = j /\ \A v \in Workers \ {w} : job'[v] = job[v]
      BY <1>0, <1>1, JobStep DEF Shape
    <2>2. booking'[b].st = "deleted" /\ \A c \in Bookings \ {b} : booking'[c] = booking[c]
      BY <1>0, <1>1
    <2>3. /\ b \in Placed(p) /\ Placed(p)' = Placed(p) \ {b}
          /\ w \notin Holds(p) /\ Holds(p)' = Holds(p) \cup {w}
          /\ \A t \in Slots \ {p} : Placed(t)' = Placed(t) /\ Holds(t)' = Holds(t)
      BY <1>0, <1>1, <2>1, <2>2, HoldsStep, PlacedStep DEF Holding, Placing
    <2>4. Taken(p)' = Taken(p)
      BY <1>0, <2>3, Moved
    <2>5. \A t \in Slots \ {p} : Taken(t)' = Taken(t)
      BY <2>3, Same
    <2> QED BY <1>0, <2>4, <2>5 DEF Count
  <1>2. CASE UNCHANGED booking /\ (Finish(w) \/ job' = [job EXCEPT ![w] = k])
    <2>1. job'[w].at \notin Holding /\ \A v \in Workers \ {w} : job'[v] = job[v]
      <3>1. CASE Finish(w)
        BY <3>1, EndStep
      <3>2. CASE job' = [job EXCEPT ![w] = k]
        <4> HIDE DEF j, k, gone
        <4> QED BY <1>0, <3>2, JobStep DEF Shape, Holding
      <3> QED BY <1>2, <3>1, <3>2
    <2> QED BY <1>0, <1>2, <2>1, JobCounts DEF Holding
  <1>3. strayed' = {}
    BY DEF Orderly
  <1> QED BY <1>0, <1>1, <1>2, <1>3, <1>p DEF Delete, Stray

(* A confirmed booking keeps its place.                                     *)
LEMMA MarkCounts ==
    ASSUME Shape, Count, NEW w \in Workers, Mark(w)
    PROVE  Count'
  <1>0. /\ job[w].at = "mark" /\ job[w].b \in Bookings /\ slot' = slot
        /\ booking \in [Bookings -> Booking]
    BY DEF Shape, TypeOK, JobsFit, Mark, At
  <1>1. job'[w].at \notin Holding /\ \A v \in Workers \ {w} : job'[v] = job[v]
    BY EndStep DEF Mark
  <1>2. \A s \in Slots : Holds(s)' = Holds(s)
    BY <1>0, <1>1, HoldsStep DEF Holding
  <1>3. \A s \in Slots : Placed(s)' = Placed(s)
    <2>1. CASE booking' = booking
      BY <2>1, PlacedSame
    <2>2. CASE booking[job[w].b].st = "pending"
               /\ booking' = [booking EXCEPT ![job[w].b].st = "confirmed",
                                             ![job[w].b].credits = job[w].credits]
      <3>1. /\ booking'[job[w].b].st = "confirmed"
            /\ booking'[job[w].b].slot = booking[job[w].b].slot
            /\ \A c \in Bookings \ {job[w].b} : booking'[c] = booking[c]
        BY <1>0, <2>2 DEF Booking
      <3> QED BY <1>0, <2>2, <3>1, PlacedStep DEF Placing
    <2> QED BY <2>1, <2>2 DEF Mark
  <1> QED BY <1>0, <1>2, <1>3, QuietCounts

(* A cancelled booking gives its own place back, once.                      *)
LEMMA BatchCounts ==
    ASSUME Shape, Count, Orderly', NEW w \in Workers, Batch(w)
    PROVE  Count'
  <1>b. PICK b \in Bookings : b = job[w].b
    BY DEF Shape, JobsFit, Batch, At
  <1>p. PICK p : p = booking[b].slot
    OBVIOUS
  <1>0. /\ job[w].at = "batch" /\ job[w].seen \in {"pending", "confirmed"}
        /\ booking \in [Bookings -> Booking]
    BY DEF Shape, TypeOK, JobsFit, Batch, At
  <1>1. job'[w].at \notin Holding /\ \A v \in Workers \ {w} : job'[v] = job[v]
    BY EndStep DEF Batch
  <1>2. \A s \in Slots : Holds(s)' = Holds(s)
    BY <1>0, <1>1, HoldsStep DEF Holding
  <1>3. CASE UNCHANGED <<slot, booking>>
    BY <1>2, <1>3, PlacedSame, QuietCounts
  <1>4. CASE /\ booking[b].st = job[w].seen /\ booking' = [booking EXCEPT ![b].st = "cancelled"]
             /\ slot' = Vacated(p)
    <2>1. /\ booking'[b].st = "cancelled" /\ \A c \in Bookings \ {b} : booking'[c] = booking[c]
          /\ p \in Slots
      BY <1>0, <1>4, <1>p DEF Booking, Shape, BookingsFit
    <2>2. /\ b \in Placed(p) /\ Placed(p)' = Placed(p) \ {b}
          /\ \A t \in Slots \ {p} : Placed(t)' = Placed(t)
      BY <1>0, <1>4, <1>p, <2>1, PlacedStep DEF Placing
    <2>3. Taken(p)' = Taken(p) - 1 /\ Taken(p) \in Nat
      BY <1>2, <2>1, <2>2, Moved
    <2>4. Taken(p) # 0
      <3>1. Cardinality(Placed(p)) # 0
        BY <2>2, PlacesFinite, FS_EmptySet
      <3> QED BY <3>1, PlacesFinite DEF Taken
    <2>5. \A t \in Slots \ {p} : Taken(t)' = Taken(t)
      BY <1>2, <2>2, Same
    <2>6. /\ \A t \in Slots : slot'[t].made = slot[t].made
          /\ \A t \in Slots \ {p} : slot'[t].count = slot[t].count
          /\ slot[p].made => slot'[p].count = Less(slot[p].count)
      BY <1>4, <2>1, VacatedType DEF Shape
    <2> QED BY <2>1, <2>3, <2>4, <2>5, <2>6 DEF Count, Less
  <1>5. strayed' = {}
    BY DEF Orderly
  <1> QED BY <1>3, <1>4, <1>5, <1>b, <1>p DEF Batch, Stray

(* A row made for an unbooked time starts at its count, none.               *)
LEMMA OperatorCounts ==
    ASSUME Shape, Count, Orderly',
           \/ \E b \in Bookings : Transition(b)
           \/ \E s \in Slots : BlockSlot(s) \/ \E n \in 1 .. MaxCapacity : CreateSlot(s, n)
    PROVE  Count'
  <1>0. booking \in [Bookings -> Booking] /\ slot \in [Slots -> Slot]
    BY DEF Shape, TypeOK
  <1>1. ASSUME NEW b \in Bookings, Transition(b) PROVE Count'
    <2>1. /\ booking[b].st = "confirmed" /\ booking'[b].st = "over"
          /\ booking'[b].slot = booking[b].slot
          /\ \A c \in Bookings \ {b} : booking'[c] = booking[c]
          /\ UNCHANGED <<slot, job>>
      BY <1>0, <1>1 DEF Transition, Booking
    <2>2. \A s \in Slots : Placed(s)' = Placed(s)
      BY <2>1, PlacedStep DEF Placing
    <2> QED BY <2>1, <2>2, HoldsSame, QuietCounts
  <1>2. ASSUME NEW s \in Slots, NEW n,
               slot' = [slot EXCEPT ![s].made = TRUE, ![s].cap = n],
               Stray(LateSlot(s)), UNCHANGED <<booking, job>>
        PROVE  Count'
    <2>1. /\ slot'[s].count = slot[s].count
          /\ \A t \in Slots \ {s} : slot'[t] = slot[t]
      BY <1>0, <1>2 DEF Slot
    <2>2. \A t \in Slots : Taken(t)' = Taken(t)
      BY <1>2, PlacedSame, HoldsSame, Same
    <2>3. ~slot[s].made => Taken(s) = 0 /\ slot[s].count = 0
      <3>1. ~slot[s].made => Placed(s) = {} /\ Holds(s) = {}
        BY <1>2 DEF Stray, LateSlot, Orderly
      <3>2. Cardinality({}) = 0
        BY FS_EmptySet
      <3> QED BY <3>1, <3>2 DEF Taken, Shape, UnmadeIsEmpty
    <2> QED BY <2>1, <2>2, <2>3 DEF Count
  <1>3. ASSUME NEW s \in Slots, BlockSlot(s) PROVE Count'
    <2>1. /\ slot' = [slot EXCEPT ![s].made = TRUE, ![s].cap = 0]
          /\ Stray(LateSlot(s)) /\ UNCHANGED <<booking, job>>
      BY <1>3 DEF BlockSlot
    <2> QED BY ONLY <1>2, <2>1
  <1>4. ASSUME NEW s \in Slots, NEW n \in 1 .. MaxCapacity, CreateSlot(s, n) PROVE Count'
    <2>1. /\ slot' = [slot EXCEPT ![s].made = TRUE, ![s].cap = n]
          /\ Stray(LateSlot(s)) /\ UNCHANGED <<booking, job>>
      BY <1>4 DEF CreateSlot
    <2> QED BY ONLY <1>2, <2>1
  <1> QED BY <1>1, <1>3, <1>4

(* A slot's count is the places taken in it, in every behaviour that has   *)
(* none of the listed disorders: the guarded update, the read that follows *)
(* it, the insert, the giving back and the operator's rows may come in any *)
(* order of any number of requests.                                        *)
THEOREM SlotsAreCounted == Spec => []SlotIsCounted
  <1> DEFINE IInv == Shape /\ (Orderly => Count)
  <1>1. Init => IInv
    <2> SUFFICES ASSUME Init PROVE Count
      BY InitShape
    <2> QED BY DEF Init, Count
  <1>2. IInv /\ [Next]_vars => IInv'
    <2> SUFFICES ASSUME Shape, Orderly => Count, [Next]_vars, Orderly' PROVE Count'
      BY NextShape
    <2>1. Count
      BY StrayStays
    <2>2. CASE UNCHANGED vars
      BY <2>1, <2>2, PlacedSame, HoldsSame, QuietCounts DEF vars
    <2> QED BY <2>1, <2>2, BookCounts, ReserveCounts, ReserveFailsCounts, LookCounts, StayCounts, InsertCounts,
               ReleaseCounts, DeleteCounts, MarkCounts, BatchCounts, OperatorCounts DEF Next
  <1>3. IInv => SlotIsCounted
    BY DEF SlotIsCounted, Count, Taken
  <1> QED BY <1>1, <1>2, <1>3, PTL DEF Spec

-----------------------------------------------------------------------------
(* The uses of the voucher, likewise: one booking at a time is confirmed   *)
(* or cancelled, and the count goes with it.                               *)
Uses == used = Cardinality(Redeeming)

(* Nothing redeemed and nothing counted.                                    *)
LEMMA UsesStay ==
    ASSUME Uses, Redeeming' = Redeeming, used' = used PROVE Uses'
  BY DEF Uses

(* The bookings that redeem the voucher can be counted.                     *)
LEMMA RedeemingFinite == IsFiniteSet(Redeeming) /\ Cardinality(Redeeming) \in Nat
  <1>1. IsFiniteSet(Redeeming)
    BY BookingAssumption, FS_Subset DEF Redeeming
  <1> QED BY <1>1, FS_CardinalityType

(* One booking changes: it redeems the voucher afterwards or not.           *)
LEMMA RedeemingStep ==
    ASSUME NEW b \in Bookings, \A c \in Bookings \ {b} : booking'[c] = booking[c]
    PROVE  /\ booking'[b].coupon /\ booking'[b].st \in {"confirmed", "over"}
                => Redeeming' = Redeeming \cup {b}
           /\ ~(booking'[b].coupon /\ booking'[b].st \in {"confirmed", "over"})
                => Redeeming' = Redeeming \ {b}
  BY DEF Redeeming

(* The batch that confirms counts the use of the booking it confirmed.      *)
LEMMA MarkUses ==
    ASSUME Shape, Uses, Orderly', NEW w \in Workers, Mark(w)
    PROVE  Uses'
  <1>b. PICK b \in Bookings : b = job[w].b
    BY DEF Shape, JobsFit, Mark, At
  <1>0. booking \in [Bookings -> Booking] /\ used \in Nat /\ strayed' = {}
    BY BookingAssumption DEF Shape, TypeOK, Orderly
  <1>1. CASE UNCHANGED <<booking, used>>
    BY <1>1, UsesStay DEF Redeeming
  <1>2. CASE /\ booking[b].st = "pending"
             /\ booking' = [booking EXCEPT ![b].st = "confirmed", ![b].credits = job[w].credits]
             /\ used' = IF booking[b].coupon /\ used < UsageLimit THEN used + 1 ELSE used
             /\ ~booking[b].coupon \/ used < UsageLimit
    <2>1. /\ booking'[b].st = "confirmed" /\ booking'[b].coupon = booking[b].coupon
          /\ \A c \in Bookings \ {b} : booking'[c] = booking[c]
          /\ b \notin Redeeming
      BY <1>0, <1>2 DEF Booking, Redeeming
    <2>2. CASE booking[b].coupon
      <3>1. Redeeming' = Redeeming \cup {b}
        BY <2>1, <2>2, RedeemingStep
      <3>2. Cardinality(Redeeming \cup {b}) = Cardinality(Redeeming) + 1
        BY <2>1, RedeemingFinite, AddOne
      <3> QED BY <1>2, <2>2, <3>1, <3>2 DEF Uses
    <2>3. CASE ~booking[b].coupon
      <3>1. Redeeming' = Redeeming
        BY <2>1, <2>3, RedeemingStep
      <3> QED BY <1>2, <2>3, <3>1, UsesStay
    <2> QED BY <2>2, <2>3
  <1> QED BY <1>0, <1>1, <1>2, <1>b DEF Mark, Stray

(* The batch that cancels gives back the use of a confirmed booking only.   *)
LEMMA BatchUses ==
    ASSUME Shape, Uses, Orderly', NEW w \in Workers, Batch(w)
    PROVE  Uses'
  <1>b. PICK b \in Bookings : b = job[w].b
    BY DEF Shape, JobsFit, Batch, At
  <1>0. /\ booking \in [Bookings -> Booking] /\ used \in Nat /\ strayed' = {}
        /\ job[w].seen \in {"pending", "confirmed"}
    BY BookingAssumption DEF Shape, TypeOK, JobsFit, Orderly, Batch, At
  <1>1. CASE UNCHANGED <<booking, used>>
    BY <1>1, UsesStay DEF Redeeming
  <1>2. CASE /\ booking[b].st = job[w].seen
             /\ booking' = [booking EXCEPT ![b].st = "cancelled"]
             /\ used' = IF booking[b].coupon /\ job[w].seen = "confirmed" THEN Less(used) ELSE used
    <2>1. /\ booking'[b].st = "cancelled" /\ \A c \in Bookings \ {b} : booking'[c] = booking[c]
          /\ b \in Redeeming <=> booking[b].coupon /\ job[w].seen = "confirmed"
      BY <1>0, <1>2 DEF Booking, Redeeming
    <2>2. Redeeming' = Redeeming \ {b}
      BY <2>1, RedeemingStep
    <2>3. CASE b \in Redeeming
      <3>1. Cardinality(Redeeming \ {b}) = Cardinality(Redeeming) - 1
        BY <2>3, RedeemingFinite, DropOne
      <3>2. used # 0
        BY <2>3, RedeemingFinite, FS_EmptySet DEF Uses
      <3>3. used' = used - 1
        BY <1>0, <1>2, <2>1, <2>3, <3>2 DEF Less
      <3> QED BY <2>2, <3>1, <3>3 DEF Uses
    <2>4. CASE b \notin Redeeming
      <3>1. Redeeming' = Redeeming
        BY <2>2, <2>4
      <3> QED BY <1>2, <2>1, <2>4, <3>1, UsesStay
    <2> QED BY <2>3, <2>4
  <1> QED BY <1>0, <1>1, <1>2, <1>b DEF Batch, Stray, GivesUseBack

(* used_count is the bookings confirmed with the voucher, in every         *)
(* behaviour without the listed disorders.                                 *)
THEOREM UsesAreCounted == Spec => []CouponIsCounted
  <1> DEFINE IInv == Shape /\ (Orderly => Uses)
  <1>1. Init => IInv
    <2> SUFFICES ASSUME Init PROVE Uses
      BY InitShape
    <2>1. Redeeming = {}
      BY DEF Init, Redeeming, NoBooking
    <2> QED BY <2>1, FS_EmptySet DEF Init, Uses
  <1>2. IInv /\ [Next]_vars => IInv'
    <2> SUFFICES ASSUME Shape, Orderly => Uses, [Next]_vars, Orderly' PROVE Uses'
      BY NextShape
    <2>0. Uses /\ booking \in [Bookings -> Booking] /\ strayed' = {}
      BY StrayStays DEF Shape, TypeOK, Orderly
    <2>1. CASE UNCHANGED <<booking, used>>
      BY <2>0, <2>1, UsesStay DEF Redeeming
    <2>2. ASSUME NEW w \in Workers, NEW b \in Bookings, Insert(w, b) PROVE Uses'
      <3>1. /\ booking[b].st = "none" /\ booking'[b].st = "pending" /\ used' = used
            /\ \A c \in Bookings \ {b} : booking'[c] = booking[c]
        BY <2>0, <2>2 DEF Insert, Wanted, NoBooking
      <3>2. Redeeming' = Redeeming
        BY <3>1, RedeemingStep DEF Redeeming
      <3> QED BY <2>0, <3>1, <3>2, UsesStay
    <2>3. ASSUME NEW w \in Workers, NEW b \in Bookings, Delete(w, b) PROVE Uses'
      <3>1. CASE /\ booking[b].st = "pending"
                 /\ booking' = [booking EXCEPT ![b] = [NoBooking EXCEPT !.st = "deleted"]]
        <4>1. booking'[b].st = "deleted" /\ \A c \in Bookings \ {b} : booking'[c] = booking[c]
          BY <2>0, <3>1 DEF NoBooking
        <4>2. Redeeming' = Redeeming
          BY <3>1, <4>1, RedeemingStep DEF Redeeming
        <4> QED BY <2>0, <2>3, <4>2, UsesStay DEF Delete
      <3> QED BY <2>0, <2>1, <2>3, <3>1 DEF Delete, Stray
    <2>4. ASSUME NEW b \in Bookings, Transition(b) PROVE Uses'
      <3>1. /\ booking[b].st = "confirmed" /\ booking'[b].st = "over" /\ used' = used
            /\ booking'[b].coupon = booking[b].coupon
            /\ \A c \in Bookings \ {b} : booking'[c] = booking[c]
        BY <2>0, <2>4 DEF Transition, Booking
      <3>2. Redeeming' = Redeeming
        BY <3>1, RedeemingStep DEF Redeeming
      <3> QED BY <2>0, <3>1, <3>2, UsesStay
    <2>5. ASSUME NEW w \in Workers,
                 \/ Look(w) \/ Price(w) \/ InsertFails(w) \/ Release(w) \/ ReleaseFails(w)
                 \/ Spend(w) \/ Stop(w)
                 \/ \E s \in Slots : Reserve(w, s) \/ ReserveFails(w, s)
          PROVE  Uses'
      BY <2>0, <2>1, <2>5 DEF Look, Price, InsertFails, Release, ReleaseFails, Spend, Stop,
         Reserve, ReserveFails, Stray
    <2>6. ASSUME NEW w \in Workers,
                 \/ \E series \in SUBSET Slots, coupon \in BOOLEAN : Book(w, series, coupon)
                 \/ \E b \in Bookings :
                      Cancel(w, b) \/ \E credits \in BOOLEAN : Confirm(w, b, credits)
          PROVE  Uses'
      BY <2>1, <2>6 DEF Book, Cancel, Confirm
    <2>7. ASSUME NEW s \in Slots, BlockSlot(s) \/ \E n \in 1 .. MaxCapacity : CreateSlot(s, n)
          PROVE  Uses'
      BY <2>1, <2>7 DEF BlockSlot, CreateSlot
    <2>8. CASE UNCHANGED vars
      BY <2>1, <2>8 DEF vars
    <2> QED BY <2>0, <2>2, <2>3, <2>4, <2>5, <2>6, <2>7, <2>8, MarkUses, BatchUses DEF Next
  <1>3. IInv => CouponIsCounted
    BY DEF CouponIsCounted, Uses
  <1> QED BY <1>1, <1>2, <1>3, PTL DEF Spec
=============================================================================
