----------------------- MODULE MarketCheckoutCountProofs -----------------------
(***************************************************************************)
(* The voucher's two counters are exact whenever no handler runs, in every *)
(* orderly behaviour, for every number of checkouts, stalls and handlers   *)
(* in flight.                                                              *)
(***************************************************************************)
EXTENDS MarketCheckoutProofs, MarketCheckoutCounts

(* What the invariant reads of a checkout, apart from its handlers.        *)
Same(d) ==
    /\ usage'[d] = usage[d] /\ charge'[d] = charge[d] /\ row'[d] = row[d]
    /\ kv'[d] = kv[d] /\ db'[d] = db[d]
    /\ d \in idle' <=> d \in idle
    /\ <<d, ClaimPart>> \in countReleased' <=> <<d, ClaimPart>> \in countReleased

(* A worker's handler of checkout c becomes k.                             *)
Moves(w, c, k) ==
    /\ k \in Job /\ job' = [job EXCEPT ![w] = k]
    /\ At(w, "idle") \/ job[w].c = c
    /\ k.at = "idle" \/ k.c = c

(* The other workers' handlers stay as they are.                           *)
LEMMA OthersStay ==
    ASSUME TypeOK, NEW w \in Workers, NEW c, NEW k, Moves(w, c, k)
    PROVE  job'[w] = k /\ \A v \in Workers \ {w} : job'[v] = job[v]
  BY DEF TypeOK, Moves

(* What fits a handler still does when its checkout stays the same, ...    *)
LEMMA JobStands ==
    ASSUME NEW d, NEW j, Same(d), JobFits(d, j) PROVE JobFits(d, j)'
  <1>1. OpFits(j)' /\ SlotFits(j)'
    BY DEF JobFits, OpFits, SlotFits
  <1>2. VoucherFits(d, j)'
    BY DEF JobFits, VoucherFits, Used, Same
  <1>3. ChargeFits(d, j)'
    BY DEF JobFits, ChargeFits, Editing, Open, Same
  <1>4. UsageFits(d, j)'
    BY DEF JobFits, UsageFits, Used, Same
  <1>5. PayFits(d, j)'
    BY DEF JobFits, PayFits, Same
  <1> QED BY <1>1, <1>2, <1>3, <1>4, <1>5 DEF JobFits

(* ... and so does what fits a checkout whose handlers do not move either. *)
LEMMA Elsewhere ==
    ASSUME NEW d \in Checkouts, FitsAt(d), Same(d),
           \A v \in Workers : On(v, d)' <=> On(v, d),
           \A v \in Workers : On(v, d) => job'[v] = job[v]
    PROVE  FitsAt(d)'
  <1>1. Alone(d)'
    BY DEF FitsAt, Alone
  <1>2. ASSUME NEW v \in Workers, On(v, d)' PROVE JobFits(d, job[v])'
    <2>1. PICK j : j = job[v]
      OBVIOUS
    <2>2. JobFits(d, j)'
      BY <1>2, <2>1, JobStands DEF FitsAt
    <2> QED BY <1>2, <2>1, <2>2
  <1>3. CheckoutFits(d)'
    <2>1. CopiesAgree(d)' /\ IdleIsGone(d)'
      BY DEF FitsAt, CheckoutFits, CopiesAgree, IdleIsGone, Same, Editing, EditsCopies, Storing
    <2>2. HeldIsReserved(d)' /\ ClaimIsFirst(d)'
      BY DEF FitsAt, CheckoutFits, HeldIsReserved, ClaimIsFirst, Same, Used, HoldsRow, Stamping,
             Unstamped
    <2>3. UsedIsPaid(d)' /\ PaidIsTold(d)' /\ AmountsAgree(d)'
      BY DEF FitsAt, CheckoutFits, UsedIsPaid, PaidIsTold, AmountsAgree, Same, Used,
             Telling, Answering
    <2> QED BY <2>1, <2>2, <2>3 DEF CheckoutFits
  <1> QED BY <1>1, <1>2, <1>3 DEF FitsAt

-----------------------------------------------------------------------------
(* One handler's step, on its checkout.                                    *)

(* Another handler of the checkout w is at.                                *)
Companion(w, c, q) ==
    /\ q \in Job /\ q.at # "idle" /\ q.c = c
    /\ JobTrue(q) /\ JobFits(c, q)
    /\ At(w, "idle") \/ (Beside(job[w].op, q.op) /\ Beside(q.op, job[w].op))
    /\ \E v \in Workers \ {w} : job[v] = q

(* The next handler is at home when it fits, the others of the checkout    *)
(* still do, and the checkout fits.                                        *)
LEMMA AtHome ==
    ASSUME IInv, Fits, NEW w \in Workers, NEW c \in Checkouts, NEW k, Moves(w, c, k),
           \A d \in Checkouts \ {c} : Same(d) \/ FitsAt(d)',
           \/ k.at = "idle"
           \/ ~At(w, "idle") /\ k.op = job[w].op
           \/ \A q : Companion(w, c, q) => Beside(q.op, k.op),
           k.at # "idle" => JobFits(c, k)',
           \A q : Companion(w, c, q) => JobFits(c, q)',
           CheckoutFits(c)'
    PROVE  Fits'
  <1>1. job'[w] = k /\ \A v \in Workers \ {w} : job'[v] = job[v]
    BY OthersStay DEF IInv
  <1>2. ASSUME NEW d \in Checkouts \ {c} PROVE FitsAt(d)'
    <2>1. \A v \in Workers : On(v, d)' <=> On(v, d)
      BY <1>1 DEF Moves, On, At
    <2>2. \A v \in Workers : On(v, d) => job'[v] = job[v]
      BY <1>1 DEF Moves, On, At
    <2>3. CASE Same(d)
      BY <2>1, <2>2, <2>3, Elsewhere DEF Fits
    <2> QED BY <2>3
  <1>3. ASSUME NEW v \in Workers \ {w}, On(v, c) PROVE Companion(w, c, job[v])
    BY <1>3 DEF Companion, Fits, FitsAt, Alone, On, At, IInv, TypeOK, JobsTrue, Moves
  <1>4. \A v \in Workers : On(v, c)' => (v = w /\ k.at # "idle") \/ (v # w /\ On(v, c))
    BY <1>1 DEF On, At
  <1>5. Alone(c)'
    <2>1. ASSUME NEW v \in Workers \ {w}, On(v, c), k.at # "idle" PROVE Beside(job[v].op, k.op)
      BY <1>3, <2>1 DEF Companion
    <2>2. \A o, q : Beside(o, q) => Beside(q, o)
      BY DEF Beside
    <2>3. ASSUME NEW u \in Workers, NEW v \in Workers, u # v, On(u, c)', On(v, c)'
          PROVE  Beside(job'[u].op, job'[v].op)
      <3>1. CASE u = w
        BY <1>1, <1>4, <2>1, <2>2, <2>3, <3>1
      <3>2. CASE v = w
        BY <1>1, <1>4, <2>1, <2>3, <3>2
      <3>3. CASE u # w /\ v # w
        BY <1>1, <1>4, <2>3, <3>3 DEF Fits, FitsAt, Alone
      <3> QED BY <3>1, <3>2, <3>3
    <2> QED BY <2>3 DEF Alone
  <1>6. ASSUME NEW v \in Workers, On(v, c)' PROVE JobFits(c, job[v])'
    <2>1. PICK q : q = job'[v]
      OBVIOUS
    <2>2. JobFits(c, q)'
      BY <1>1, <1>3, <1>4, <1>6, <2>1
    <2> QED BY <2>1, <2>2
  <1> QED BY <1>2, <1>5, <1>6 DEF Fits, FitsAt

-----------------------------------------------------------------------------
(* What fits the checkout is kept when the step leaves what it reads, and  *)
(* the handler that answers for it goes on answering.                      *)

(* The copies, ...                                                         *)
LEMMA CopiesKept ==
    ASSUME TypeOK, NEW w \in Workers, NEW c, NEW k, Moves(w, c, k),
           CopiesAgree(c), db'[c].voucher = db[c].voucher,
           kv'[c] = NONE \/ (kv[c] # NONE /\ kv'[c].voucher = kv[c].voucher),
           EditsCopies(c, job[w]) => EditsCopies(c, k)
    PROVE  CopiesAgree(c)'
  <1>1. job'[w] = k /\ \A v \in Workers \ {w} : job'[v] = job[v]
    BY OthersStay
  <1>2. ASSUME NEW v \in Workers, On(v, c), EditsCopies(c, job[v])
        PROVE  On(v, c)' /\ EditsCopies(c, job[v])'
    BY <1>1, <1>2 DEF Moves, On, At, EditsCopies, Editing
  <1> QED BY <1>2 DEF CopiesAgree

(* ... the held row, ...                                                   *)
LEMMA HeldKept ==
    ASSUME TypeOK, NEW w \in Workers, NEW c, NEW k, Moves(w, c, k),
           HeldIsReserved(c), usage'[c][ClaimPart] = usage[c][ClaimPart],
           db'[c].voucher = db[c].voucher, HoldsRow(job[w]) => HoldsRow(k) \/ ~PerUser
    PROVE  HeldIsReserved(c)'
  <1>1. job'[w] = k /\ \A v \in Workers \ {w} : job'[v] = job[v]
    BY OthersStay
  <1>2. ASSUME NEW v \in Workers, On(v, c), HoldsRow(job[v]), PerUser
        PROVE  On(v, c)' /\ HoldsRow(job[v])'
    BY <1>1, <1>2 DEF Moves, On, At, HoldsRow
  <1> QED BY <1>2 DEF HeldIsReserved, PerUser

(* ... the claim's row, ...                                                *)
LEMMA ClaimKept ==
    ASSUME TypeOK, NEW w \in Workers, NEW c, NEW k, Moves(w, c, k),
           ClaimIsFirst(c), usage'[c] = usage[c],
           <<c, ClaimPart>> \in countReleased' <=> <<c, ClaimPart>> \in countReleased,
           Stamping(job[w]) => Stamping(k)
    PROVE  ClaimIsFirst(c)'
  <1>1. job'[w] = k /\ \A v \in Workers \ {w} : job'[v] = job[v]
    BY OthersStay
  <1>2. ASSUME NEW v \in Workers, On(v, c), Stamping(job[v])
        PROVE  On(v, c)' /\ Stamping(job[v])'
    BY <1>1, <1>2 DEF Moves, On, At, Stamping
  <1> QED BY <1>2 DEF ClaimIsFirst, Used, Unstamped

(* ... the payment, ...                                                    *)
LEMMA UsedKept ==
    ASSUME NEW c, UsedIsPaid(c), usage'[c][ClaimPart] = usage[c][ClaimPart],
           row'[c].st = row[c].st, db'[c].pay = db[c].pay, c \in idle' => c \in idle
    PROVE  UsedIsPaid(c)'
  BY DEF UsedIsPaid, Used

(* ... what is told of it, ...                                             *)
LEMMA ToldKept ==
    ASSUME TypeOK, NEW w \in Workers, NEW c, NEW k, Moves(w, c, k),
           PaidIsTold(c), row'[c].st = row[c].st, db'[c].pay = db[c].pay,
           Telling(job[w]) => Telling(k)
    PROVE  PaidIsTold(c)'
  <1>1. job'[w] = k /\ \A v \in Workers \ {w} : job'[v] = job[v]
    BY OthersStay
  <1>2. ASSUME NEW v \in Workers, On(v, c), Telling(job[v])
        PROVE  On(v, c)' /\ Telling(job[v])'
    BY <1>1, <1>2 DEF Moves, On, At, Telling
  <1> QED BY <1>2 DEF PaidIsTold

(* ... the amounts, ...                                                    *)
LEMMA AmountsKept ==
    ASSUME TypeOK, NEW w \in Workers, NEW c, NEW k, Moves(w, c, k),
           AmountsAgree(c), charge'[c] = charge[c], row'[c] = row[c],
           db'[c].voucher = db[c].voucher, Answering(job[w]) => Answering(k)
    PROVE  AmountsAgree(c)'
  <1>1. job'[w] = k /\ \A v \in Workers \ {w} : job'[v] = job[v]
    BY OthersStay
  <1>2. ASSUME NEW v \in Workers, On(v, c), Answering(job[v])
        PROVE  On(v, c)' /\ Answering(job[v])'
    BY <1>1, <1>2 DEF Moves, On, At, Answering
  <1> QED BY <1>2 DEF AmountsAgree

(* ... and the KV copy.                                                    *)
LEMMA IdleKept ==
    ASSUME TypeOK, NEW w \in Workers, NEW c, NEW k, Moves(w, c, k),
           IdleIsGone(c), c \in idle' => c \in idle, kv'[c] # NONE => kv[c] # NONE,
           Storing(job[w]) => Storing(k) \/ c \notin idle' \/ kv'[c] = NONE
    PROVE  IdleIsGone(c)'
  <1>1. job'[w] = k /\ \A v \in Workers \ {w} : job'[v] = job[v]
    BY OthersStay
  <1>2. ASSUME NEW v \in Workers, On(v, c), Storing(job[v]), c \in idle', kv'[c] # NONE
        PROVE  On(v, c)' /\ Storing(job[v])'
    BY <1>1, <1>2 DEF Moves, On, At, Storing
  <1> QED BY <1>2 DEF IdleIsGone

(* A handler that answers for nothing.                                     *)
Answers(j) ==
    \/ j.at \in {"cache", "save", "put", "persist", "upsert", "session", "fully"}
    \/ j.op = "sweep" /\ j.at \in {"release", "unhold"}

(* A release that goes on answers for the held row, if rows are held.      *)
ReleasesOn(j, k) == j.at \in {"release", "unhold"} /\ (HoldsRow(k) \/ ~PerUser)

(* A step that only moves such a handler.                                  *)
LEMMA Bystander ==
    ASSUME IInv, Fits, NEW w \in Workers, NEW c \in Checkouts, NEW k, Moves(w, c, k),
           \A d \in Checkouts : Same(d),
           ~Answers(job[w]) \/ (job[w].op = "sweep" /\ ReleasesOn(job[w], k)),
           \/ k.at = "idle"
           \/ ~At(w, "idle") /\ k.op = job[w].op
           \/ \A q : Companion(w, c, q) => Beside(q.op, k.op),
           k.at # "idle" => JobFits(c, k)
    PROVE  Fits'
  <1>1. Same(c) /\ CheckoutFits(c)
    BY DEF Fits, FitsAt
  <1>2. CheckoutFits(c)'
    <2>1. CopiesAgree(c)'
      BY <1>1, CopiesKept DEF Answers, ReleasesOn, EditsCopies, Editing, Same, CheckoutFits, IInv
    <2>2. HeldIsReserved(c)' /\ ClaimIsFirst(c)'
      BY <1>1, HeldKept, ClaimKept
         DEF Answers, ReleasesOn, HoldsRow, Stamping, Same, CheckoutFits, IInv
    <2>3. UsedIsPaid(c)' /\ PaidIsTold(c)'
      BY <1>1, UsedKept, ToldKept DEF Answers, ReleasesOn, Telling, Same, CheckoutFits, IInv
    <2>4. AmountsAgree(c)' /\ IdleIsGone(c)'
      BY <1>1, AmountsKept, IdleKept
         DEF Answers, ReleasesOn, Answering, Storing, Same, CheckoutFits, IInv
    <2> QED BY <2>1, <2>2, <2>3, <2>4 DEF CheckoutFits
  <1>3. k.at # "idle" => JobFits(c, k)'
    BY <1>1, JobStands
  <1>4. \A q : Companion(w, c, q) => JobFits(c, q)'
    BY <1>1, JobStands DEF Companion
  <1> QED BY <1>2, <1>3, <1>4, AtHome

-----------------------------------------------------------------------------
(* Counting.                                                               *)

(* One slot, or none.                                                      *)
Bit(p) == IF p THEN 1 ELSE 0

(* Sets that differ at most at one element.                                *)
LEMMA OneDiffers ==
    ASSUME NEW S, IsFiniteSet(S), NEW A \in SUBSET S, NEW B \in SUBSET S, NEW x \in S,
           \A y \in S \ {x} : y \in A <=> y \in B
    PROVE  /\ Cardinality(A) \in Nat /\ Cardinality(B) \in Nat
           /\ Cardinality(B) = Cardinality(A) + Bit(x \in B) - Bit(x \in A)
           /\ Cardinality(A) >= Bit(x \in A)
  <1>1. IsFiniteSet(A) /\ IsFiniteSet(B)
    BY FS_Subset
  <1>2. Cardinality(A) \in Nat /\ Cardinality(B) \in Nat
    BY <1>1, FS_CardinalityType
  <1>3. A \ {x} = B \ {x}
    OBVIOUS
  <1>4. /\ Cardinality(A \ {x}) = Cardinality(A) - Bit(x \in A)
        /\ Cardinality(B \ {x}) = Cardinality(B) - Bit(x \in B)
        /\ Cardinality(A \ {x}) \in Nat
    <2>1. IsFiniteSet(A \ {x}) /\ Cardinality(A \ {x}) \in Nat
      BY <1>1, FS_RemoveElement, FS_CardinalityType
    <2>2. Cardinality(A \ {x}) = IF x \in A THEN Cardinality(A) - 1 ELSE Cardinality(A)
      BY <1>1, FS_RemoveElement
    <2>3. Cardinality(B \ {x}) = IF x \in B THEN Cardinality(B) - 1 ELSE Cardinality(B)
      BY <1>1, FS_RemoveElement
    <2> QED BY <1>2, <2>1, <2>2, <2>3 DEF Bit
  <1>5. Cardinality(B \ {x}) = Cardinality(A \ {x})
    BY <1>3
  <1>6. PICK n \in Nat : n = Cardinality(A \ {x})
    BY <1>4
  <1>7. Cardinality(A) = n + Bit(x \in A) /\ Cardinality(B) = n + Bit(x \in B)
    BY <1>2, <1>4, <1>5, <1>6 DEF Bit
  <1> QED BY <1>2, <1>6, <1>7 DEF Bit

(* Another handler gives back the reservation of the checkout.             *)
OthersGive(w, c) == \E v \in Workers \ {w} : GivesBack(v, c)

(* The reservation is given back by this handler, by another one or not.   *)
LEMMA ReservingIs ==
    ASSUME NEW w \in Workers, NEW c
    PROVE  /\ Reserving(c) <=> Holding(c) /\ ~GivesBack(w, c) /\ ~OthersGive(w, c)
           /\ Reserving(c)' <=> Holding(c)' /\ ~GivesBack(w, c)' /\ ~OthersGive(w, c)'
  BY DEF Reserving, OthersGive

(* The voucher D1 shows changes under a request or a sweep only.           *)
VoucherKept(w, c) ==
    \/ db'[c].voucher = db[c].voucher
    \/ ~At(w, "idle") /\ job[w].op \in {"apply", "remove", "pay", "sweep"}

(* The slots of the other workers stay where they are, ...                 *)
LEMMA OthersKeepSlots ==
    ASSUME IInv, Fits, NEW w \in Workers, NEW c \in Checkouts, NEW k, Moves(w, c, k),
           VoucherKept(w, c), \A d \in Checkouts \ {c} : db'[d].voucher = db[d].voucher
    PROVE  /\ \A v \in Workers \ {w} : /\ Carrying(v)' <=> Carrying(v)
                                       /\ OwesCount(v)' <=> OwesCount(v)
                                       /\ OwesUse(v)' <=> OwesUse(v)
           /\ \A v \in Workers \ {w}, d \in Checkouts : GivesBack(v, d)' <=> GivesBack(v, d)
           /\ \A d \in Checkouts \ {c} : ~GivesBack(w, d) /\ ~GivesBack(w, d)'
  <1>1. job'[w] = k /\ \A v \in Workers \ {w} : job'[v] = job[v]
    BY OthersStay DEF IInv
  <1>2. ASSUME NEW v \in Workers \ {w} PROVE Carrying(v)' <=> Carrying(v)
    <2>1. CASE /\ job[v].op \in {"apply", "pay"}
               /\ job[v].at \in {"hold", "giveback", "cache", "save"}
      <3>1. job[v].c \in Checkouts /\ On(v, job[v].c)
        BY <2>1 DEF IInv, JobsTrue, JobTrue, On, At
      <3>2. job[v].c = c => db'[c].voucher = db[c].voucher
        <4>1. CASE ~At(w, "idle") /\ job[w].op \in {"apply", "remove", "pay", "sweep"}
          BY <2>1, <3>1, <4>1 DEF Moves, Fits, FitsAt, Alone, Beside, On
        <4> QED BY <4>1 DEF VoucherKept
      <3> QED BY <1>1, <3>1, <3>2 DEF Carrying
    <2>2. CASE ~(/\ job[v].op \in {"apply", "pay"}
                 /\ job[v].at \in {"hold", "giveback", "cache", "save"})
      BY <1>1, <2>2 DEF Carrying
    <2> QED BY <2>1, <2>2
  <1>3. ASSUME NEW v \in Workers \ {w}
        PROVE  (OwesCount(v)' <=> OwesCount(v)) /\ (OwesUse(v)' <=> OwesUse(v))
    BY <1>1 DEF OwesCount, OwesUse
  <1>4. ASSUME NEW v \in Workers \ {w}, NEW d \in Checkouts
        PROVE  GivesBack(v, d)' <=> GivesBack(v, d)
    BY <1>1 DEF GivesBack, On, At
  <1>5. ASSUME NEW d \in Checkouts \ {c} PROVE ~GivesBack(w, d) /\ ~GivesBack(w, d)'
    BY <1>1 DEF GivesBack, On, At, Moves
  <1> QED BY <1>2, <1>3, <1>4, <1>5

(* What the counts are made of at a checkout.                              *)
SlotsKept(d) ==
    /\ db'[d].voucher = db[d].voucher
    /\ Holding(d)' <=> Holding(d)
    /\ Redeemed(d)' <=> Redeemed(d)
    /\ Unstamped(d)' <=> Unstamped(d)

(* ... so that the counts are exact again when they move with the slots of *)
(* this handler and its checkout.                                          *)
LEMMA CountsMove ==
    ASSUME IInv, Fits, ReservedIsExact, UsedIsExact,
           NEW w \in Workers, NEW c \in Checkouts, NEW k, Moves(w, c, k),
           VoucherKept(w, c), \A d \in Checkouts \ {c} : SlotsKept(d),
           reserved' = reserved + (Bit(Reserving(c)') - Bit(Reserving(c)))
                                + (Bit(Carrying(w)') - Bit(Carrying(w)))
                                + (Bit(OwesCount(w)') - Bit(OwesCount(w))),
           used' = used + (Bit(Using(c)') - Bit(Using(c)))
                        + (Bit(Carrying(w)') - Bit(Carrying(w)))
                        + (Bit(OwesUse(w)') - Bit(OwesUse(w)))
    PROVE  ReservedIsExact' /\ UsedIsExact'
  <1>1. /\ \A v \in Workers \ {w} : /\ Carrying(v)' <=> Carrying(v)
                                    /\ OwesCount(v)' <=> OwesCount(v)
                                    /\ OwesUse(v)' <=> OwesUse(v)
        /\ \A v \in Workers \ {w}, d \in Checkouts : GivesBack(v, d)' <=> GivesBack(v, d)
        /\ \A d \in Checkouts \ {c} : ~GivesBack(w, d) /\ ~GivesBack(w, d)'
    BY OthersKeepSlots DEF SlotsKept
  <1>2. ASSUME NEW d \in Checkouts \ {c}
        PROVE  (Reserving(d)' <=> Reserving(d)) /\ (Using(d)' <=> Using(d))
    <2>1. OthersGive(w, d)' <=> OthersGive(w, d)
      BY <1>1 DEF OthersGive
    <2>2. Reserving(d)' <=> Reserving(d)
      BY <1>1, <2>1, ReservingIs DEF SlotsKept
    <2> QED BY <2>2 DEF Using, SlotsKept
  <1>3. IsFiniteSet(Checkouts) /\ IsFiniteSet(Workers)
    BY CheckoutAssumption, FS_Union DEF Workers
  <1> DEFINE R == {d \in Checkouts : Reserving(d)}    U == {d \in Checkouts : Using(d)}
             C == {v \in Workers : Carrying(v)}
             O == {v \in Workers : OwesCount(v)}      E == {v \in Workers : OwesUse(v)}
  <1>4. /\ Cardinality(R') = Cardinality(R) + Bit(c \in R') - Bit(c \in R)
        /\ Cardinality(R) \in Nat /\ Cardinality(R') \in Nat
    BY <1>2, <1>3, OneDiffers
  <1>5. /\ Cardinality(U') = Cardinality(U) + Bit(c \in U') - Bit(c \in U)
        /\ Cardinality(U) \in Nat /\ Cardinality(U') \in Nat
    BY <1>2, <1>3, OneDiffers
  <1>6. /\ Cardinality(C') = Cardinality(C) + Bit(w \in C') - Bit(w \in C)
        /\ Cardinality(C) \in Nat /\ Cardinality(C') \in Nat
    BY <1>1, <1>3, OneDiffers
  <1>7. /\ Cardinality(O') = Cardinality(O) + Bit(w \in O') - Bit(w \in O)
        /\ Cardinality(O) \in Nat /\ Cardinality(O') \in Nat
    BY <1>1, <1>3, OneDiffers
  <1>8. /\ Cardinality(E') = Cardinality(E) + Bit(w \in E') - Bit(w \in E)
        /\ Cardinality(E) \in Nat /\ Cardinality(E') \in Nat
    BY <1>1, <1>3, OneDiffers
  <1>9. /\ reserved = Cardinality(R) + Cardinality(C) + Cardinality(O)
        /\ used = Cardinality(U) + Cardinality(C) + Cardinality(E)
    BY DEF ReservedIsExact, UsedIsExact
  <1>10. /\ (c \in R <=> Reserving(c)) /\ (c \in R' <=> Reserving(c)')
         /\ (c \in U <=> Using(c)) /\ (c \in U' <=> Using(c)')
         /\ (w \in C <=> Carrying(w)) /\ (w \in C' <=> Carrying(w)')
         /\ (w \in O <=> OwesCount(w)) /\ (w \in O' <=> OwesCount(w)')
         /\ (w \in E <=> OwesUse(w)) /\ (w \in E' <=> OwesUse(w)')
    OBVIOUS
  <1> HIDE DEF R, U, C, O, E
  <1>11. reserved' = Cardinality(R') + Cardinality(C') + Cardinality(O')
    BY <1>4, <1>6, <1>7, <1>9, <1>10 DEF Bit
  <1>12. used' = Cardinality(U') + Cardinality(C') + Cardinality(E')
    BY <1>5, <1>6, <1>8, <1>9, <1>10 DEF Bit
  <1> QED BY <1>11, <1>12 DEF ReservedIsExact, UsedIsExact, R, U, C, O, E

(* A count is no less than the slots of a handler and of a checkout.       *)
LEMMA CountsCover ==
    ASSUME ReservedIsExact, UsedIsExact, NEW w \in Workers, NEW c \in Checkouts
    PROVE  /\ reserved >= Bit(Reserving(c)) + Bit(Carrying(w)) + Bit(OwesCount(w))
           /\ used >= Bit(Using(c)) + Bit(Carrying(w)) + Bit(OwesUse(w))
  <1>3. IsFiniteSet(Checkouts) /\ IsFiniteSet(Workers)
    BY CheckoutAssumption, FS_Union DEF Workers
  <1> DEFINE R == {d \in Checkouts : Reserving(d)}    U == {d \in Checkouts : Using(d)}
             C == {v \in Workers : Carrying(v)}
             O == {v \in Workers : OwesCount(v)}      E == {v \in Workers : OwesUse(v)}
  <1>4. Cardinality(R) \in Nat /\ Cardinality(R) >= Bit(c \in R)
    BY <1>3, OneDiffers
  <1>5. Cardinality(U) \in Nat /\ Cardinality(U) >= Bit(c \in U)
    BY <1>3, OneDiffers
  <1>6. Cardinality(C) \in Nat /\ Cardinality(C) >= Bit(w \in C)
    BY <1>3, OneDiffers
  <1>7. Cardinality(O) \in Nat /\ Cardinality(O) >= Bit(w \in O)
    BY <1>3, OneDiffers
  <1>8. Cardinality(E) \in Nat /\ Cardinality(E) >= Bit(w \in E)
    BY <1>3, OneDiffers
  <1>9. /\ reserved = Cardinality(R) + Cardinality(C) + Cardinality(O)
        /\ used = Cardinality(U) + Cardinality(C) + Cardinality(E)
    BY DEF ReservedIsExact, UsedIsExact
  <1>10. /\ c \in R <=> Reserving(c)
         /\ c \in U <=> Using(c)
         /\ w \in C <=> Carrying(w)
         /\ w \in O <=> OwesCount(w)
         /\ w \in E <=> OwesUse(w)
    OBVIOUS
  <1> HIDE DEF R, U, C, O, E
  <1> QED BY <1>4, <1>5, <1>6, <1>7, <1>8, <1>9, <1>10 DEF Bit

(* The slots of the handler and of its checkout stay.                      *)
OwnSlotsKept(w, c) ==
    /\ (GivesBack(w, c)' <=> GivesBack(w, c)) \/ ~Holding(c)
    /\ Carrying(w)' <=> Carrying(w)
    /\ OwesCount(w)' <=> OwesCount(w)
    /\ OwesUse(w)' <=> OwesUse(w)

(* Then so do the counts.                                                  *)
LEMMA CountsStay ==
    ASSUME IInv, Exact, NEW w \in Workers, NEW c \in Checkouts, NEW k, Moves(w, c, k),
           \A d \in Checkouts : SlotsKept(d), OwnSlotsKept(w, c), UNCHANGED <<used, reserved>>
    PROVE  ReservedIsExact' /\ UsedIsExact'
  <1>1. VoucherKept(w, c) /\ \A d \in Checkouts \ {c} : db'[d].voucher = db[d].voucher
    BY DEF VoucherKept, SlotsKept
  <1>2. OthersGive(w, c)' <=> OthersGive(w, c)
    BY <1>1, OthersKeepSlots DEF OthersGive, Exact
  <1>3. Reserving(c)' <=> Reserving(c)
    BY <1>2, ReservingIs DEF OwnSlotsKept, SlotsKept
  <1>4. Using(c)' <=> Using(c)
    BY <1>3 DEF Using, SlotsKept
  <1>5. /\ Bit(Reserving(c)') - Bit(Reserving(c)) = 0
        /\ Bit(Using(c)') - Bit(Using(c)) = 0
        /\ Bit(Carrying(w)') - Bit(Carrying(w)) = 0
        /\ Bit(OwesCount(w)') - Bit(OwesCount(w)) = 0
        /\ Bit(OwesUse(w)') - Bit(OwesUse(w)) = 0
    BY <1>3, <1>4 DEF OwnSlotsKept, Bit
  <1>6. used \in Nat /\ reserved \in Nat
    BY DEF IInv, TypeOK
  <1> QED BY <1>1, <1>5, <1>6, CountsMove DEF Exact

(* A step that writes nothing and leaves the slots where they are.         *)
LEMMA MovesOnly ==
    ASSUME IInv, Exact, NEW w \in Workers, NEW c \in Checkouts, NEW k, Moves(w, c, k),
           \A d \in Checkouts : Same(d), ~Answers(job[w]),
           \/ k.at = "idle"
           \/ ~At(w, "idle") /\ k.op = job[w].op
           \/ \A q : Companion(w, c, q) => Beside(q.op, k.op),
           k.at # "idle" => JobFits(c, k),
           OwnSlotsKept(w, c), UNCHANGED <<used, reserved>>
    PROVE  Exact'
  <1>1. Fits'
    BY Bystander DEF Exact
  <1>2. \A d \in Checkouts : SlotsKept(d)
    BY DEF Same, SlotsKept, Holding, Redeemed, Unstamped
  <1> QED BY <1>1, <1>2, CountsStay DEF Exact

(* The handler that takes a step, and its checkout.                        *)
LEMMA AtWork ==
    ASSUME IInv, Fits, NEW w \in Workers, ~At(w, "idle")
    PROVE  /\ job[w] \in Job /\ job[w].c \in Checkouts /\ On(w, job[w].c)
           /\ JobTrue(job[w]) /\ JobFits(job[w].c, job[w])
           /\ Alone(job[w].c) /\ CheckoutFits(job[w].c)
  BY DEF IInv, TypeOK, JobsTrue, JobTrue, At, On, Fits, FitsAt

(* The handler k goes on where j stopped.                                  *)
Follows(j, k) ==
    /\ k.op = j.op /\ k.c = j.c /\ k.sess = j.sess /\ k.refused = j.refused
    /\ k.disc = j.disc /\ k.status = j.status /\ k.todo = j.todo
    /\ k.claimed = j.claimed /\ k.inserted = j.inserted /\ k.won = j.won

(* A handler that goes to a label is what it was, at that label.           *)
LEMMA Goes ==
    ASSUME IInv, Fits, NEW w \in Workers, ~At(w, "idle"), NEW l \in Labels, Goto(w, l)
    PROVE  \E k : Moves(w, job[w].c, k) /\ k.at = l /\ Follows(job[w], k)
  <1>1. PICK k : k = [job[w] EXCEPT !.at = l]
    OBVIOUS
  <1>2. job[w] \in Job
    BY AtWork
  <1>3. k \in Job /\ k.at = l /\ Follows(job[w], k)
    BY <1>1, <1>2 DEF Job, Follows
  <1>4. job' = [job EXCEPT ![w] = k]
    BY ZenonT(60), <1>1 DEF Goto
  <1> QED BY <1>3, <1>4 DEF Moves, Follows

(* A handler that ends leaves its worker idle.                             *)
LEMMA Ends ==
    ASSUME NEW w \in Workers, ~At(w, "idle"), Finish(w)
    PROVE  \E k : /\ Moves(w, job[w].c, k)
                  /\ k.at = "idle" /\ k.op = "none" /\ ~k.refused
  <1>1. PICK k : k = Idle
    OBVIOUS
  <1>2. k \in Job /\ k.at = "idle" /\ k.op = "none" /\ k.refused = FALSE
    BY <1>1 DEF Idle, Job, Ops, Labels, NewSession, Session
  <1> QED BY <1>1, <1>2 DEF Moves, Finish

(* No slot is at the hands of a worker that begins, ends or idles.         *)
LEMMA IdleHoldsNothing ==
    ASSUME IInv, NEW w \in Workers, NEW c, NEW k, Moves(w, c, k)
    PROVE  /\ At(w, "idle") =>
                ~GivesBack(w, c) /\ ~Carrying(w) /\ ~OwesCount(w) /\ ~OwesUse(w)
           /\ k.at = "idle" =>
                ~GivesBack(w, c)' /\ ~Carrying(w)' /\ ~OwesCount(w)' /\ ~OwesUse(w)'
  <1>1. job'[w] = k
    BY OthersStay DEF IInv
  <1> QED BY <1>1 DEF GivesBack, Carrying, OwesCount, OwesUse, At, On

-----------------------------------------------------------------------------
(* The handlers that begin.                                                *)

(* A job k begins at checkout c.                                           *)
LEMMA Begins ==
    ASSUME IInv, Exact, NEW w \in Workers, NEW c \in Checkouts, NEW k \in Job,
           At(w, "idle"), job' = [job EXCEPT ![w] = k], k.c = c,
           \A d \in Checkouts : Same(d), UNCHANGED <<used, reserved>>,
           \A v \in Workers : On(v, c) => Beside(job[v].op, k.op),
           JobFits(c, k), k.at \notin {"look", "slot", "insert", "unslot", "uncount", "count"},
           k.op \in {"apply", "pay"} /\ k.at \in {"hold", "giveback", "cache", "save"} =>
             db[c].voucher = "reserved",
           k.op = "remove" /\ k.at = "cache" => ~Holding(c),
           k.at \notin {"save", "unhold"}, ~k.refused, k.op = "sweep" => k.at = "cas"
    PROVE  Exact'
  <1>1. Moves(w, c, k)
    BY DEF Moves
  <1>2. job'[w] = k
    BY <1>1, OthersStay DEF IInv
  <1>3. ~Answers(job[w])
    BY DEF Answers, At
  <1>4. \A q : Companion(w, c, q) => Beside(q.op, k.op)
    BY <1>1 DEF Companion, On, At, Moves
  <1>5. OwnSlotsKept(w, c)
    <2>1. ~GivesBack(w, c) /\ ~Carrying(w) /\ ~OwesCount(w) /\ ~OwesUse(w)
      BY <1>1, IdleHoldsNothing
    <2>2. ~Carrying(w)'
      <3>1. db'[c].voucher = db[c].voucher
        BY DEF Same
      <3> QED BY <1>2, <3>1 DEF Carrying
    <2>4. ~OwesCount(w)' /\ ~OwesUse(w)'
      BY <1>2 DEF OwesCount, OwesUse
    <2>3. ~GivesBack(w, c)' \/ ~Holding(c)
      BY <1>2 DEF GivesBack, On, At
    <2> QED BY <2>1, <2>2, <2>3, <2>4 DEF OwnSlotsKept
  <1> QED BY <1>1, <1>3, <1>4, <1>5, MovesOnly

(* A step that is no disorder.                                             *)
LEMMA NoStray == ASSUME NEW d, Stray(d), Orderly' PROVE Orderly /\ d = {}
  BY DEF Stray, Orderly

(* What a request or a refund reads when no other is at the checkout.      *)
LEMMA ReadIsStored ==
    ASSUME IInv, Fits, NEW c \in Checkouts,
           \A v \in Workers : On(v, c) => job[v].op \notin {"apply", "remove", "pay"}
    PROVE  Read(c).voucher = db[c].voucher
  <1>1. \A v \in Workers : On(v, c) => ~EditsCopies(c, job[v])
    <2>1. ASSUME NEW v \in Workers, On(v, c) PROVE ~EditsCopies(c, job[v])
      BY <2>1 DEF EditsCopies, Editing
    <2> QED BY <2>1
  <1>2. kv[c] = NONE \/ kv[c].voucher = db[c].voucher
    BY <1>1 DEF Fits, FitsAt, CheckoutFits, CopiesAgree
  <1> QED BY <1>2 DEF Read

(* A row that is held then is held for the reservation in D1.              *)
LEMMA HeldIsStored ==
    ASSUME Fits, NEW c \in Checkouts, usage[c][ClaimPart] = "reserved",
           \A v \in Workers : On(v, c) => job[v].op \in {"hook", "reconcile"}
    PROVE  db[c].voucher = "reserved"
  <1>1. \A v \in Workers : On(v, c) => ~HoldsRow(job[v])
    BY DEF HoldsRow
  <1> QED BY <1>1 DEF Fits, FitsAt, CheckoutFits, HeldIsReserved

(* A request finds webhooks and ticks at the checkout only, ...            *)
LEMMA AskedInOrder ==
    ASSUME IInv, Fits, NEW c \in Checkouts, NEW o, NEW s, Edits(c, o, s) = {}
    PROVE  /\ \A v \in Workers : On(v, c) => job[v].op \in {"hook", "reconcile"}
           /\ charge[c].st # "refunded"
           /\ (o = "pay" => s.voucher = "released") => Open(c)
  <1>1. ASSUME NEW v \in Workers, On(v, c) PROVE job[v].op \in {"hook", "reconcile"}
    <2>1. job[v].op \notin {"sweep", "refund", "apply", "remove", "pay"}
      BY <1>1 DEF Edits, Meets, Asking, Running, On
    <2>2. job[v] \in Job /\ JobFits(c, job[v])
      BY <1>1, AtWork DEF On
    <2> QED BY <2>1, <2>2 DEF Job, Ops, JobFits, OpFits
  <1>2. charge[c].st # "refunded"
    BY DEF Edits
  <1>3. (o = "pay" => s.voucher = "released") => charge[c].st \notin {"pending", "paid"}
    BY DEF Edits
  <1>4. charge[c].st \in {"none", "pending", "paid", "failed", "refunded"}
    BY DEF IInv, TypeOK
  <1> QED BY <1>1, <1>2, <1>3, <1>4 DEF Open

(* ... and a webhook or a tick no refund and no sweep.                     *)
LEMMA MetInOrder ==
    ASSUME NEW c, Meets(c) = {}
    PROVE  \A v \in Workers : On(v, c) => job[v].op \notin {"sweep", "refund"}
  BY DEF Meets, Running, On

(* What is in a job that begins.                                           *)
Fresh(k, o, l, c, s) ==
    /\ k.op = o /\ k.at = l /\ k.c = c /\ k.sess = s
    /\ ~k.refused /\ ~k.claimed /\ ~k.inserted /\ ~k.won

(* A worker that begins runs a fresh handler.                              *)
LEMMA FreshJob ==
    ASSUME NEW w \in Workers, NEW o \in Ops, NEW l \in Labels, NEW c \in Checkouts,
           NEW s \in Session, Begin(w, o, l, c, s)
    PROVE  \E k \in Job : /\ Fresh(k, o, l, c, s) /\ k.status = "none"
                          /\ job' = [job EXCEPT ![w] = k]
  <1>1. PICK k : k = [Idle EXCEPT !.op = o, !.at = l, !.c = c, !.sess = s]
    OBVIOUS
  <1>2. k \in Job /\ k.op = o /\ k.at = l /\ k.c = c /\ k.sess = s /\ k.status = "none"
    BY <1>1 DEF Idle, Job, NewSession, Session
  <1>3. ~k.refused /\ ~k.claimed /\ ~k.inserted /\ ~k.won
    BY <1>1 DEF Idle
  <1> QED BY <1>1, <1>2, <1>3 DEF Begin, Fresh

(* The shopper's requests.                                                 *)
LEMMA AskExact ==
    ASSUME IInv, Exact, Orderly', NEW w \in Workers, NEW c \in Checkouts,
           Apply(w, c) \/ Remove(w, c) \/ Pay(w, c)
    PROVE  Exact'
  <1>1. PICK s : s = Read(c)
    OBVIOUS
  <1>2. s \in Session
    BY <1>1, ReadIsTrue DEF IInv
  <1>3. PICK o \in {"apply", "remove", "pay"} :
          /\ Stray(Edits(c, o, s))
          /\ o = "apply" => Apply(w, c)
          /\ o = "remove" => Remove(w, c)
          /\ o = "pay" => Pay(w, c)
    BY <1>1 DEF Apply, Remove, Pay
  <1>4. Edits(c, o, s) = {}
    BY <1>3, NoStray
  <1>5. /\ \A v \in Workers : On(v, c) => job[v].op \in {"hook", "reconcile"}
        /\ charge[c].st # "refunded"
        /\ (o = "pay" => s.voucher = "released") => Open(c)
    BY <1>4, AskedInOrder DEF Exact
  <1>6. s.voucher = db[c].voucher
    BY <1>1, <1>5, ReadIsStored DEF Exact
  <1>7. usage[c][ClaimPart] = "reserved" => db[c].voucher = "reserved"
    BY <1>5, HeldIsStored DEF Exact
  <1>8. At(w, "idle") /\ UNCHANGED <<used, reserved>> /\ \A d \in Checkouts : Same(d)
    BY <1>3 DEF Apply, Remove, Pay, Ask, Begin, Same, voucherVars, sessionVars, ledgerVars
  <1>9. \A v \in Workers : On(v, c) => Beside(job[v].op, o)
    BY <1>5 DEF Beside
  <1>10. CASE Apply(w, c)
    <2>1. s.voucher = "none" /\ Begin(w, "apply", "claim", c, s)
      BY <1>1, <1>10 DEF Apply, Ask
    <2>2. Open(c)
      BY <1>1, <1>10, NoStray, AskedInOrder DEF Apply, Exact
    <2>3. PICK k \in Job : /\ Fresh(k, "apply", "claim", c, s) /\ k.status = "none"
                           /\ job' = [job EXCEPT ![w] = k]
      BY <1>2, <2>1, FreshJob DEF Ops, Labels
    <2>4. JobFits(c, k)
      <3>1. OpFits(k) /\ SlotFits(k) /\ PayFits(c, k)
        BY <2>3 DEF Fresh, OpFits, SlotFits, PayFits, Redeeming
      <3>2. VoucherFits(c, k)
        BY <1>6, <2>1, <2>3 DEF Fresh, VoucherFits, Redeeming
      <3>3. ChargeFits(c, k) /\ UsageFits(c, k)
        BY <1>5, <1>6, <1>7, <2>1, <2>2, <2>3 DEF Fresh, ChargeFits, UsageFits
      <3> QED BY <3>1, <3>2, <3>3 DEF JobFits
    <2>5. \A v \in Workers : On(v, c) => Beside(job[v].op, k.op)
      BY <1>5, <2>3 DEF Beside, Fresh
    <2> QED BY <1>8, <2>3, <2>4, <2>5, Begins DEF Fresh
  <1>11. CASE Remove(w, c)
    <2>1. PICK l \in {"release", "cache"}, t \in Session :
            /\ Begin(w, "remove", l, c, t) /\ t.voucher = "none"
            /\ l = "release" <=> s.voucher = "reserved"
      <3>1. PICK t : t = [s EXCEPT !.voucher = "none"]
        OBVIOUS
      <3>2. t \in Session /\ t.voucher = "none"
        BY <1>2, <3>1 DEF Session
      <3> QED BY <1>1, <1>11, <3>1, <3>2 DEF Remove, Ask
    <2>2. Open(c)
      BY <1>1, <1>11, NoStray, AskedInOrder DEF Remove, Exact
    <2>3. PICK k \in Job : /\ Fresh(k, "remove", l, c, t) /\ k.status = "none"
                           /\ job' = [job EXCEPT ![w] = k]
      BY <2>1, FreshJob DEF Ops, Labels
    <2>4. JobFits(c, k)
      <3>1. OpFits(k) /\ SlotFits(k) /\ PayFits(c, k)
        BY <2>3 DEF Fresh, OpFits, SlotFits, PayFits, Redeeming
      <3>2. VoucherFits(c, k)
        BY <1>6, <2>1, <2>3 DEF Fresh, VoucherFits, Redeeming
      <3>3. ChargeFits(c, k) /\ UsageFits(c, k)
        BY <1>5, <1>6, <1>7, <2>1, <2>2, <2>3 DEF Fresh, ChargeFits, UsageFits
      <3> QED BY <3>1, <3>2, <3>3 DEF JobFits
    <2>5. \A v \in Workers : On(v, c) => Beside(job[v].op, k.op)
      BY <1>5, <2>3 DEF Beside, Fresh
    <2>6. k.at = "cache" => ~Holding(c)
      BY <1>6, <2>1, <2>3 DEF Holding, Fresh
    <2> QED BY <1>8, <2>3, <2>4, <2>5, <2>6, Begins DEF Fresh
  <1>12. CASE Pay(w, c)
    <2>1. PICK l \in {"charge", "cache", "claim"} :
            /\ Begin(w, "pay", l, c, s)
            /\ l = "charge" => s.voucher = "none"
            /\ l = "cache" => s.voucher = "reserved"
            /\ l = "claim" => s.voucher = "released"
      <3>1. s.voucher \in {"none", "reserved", "released"}
        BY <1>2 DEF Session
      <3> QED BY <1>1, <1>12, <3>1 DEF Pay, Ask
    <2>2. l = "claim" => Open(c)
      BY <1>1, <1>12, <2>1, NoStray, AskedInOrder DEF Pay, Exact
    <2>3. PICK k \in Job : /\ Fresh(k, "pay", l, c, s) /\ k.status = "none"
                           /\ job' = [job EXCEPT ![w] = k]
      BY <1>2, <2>1, FreshJob DEF Ops, Labels
    <2>4. JobFits(c, k)
      <3>1. OpFits(k) /\ SlotFits(k) /\ PayFits(c, k)
        BY <2>3 DEF Fresh, OpFits, SlotFits, PayFits, Redeeming
      <3>2. VoucherFits(c, k)
        BY <1>6, <2>1, <2>3 DEF Fresh, VoucherFits, Redeeming
      <3>3. ChargeFits(c, k) /\ UsageFits(c, k)
        <4>1. charge[c].st # "refunded"
          BY <1>1, <1>12, NoStray, AskedInOrder DEF Pay, Exact
        <4>2. Editing(c, k) => Open(c)
          BY <1>6, <2>1, <2>2, <2>3 DEF Editing, Fresh
        <4>3. UsageFits(c, k)
          BY <1>6, <1>7, <2>1, <2>3 DEF Fresh, UsageFits
        <4> QED BY <2>3, <4>1, <4>2, <4>3 DEF Fresh, ChargeFits
      <3> QED BY <3>1, <3>2, <3>3 DEF JobFits
    <2>5. \A v \in Workers : On(v, c) => Beside(job[v].op, k.op)
      BY <1>5, <2>3 DEF Beside, Fresh
    <2>6. k.at = "cache" => db[c].voucher = "reserved"
      BY <1>6, <2>1, <2>3 DEF Fresh
    <2> QED BY <1>8, <2>3, <2>4, <2>5, <2>6, Begins DEF Fresh
  <1> QED BY <1>10, <1>11, <1>12

(* The handlers that run behind the shopper.                               *)
LEMMA BackExact ==
    ASSUME IInv, Exact, Orderly', NEW w \in Workers, NEW c \in Checkouts,
           \/ Reconcile(w, c) \/ Refund(w, c) \/ Sweep(w, c)
           \/ \E e \in Events : Hook(w, c, e)
    PROVE  Exact'
  <1>1. At(w, "idle") /\ UNCHANGED <<used, reserved>> /\ \A d \in Checkouts : Same(d)
    BY DEF Reconcile, Refund, Sweep, Hook, Begin, Same, voucherVars, sessionVars, ledgerVars
  <1>2. CheckoutFits(c) /\ row[c].disc \in BOOLEAN /\ db[c] \in Session /\ Read(c) \in Session
    BY ReadIsTrue DEF Exact, Fits, FitsAt, IInv, TypeOK, Money
  <1>3. CASE Reconcile(w, c)
    <2>1. PICK k : k = [Idle EXCEPT !.op = "reconcile", !.at = "query", !.c = c,
                                    !.disc = row[c].disc]
      OBVIOUS
    <2>2. /\ k \in Job /\ k.op = "reconcile" /\ k.at = "query" /\ k.c = c
          /\ k.status = "none" /\ ~k.refused /\ ~k.inserted
      BY <1>2, <2>1 DEF Idle, Job, Ops, Labels, NewSession, Session
    <2>3. \A v \in Workers : On(v, c) => Beside(job[v].op, k.op)
      BY <1>3, <2>2, NoStray, MetInOrder DEF Reconcile, Beside
    <2>4. charge[c].st # "none"
      BY <1>2, <1>3 DEF Reconcile, CheckoutFits, AmountsAgree
    <2>5. JobFits(c, k)
      <3>1. OpFits(k) /\ SlotFits(k) /\ PayFits(c, k) /\ VoucherFits(c, k)
        BY <2>2 DEF OpFits, SlotFits, PayFits, VoucherFits, Redeeming
      <3>2. ChargeFits(c, k) /\ UsageFits(c, k)
        BY <2>2, <2>4 DEF ChargeFits, UsageFits, Editing
      <3> QED BY <3>1, <3>2 DEF JobFits
    <2> QED BY <1>1, <1>3, <2>1, <2>2, <2>3, <2>5, Begins DEF Reconcile
  <1>4. ASSUME NEW e \in Events, Hook(w, c, e) PROVE Exact'
    <2>1. PICK k : k = [Idle EXCEPT !.op = "hook", !.at = "find", !.c = c,
                                    !.status = EventStatus(e)]
      OBVIOUS
    <2>2. /\ k \in Job /\ k.op = "hook" /\ k.at = "find" /\ k.c = c
          /\ k.status \in {"paid", "failed", "refunded"} /\ ~k.refused /\ ~k.inserted
      BY <2>1 DEF Idle, Job, Ops, Labels, NewSession, Session, EventStatus, Events
    <2>3. \A v \in Workers : On(v, c) => Beside(job[v].op, k.op)
      BY <1>4, <2>2, NoStray, MetInOrder DEF Hook, Beside
    <2>4. JobFits(c, k)
      <3>1. OpFits(k) /\ SlotFits(k) /\ PayFits(c, k) /\ VoucherFits(c, k)
        BY <2>2 DEF OpFits, SlotFits, PayFits, VoucherFits, Redeeming
      <3>2. ChargeFits(c, k) /\ UsageFits(c, k)
        BY <2>2 DEF ChargeFits, UsageFits, Editing
      <3> QED BY <3>1, <3>2 DEF JobFits
    <2> QED BY <1>1, <1>4, <2>1, <2>2, <2>3, <2>4, Begins DEF Hook
  <1>5. CASE Refund(w, c)
    <2>1. PICK k : k = [Idle EXCEPT !.op = "refund", !.at = "callRefund", !.c = c,
                                    !.sess = Read(c), !.disc = row[c].disc]
      OBVIOUS
    <2>2. /\ k \in Job /\ k.op = "refund" /\ k.at = "callRefund" /\ k.c = c /\ k.sess = Read(c)
          /\ k.status = "none" /\ ~k.refused /\ ~k.inserted
      BY <1>2, <2>1 DEF Idle, Job, Ops, Labels
    <2>3. \A v \in Workers : ~On(v, c)
      BY <1>5, NoStray DEF Refund, Running, On
    <2>4. k.sess.voucher = db[c].voucher
      BY <2>2, <2>3, ReadIsStored DEF Exact
    <2>5. JobFits(c, k)
      <3>1. OpFits(k) /\ SlotFits(k) /\ PayFits(c, k) /\ VoucherFits(c, k)
        BY <2>2, <2>4 DEF OpFits, SlotFits, PayFits, VoucherFits, Redeeming
      <3>2. ChargeFits(c, k) /\ UsageFits(c, k)
        BY <2>2 DEF ChargeFits, UsageFits, Editing
      <3> QED BY <3>1, <3>2 DEF JobFits
    <2> QED BY <1>1, <1>5, <2>1, <2>2, <2>3, <2>5, Begins DEF Refund
  <1>6. CASE Sweep(w, c)
    <2>1. PICK k \in Job : /\ Fresh(k, "sweep", "cas", c, db[c]) /\ k.status = "none"
                           /\ job' = [job EXCEPT ![w] = k]
      BY <1>2, <1>6, FreshJob DEF Sweep, Ops, Labels
    <2>2. \A v \in Workers : ~On(v, c)
      BY <1>6, NoStray DEF Sweep, Running, On
    <2>3. kv[c] = NONE /\ ~Used(c)
      BY <1>2, <1>6, <2>2 DEF Sweep, CheckoutFits, IdleIsGone, UsedIsPaid
    <2>4. JobFits(c, k)
      <3>1. OpFits(k) /\ SlotFits(k) /\ PayFits(c, k)
        BY <2>1 DEF Fresh, OpFits, SlotFits, PayFits, Redeeming
      <3>2. VoucherFits(c, k)
        BY <1>6, <2>1, <2>3 DEF Fresh, Sweep, VoucherFits, Redeeming
      <3>3. ChargeFits(c, k) /\ UsageFits(c, k)
        BY <2>1 DEF Fresh, ChargeFits, UsageFits, Editing
      <3> QED BY <3>1, <3>2, <3>3 DEF JobFits
    <2> QED BY <1>1, <2>1, <2>2, <2>4, Begins DEF Fresh
  <1> QED BY <1>3, <1>4, <1>5, <1>6

-----------------------------------------------------------------------------
(* The steps that only read.                                               *)

(* A handler with no slot at hand ends.                                    *)
LEMMA EndsExact ==
    ASSUME IInv, Exact, NEW w \in Workers, NEW c, c = job[w].c, ~At(w, "idle"), Finish(w),
           \A d \in Checkouts : Same(d), ~Answers(job[w]), UNCHANGED <<used, reserved>>,
           ~GivesBack(w, c), ~Carrying(w), ~OwesCount(w), ~OwesUse(w)
    PROVE  Exact'
  <1>1. PICK k : Moves(w, c, k) /\ k.at = "idle"
    BY Ends
  <1>2. c \in Checkouts
    BY AtWork DEF Exact
  <1>3. ~GivesBack(w, c)' /\ ~Carrying(w)' /\ ~OwesCount(w)' /\ ~OwesUse(w)'
    BY <1>1, IdleHoldsNothing
  <1>4. OwnSlotsKept(w, c)
    BY <1>3 DEF OwnSlotsKept
  <1> QED BY <1>1, <1>2, <1>4, MovesOnly

(* No slot is at hand where webhooks, ticks and refunds begin.             *)
LEMMA NoSlotAtHand ==
    ASSUME NEW w \in Workers, NEW c,
           \/ job[w].at \in {"find", "query", "row", "session", "cached", "putBack", "settle",
                             "load", "flip", "charge", "settleRefund", "callRefund", "cas",
                             "mark", "fully"}
           \/ job[w].at = "look" /\ ~(job[w].won /\ job[w].sess.voucher = "reserved"),
           job[w].op \notin {"remove"}, ~job[w].refused
    PROVE  ~GivesBack(w, c) /\ ~Carrying(w) /\ ~OwesCount(w) /\ ~OwesUse(w)
  BY DEF GivesBack, Carrying, OwesCount, OwesUse

(* Such a handler goes on as k.                                            *)
LEMMA GoesExact ==
    ASSUME IInv, Exact, NEW w \in Workers, NEW c, c = job[w].c, ~At(w, "idle"),
           NEW k, Moves(w, c, k), k.at # "idle", k.op = job[w].op, JobFits(c, k),
           \A d \in Checkouts : Same(d), ~Answers(job[w]), UNCHANGED <<used, reserved>>,
           ~GivesBack(w, c), ~Carrying(w), ~OwesUse(w),
           k.op \notin {"remove", "sweep"},
           k.refused /\ k.at \in {"put", "persist", "unhold"} => ~Holding(c),
           k.at \notin {"hold", "giveback", "cache", "save", "unslot", "uncount"},
           k.at = "insert" => ~k.claimed,
           OwesCount(w) <=> /\ k.at \in {"look", "slot", "insert", "count"}
                            /\ k.won /\ k.sess.voucher = "reserved"
    PROVE  Exact'
  <1>1. job'[w] = k
    BY OthersStay DEF IInv
  <1>2. c \in Checkouts
    BY AtWork DEF Exact
  <1>3. OwnSlotsKept(w, c)
    <2>1. ~GivesBack(w, c)' \/ ~Holding(c)
      BY <1>1 DEF GivesBack, On, At
    <2>2. ~Carrying(w)'
      BY <1>1 DEF Carrying
    <2>3. ~OwesUse(w)' /\ (OwesCount(w)' <=> OwesCount(w))
      BY <1>1 DEF OwesUse, OwesCount
    <2> QED BY <2>1, <2>2, <2>3 DEF OwnSlotsKept
  <1> QED BY <1>2, <1>3, MovesOnly

(* The row of the payment is found.                                        *)
LEMMA FindExact ==
    ASSUME IInv, Exact, NEW w \in Workers, Find(w) PROVE Exact'
  <1>1. PICK c, j : c = job[w].c /\ j = job[w]
    OBVIOUS
  <1>2. /\ j.at = "find" /\ ~At(w, "idle") /\ c \in Checkouts /\ j \in Job /\ j.c = c
        /\ JobTrue(j) /\ JobFits(c, j) /\ j.op \in {"hook", "reconcile"} /\ ~j.refused
    BY <1>1, AtWork DEF Find, At, Exact, JobFits, OpFits, JobTrue
  <1>3. ~GivesBack(w, c) /\ ~Carrying(w) /\ ~OwesCount(w) /\ ~OwesUse(w) /\ ~Answers(job[w])
    BY <1>1, <1>2, NoSlotAtHand DEF Answers
  <1>4. UNCHANGED <<used, reserved>> /\ \A d \in Checkouts : Same(d)
    BY DEF Find, Same, voucherVars, sessionVars, ledgerVars
  <1>5. CASE Finish(w)
    BY <1>1, <1>2, <1>3, <1>4, <1>5, EndsExact
  <1>6. CASE job' = [job EXCEPT ![w].at = "row", ![w].disc = row[c].disc]
    <2>1. PICK k : k = [j EXCEPT !.at = "row", !.disc = row[c].disc]
      OBVIOUS
    <2>2. row[c].disc \in BOOLEAN
      BY <1>2 DEF IInv, TypeOK, Money
    <2>3. /\ k \in Job /\ k.at = "row" /\ k.c = c /\ k.op = j.op /\ k.sess = j.sess
          /\ ~k.refused /\ k.status = j.status /\ k.inserted = j.inserted
      BY <1>2, <2>1, <2>2 DEF Job, Labels
    <2>4. Moves(w, c, k)
      BY ZenonT(60), <1>1, <1>6, <2>1, <2>3 DEF Moves
    <2>5. JobFits(c, k)
      <3>1. OpFits(k) /\ SlotFits(k) /\ VoucherFits(c, k)
        BY <1>2, <2>3 DEF JobFits, OpFits, SlotFits, VoucherFits, Redeeming
      <3>2. PayFits(c, k) /\ ChargeFits(c, k) /\ UsageFits(c, k)
        BY <1>2, <2>3 DEF JobFits, PayFits, ChargeFits, UsageFits, Editing, OpFits, Redeeming
      <3> QED BY <3>1, <3>2 DEF JobFits
    <2> QED BY <1>1, <1>2, <1>3, <1>4, <2>3, <2>4, <2>5, GoesExact
  <1> QED BY <1>1, <1>5, <1>6 DEF Find

(* The provider is asked.                                                  *)
LEMMA QueryExact ==
    ASSUME IInv, Exact, NEW w \in Workers, Query(w) PROVE Exact'
  <1>1. PICK c, j : c = job[w].c /\ j = job[w]
    OBVIOUS
  <1>2. /\ j.at = "query" /\ ~At(w, "idle") /\ c \in Checkouts /\ j \in Job /\ j.c = c
        /\ JobTrue(j) /\ JobFits(c, j) /\ j.op \in {"hook", "reconcile"} /\ ~j.refused
    BY <1>1, AtWork DEF Query, At, Exact, JobFits, OpFits, JobTrue
  <1>3. ~GivesBack(w, c) /\ ~Carrying(w) /\ ~OwesCount(w) /\ ~OwesUse(w) /\ ~Answers(job[w])
    BY <1>1, <1>2, NoSlotAtHand DEF Answers
  <1>4. UNCHANGED <<used, reserved>> /\ \A d \in Checkouts : Same(d)
    BY DEF Query, Same, voucherVars, sessionVars, ledgerVars
  <1>5. CASE Finish(w)
    BY <1>1, <1>2, <1>3, <1>4, <1>5, EndsExact
  <1>6. CASE job' = [job EXCEPT ![w].at = "row", ![w].status = charge[c].st]
    <2>1. PICK k : k = [j EXCEPT !.at = "row", !.status = charge[c].st]
      OBVIOUS
    <2>2. charge[c].st \in {"none", "pending", "paid", "failed", "refunded"}
      BY <1>2 DEF IInv, TypeOK
    <2>3. /\ k \in Job /\ k.at = "row" /\ k.c = c /\ k.op = j.op /\ k.sess = j.sess
          /\ ~k.refused /\ k.status = charge[c].st /\ k.inserted = j.inserted
      BY <1>2, <2>1, <2>2 DEF Job, Labels
    <2>4. Moves(w, c, k)
      BY ZenonT(60), <1>1, <1>6, <2>1, <2>3 DEF Moves
    <2>5. JobFits(c, k)
      <3>1. OpFits(k) /\ SlotFits(k) /\ VoucherFits(c, k)
        BY <1>2, <2>3 DEF JobFits, OpFits, SlotFits, VoucherFits, Redeeming
      <3>2. PayFits(c, k) /\ ChargeFits(c, k) /\ UsageFits(c, k)
        BY <1>2, <2>2, <2>3 DEF JobFits, PayFits, ChargeFits, UsageFits, Editing, OpFits, Redeeming
      <3> QED BY <3>1, <3>2 DEF JobFits
    <2> QED BY <1>1, <1>2, <1>3, <1>4, <2>3, <2>4, <2>5, GoesExact
  <1> QED BY <1>1, <1>5, <1>6 DEF Query

(* The copies agree once the money came: no voucher is edited then.        *)
LEMMA PaidCopiesAgree ==
    ASSUME IInv, Fits, NEW c \in Checkouts, ~Open(c)
    PROVE  kv[c] = NONE \/ kv[c].voucher = db[c].voucher
  <1>1. ASSUME NEW v \in Workers, On(v, c) PROVE ~EditsCopies(c, job[v])
    <2>1. JobFits(c, job[v])
      BY <1>1 DEF Fits, FitsAt
    <2> QED BY <2>1 DEF JobFits, ChargeFits, EditsCopies
  <1> QED BY <1>1 DEF Fits, FitsAt, CheckoutFits, CopiesAgree

(* The voucher to redeem is loaded.                                        *)
LEMMA LoadExact ==
    ASSUME IInv, Exact, NEW w \in Workers, Load(w) PROVE Exact'
  <1>1. PICK c, j : c = job[w].c /\ j = job[w]
    OBVIOUS
  <1>2. /\ j.at = "load" /\ ~At(w, "idle") /\ c \in Checkouts /\ j \in Job /\ j.c = c
        /\ JobTrue(j) /\ JobFits(c, j) /\ j.op \in {"hook", "reconcile"} /\ ~j.refused
    BY <1>1, AtWork DEF Load, At, Exact, JobFits, OpFits, JobTrue
  <1>3. ~GivesBack(w, c) /\ ~Carrying(w) /\ ~OwesCount(w) /\ ~OwesUse(w) /\ ~Answers(job[w])
    BY <1>1, <1>2, NoSlotAtHand DEF Answers
  <1>4. UNCHANGED <<used, reserved>> /\ \A d \in Checkouts : Same(d)
    BY DEF Load, Same, voucherVars, sessionVars, ledgerVars
  <1>5. CASE Finish(w)
    BY <1>1, <1>2, <1>3, <1>4, <1>5, EndsExact
  <1>6. ASSUME NEW v, v = db[c].voucher,
               job' = [job EXCEPT ![w].at = "flip", ![w].sess.voucher = v]
        PROVE  Exact'
    <2>1. PICK k : k = [j EXCEPT !.at = "flip", !.sess = [j.sess EXCEPT !.voucher = v]]
      OBVIOUS
    <2>2. j.sess \in Session /\ v \in {"none", "reserved", "released"}
      BY <1>2, <1>6 DEF IInv, TypeOK, Job, Session
    <2>3. /\ k \in Job /\ k.at = "flip" /\ k.c = c /\ k.op = j.op /\ k.sess.voucher = v
          /\ ~k.refused /\ k.status = j.status /\ k.inserted = j.inserted
      BY <1>2, <2>1, <2>2 DEF Job, Labels, Session
    <2>4. Moves(w, c, k)
      <3>1. job' = [job EXCEPT ![w] = k]
        BY <1>1, <1>6, <2>1
      <3> QED BY <1>1, <2>3, <3>1 DEF Moves
    <2>5. JobFits(c, k)
      <3>1. OpFits(k) /\ SlotFits(k) /\ VoucherFits(c, k)
        BY <1>2, <1>6, <2>3 DEF JobFits, OpFits, SlotFits, VoucherFits, Redeeming
      <3>2. PayFits(c, k) /\ ChargeFits(c, k) /\ UsageFits(c, k)
        BY <1>2, <2>3 DEF JobFits, PayFits, ChargeFits, UsageFits, Editing, OpFits, Redeeming
      <3> QED BY <3>1, <3>2 DEF JobFits
    <2> QED BY <1>1, <1>2, <1>3, <1>4, <2>3, <2>4, <2>5, GoesExact
  <1>7. ~Open(c)
    BY <1>2 DEF JobTrue, Paying, Took, Open
  <1>8. kv[c] = NONE \/ kv[c].voucher = db[c].voucher
    BY <1>2, <1>7, PaidCopiesAgree DEF Exact
  <1> QED BY <1>1, <1>5, <1>6, <1>8 DEF Load

(* A redemption looks for rows, when there are rows for all orders ...     *)
LEMMA LookExact ==
    ASSUME IInv, Exact, NEW w \in Workers, Look(w) PROVE Exact'
  <1>1. PICK c, j : c = job[w].c /\ j = job[w]
    OBVIOUS
  <1>2. /\ j.at = "look" /\ ~At(w, "idle") /\ c \in Checkouts /\ j \in Job /\ j.c = c
        /\ JobTrue(j) /\ JobFits(c, j) /\ j.op \in {"pay", "hook", "reconcile"} /\ ~j.refused
    BY <1>1, AtWork DEF Look, At, Exact, JobFits, OpFits, JobTrue, Redeeming
  <1>3. ~GivesBack(w, c) /\ ~Carrying(w) /\ ~OwesUse(w) /\ ~Answers(job[w])
    BY <1>1, <1>2 DEF GivesBack, Carrying, OwesUse, Answers
  <1>4. UNCHANGED <<used, reserved>> /\ \A d \in Checkouts : Same(d)
    BY DEF Look, Same, voucherVars, sessionVars, ledgerVars
  <1>5. OwesCount(w) <=> j.won /\ j.sess.voucher = "reserved"
    BY <1>1, <1>2 DEF OwesCount
  <1>6. CASE Finish(w) /\ ~OwesCount(w)
    BY <1>1, <1>2, <1>3, <1>4, <1>6, EndsExact
  <1>7. CASE Goto(w, "count") /\ OwesCount(w)
    <2>1. PICK k : Moves(w, c, k) /\ k.at = "count" /\ Follows(j, k)
      BY <1>1, <1>2, <1>7, Goes DEF Labels, Exact
    <2>2. JobFits(c, k)
      <3>1. OpFits(k) /\ SlotFits(k) /\ VoucherFits(c, k)
        BY <1>2, <1>5, <1>7, <2>1
           DEF Follows, JobFits, OpFits, SlotFits, VoucherFits, Redeeming
      <3>2. PayFits(c, k) /\ ChargeFits(c, k) /\ UsageFits(c, k)
        BY <1>2, <2>1
           DEF Follows, JobFits, PayFits, ChargeFits, UsageFits, Editing, OpFits, Redeeming
      <3> QED BY <3>1, <3>2 DEF JobFits
    <2> QED BY <1>1, <1>2, <1>3, <1>4, <1>5, <1>7, <2>1, <2>2, GoesExact DEF Follows
  <1>8. ASSUME NEW claimed \in BOOLEAN, claimed = (Live(c) = {} /\ j.sess.voucher # "reserved"),
               job' = [job EXCEPT ![w].at = IF claimed THEN "slot" ELSE "insert",
                                  ![w].todo = Parts \ Live(c), ![w].claimed = claimed]
        PROVE  Exact'
    <2>1. PICK k : k = [j EXCEPT !.at = IF claimed THEN "slot" ELSE "insert",
                                 !.todo = Parts \ Live(c), !.claimed = claimed]
      OBVIOUS
    <2>2. /\ k \in Job /\ k.at \in {"slot", "insert"} /\ k.c = c /\ k.op = j.op
          /\ k.sess = j.sess /\ k.refused = j.refused /\ k.status = j.status
          /\ k.inserted = j.inserted /\ k.won = j.won
          /\ k.todo = Parts \ Live(c) /\ k.claimed = claimed
          /\ k.at = "slot" <=> claimed
      <3>1. PICK l \in {"slot", "insert"} : /\ l = IF claimed THEN "slot" ELSE "insert"
                                            /\ l = "slot" <=> claimed
        OBVIOUS
      <3>2. k = [j EXCEPT !.at = l, !.todo = Parts \ Live(c), !.claimed = claimed]
        BY <2>1, <3>1
      <3>3. /\ k.at = l /\ k.c = c /\ k.op = j.op /\ k.sess = j.sess
            /\ k.refused = j.refused /\ k.status = j.status
            /\ k.inserted = j.inserted /\ k.won = j.won
            /\ k.todo = Parts \ Live(c) /\ k.claimed = claimed
        BY <1>2, <3>2 DEF Job
      <3>4. l \in Labels /\ Parts \ Live(c) \in SUBSET Parts
        BY <3>1 DEF Labels
      <3> HIDE DEF Labels
      <3>5. k \in Job
        BY ZenonT(60), <1>2, <1>8, <3>2, <3>4 DEF Job
      <3> QED BY <3>1, <3>3, <3>5
    <2>3. Moves(w, c, k)
      BY ZenonT(60), <1>1, <1>8, <2>1, <2>2 DEF Moves
    <2>4. ClaimPart \notin k.todo => usage[c][ClaimPart] # "none"
      BY <2>2, CheckoutAssumption DEF Live
    <2>5. usage[c][ClaimPart] \in {"none", "reserved", "active", "refunded"}
      BY <1>2, CheckoutAssumption DEF IInv, TypeOK
    <2>6. ClaimPart \in k.todo => Live(c) = {}
      BY <1>2, <2>2, CheckoutAssumption
         DEF Live, Exact, Fits, FitsAt, CheckoutFits, ClaimIsFirst, Used
    <2>7. JobFits(c, k)
      <3>1. OpFits(k) /\ VoucherFits(c, k)
        BY <1>2, <2>2 DEF JobFits, OpFits, VoucherFits, Redeeming
      <3>2. SlotFits(k)
        BY <1>2, <1>8, <2>2, <2>6 DEF JobFits, SlotFits
      <3>3. UsageFits(c, k)
        BY <1>2, <2>2, <2>4, <2>5 DEF JobFits, UsageFits, Used
      <3>4. PayFits(c, k) /\ ChargeFits(c, k)
        BY <1>2, <2>2 DEF JobFits, PayFits, ChargeFits, Editing, OpFits, Redeeming
      <3> QED BY <3>1, <3>2, <3>3, <3>4 DEF JobFits
    <2> QED BY <1>1, <1>2, <1>3, <1>4, <1>5, <2>2, <2>3, <2>7, GoesExact
  <1>9. CASE Then(w, Last(w, job[w].won))
    BY <1>1, <1>5, <1>6, <1>7, <1>9 DEF Then, Last
  <1> QED BY <1>1, <1>8, <1>9 DEF Look

(* The orders are settled; what a handler with nothing at hand does then.  *)
LEMMA SettleExact ==
    ASSUME IInv, Exact, NEW w \in Workers, Settle(w) PROVE Exact'
  <1>1. PICK c, j : c = job[w].c /\ j = job[w]
    OBVIOUS
  <1>2. /\ j.at = "settle" /\ ~At(w, "idle") /\ c \in Checkouts /\ j \in Job /\ j.c = c
        /\ JobTrue(j) /\ JobFits(c, j) /\ j.op \in {"pay", "hook", "reconcile"} /\ ~j.refused
    BY <1>1, AtWork DEF Settle, At, Exact, JobFits, OpFits, JobTrue
  <1>3. ~GivesBack(w, c) /\ ~Carrying(w) /\ ~OwesCount(w) /\ ~OwesUse(w) /\ ~Answers(job[w])
    BY <1>1, <1>2, NoSlotAtHand DEF Answers
  <1>4. UNCHANGED <<used, reserved>> /\ \A d \in Checkouts : Same(d)
    BY DEF Settle, PayOrders, Same, voucherVars, sessionVars, ledgerVars
  <1>5. CASE Finish(w)
    BY <1>1, <1>2, <1>3, <1>4, <1>5, EndsExact
  <1>6. ASSUME NEW l \in {"load", "flip"}, Goto(w, l), l = "load" <=> j.op # "pay"
        PROVE  Exact'
    <2>1. PICK k : Moves(w, c, k) /\ k.at = l /\ Follows(j, k)
      BY <1>1, <1>2, <1>6, Goes DEF Labels, Exact
    <2>2. JobFits(c, k)
      <3>1. OpFits(k) /\ SlotFits(k) /\ VoucherFits(c, k)
        BY <1>2, <1>6, <2>1 DEF Follows, JobFits, OpFits, SlotFits, VoucherFits, Redeeming
      <3>2. PayFits(c, k) /\ ChargeFits(c, k) /\ UsageFits(c, k)
        BY <1>2, <1>6, <2>1
           DEF Follows, JobFits, PayFits, ChargeFits, UsageFits, Editing, OpFits, Redeeming
      <3> QED BY <3>1, <3>2 DEF JobFits
    <2> QED BY <1>1, <1>2, <1>3, <1>4, <1>6, <2>1, <2>2, GoesExact DEF Follows
  <1>7. CASE PayOrders(w)
    BY <1>1, <1>5, <1>6, <1>7 DEF PayOrders
  <1>8. CASE Shares(w) # job[w].disc /\ Goto(w, "load")
    BY <1>1, <1>6, <1>8 DEF Shares
  <1> QED BY <1>7, <1>8 DEF Settle

(* The orders are refunded, and a refund goes on to the uses.              *)
LEMMA SettleRefundExact ==
    ASSUME IInv, Exact, NEW w \in Workers, SettleRefund(w) PROVE Exact'
  <1>1. PICK c, j : c = job[w].c /\ j = job[w]
    OBVIOUS
  <1>2. /\ j.at = "settleRefund" /\ ~At(w, "idle") /\ c \in Checkouts /\ j \in Job /\ j.c = c
        /\ JobTrue(j) /\ JobFits(c, j) /\ j.op \in {"hook", "reconcile", "refund"} /\ ~j.refused
    BY <1>1, AtWork DEF SettleRefund, At, Exact, JobFits, OpFits, JobTrue
  <1>3. ~GivesBack(w, c) /\ ~Carrying(w) /\ ~OwesCount(w) /\ ~OwesUse(w) /\ ~Answers(job[w])
    BY <1>1, <1>2, NoSlotAtHand DEF Answers
  <1>4. UNCHANGED <<used, reserved>> /\ \A d \in Checkouts : Same(d)
    BY DEF SettleRefund, Same, voucherVars, sessionVars
  <1>5. CASE Finish(w)
    BY <1>1, <1>2, <1>3, <1>4, <1>5, EndsExact
  <1>6. CASE j.op = "refund" /\ Goto(w, "mark")
    <2>1. PICK k : Moves(w, c, k) /\ k.at = "mark" /\ Follows(j, k)
      BY <1>1, <1>2, <1>6, Goes DEF Labels, Exact
    <2>2. JobFits(c, k)
      <3>1. OpFits(k) /\ SlotFits(k) /\ VoucherFits(c, k)
        BY <1>2, <1>6, <2>1 DEF Follows, JobFits, OpFits, SlotFits, VoucherFits, Redeeming
      <3>2. PayFits(c, k) /\ ChargeFits(c, k) /\ UsageFits(c, k)
        BY <1>2, <1>6, <2>1
           DEF Follows, JobFits, PayFits, ChargeFits, UsageFits, Editing, OpFits, Redeeming
      <3> QED BY <3>1, <3>2 DEF JobFits
    <2> QED BY <1>1, <1>2, <1>3, <1>4, <1>6, <2>1, <2>2, GoesExact DEF Follows
  <1> QED BY <1>1, <1>5, <1>6 DEF SettleRefund

(* A handler is stopped in an orderly behaviour before it wrote anything.  *)
LEMMA StopExact ==
    ASSUME IInv, Exact, Orderly', NEW w \in Workers, Stop(w) \/ StoreFails(w) PROVE Exact'
  <1>1. PICK c, j : c = job[w].c /\ j = job[w]
    OBVIOUS
  <1>2. Stop(w) /\ j.at \in {"find", "query", "row"}
    <2>1. ~StoreFails(w)
      BY NoStray DEF StoreFails
    <2> QED BY <1>1, <2>1, NoStray DEF Stop
  <1>3. /\ ~At(w, "idle") /\ j.op \in {"hook", "reconcile"} /\ ~j.refused
    BY <1>1, <1>2, AtWork DEF At, Exact, JobFits, OpFits, JobTrue
  <1>4. ~GivesBack(w, c) /\ ~Carrying(w) /\ ~OwesCount(w) /\ ~OwesUse(w) /\ ~Answers(job[w])
    BY <1>1, <1>2, <1>3, NoSlotAtHand DEF Answers
  <1>5. UNCHANGED <<used, reserved>> /\ \A d \in Checkouts : Same(d)
    BY <1>2 DEF Stop, Same, voucherVars, sessionVars, ledgerVars
  <1> QED BY <1>1, <1>2, <1>3, <1>4, <1>5, EndsExact DEF Stop

-----------------------------------------------------------------------------
(* The steps that move a slot.                                             *)

(* A slot moves between the handler and the counts.                        *)
LEMMA SlotMoves ==
    ASSUME IInv, Exact, NEW w \in Workers, NEW c \in Checkouts, NEW k, Moves(w, c, k),
           \A d \in Checkouts : SlotsKept(d),
           (GivesBack(w, c)' <=> GivesBack(w, c)) \/ ~Holding(c),
           reserved' = reserved + (Bit(Carrying(w)') - Bit(Carrying(w)))
                                + (Bit(OwesCount(w)') - Bit(OwesCount(w))),
           used' = used + (Bit(Carrying(w)') - Bit(Carrying(w)))
                        + (Bit(OwesUse(w)') - Bit(OwesUse(w)))
    PROVE  ReservedIsExact' /\ UsedIsExact'
  <1>1. VoucherKept(w, c) /\ \A d \in Checkouts \ {c} : db'[d].voucher = db[d].voucher
    BY DEF VoucherKept, SlotsKept
  <1>2. OthersGive(w, c)' <=> OthersGive(w, c)
    BY <1>1, OthersKeepSlots DEF OthersGive, Exact
  <1>3. Reserving(c)' <=> Reserving(c)
    BY <1>2, ReservingIs DEF SlotsKept
  <1>4. Using(c)' <=> Using(c)
    BY <1>3 DEF Using, SlotsKept
  <1>5. Bit(Reserving(c)') - Bit(Reserving(c)) = 0 /\ Bit(Using(c)') - Bit(Using(c)) = 0
    BY <1>3, <1>4 DEF Bit
  <1>6. used \in Nat /\ reserved \in Nat
    BY DEF IInv, TypeOK
  <1> QED BY <1>1, <1>5, <1>6, CountsMove DEF Exact

(* Nothing else of the checkout changes.                                   *)
LEMMA SameSlots == ASSUME NEW d, Same(d) PROVE SlotsKept(d)
  BY DEF Same, SlotsKept, Holding, Redeemed, Unstamped

(* A slot is claimed, ...                                                  *)
LEMMA ClaimExact ==
    ASSUME IInv, Exact, NEW w \in Workers, ClaimSlot(w) PROVE Exact'
  <1>1. PICK c, j : c = job[w].c /\ j = job[w]
    OBVIOUS
  <1>2. /\ j.at = "claim" /\ ~At(w, "idle") /\ c \in Checkouts /\ j \in Job /\ j.c = c
        /\ JobTrue(j) /\ JobFits(c, j) /\ j.op \in {"apply", "pay"} /\ ~j.refused
    BY <1>1, AtWork DEF ClaimSlot, At, Exact, JobFits, OpFits, JobTrue
  <1>3. ~GivesBack(w, c) /\ ~Carrying(w) /\ ~OwesCount(w) /\ ~OwesUse(w) /\ ~Answers(job[w])
    BY <1>1, <1>2 DEF Answers, GivesBack, Carrying, OwesCount, OwesUse
  <1>4. \A d \in Checkouts : Same(d)
    BY DEF ClaimSlot, Same, sessionVars, ledgerVars
  <1>5. CASE Finish(w) /\ UNCHANGED <<used, reserved>>
    BY <1>1, <1>2, <1>3, <1>4, <1>5, EndsExact
  <1>6. CASE /\ used' = used + 1 /\ reserved' = reserved + 1
             /\ job' = [job EXCEPT ![w].at = IF PerUser THEN "hold" ELSE "cache",
                                   ![w].sess.voucher = "reserved"]
    <2>1. PICK k : k = [j EXCEPT !.at = IF PerUser THEN "hold" ELSE "cache",
                                 !.sess = [j.sess EXCEPT !.voucher = "reserved"]]
      OBVIOUS
    <2>2. /\ k \in Job /\ k.at \in {"hold", "cache"} /\ k.c = c /\ k.op = j.op
          /\ k.sess.voucher = "reserved" /\ k.sess.pay = j.sess.pay
          /\ k.refused = j.refused /\ k.status = j.status /\ k.inserted = j.inserted
          /\ k.at = "hold" => PerUser
      BY <1>2, <2>1 DEF Job, Labels, Session
    <2>3. Moves(w, c, k)
      <3>1. job' = [job EXCEPT ![w] = k]
        BY <1>1, <1>6, <2>1
      <3> QED BY <1>1, <2>2, <3>1 DEF Moves
    <2>4. JobFits(c, k)
      <3>1. OpFits(k) /\ SlotFits(k)
        BY <1>2, <2>2 DEF JobFits, OpFits, SlotFits, Redeeming
      <3>2. VoucherFits(c, k)
        BY <1>2, <2>2 DEF JobFits, VoucherFits, Redeeming
      <3>3. PayFits(c, k) /\ ChargeFits(c, k)
        BY <1>2, <2>2 DEF JobFits, PayFits, ChargeFits, Editing, Redeeming
      <3>4. UsageFits(c, k)
        BY <1>2, <2>2 DEF JobFits, UsageFits
      <3> QED BY <3>1, <3>2, <3>3, <3>4 DEF JobFits
    <2>5. Fits'
      BY <1>1, <1>2, <1>3, <1>4, <2>2, <2>3, <2>4, Bystander DEF Exact
    <2>6. job'[w] = k /\ db'[c] = db[c]
      <3>1. job'[w] = k
        BY <2>3, OthersStay DEF IInv
      <3> QED BY <1>2, <1>4, <3>1 DEF Same
    <2>7. ~GivesBack(w, c)' /\ Carrying(w)' /\ ~OwesCount(w)' /\ ~OwesUse(w)'
      <3>1. db[c].voucher # "reserved"
        BY <1>2 DEF JobFits, VoucherFits
      <3> QED BY <1>2, <2>2, <2>6, <3>1 DEF GivesBack, Carrying, OwesCount, OwesUse
    <2>8. used \in Nat /\ reserved \in Nat
      BY DEF IInv, TypeOK
    <2>9. ReservedIsExact' /\ UsedIsExact'
      BY <1>2, <1>3, <1>4, <1>6, <2>3, <2>7, <2>8, SameSlots, SlotMoves DEF Bit
    <2> QED BY <2>5, <2>9 DEF Exact
  <1> QED BY <1>1, <1>5, <1>6 DEF ClaimSlot

(* ... and given back by a handler that ends.                              *)
LEMMA DropExact ==
    ASSUME IInv, Exact, NEW w \in Workers, ~At(w, "idle"), Finish(w),
           \A d \in Checkouts : Same(d), ~Answers(job[w]), job[w].op # "remove", ~job[w].refused,
           reserved' = IF Carrying(w) \/ OwesCount(w) THEN Less(reserved) ELSE reserved,
           used' = IF Carrying(w) \/ OwesUse(w) THEN Less(used) ELSE used,
           ~(Carrying(w) /\ (OwesCount(w) \/ OwesUse(w)))
    PROVE  Exact'
  <1>1. PICK c : c = job[w].c
    OBVIOUS
  <1>2. PICK k : Moves(w, c, k) /\ k.at = "idle"
    BY <1>1, Ends
  <1>3. c \in Checkouts
    BY <1>1, AtWork DEF Exact
  <1>4. ~GivesBack(w, c)' /\ ~Carrying(w)' /\ ~OwesCount(w)' /\ ~OwesUse(w)'
    BY <1>2, IdleHoldsNothing
  <1>5. ~GivesBack(w, c)
    BY DEF GivesBack
  <1>6. Fits'
    BY <1>2, <1>3, Bystander DEF Exact
  <1>7. used \in Nat /\ reserved \in Nat
    BY DEF IInv, TypeOK
  <1>8. /\ Carrying(w) \/ OwesCount(w) => reserved > 0
        /\ Carrying(w) \/ OwesUse(w) => used > 0
    <2>1. PICK r, u, a, o, e \in {0, 1} :
            /\ r = Bit(Reserving(c)) /\ u = Bit(Using(c)) /\ a = Bit(Carrying(w))
            /\ o = Bit(OwesCount(w)) /\ e = Bit(OwesUse(w))
      BY DEF Bit
    <2>2. reserved >= r + a + o /\ used >= u + a + e
      BY <1>3, <2>1, CountsCover DEF Exact
    <2>3. (Carrying(w) => a = 1) /\ (OwesCount(w) => o = 1) /\ (OwesUse(w) => e = 1)
      BY <2>1 DEF Bit
    <2> QED BY <1>7, <2>2, <2>3
  <1>9. /\ reserved' = reserved + (Bit(Carrying(w)') - Bit(Carrying(w)))
                                + (Bit(OwesCount(w)') - Bit(OwesCount(w)))
        /\ used' = used + (Bit(Carrying(w)') - Bit(Carrying(w)))
                        + (Bit(OwesUse(w)') - Bit(OwesUse(w)))
    BY <1>4, <1>7, <1>8 DEF Bit, Less
  <1>10. ReservedIsExact' /\ UsedIsExact'
    BY <1>2, <1>3, <1>4, <1>5, <1>9, SameSlots, SlotMoves
  <1> QED BY <1>6, <1>10 DEF Exact

(* A slot the handler holds is given back, or counted as used.             *)
LEMMA GiveBackExact ==
    ASSUME IInv, Exact, NEW w \in Workers,
           GiveBack(w) \/ Unslot(w) \/ CountPaid(w) \/ Uncount(w)
    PROVE  Exact'
  <1>1. PICK c, j : c = job[w].c /\ j = job[w]
    OBVIOUS
  <1>2. /\ j.at \in {"giveback", "unslot", "count", "uncount"} /\ ~At(w, "idle")
        /\ c \in Checkouts /\ j \in Job /\ j.c = c
        /\ JobTrue(j) /\ JobFits(c, j) /\ ~j.refused /\ j.op # "remove" /\ ~Answers(j)
    <2>1. j.at \in {"giveback", "unslot", "count", "uncount"} /\ ~At(w, "idle")
      BY <1>1 DEF GiveBack, Unslot, CountPaid, Uncount, At
    <2>2. c \in Checkouts /\ j \in Job /\ j.c = c /\ JobTrue(j) /\ JobFits(c, j)
      BY <1>1, <2>1, AtWork DEF Exact
    <2> QED BY <2>1, <2>2 DEF JobTrue, JobFits, OpFits, Redeeming, Answers
  <1>3. \A d \in Checkouts : Same(d)
    BY DEF GiveBack, Unslot, CountPaid, Uncount, Same, sessionVars, ledgerVars
  <1>4. CASE GiveBack(w)
    <2>1. j.at = "giveback" /\ j.op \in {"apply", "pay"} /\ db[c].voucher # "reserved"
      BY <1>1, <1>2, <1>4 DEF GiveBack, At, JobFits, OpFits, VoucherFits
    <2>2. Carrying(w) /\ ~OwesCount(w) /\ ~OwesUse(w)
      BY <1>1, <2>1 DEF Carrying, OwesCount, OwesUse
    <2> QED BY <1>1, <1>2, <1>3, <1>4, <2>2, DropExact DEF GiveBack
  <1>5. CASE Unslot(w)
    <2>1. j.at = "unslot" /\ j.sess.voucher # "reserved"
      BY <1>1, <1>2, <1>5 DEF Unslot, At, JobFits, SlotFits
    <2>2. ~Carrying(w) /\ ~OwesCount(w) /\ OwesUse(w)
      BY <1>1, <2>1 DEF Carrying, OwesCount, OwesUse
    <2>3. Finish(w)
      BY <1>1, <1>5, <2>1 DEF Unslot, Then, Last
    <2> QED BY <1>1, <1>2, <1>3, <1>5, <2>2, <2>3, DropExact DEF Unslot
  <1>6. CASE CountPaid(w)
    <2>1. j.at = "count" /\ j.won /\ j.sess.voucher = "reserved"
      BY <1>1, <1>2, <1>6 DEF CountPaid, At, JobFits, SlotFits
    <2>2. ~Carrying(w) /\ OwesCount(w) /\ ~OwesUse(w)
      BY <1>1, <2>1 DEF Carrying, OwesCount, OwesUse
    <2> QED BY <1>1, <1>2, <1>3, <1>6, <2>2, DropExact DEF CountPaid
  <1>7. CASE Uncount(w)
    <2>1. j.at = "uncount"
      BY <1>1, <1>7 DEF Uncount, At
    <2>2. ~Carrying(w) /\ ~OwesCount(w) /\ OwesUse(w)
      BY <1>1, <2>1 DEF Carrying, OwesCount, OwesUse
    <2> QED BY <1>1, <1>2, <1>3, <1>7, <2>2, DropExact DEF Uncount
  <1> QED BY <1>4, <1>5, <1>6, <1>7

(* A redemption without a reservation takes a slot.                        *)
LEMMA SlotExact ==
    ASSUME IInv, Exact, NEW w \in Workers, Slot(w) PROVE Exact'
  <1>1. PICK c, j : c = job[w].c /\ j = job[w]
    OBVIOUS
  <1>2. /\ j.at = "slot" /\ ~At(w, "idle") /\ c \in Checkouts /\ j \in Job /\ j.c = c
        /\ JobTrue(j) /\ JobFits(c, j) /\ j.op \in {"pay", "hook", "reconcile"} /\ ~j.refused
    BY <1>1, AtWork DEF Slot, At, Exact, JobFits, OpFits, JobTrue, Redeeming
  <1>3. j.claimed /\ ~j.inserted /\ j.sess.voucher # "reserved"
    BY <1>2 DEF JobFits, SlotFits
  <1>4. ~GivesBack(w, c) /\ ~Carrying(w) /\ ~OwesCount(w) /\ ~OwesUse(w) /\ ~Answers(job[w])
    BY <1>1, <1>2, <1>3 DEF Answers, GivesBack, Carrying, OwesCount, OwesUse
  <1>5. \A d \in Checkouts : Same(d)
    BY DEF Slot, Same, sessionVars, ledgerVars
  <1>6. CASE Finish(w) /\ used' = used /\ reserved' = reserved
    BY <1>1, <1>2, <1>4, <1>5, <1>6, EndsExact
  <1>7. CASE used' = used + 1 /\ reserved' = reserved /\ Goto(w, "insert")
    <2>1. PICK k : Moves(w, c, k) /\ k.at = "insert" /\ Follows(j, k)
      BY <1>1, <1>2, <1>7, Goes DEF Labels, Exact
    <2>2. JobFits(c, k)
      <3>1. OpFits(k) /\ SlotFits(k) /\ VoucherFits(c, k)
        BY <1>2, <2>1 DEF Follows, JobFits, OpFits, SlotFits, VoucherFits, Redeeming
      <3>2. PayFits(c, k) /\ ChargeFits(c, k) /\ UsageFits(c, k)
        BY <1>2, <2>1
           DEF Follows, JobFits, PayFits, ChargeFits, UsageFits, Editing, OpFits, Redeeming
      <3> QED BY <3>1, <3>2 DEF JobFits
    <2>3. Fits'
      BY <1>1, <1>2, <1>4, <1>5, <2>1, <2>2, Bystander DEF Exact, Follows
    <2>4. job'[w] = k
      BY <2>1, OthersStay DEF IInv
    <2>5. ~GivesBack(w, c)' /\ ~Carrying(w)' /\ ~OwesCount(w)' /\ OwesUse(w)'
      BY <1>2, <1>3, <2>1, <2>4 DEF Follows, GivesBack, Carrying, OwesCount, OwesUse
    <2>6. used \in Nat /\ reserved \in Nat
      BY DEF IInv, TypeOK
    <2>7. ReservedIsExact' /\ UsedIsExact'
      BY <1>2, <1>4, <1>5, <1>7, <2>1, <2>5, <2>6, SameSlots, SlotMoves DEF Bit
    <2> QED BY <2>3, <2>7 DEF Exact
  <1> QED BY <1>6, <1>7 DEF Slot

(* A request that gives the reservation back is alone among requests.      *)
LEMMA AloneGives ==
    ASSUME IInv, Exact, NEW w \in Workers, NEW c \in Checkouts, On(w, c),
           job[w].op \in {"apply", "remove", "pay", "refund", "sweep"}
    PROVE  ~OthersGive(w, c)
  <1>1. ASSUME NEW v \in Workers \ {w}, GivesBack(v, c) PROVE FALSE
    <2>1. On(v, c) /\ job[v].op \in {"remove", "pay"}
      <3>1. On(v, c) /\ (job[v].op = "remove" \/ job[v].refused)
        BY <1>1 DEF GivesBack
      <3>2. JobTrue(job[v]) /\ job[v].at # "idle"
        BY <3>1 DEF IInv, JobsTrue, On, At
      <3> QED BY <3>1, <3>2 DEF JobTrue
    <2> QED BY <2>1 DEF Exact, Fits, FitsAt, Alone, Beside
  <1> QED BY <1>1 DEF OthersGive

(* The counts go down for a reservation D1 shows, or showed the sweep.     *)
LEMMA ReleaseExact ==
    ASSUME IInv, Exact, NEW w \in Workers, Release(w) PROVE Exact'
  <1>1. PICK c, j : c = job[w].c /\ j = job[w]
    OBVIOUS
  <1>2. /\ j.at = "release" /\ ~At(w, "idle") /\ c \in Checkouts /\ j \in Job /\ j.c = c
        /\ JobTrue(j) /\ JobFits(c, j) /\ On(w, c) /\ CheckoutFits(c)
        /\ \/ j.op \in {"remove", "sweep"} /\ ~j.refused
           \/ j.op = "pay" /\ j.refused
    BY <1>1, AtWork DEF Release, At, Exact, JobFits, OpFits, JobTrue
  <1>3. \A d \in Checkouts : Same(d)
    BY DEF Release, Same, sessionVars, ledgerVars
  <1>4. ~PerUser => usage[c][ClaimPart] # "reserved"
    BY <1>2 DEF CheckoutFits, HeldIsReserved
  <1>5. PICK k : /\ Moves(w, c, k)
                 /\ IF PerUser THEN k.at = "unhold" /\ Follows(j, k)
                    ELSE \/ j.op = "remove" /\ k.at = "cache" /\ Follows(j, k)
                         \/ j.refused /\ k.at = "put" /\ Follows(j, k)
                         \/ j.op = "sweep" /\ k.at = "idle" /\ k.op = "none" /\ ~k.refused
    <2>1. CASE PerUser /\ Goto(w, "unhold")
      BY <1>1, <1>2, <2>1, Goes DEF Labels, Exact
    <2>2. CASE ~PerUser /\ Goto(w, "cache") /\ j.op = "remove"
      BY <1>1, <1>2, <2>2, Goes DEF Labels, Exact
    <2>3. CASE ~PerUser /\ Goto(w, "put") /\ j.refused
      BY <1>1, <1>2, <2>3, Goes DEF Labels, Exact
    <2>4. CASE ~PerUser /\ Finish(w) /\ j.op = "sweep"
      BY <1>1, <1>2, <2>4, Ends
    <2> QED BY <1>1, <1>2, <2>1, <2>2, <2>3, <2>4 DEF Release, Back
  <1>6. job'[w] = k
    BY <1>5, OthersStay DEF IInv
  <1>7. k.at # "idle" => JobFits(c, k)
    <2> SUFFICES ASSUME k.at # "idle" PROVE JobFits(c, k)
      OBVIOUS
    <2>1. OpFits(k) /\ SlotFits(k)
      BY <1>2, <1>5 DEF Follows, JobFits, OpFits, SlotFits, Redeeming
    <2>2. VoucherFits(c, k)
      BY <1>2, <1>5 DEF Follows, JobFits, VoucherFits, Redeeming
    <2>3. PayFits(c, k)
      BY <1>2, <1>5 DEF Follows, JobFits, PayFits, Redeeming
    <2>4. ChargeFits(c, k)
      BY <1>2, <1>5 DEF Follows, JobFits, ChargeFits, Editing
    <2>5. UsageFits(c, k)
      BY <1>2, <1>4, <1>5 DEF Follows, JobFits, UsageFits
    <2> QED BY <2>1, <2>2, <2>3, <2>4, <2>5 DEF JobFits
  <1>8. Fits'
    <2>1. k.at = "idle" \/ k.op = j.op
      BY <1>5 DEF Follows
    <2>2. ~Answers(j) \/ (j.op = "sweep" /\ ReleasesOn(j, k))
      BY <1>2, <1>5 DEF Answers, ReleasesOn, HoldsRow, Follows
    <2> QED BY <1>1, <1>2, <1>3, <1>5, <1>7, <2>1, <2>2, Bystander DEF Exact
  <1>9. used \in Nat /\ reserved \in Nat
    BY DEF IInv, TypeOK
  <1>10. /\ ~OwesCount(w) /\ ~OwesUse(w) /\ ~OwesCount(w)' /\ ~OwesUse(w)' /\ ~GivesBack(w, c)
         /\ ~OthersGive(w, c) /\ ~OthersGive(w, c)'
    <2>1. ~OwesCount(w) /\ ~OwesUse(w) /\ ~OwesCount(w)' /\ ~OwesUse(w)' /\ ~GivesBack(w, c)
      BY <1>1, <1>2, <1>5, <1>6 DEF OwesCount, OwesUse, GivesBack, Follows
    <2>2. ~OthersGive(w, c)
      BY <1>1, <1>2, AloneGives
    <2>3. VoucherKept(w, c) /\ \A d \in Checkouts \ {c} : db'[d].voucher = db[d].voucher
      BY <1>2, <1>3 DEF VoucherKept, Same
    <2>4. ~OthersGive(w, c)'
      BY <1>2, <1>5, <2>2, <2>3, OthersKeepSlots DEF OthersGive, Exact
    <2> QED BY <2>1, <2>2, <2>4
  <1>11. CASE j.op = "sweep"
    <2>1. Carrying(w) /\ ~Carrying(w)' /\ ~GivesBack(w, c)'
      BY <1>1, <1>2, <1>5, <1>6, <1>11 DEF Carrying, GivesBack, Follows
    <2>2. reserved >= 1 /\ used >= 1
      <3>1. PICK r, u \in {0, 1} : r = Bit(Reserving(c)) /\ u = Bit(Using(c))
        BY DEF Bit
      <3>2. reserved >= r + 1 + 0 /\ used >= u + 1 + 0
        BY <1>2, <1>10, <2>1, <3>1, CountsCover DEF Exact, Bit
      <3> QED BY <1>9, <3>2
    <2>3. used' = used - 1 /\ reserved' = reserved - 1
      BY <1>9, <2>2 DEF Release, Less
    <2>4. ReservedIsExact' /\ UsedIsExact'
      BY <1>2, <1>3, <1>5, <1>9, <1>10, <2>1, <2>3, SameSlots, SlotMoves DEF Bit
    <2> QED BY <1>8, <2>4 DEF Exact
  <1>12. CASE j.op \in {"remove", "pay"}
    <2>1. ~Carrying(w) /\ ~Carrying(w)' /\ GivesBack(w, c)'
      BY <1>1, <1>2, <1>5, <1>6, <1>12, <1>3 DEF Carrying, GivesBack, Follows, On, At, Same
    <2>2. Holding(c) /\ ~Redeemed(c) /\ ~Unstamped(c)
      <3>1. db[c].voucher = "reserved" /\ Open(c)
        BY <1>2, <1>12 DEF JobFits, VoucherFits, ChargeFits, Editing
      <3>2. usage[c][ClaimPart] \in {"none", "reserved"}
        BY SMTT(30), <1>2, <3>1, CheckoutAssumption DEF IInv, TypeOK, UsesAreOfPaidCheckouts, Open
      <3> QED BY <3>1, <3>2 DEF Holding, Redeemed, Unstamped
    <2>3. Reserving(c) /\ Using(c) /\ ~Reserving(c)'
      BY <1>10, <2>1, <2>2, ReservingIs DEF Using
    <2>4. ~Using(c)'
      BY <1>2, <1>3, <2>2, <2>3, SameSlots DEF Using, SlotsKept
    <2>5. reserved >= 1 + 0 + 0 /\ used >= 1 + 0 + 0
      BY <1>2, <1>10, <2>1, <2>3, CountsCover DEF Exact, Bit
    <2>6. used' = used - 1 /\ reserved' = reserved - 1
      BY <1>9, <2>5 DEF Release, Less
    <2>7. VoucherKept(w, c) /\ \A d \in Checkouts \ {c} : SlotsKept(d)
      BY <1>2, <1>3, SameSlots DEF VoucherKept, Same
    <2>8. ReservedIsExact' /\ UsedIsExact'
      BY <1>2, <1>5, <1>9, <1>10, <2>1, <2>3, <2>4, <2>6, <2>7, CountsMove DEF Exact, Bit
    <2> QED BY <1>8, <2>8 DEF Exact
  <1> QED BY <1>2, <1>11, <1>12

-----------------------------------------------------------------------------
(* The steps that move the charge.                                         *)

(* What the invariant reads of a checkout, apart from the charge.          *)
SameButCharge(d) ==
    /\ usage'[d] = usage[d] /\ row'[d] = row[d] /\ kv'[d] = kv[d] /\ db'[d] = db[d]
    /\ d \in idle' <=> d \in idle
    /\ <<d, ClaimPart>> \in countReleased' <=> <<d, ClaimPart>> \in countReleased

(* A step that writes the charge only, and leaves the slots where they     *)
(* are.                                                                    *)
LEMMA ChargeMoves ==
    ASSUME IInv, Exact, NEW w \in Workers, NEW c \in Checkouts, NEW k, Moves(w, c, k),
           ~At(w, "idle"), k.op = job[w].op, ~Answers(job[w]),
           \A d \in Checkouts \ {c} : Same(d), SameButCharge(c),
           AmountsAgree(c)', JobFits(c, k)', OwnSlotsKept(w, c), UNCHANGED <<used, reserved>>,
           \A q : Companion(w, c, q) => JobFits(c, q)'
    PROVE  Exact'
  <1>1. CheckoutFits(c)
    BY DEF Exact, Fits, FitsAt
  <1>2. CopiesAgree(c)'
    BY <1>1, CopiesKept DEF Answers, EditsCopies, SameButCharge, CheckoutFits, IInv
  <1>3. HeldIsReserved(c)' /\ ClaimIsFirst(c)'
    BY <1>1, HeldKept, ClaimKept
       DEF Answers, HoldsRow, Stamping, SameButCharge, CheckoutFits, IInv
  <1>4. UsedIsPaid(c)' /\ PaidIsTold(c)'
    BY <1>1, UsedKept, ToldKept DEF Answers, Telling, SameButCharge, CheckoutFits, IInv
  <1>5. IdleIsGone(c)'
    BY <1>1, IdleKept DEF Answers, Storing, SameButCharge, CheckoutFits, IInv
  <1>6. CheckoutFits(c)'
    BY <1>2, <1>3, <1>4, <1>5 DEF CheckoutFits
  <1>7. Fits'
    BY <1>6, AtHome DEF Exact
  <1>8. ASSUME NEW d \in Checkouts PROVE SlotsKept(d)
    <2>1. CASE d = c
      BY <2>1 DEF SameButCharge, SlotsKept, Holding, Redeemed, Unstamped
    <2> QED BY <2>1, SameSlots
  <1>9. ReservedIsExact' /\ UsedIsExact'
    BY <1>8, CountsStay
  <1> QED BY <1>7, <1>9 DEF Exact

(* What a handler is after the provider answered, ...                      *)
LEMMA AnsweredMoves ==
    ASSUME IInv, Exact, NEW w \in Workers, At(w, "charge"), NEW st \in {"pending", "paid"},
           Answered(w, st)
    PROVE  \E k : /\ Moves(w, job[w].c, k) /\ k.at = "put" /\ k.op = job[w].op
                  /\ k.sess.pay = st /\ k.sess.voucher = job[w].sess.voucher
                  /\ k.disc = (job[w].sess.voucher # "none")
                  /\ k.refused = job[w].refused /\ k.status = job[w].status
                  /\ k.inserted = job[w].inserted
  <1>0. job[w] \in Job
    BY DEF IInv, TypeOK
  <1>1. PICK k : k = [job[w] EXCEPT !.sess = [job[w].sess EXCEPT !.pay = st], !.at = "put",
                                    !.disc = job[w].sess.voucher # "none"]
    OBVIOUS
  <1>s. /\ [job[w].sess EXCEPT !.pay = st] \in Session
        /\ [job[w].sess EXCEPT !.pay = st].pay = st
        /\ [job[w].sess EXCEPT !.pay = st].voucher = job[w].sess.voucher
    BY <1>0 DEF Job, Session
  <1>2. /\ k \in Job /\ k.at = "put" /\ k.c = job[w].c /\ k.op = job[w].op
        /\ k.sess = [job[w].sess EXCEPT !.pay = st]
        /\ k.refused = job[w].refused /\ k.status = job[w].status
        /\ k.inserted = job[w].inserted
    BY ZenonT(60), <1>0, <1>1, <1>s DEF Job, Labels
  <1>3. k.disc = (job[w].sess.voucher # "none")
    BY ZenonT(60), <1>0, <1>1 DEF Job
  <1>4. job' = [job EXCEPT ![w] = k]
    BY <1>1 DEF Answered
  <1> QED BY <1>s, <1>2, <1>3, <1>4 DEF Moves

(* ... and after it refused.                                               *)
LEMMA RefusedMoves ==
    ASSUME IInv, Exact, NEW w \in Workers, Refused(w)
    PROVE  \E k : /\ Moves(w, job[w].c, k) /\ k.op = job[w].op /\ k.refused
                  /\ IF job[w].sess.voucher = "reserved"
                     THEN k.at = "release" /\ k.sess.voucher = "released"
                     ELSE k.at = "put" /\ k.sess.voucher = job[w].sess.voucher
                  /\ k.status = job[w].status /\ k.inserted = job[w].inserted
  <1>0. job[w] \in Job /\ job[w].sess \in Session /\ job \in [Workers -> Job]
    BY DEF IInv, TypeOK, Job
  <1>1. CASE job[w].sess.voucher = "reserved"
    <2>1. PICK k : k = [job[w] EXCEPT !.sess = [job[w].sess EXCEPT !.pay = "failed",
                                                                  !.voucher = "released"],
                             !.disc = FALSE, !.at = "release", !.refused = TRUE]
      OBVIOUS
    <2>2. /\ k \in Job /\ k.at = "release" /\ k.c = job[w].c /\ k.op = job[w].op
          /\ k.sess.voucher = "released" /\ k.refused /\ k.status = job[w].status
          /\ k.inserted = job[w].inserted
      <3>1. /\ k.at = "release" /\ k.c = job[w].c /\ k.op = job[w].op
            /\ k.sess = [job[w].sess EXCEPT !.pay = "failed", !.voucher = "released"]
            /\ k.refused = TRUE /\ k.status = job[w].status
            /\ k.inserted = job[w].inserted
        BY <1>0, <2>1 DEF Job
      <3>2. k.sess \in Session /\ k.sess.voucher = "released"
        BY <1>0, <3>1 DEF Session
      <3>3. k \in Job
        BY ZenonT(60), <1>0, <2>1, <3>1, <3>2 DEF Job, Labels
      <3> QED BY <3>1, <3>2, <3>3
    <2>3. job' = [job EXCEPT ![w].sess.pay = "failed", ![w].disc = FALSE,
                             ![w].sess.voucher = "released", ![w].at = "release",
                             ![w].refused = TRUE]
      BY <1>1 DEF Refused
    <2>4. job' = [job EXCEPT ![w] = k]
      BY ZenonT(60), <1>0, <2>1, <2>3
    <2> QED BY <1>1, <2>2, <2>4 DEF Moves
  <1>2. CASE job[w].sess.voucher # "reserved"
    <2>1. PICK k : k = [job[w] EXCEPT !.sess = [job[w].sess EXCEPT !.pay = "failed",
                                                  !.voucher = job[w].sess.voucher],
                             !.disc = FALSE, !.at = "put", !.refused = TRUE]
      OBVIOUS
    <2>2. /\ k \in Job /\ k.at = "put" /\ k.c = job[w].c /\ k.op = job[w].op
          /\ k.sess.voucher = job[w].sess.voucher /\ k.refused /\ k.status = job[w].status
          /\ k.inserted = job[w].inserted
      <3>1. /\ k.at = "put" /\ k.c = job[w].c /\ k.op = job[w].op
            /\ k.sess = [job[w].sess EXCEPT !.pay = "failed", !.voucher = job[w].sess.voucher]
            /\ k.refused = TRUE /\ k.status = job[w].status
            /\ k.inserted = job[w].inserted
        BY <1>0, <2>1 DEF Job
      <3>2. k.sess \in Session /\ k.sess.voucher = job[w].sess.voucher
        BY <1>0, <3>1 DEF Session
      <3>3. k \in Job
        BY ZenonT(60), <1>0, <2>1, <3>1, <3>2 DEF Job, Labels
      <3> QED BY <3>1, <3>2, <3>3
    <2>3. job' = [job EXCEPT ![w].sess.pay = "failed", ![w].disc = FALSE,
                             ![w].sess.voucher = job[w].sess.voucher, ![w].at = "put",
                             ![w].refused = TRUE]
      BY <1>2 DEF Refused
    <2>4. job' = [job EXCEPT ![w] = k]
      BY ZenonT(60), <1>0, <2>1, <2>3
    <2> QED BY <1>2, <2>2, <2>4 DEF Moves
  <1> QED BY <1>1, <1>2

(* The provider is charged.                                                *)
LEMMA ChargeExact ==
    ASSUME IInv, IInv', Exact, Orderly', NEW w \in Workers, Charge(w) PROVE Exact'
  <1>1. PICK c, j : c = job[w].c /\ j = job[w]
    OBVIOUS
  <1>2. /\ j.at = "charge" /\ ~At(w, "idle") /\ c \in Checkouts /\ j \in Job /\ j.c = c
        /\ JobTrue(j) /\ JobFits(c, j) /\ j.op = "pay" /\ ~j.refused
        /\ On(w, c) /\ CheckoutFits(c) /\ Alone(c)
    BY <1>1, AtWork DEF Charge, At, Exact, JobFits, OpFits, JobTrue
  <1>3. ~GivesBack(w, c) /\ ~Carrying(w) /\ ~OwesCount(w) /\ ~OwesUse(w) /\ ~Answers(job[w])
    BY <1>1, <1>2, NoSlotAtHand DEF Answers
  <1>4. /\ UNCHANGED <<used, reserved>> /\ \A d \in Checkouts : SameButCharge(d)
        /\ j.sess.voucher = db[c].voucher /\ j.sess \in Session
        /\ charge[c].st \in {"none", "pending", "paid", "failed"}
    <2>1. UNCHANGED <<used, reserved>> /\ \A d \in Checkouts : SameButCharge(d)
      BY DEF Charge, SameButCharge, voucherVars, sessionVars
    <2>2. charge[c].st \in {"none", "pending", "paid", "failed", "refunded"}
      BY <1>2 DEF IInv, TypeOK
    <2> QED BY <1>2, <2>1, <2>2 DEF JobFits, VoucherFits, ChargeFits, Job
  <1>5. ASSUME Refused(w), UNCHANGED charge, Open(c) PROVE Exact'
    <2>2. PICK k : /\ Moves(w, c, k) /\ k.op = j.op /\ k.refused
                   /\ IF j.sess.voucher = "reserved"
                      THEN k.at = "release" /\ k.sess.voucher = "released"
                      ELSE k.at = "put" /\ k.sess.voucher = j.sess.voucher
                   /\ k.status = j.status /\ k.inserted = j.inserted
      BY <1>1, <1>5, RefusedMoves
    <2>3. k \in Job /\ k.c = c /\ k.op = "pay"
      BY <1>2, <2>2 DEF Moves
    <2>5. Moves(w, c, k)
      BY <2>2
    <2>6. j.sess.voucher # "reserved" => usage[c][ClaimPart] # "reserved"
      <3> SUFFICES ASSUME j.sess.voucher # "reserved", usage[c][ClaimPart] = "reserved" PROVE FALSE
        OBVIOUS
      <3>1. PICK v \in Workers : On(v, c) /\ HoldsRow(job[v])
        BY <1>2, <1>4 DEF CheckoutFits, HeldIsReserved
      <3>2. v # w
        BY <1>1, <1>2, <3>1 DEF HoldsRow
      <3> QED BY <1>1, <1>2, <3>1, <3>2 DEF Alone, Beside, HoldsRow
    <2>7. JobFits(c, k)
      <3>1. OpFits(k) /\ SlotFits(k)
        BY <1>2, <2>2, <2>3 DEF JobFits, OpFits, SlotFits, Redeeming
      <3>2. VoucherFits(c, k)
        BY <1>2, <1>4, <2>2, <2>3 DEF VoucherFits, Redeeming
      <3>3. PayFits(c, k)
        BY <1>2, <2>2, <2>3 DEF JobFits, PayFits, Redeeming
      <3>4. ChargeFits(c, k)
        BY <1>2, <1>5, <2>2, <2>3 DEF ChargeFits, Open
      <3>5. UsageFits(c, k)
        BY <2>2, <2>3, <2>6 DEF UsageFits
      <3> QED BY <3>1, <3>2, <3>3, <3>4, <3>5 DEF JobFits
    <2>8. \A d \in Checkouts : Same(d)
      BY <1>4, <1>5 DEF Same, SameButCharge
    <2>9. k.at = "put" => ~Holding(c)
      BY <1>4, <2>2 DEF Holding
    <2>10. ~(k.at \in {"look", "slot", "insert", "count"})
      BY <2>2
    <2>11. k.at \notin {"hold", "giveback", "cache", "save", "unslot", "uncount", "persist",
                        "unhold", "idle", "insert"}
      BY <2>2
    <2> QED BY ONLY <1>1, <1>2, <1>3, <1>4, <2>2, <2>3, <2>5, <2>7, <2>8, <2>9, <2>10, <2>11,
                    GoesExact, IInv, Exact, w \in Workers
  <1>6. ASSUME NEW st \in {"pending", "paid"}, Answered(w, st),
               charge'[c].st # "none", charge'[c].st # "refunded",
               charge'[c].disc = (db[c].voucher # "none"),
               \A d \in Checkouts \ {c} : charge'[d] = charge[d],
               UNCHANGED charge \/ Open(c)
        PROVE  Exact'
    <2>1. PICK k : /\ Moves(w, c, k) /\ k.at = "put" /\ k.op = "pay"
                   /\ k.sess.pay = st /\ k.sess.voucher = j.sess.voucher
                   /\ k.disc = (j.sess.voucher # "none")
                   /\ ~k.refused /\ k.status = j.status /\ k.inserted = j.inserted
      BY <1>1, <1>2, <1>6, AnsweredMoves DEF At
    <2>2. db'[c] = db[c] /\ usage'[c] = usage[c] /\ row'[c] = row[c]
      BY <1>2, <1>4 DEF SameButCharge
    <2>3. JobFits(c, k)'
      <3>1. (OpFits(k) /\ SlotFits(k))'
        BY <1>2, <2>1 DEF JobFits, OpFits, SlotFits, Redeeming
      <3>2. VoucherFits(c, k)'
        BY <1>4, <2>1, <2>2 DEF VoucherFits, Redeeming
      <3>3. PayFits(c, k)'
        BY <1>6, <2>1, <2>2 DEF PayFits, Redeeming
      <3>4. (ChargeFits(c, k) /\ UsageFits(c, k))'
        BY <1>6, <2>1, <2>2 DEF ChargeFits, Editing, UsageFits
      <3> QED BY <3>1, <3>2, <3>3, <3>4 DEF JobFits
    <2>4. ASSUME NEW q, Companion(w, c, q) PROVE JobFits(c, q)'
      <3>1. q.op \notin {"apply", "remove", "pay"} /\ JobFits(c, q)
        BY <1>1, <1>2, <2>4 DEF Companion, Beside, At
      <3>2. SameButCharge(c)
        BY <1>2, <1>4
      <3>3. (OpFits(q) /\ SlotFits(q))' /\ VoucherFits(c, q)' /\ UsageFits(c, q)'
        BY <3>1, <3>2 DEF JobFits, OpFits, SlotFits, VoucherFits, UsageFits, Used, SameButCharge
      <3>4. PayFits(c, q)'
        BY <1>6, <3>1, <3>2 DEF JobFits, PayFits, SameButCharge
      <3>5. ChargeFits(c, q)'
        BY <1>6, <3>1 DEF JobFits, ChargeFits, Editing
      <3> QED BY <3>3, <3>4, <3>5 DEF JobFits
    <2>5. AmountsAgree(c)'
      <3>0. job'[w] = k
        BY <2>1, OthersStay DEF IInv
      <3>1. On(w, c)' /\ Answering(job[w])'
        BY <2>1, <3>0 DEF On, At, Answering, Moves
      <3>2. w \in Workers
        OBVIOUS
      <3> QED BY <1>6, <2>2, <3>1, <3>2 DEF AmountsAgree
    <2>6. OwnSlotsKept(w, c)
      <3>1. job'[w] = k
        BY <2>1, OthersStay DEF IInv
      <3>2. ~GivesBack(w, c)' /\ ~Carrying(w)' /\ ~OwesCount(w)' /\ ~OwesUse(w)'
        BY <2>1, <3>1 DEF GivesBack, Carrying, OwesCount, OwesUse
      <3> QED BY <1>3, <3>2 DEF OwnSlotsKept
    <2>7. \A d \in Checkouts \ {c} : Same(d)
      BY <1>4, <1>6 DEF Same, SameButCharge
    <2> QED BY <1>1, <1>2, <1>3, <1>4, <2>1, <2>3, <2>4, <2>5, <2>6, <2>7, ChargeMoves
  <1>7. charge[c].st = "paid" => charge[c].disc = (db[c].voucher # "none")
    BY <1>2 DEF CheckoutFits, AmountsAgree
  <1>8. charge[c].st = "pending" => charge[c].disc = (db[c].voucher # "none")
    BY <1>2 DEF CheckoutFits, AmountsAgree
  <1>9. charge \in [Checkouts -> [st : {"none", "pending", "paid", "failed", "refunded"},
                                  disc : BOOLEAN, failed : BOOLEAN]]
    BY DEF IInv, TypeOK
  <1>10. CASE Open(c)
    <2>1. ASSUME NEW st \in {"pending", "paid"}, Answered(w, st),
                 charge' = [charge EXCEPT ![c].st = st, ![c].disc = (db[c].voucher # "none")]
          PROVE  Exact'
      <3>1. charge'[c].st = st /\ \A d \in Checkouts \ {c} : charge'[d] = charge[d]
        BY <1>2, <1>9, <2>1
      <3>2. charge'[c].disc = (db[c].voucher # "none")
        BY ZenonT(60), <1>2, <1>9, <2>1
      <3> QED BY <1>6, <1>10, <2>1, <3>1, <3>2
    <2>2. \A st : ~Stray({"lostReply"})
      BY NoStray
    <2> QED BY <1>1, <1>4, <1>5, <1>10, <2>1, <2>2 DEF Charge, Open
  <1>11. CASE charge[c].st = "pending"
    BY <1>1, <1>6, <1>8, <1>11 DEF Charge
  <1>12. CASE charge[c].st = "paid"
    BY <1>1, <1>4, <1>6, <1>7, <1>12 DEF Charge
  <1> QED BY <1>4, <1>10, <1>11, <1>12 DEF Open

(* A refund has the checkout to itself, and so has a sweep.                *)
LEMMA NoCompanion ==
    ASSUME NEW w \in Workers, NEW c, ~At(w, "idle"), job[w].op \in {"refund", "sweep"}
    PROVE  \A q : ~Companion(w, c, q)
  BY DEF Companion, Beside

(* The charge is returned, or not.                                         *)
LEMMA CallRefundExact ==
    ASSUME IInv, Exact, NEW w \in Workers, CallRefund(w) PROVE Exact'
  <1>1. PICK c, j : c = job[w].c /\ j = job[w]
    OBVIOUS
  <1>2. /\ j.at = "callRefund" /\ ~At(w, "idle") /\ c \in Checkouts /\ j \in Job /\ j.c = c
        /\ JobTrue(j) /\ JobFits(c, j) /\ j.op = "refund" /\ ~j.refused /\ CheckoutFits(c)
    BY <1>1, AtWork DEF CallRefund, At, Exact, JobFits, OpFits, JobTrue
  <1>3. ~GivesBack(w, c) /\ ~Carrying(w) /\ ~OwesCount(w) /\ ~OwesUse(w) /\ ~Answers(job[w])
    BY <1>1, <1>2, NoSlotAtHand DEF Answers
  <1>4. UNCHANGED <<used, reserved>> /\ \A d \in Checkouts : SameButCharge(d)
    BY DEF CallRefund, SameButCharge, voucherVars, sessionVars
  <1>5. CASE UNCHANGED charge /\ Finish(w)
    <2>1. \A d \in Checkouts : Same(d)
      BY <1>4, <1>5 DEF Same, SameButCharge
    <2> QED BY <1>1, <1>2, <1>3, <1>4, <1>5, <2>1, EndsExact
  <1>6. CASE /\ charge[c].st \in {"paid", "refunded"}
             /\ charge' = [charge EXCEPT ![c].st = "refunded"]
             /\ job' = [job EXCEPT ![w].at = "put", ![w].sess.pay = "refunded"]
    <2>1. PICK k : k = [j EXCEPT !.at = "put", !.sess = [j.sess EXCEPT !.pay = "refunded"]]
      OBVIOUS
    <2>2. /\ k \in Job /\ k.at = "put" /\ k.c = c /\ k.op = "refund"
          /\ k.sess.pay = "refunded" /\ k.sess.voucher = j.sess.voucher
          /\ ~k.refused /\ k.status = j.status /\ k.inserted = j.inserted
      BY <1>2, <2>1 DEF Job, Labels, Session
    <2>3. job' = [job EXCEPT ![w] = k]
      BY <1>1, <1>6, <2>1
    <2>4. Moves(w, c, k)
      BY <1>1, <2>2, <2>3 DEF Moves
    <2>5. charge'[c].st = "refunded" /\ \A d \in Checkouts \ {c} : charge'[d] = charge[d]
      BY <1>2, <1>6 DEF IInv, TypeOK
    <2>6. db'[c] = db[c] /\ usage'[c] = usage[c] /\ row'[c] = row[c]
      BY <1>2, <1>4 DEF SameButCharge
    <2>7. JobFits(c, k)'
      <3>1. (OpFits(k) /\ SlotFits(k))'
        BY <1>2, <2>2 DEF JobFits, OpFits, SlotFits, Redeeming
      <3>2. VoucherFits(c, k)'
        BY <1>2, <2>2, <2>6 DEF JobFits, VoucherFits, Redeeming
      <3>3. PayFits(c, k)'
        BY <2>2 DEF PayFits, Redeeming
      <3>4. (ChargeFits(c, k) /\ UsageFits(c, k))'
        BY <2>2 DEF ChargeFits, Editing, UsageFits
      <3> QED BY <3>1, <3>2, <3>3, <3>4 DEF JobFits
    <2>8. AmountsAgree(c)'
      BY <2>5 DEF AmountsAgree
    <2>9. OwnSlotsKept(w, c)
      <3>1. job'[w] = k
        BY <2>4, OthersStay DEF IInv
      <3>2. ~GivesBack(w, c)' /\ ~Carrying(w)' /\ ~OwesCount(w)' /\ ~OwesUse(w)'
        BY <2>2, <3>1 DEF GivesBack, Carrying, OwesCount, OwesUse
      <3> QED BY <1>3, <3>2 DEF OwnSlotsKept
    <2>10. \A d \in Checkouts \ {c} : Same(d)
      BY <1>4, <2>5 DEF Same, SameButCharge
    <2>11. \A q : ~Companion(w, c, q)
      BY <1>1, <1>2, NoCompanion
    <2> QED BY <1>1, <1>2, <1>3, <1>4, <2>2, <2>4, <2>7, <2>8, <2>9, <2>10, <2>11, ChargeMoves
  <1> QED BY <1>1, <1>5, <1>6 DEF CallRefund

(* The bank's decision and the day that passes are no handler's steps.     *)
LEMMA CountsStand ==
    ASSUME IInv, Exact, UNCHANGED <<job, used, reserved>>, \A d \in Checkouts : SlotsKept(d)
    PROVE  ReservedIsExact' /\ UsedIsExact'
  <1>1. ASSUME NEW v \in Workers
        PROVE  (OwesCount(v)' <=> OwesCount(v)) /\ (OwesUse(v)' <=> OwesUse(v))
    BY DEF OwesCount, OwesUse
  <1>2. ASSUME NEW v \in Workers, NEW d \in Checkouts PROVE GivesBack(v, d)' <=> GivesBack(v, d)
    BY DEF GivesBack, On, At
  <1>3. ASSUME NEW d \in Checkouts
        PROVE  (Reserving(d)' <=> Reserving(d)) /\ (Using(d)' <=> Using(d))
    BY <1>2 DEF Reserving, Using, SlotsKept
  <1>4. ASSUME NEW v \in Workers PROVE Carrying(v)' <=> Carrying(v)
    <2>1. job[v].at = "idle" \/ job[v].c \in Checkouts
      BY DEF IInv, JobsTrue, JobTrue
    <2> QED BY <2>1 DEF Carrying, SlotsKept
  <1>5. /\ {d \in Checkouts : Reserving(d)}' = {d \in Checkouts : Reserving(d)}
        /\ {d \in Checkouts : Using(d)}' = {d \in Checkouts : Using(d)}
    BY <1>3
  <1>6. /\ {v \in Workers : Carrying(v)}' = {v \in Workers : Carrying(v)}
        /\ {v \in Workers : OwesCount(v)}' = {v \in Workers : OwesCount(v)}
        /\ {v \in Workers : OwesUse(v)}' = {v \in Workers : OwesUse(v)}
    BY <1>1, <1>4
  <1> QED BY <1>5, <1>6 DEF Exact, ReservedIsExact, UsedIsExact

(* The bank decides a pending charge.                                      *)
LEMMA DecideExact ==
    ASSUME IInv, Exact, NEW c \in Checkouts, Decide(c) PROVE Exact'
  <1>1. UNCHANGED <<job, used, reserved>> /\ \A d \in Checkouts : SameButCharge(d)
    BY DEF Decide, SameButCharge, voucherVars, sessionVars
  <1>2. /\ charge[c].st = "pending" /\ charge'[c].st \in {"paid", "failed"}
        /\ charge'[c].disc = charge[c].disc
        /\ \A d \in Checkouts \ {c} : charge'[d] = charge[d]
    BY DEF Decide, IInv, TypeOK
  <1>3. \A v \in Workers, d \in Checkouts : On(v, d)' <=> On(v, d)
    BY <1>1 DEF On, At
  <1>4. ASSUME NEW d \in Checkouts \ {c} PROVE FitsAt(d)'
    <2>1. Same(d)
      BY <1>1, <1>2 DEF Same, SameButCharge
    <2> QED BY <1>1, <1>3, <2>1, Elsewhere DEF Exact, Fits
  <1>5. Alone(c)'
    BY <1>1, <1>3 DEF Exact, Fits, FitsAt, Alone
  <1>6. ASSUME NEW v \in Workers, On(v, c)' PROVE JobFits(c, job[v])'
    <2>1. PICK q : q = job[v] /\ q = job'[v]
      BY <1>1
    <2>2. JobFits(c, q) /\ SameButCharge(c)
      BY <1>1, <1>3, <1>6, <2>1 DEF Exact, Fits, FitsAt
    <2>3. (OpFits(q) /\ SlotFits(q))' /\ VoucherFits(c, q)' /\ UsageFits(c, q)'
      BY <2>2 DEF JobFits, OpFits, SlotFits, VoucherFits, UsageFits, Used, SameButCharge
    <2>4. PayFits(c, q)'
      BY <1>2, <2>2 DEF JobFits, PayFits, SameButCharge
    <2>5. ChargeFits(c, q)'
      BY <1>2, <2>2 DEF JobFits, ChargeFits, Editing, Open, SameButCharge
    <2>6. JobFits(c, q)'
      BY <2>3, <2>4, <2>5 DEF JobFits
    <2> QED BY <2>1, <2>6
  <1>7. CheckoutFits(c)'
    <2>1. CheckoutFits(c) /\ SameButCharge(c)
      BY <1>1 DEF Exact, Fits, FitsAt
    <2>2. CopiesAgree(c)' /\ IdleIsGone(c)'
      BY <1>1, <1>3, <2>1
         DEF CheckoutFits, CopiesAgree, IdleIsGone, SameButCharge, Editing, EditsCopies, Storing
    <2>3. HeldIsReserved(c)' /\ ClaimIsFirst(c)'
      BY <1>1, <1>3, <2>1
         DEF CheckoutFits, HeldIsReserved, ClaimIsFirst, SameButCharge, Used, HoldsRow,
             Stamping, Unstamped
    <2>4. UsedIsPaid(c)' /\ PaidIsTold(c)'
      BY <1>1, <1>3, <2>1
         DEF CheckoutFits, UsedIsPaid, PaidIsTold, SameButCharge, Used, Telling
    <2>5. AmountsAgree(c)'
      BY <1>1, <1>2, <1>3, <2>1 DEF CheckoutFits, AmountsAgree, SameButCharge, Answering
    <2> QED BY <2>2, <2>3, <2>4, <2>5 DEF CheckoutFits
  <1>8. Fits'
    BY <1>4, <1>5, <1>6, <1>7 DEF Fits, FitsAt
  <1>9. \A d \in Checkouts : SlotsKept(d)
    BY <1>1 DEF SameButCharge, SlotsKept, Holding, Redeemed, Unstamped
  <1> QED BY <1>1, <1>8, <1>9, CountsStand DEF Exact

(* A day without a request or an event takes the KV copy.                  *)
LEMMA DayExact ==
    ASSUME IInv, Exact, Orderly', NEW c \in Checkouts, DayPasses(c) PROVE Exact'
  <1>1. /\ UNCHANGED <<job, used, reserved, usage, countReleased, db, row, charge>>
        /\ \A v \in Workers : ~On(v, c)
    BY DEF DayPasses, voucherVars, ledgerVars, Running, On
  <1>2. /\ kv'[c] = NONE /\ \A d \in Checkouts \ {c} : kv'[d] = kv[d]
        /\ \A d \in Checkouts \ {c} : d \in idle' <=> d \in idle
    BY DEF DayPasses, IInv, TypeOK
  <1>3. \A v \in Workers, d \in Checkouts : On(v, d)' <=> On(v, d)
    BY <1>1 DEF On, At
  <1>4. ASSUME NEW d \in Checkouts \ {c} PROVE FitsAt(d)'
    <2>1. Same(d)
      BY <1>1, <1>2 DEF Same
    <2> QED BY <1>1, <1>3, <2>1, Elsewhere DEF Exact, Fits
  <1>5. Alone(c)' /\ \A v \in Workers : On(v, c)' => JobFits(c, job[v])'
    BY <1>1, <1>3 DEF Alone
  <1>6. CheckoutFits(c)'
    <2>1. CheckoutFits(c)
      BY DEF Exact, Fits, FitsAt
    <2>2. CopiesAgree(c)' /\ IdleIsGone(c)'
      BY <1>2 DEF CopiesAgree, IdleIsGone
    <2>3. HeldIsReserved(c)' /\ ClaimIsFirst(c)'
      BY <1>1, <1>3, <2>1
         DEF CheckoutFits, HeldIsReserved, ClaimIsFirst, Used, Unstamped
    <2>4. PaidIsTold(c)' /\ AmountsAgree(c)'
      BY <1>1, <1>3, <2>1 DEF CheckoutFits, PaidIsTold, AmountsAgree
    <2>5. UsedIsPaid(c)'
      <3> SUFFICES ASSUME Used(c), db[c].pay \notin {"paid", "refunded"} PROVE FALSE
        <4>1. Used(c) => row[c].st \notin {"none", "failed"}
          BY <2>1 DEF CheckoutFits, UsedIsPaid
        <4>2. (Used(c)' <=> Used(c)) /\ row'[c] = row[c] /\ db'[c] = db[c]
          BY <1>1 DEF Used
        <4> QED BY <4>1, <4>2 DEF UsedIsPaid
      <3>1. charge[c].st \in {"paid", "refunded"}
        BY CheckoutAssumption DEF Used, IInv, UsesAreOfPaidCheckouts
      <3>2. row[c].st \notin {"none", "failed"}
        BY <2>1 DEF CheckoutFits, UsedIsPaid
      <3>3. row[c].st \notin {"paid", "refunded"}
        BY <1>1, <2>1 DEF CheckoutFits, PaidIsTold
      <3>4. row[c].st = "pending"
        BY <3>2, <3>3 DEF IInv, TypeOK, Money
      <3>0. ~Unreconciled(c)
        BY NoStray DEF DayPasses
      <3>5. charge[c].st = "paid" /\ row[c].disc # charge[c].disc
        BY <3>0, <3>1, <3>4 DEF Unreconciled, Agrees
      <3> QED BY <1>1, <2>1, <3>5 DEF CheckoutFits, AmountsAgree
    <2> QED BY <2>2, <2>3, <2>4, <2>5 DEF CheckoutFits
  <1>7. Fits'
    BY <1>4, <1>5, <1>6 DEF Fits, FitsAt
  <1>8. \A d \in Checkouts : SlotsKept(d)
    BY <1>1 DEF SlotsKept, Holding, Redeemed, Unstamped
  <1> QED BY <1>1, <1>7, <1>8, CountsStand DEF Exact

-----------------------------------------------------------------------------
(* The steps that write the copies of the session.                         *)

(* Beside a handler that edits the voucher there are webhooks and ticks    *)
(* that found no money yet: none of them reads what an edit changes.       *)
LEMMA FitsBesideEdit ==
    ASSUME NEW c, NEW q \in Job, q.op \in {"hook", "reconcile"}, q.at # "idle", q.c = c,
           JobTrue(q), JobFits(c, q), Open(c), charge'[c] = charge[c], c \in idle' => c \in idle
    PROVE  JobFits(c, q)'
  <1>0. ~Took(c) /\ charge[c].st # "refunded"
    BY DEF Open, Took
  <1>1. /\ q.at \in {"find", "query", "row", "session", "cached", "putBack"}
        /\ ~q.refused /\ q.status # "paid"
    <2>1. q.at \notin Paying \cup Refunding /\ q.status # "paid" /\ ~q.refused
      BY <1>0 DEF JobTrue, Tells
    <2>2. q.at \in Labels
      BY DEF Job
    <2> QED BY <2>1, <2>2 DEF JobFits, OpFits, Paying, Refunding, Redeeming, Labels
  <1>2. (OpFits(q) /\ SlotFits(q))'
    BY DEF JobFits, OpFits, SlotFits
  <1>3. VoucherFits(c, q)' /\ UsageFits(c, q)'
    BY <1>1 DEF VoucherFits, UsageFits, Redeeming
  <1>4. ChargeFits(c, q)'
    BY DEF JobFits, ChargeFits, Editing, Open
  <1>5. PayFits(c, q)'
    BY <1>1 DEF JobFits, PayFits, Redeeming
  <1> QED BY <1>2, <1>3, <1>4, <1>5 DEF JobFits

(* Beside a request there are webhooks and ticks only.                     *)
LEMMA BesideRequest ==
    ASSUME NEW w \in Workers, NEW c, ~At(w, "idle"), job[w].op \in {"apply", "remove", "pay"},
           NEW q, Companion(w, c, q)
    PROVE  /\ q \in Job /\ q.op \in {"hook", "reconcile"} /\ q.at # "idle" /\ q.c = c
           /\ JobTrue(q) /\ JobFits(c, q) /\ ~q.refused
  BY DEF Companion, Beside, Job, Ops, JobFits, OpFits, JobTrue

(* What fits a handler fits it while the voucher, its uses and the charge  *)
(* stay and the payment moves on.                                          *)
LEMMA FitsOn ==
    ASSUME NEW c, NEW q, JobFits(c, q),
           db'[c].voucher = db[c].voucher, usage'[c] = usage[c], charge'[c] = charge[c],
           c \in idle' => c \in idle,
           \/ kv'[c] = NONE \/ (kv[c] # NONE /\ kv'[c].voucher = kv[c].voucher)
           \/ q.op # "sweep" /\ q.at \notin {"save", "persist"},
           q.at = "upsert" =>
             (db[c].pay \in {"paid", "refunded"} => db'[c].pay \in {"paid", "refunded"}),
           \/ row[c].st \notin {"none", "failed"} => row'[c].st \notin {"none", "failed"}
           \/ Open(c) /\ JobTrue(q) /\ q.at # "idle" /\ q.c = c
    PROVE  JobFits(c, q)'
  <1>1. (OpFits(q) /\ SlotFits(q))'
    BY DEF JobFits, OpFits, SlotFits
  <1>2. VoucherFits(c, q)' /\ UsageFits(c, q)'
    BY DEF JobFits, VoucherFits, UsageFits, Used
  <1>3. ChargeFits(c, q)'
    BY DEF JobFits, ChargeFits, Editing, Open
  <1>4. PayFits(c, q)'
    <2>1. CASE row[c].st \notin {"none", "failed"} => row'[c].st \notin {"none", "failed"}
      BY <2>1 DEF JobFits, PayFits, Redeeming
    <2>2. CASE Open(c) /\ JobTrue(q) /\ q.at # "idle" /\ q.c = c
      <3>1. q.at \notin Paying /\ q.status # "paid"
        BY <2>2 DEF JobTrue, Tells, Took, Open
      <3> QED BY <3>1 DEF JobFits, PayFits, Redeeming, Paying
    <2> QED BY <2>1, <2>2
  <1> QED BY <1>1, <1>2, <1>3, <1>4 DEF JobFits

(* A request's session goes to the KV copy.                                *)
LEMMA CacheExact ==
    ASSUME IInv, Exact, NEW w \in Workers, Cache(w) PROVE Exact'
  <1>1. PICK c, j : c = job[w].c /\ j = job[w]
    OBVIOUS
  <1>2. /\ j.at = "cache" /\ ~At(w, "idle") /\ c \in Checkouts /\ j \in Job /\ j.c = c
        /\ JobTrue(j) /\ JobFits(c, j) /\ j.op \in {"apply", "remove", "pay"} /\ ~j.refused
        /\ CheckoutFits(c)
    BY <1>1, AtWork DEF Cache, At, Exact, JobFits, OpFits, JobTrue
  <1>3. /\ UNCHANGED <<used, reserved, usage, countReleased, db, idle, row, charge>>
        /\ kv'[c] = j.sess /\ \A d \in Checkouts \ {c} : kv'[d] = kv[d]
    BY <1>1, <1>2 DEF Cache, voucherVars, ledgerVars, IInv, TypeOK
  <1>4. PICK k : Moves(w, c, k) /\ k.at = "save" /\ Follows(j, k)
    BY <1>1, <1>2, Goes DEF Cache, Labels, Exact
  <1>5. job'[w] = k /\ On(w, c)'
    <2>1. job'[w] = k
      BY <1>4, OthersStay DEF IInv
    <2> QED BY <1>2, <1>4, <2>1 DEF On, At, Follows
  <1>6. JobFits(c, k)'
    <2>1. (OpFits(k) /\ SlotFits(k))'
      BY <1>2, <1>4 DEF Follows, JobFits, OpFits, SlotFits, Redeeming
    <2>2. VoucherFits(c, k)'
      BY <1>2, <1>3, <1>4 DEF Follows, JobFits, VoucherFits, Redeeming
    <2>3. PayFits(c, k)'
      BY <1>2, <1>3, <1>4 DEF Follows, JobFits, PayFits, Redeeming
    <2>4. ChargeFits(c, k)' /\ UsageFits(c, k)'
      BY <1>2, <1>3, <1>4 DEF Follows, JobFits, ChargeFits, UsageFits, Editing, Open
    <2> QED BY <2>1, <2>2, <2>3, <2>4 DEF JobFits
  <1>7. ASSUME NEW q, Companion(w, c, q) PROVE JobFits(c, q)'
    <2>1. q.op \in {"hook", "reconcile"} /\ JobFits(c, q)
      BY <1>1, <1>2, <1>7, BesideRequest
    <2>2. q.at \notin {"save", "persist"}
      BY <2>1 DEF JobFits, OpFits
    <2> QED BY <1>3, <2>1, <2>2, FitsOn
  <1>8. CheckoutFits(c)'
    <2>1. CopiesAgree(c)'
      <3>1. CASE Editing(c, j)
        <4>1. EditsCopies(c, k)'
          BY <1>2, <1>3, <1>4, <3>1 DEF Editing, EditsCopies, Follows
        <4> QED BY <1>5, <4>1 DEF CopiesAgree
      <3>2. CASE ~Editing(c, j)
        BY <1>2, <1>3, <3>2 DEF Editing, JobFits, VoucherFits, CopiesAgree
      <3> QED BY <3>1, <3>2
    <2>2. HeldIsReserved(c)' /\ ClaimIsFirst(c)'
      BY <1>1, <1>2, <1>3, <1>4, HeldKept, ClaimKept
         DEF HoldsRow, Stamping, CheckoutFits, IInv, Follows
    <2>3. UsedIsPaid(c)' /\ PaidIsTold(c)'
      BY <1>1, <1>2, <1>3, <1>4, UsedKept, ToldKept DEF Telling, CheckoutFits, IInv
    <2>4. AmountsAgree(c)'
      BY <1>1, <1>2, <1>3, <1>4, AmountsKept DEF Answering, CheckoutFits, IInv
    <2>5. IdleIsGone(c)'
      BY <1>4, <1>5 DEF IdleIsGone, Storing
    <2> QED BY <2>1, <2>2, <2>3, <2>4, <2>5 DEF CheckoutFits
  <1>9. Fits'
    <2>1. \A d \in Checkouts \ {c} : Same(d)
      BY <1>3 DEF Same
    <2> QED BY <1>1, <1>2, <1>4, <1>6, <1>7, <1>8, <2>1, AtHome DEF Exact, Follows
  <1>10. ReservedIsExact' /\ UsedIsExact'
    <2>1. \A d \in Checkouts : SlotsKept(d)
      BY <1>3 DEF SlotsKept, Holding, Redeemed, Unstamped
    <2>2. OwnSlotsKept(w, c)
      <3>1. GivesBack(w, c)' <=> GivesBack(w, c)
        BY <1>1, <1>2, <1>4, <1>5 DEF GivesBack, On, At, Follows
      <3>2. Carrying(w)' <=> Carrying(w)
        BY <1>1, <1>2, <1>3, <1>4, <1>5 DEF Carrying, Follows
      <3>3. ~OwesCount(w) /\ ~OwesUse(w) /\ ~OwesCount(w)' /\ ~OwesUse(w)'
        BY <1>1, <1>2, <1>4, <1>5 DEF OwesCount, OwesUse
      <3> QED BY <3>1, <3>2, <3>3 DEF OwnSlotsKept
    <2> QED BY <1>2, <1>3, <1>4, <2>1, <2>2, CountsStay
  <1> QED BY <1>9, <1>10 DEF Exact

(* No use is recorded of a checkout whose charge is open.                  *)
LEMMA OpenUnused ==
    ASSUME IInv, NEW c \in Checkouts, Open(c)
    PROVE  /\ usage[c][ClaimPart] \in {"none", "reserved"}
           /\ ~Redeemed(c) /\ ~Unstamped(c) /\ ~Used(c)
  <1>1. /\ usage[c][ClaimPart] \in {"none", "reserved", "active", "refunded"}
        /\ usage[c][ClaimPart] = "active" => charge[c].st \in {"paid", "refunded"}
        /\ usage[c][ClaimPart] = "refunded" => charge[c].st = "refunded"
    BY CheckoutAssumption DEF IInv, TypeOK, UsesAreOfPaidCheckouts
  <1> QED BY <1>1 DEF Open, Redeemed, Unstamped, Used

(* The request's voucher goes to D1.                                       *)
LEMMA SaveExact ==
    ASSUME IInv, Exact, NEW w \in Workers, Save(w) PROVE Exact'
  <1>1. PICK c, j : c = job[w].c /\ j = job[w]
    OBVIOUS
  <1>2. /\ j.at = "save" /\ ~At(w, "idle") /\ c \in Checkouts /\ j \in Job /\ j.c = c
        /\ JobTrue(j) /\ JobFits(c, j) /\ j.op \in {"apply", "remove", "pay"} /\ ~j.refused
        /\ CheckoutFits(c) /\ On(w, c)
    BY <1>1, AtWork DEF Save, At, Exact, JobFits, OpFits, JobTrue
  <1>3. /\ UNCHANGED <<used, reserved, usage, countReleased, kv, row, charge>>
        /\ db'[c].voucher = j.sess.voucher /\ db'[c].pay = db[c].pay
        /\ \A d \in Checkouts \ {c} : db'[d] = db[d]
        /\ idle' = idle \ {c}
    <2>1. db[c] \in Session /\ db \in [Checkouts -> Session]
      BY <1>2 DEF IInv, TypeOK
    <2>2. db' = [db EXCEPT ![c] = [db[c] EXCEPT !.voucher = j.sess.voucher]]
      BY <1>1 DEF Save, Update
    <2>3. db'[c] = [db[c] EXCEPT !.voucher = j.sess.voucher]
      BY <1>2, <2>1, <2>2
    <2> QED BY <1>1, <2>1, <2>2, <2>3 DEF Save, Update, voucherVars, ledgerVars, Session
  <1>4. PICK k : /\ Moves(w, c, k)
                 /\ IF j.op = "pay" THEN k.at = "charge" /\ Follows(j, k)
                    ELSE k.at = "idle" /\ k.op = "none" /\ ~k.refused
    <2>1. CASE j.op = "pay" /\ Goto(w, "charge")
      BY <1>1, <1>2, <2>1, Goes DEF Labels, Exact
    <2>2. CASE j.op # "pay" /\ Finish(w)
      BY <1>1, <1>2, <2>2, Ends
    <2> QED BY <1>1, <2>1, <2>2 DEF Save
  <1>5. job'[w] = k
    BY <1>4, OthersStay DEF IInv
  <1>6. /\ Editing(c, j) => Open(c)
        /\ ~Editing(c, j) => db'[c].voucher = db[c].voucher
        /\ kv[c] = NONE \/ kv[c].voucher = j.sess.voucher
    BY <1>2, <1>3 DEF JobFits, ChargeFits, Editing, VoucherFits
  <1>7. k.at # "idle" => JobFits(c, k)'
    <2> SUFFICES ASSUME k.at # "idle" PROVE JobFits(c, k)'
      OBVIOUS
    <2>1. (OpFits(k) /\ SlotFits(k))'
      BY <1>2, <1>4 DEF Follows, JobFits, OpFits, SlotFits, Redeeming
    <2>2. VoucherFits(c, k)'
      BY <1>2, <1>3, <1>4 DEF Follows, JobFits, VoucherFits, Redeeming
    <2>3. PayFits(c, k)'
      BY <1>2, <1>3, <1>4 DEF Follows, JobFits, PayFits, Redeeming
    <2>4. ChargeFits(c, k)' /\ UsageFits(c, k)'
      BY <1>2, <1>3, <1>4 DEF Follows, JobFits, ChargeFits, UsageFits, Editing
    <2> QED BY <2>1, <2>2, <2>3, <2>4 DEF JobFits
  <1>8. ASSUME NEW q, Companion(w, c, q) PROVE JobFits(c, q)'
    <2>1. /\ q \in Job /\ q.op \in {"hook", "reconcile"} /\ q.at # "idle" /\ q.c = c
          /\ JobTrue(q) /\ JobFits(c, q)
      BY <1>1, <1>2, <1>8, BesideRequest
    <2>2. CASE Editing(c, j)
      BY <1>3, <1>6, <2>1, <2>2, FitsBesideEdit
    <2>3. CASE ~Editing(c, j)
      <3>1. q.at \notin {"save", "persist", "upsert"}
        BY <2>1 DEF JobFits, OpFits
      <3> QED BY <1>3, <1>6, <2>1, <2>3, <3>1, FitsOn
    <2> QED BY <2>2, <2>3
  <1>9. CheckoutFits(c)'
    <2>1. CopiesAgree(c)' /\ IdleIsGone(c)'
      BY <1>3, <1>6 DEF CopiesAgree, IdleIsGone
    <2>2. HeldIsReserved(c)'
      <3>1. usage[c][ClaimPart] = "reserved" => j.sess.voucher = "reserved" /\ PerUser
        BY <1>2 DEF JobFits, UsageFits, VoucherFits, CheckoutFits, HeldIsReserved
      <3> QED BY <1>3, <3>1 DEF HeldIsReserved, PerUser
    <2>3. ClaimIsFirst(c)'
      BY <1>1, <1>2, <1>3, <1>4, ClaimKept DEF Stamping, CheckoutFits, IInv
    <2>4. UsedIsPaid(c)' /\ PaidIsTold(c)'
      BY <1>1, <1>2, <1>3, <1>4, UsedKept, ToldKept DEF Telling, CheckoutFits, IInv
    <2>5. AmountsAgree(c)'
      <3>1. CASE Editing(c, j)
        BY <1>2, <1>3, <1>6, <3>1 DEF AmountsAgree, CheckoutFits, Open
      <3>2. CASE ~Editing(c, j)
        BY <1>1, <1>2, <1>3, <1>4, <1>6, <3>2, AmountsKept DEF Answering, CheckoutFits, IInv
      <3> QED BY <3>1, <3>2
    <2> QED BY <2>1, <2>2, <2>3, <2>4, <2>5 DEF CheckoutFits
  <1>10. Fits'
    <2>1. \A d \in Checkouts \ {c} : Same(d)
      BY <1>3 DEF Same
    <2> QED BY <1>1, <1>2, <1>4, <1>7, <1>8, <1>9, <2>1, AtHome DEF Exact, Follows
  <1>11. ReservedIsExact' /\ UsedIsExact'
    <2>1. VoucherKept(w, c) /\ \A d \in Checkouts \ {c} : SlotsKept(d)
      BY <1>1, <1>2, <1>3 DEF VoucherKept, SlotsKept, Holding, Redeemed, Unstamped
    <2>2. /\ ~OwesCount(w) /\ ~OwesUse(w) /\ ~OwesCount(w)' /\ ~OwesUse(w)'
          /\ ~Carrying(w)' /\ ~GivesBack(w, c)'
      BY <1>1, <1>2, <1>4, <1>5 DEF OwesCount, OwesUse, Carrying, GivesBack, Follows
    <2>3. ~OthersGive(w, c) /\ ~OthersGive(w, c)'
      <3>1. ~OthersGive(w, c)
        BY <1>1, <1>2, AloneGives
      <3>2. \A d \in Checkouts \ {c} : db'[d].voucher = db[d].voucher
        BY <1>3
      <3> QED BY <1>2, <1>4, <2>1, <3>1, <3>2, OthersKeepSlots DEF OthersGive, Exact
    <2>4. used \in Nat /\ reserved \in Nat
      BY DEF IInv, TypeOK
    <2>5. CASE j.op = "remove"
      <3>1. GivesBack(w, c) /\ ~Carrying(w) /\ ~Holding(c)' /\ Open(c)
        BY <1>1, <1>2, <1>3, <1>6, <2>5
           DEF GivesBack, Carrying, Holding, JobFits, VoucherFits, Editing
      <3>2. ~Reserving(c) /\ ~Reserving(c)'
        BY <3>1, ReservingIs
      <3>3. Using(c)' <=> Using(c)
        BY <1>3, <3>2 DEF Using, Redeemed, Unstamped
      <3> QED BY <1>2, <1>3, <1>4, <2>1, <2>2, <2>4, <3>1, <3>2, <3>3, CountsMove DEF Exact, Bit
    <2>6. CASE j.op # "remove" /\ db[c].voucher # "reserved"
      <3>1. Carrying(w) /\ Open(c) /\ j.sess.voucher = "reserved"
        BY <1>1, <1>2, <1>6, <2>6 DEF Carrying, Editing, JobFits, VoucherFits
      <3>2. usage[c][ClaimPart] \in {"none", "reserved"} /\ ~Redeemed(c) /\ ~Unstamped(c)
        BY <1>2, <3>1, OpenUnused
      <3>3. ~Holding(c) /\ Holding(c)'
        BY <1>3, <2>6, <3>1, <3>2 DEF Holding
      <3>4. ~Reserving(c) /\ ~Using(c) /\ Reserving(c)' /\ Using(c)'
        BY <2>2, <2>3, <3>2, <3>3, ReservingIs DEF Using
      <3> QED BY <1>2, <1>3, <1>4, <2>1, <2>2, <2>4, <3>1, <3>4, CountsMove DEF Exact, Bit
    <2>7. CASE j.op # "remove" /\ db[c].voucher = "reserved"
      <3>1. ~Carrying(w) /\ ~GivesBack(w, c)
        BY <1>1, <1>2, <2>7 DEF Carrying, GivesBack
      <3>2. SlotsKept(c)
        <4>1. j.sess.voucher = "reserved"
          BY <1>2, <2>7 DEF JobFits, VoucherFits
        <4> QED BY <1>3, <2>7, <4>1 DEF SlotsKept, Holding, Redeemed, Unstamped
      <3>3. OwnSlotsKept(w, c) /\ \A d \in Checkouts : SlotsKept(d)
        BY <2>1, <2>2, <3>1, <3>2 DEF OwnSlotsKept
      <3> QED BY <1>2, <1>3, <1>4, <3>3, CountsStay
    <2> QED BY <2>5, <2>6, <2>7
  <1> QED BY <1>10, <1>11 DEF Exact

(* The hold is cancelled when it is still one.                             *)
LEMMA UnholdExact ==
    ASSUME IInv, Exact, NEW w \in Workers, Unhold(w) PROVE Exact'
  <1>1. PICK c, j : c = job[w].c /\ j = job[w]
    OBVIOUS
  <1>2. /\ j.at = "unhold" /\ ~At(w, "idle") /\ c \in Checkouts /\ j \in Job /\ j.c = c
        /\ JobTrue(j) /\ JobFits(c, j) /\ CheckoutFits(c) /\ On(w, c)
        /\ \/ j.op \in {"remove", "sweep"} /\ ~j.refused
           \/ j.op = "pay" /\ j.refused
    BY <1>1, AtWork DEF Unhold, At, Exact, JobFits, OpFits, JobTrue
  <1>3. /\ UNCHANGED <<used, reserved, countReleased, kv, db, idle, row, charge>>
        /\ \A d \in Checkouts \ {c} : usage'[d] = usage[d]
        /\ \A p \in Parts \ {ClaimPart} : usage'[c][p] = usage[c][p]
        /\ usage'[c][ClaimPart] =
             IF usage[c][ClaimPart] = "reserved" THEN "none" ELSE usage[c][ClaimPart]
    <2>1. usage' = [usage EXCEPT ![c] = [usage[c] EXCEPT ![ClaimPart] =
                      IF usage[c][ClaimPart] = "reserved" THEN "none" ELSE usage[c][ClaimPart]]]
      BY <1>1 DEF Unhold
    <2>2. usage \in [Checkouts -> [Parts -> {"none", "reserved", "active", "refunded"}]]
      BY DEF IInv, TypeOK
    <2>3. usage'[c] = [usage[c] EXCEPT ![ClaimPart] =
                      IF usage[c][ClaimPart] = "reserved" THEN "none" ELSE usage[c][ClaimPart]]
      BY <1>2, <2>1, <2>2
    <2> QED BY <1>2, <2>1, <2>2, <2>3, CheckoutAssumption DEF Unhold, sessionVars, ledgerVars
  <1>4. PICK k : /\ Moves(w, c, k)
                 /\ \/ j.op = "remove" /\ k.at = "cache" /\ Follows(j, k)
                    \/ j.refused /\ k.at = "put" /\ Follows(j, k)
                    \/ j.op = "sweep" /\ k.at = "idle" /\ k.op = "none" /\ ~k.refused
    <2>1. CASE Goto(w, "cache") /\ j.op = "remove"
      BY <1>1, <1>2, <2>1, Goes DEF Labels, Exact
    <2>2. CASE Goto(w, "put") /\ j.refused
      BY <1>1, <1>2, <2>2, Goes DEF Labels, Exact
    <2>3. CASE Finish(w) /\ j.op = "sweep"
      BY <1>1, <1>2, <2>3, Ends
    <2> QED BY <1>1, <1>2, <2>1, <2>2, <2>3 DEF Unhold, Back
  <1>5. job'[w] = k
    BY <1>4, OthersStay DEF IInv
  <1>6. Used(c)' <=> Used(c)
    BY <1>3 DEF Used
  <1>7. k.at # "idle" => JobFits(c, k)'
    <2> SUFFICES ASSUME k.at # "idle" PROVE JobFits(c, k)'
      OBVIOUS
    <2>1. (OpFits(k) /\ SlotFits(k))'
      BY <1>2, <1>4 DEF Follows, JobFits, OpFits, SlotFits, Redeeming
    <2>2. VoucherFits(c, k)'
      BY <1>2, <1>3, <1>4 DEF Follows, JobFits, VoucherFits, Redeeming
    <2>3. PayFits(c, k)'
      BY <1>2, <1>3, <1>4 DEF Follows, JobFits, PayFits, Redeeming
    <2>4. ChargeFits(c, k)' /\ UsageFits(c, k)'
      BY <1>2, <1>3, <1>4 DEF Follows, JobFits, ChargeFits, UsageFits, Editing, Open
    <2> QED BY <2>1, <2>2, <2>3, <2>4 DEF JobFits
  <1>8. ASSUME NEW q, Companion(w, c, q) PROVE JobFits(c, q)'
    <2>1. j.op # "sweep"
      BY <1>1, <1>2, <1>8, NoCompanion
    <2>2. /\ q \in Job /\ q.op \in {"hook", "reconcile"} /\ q.at # "idle" /\ q.c = c
          /\ JobTrue(q) /\ JobFits(c, q)
      BY <1>1, <1>2, <1>8, <2>1, BesideRequest
    <2>3. Open(c)
      BY <1>2, <2>1 DEF JobFits, ChargeFits, Editing
    <2> QED BY <1>3, <2>2, <2>3, FitsBesideEdit
  <1>9. CheckoutFits(c)'
    <2>1. CopiesAgree(c)' /\ IdleIsGone(c)'
      BY <1>1, <1>2, <1>3, <1>4, CopiesKept, IdleKept DEF EditsCopies, Storing, CheckoutFits, IInv
    <2>2. HeldIsReserved(c)'
      BY <1>3 DEF HeldIsReserved
    <2>3. ClaimIsFirst(c)'
      <3>1. Unstamped(c)' <=> Unstamped(c)
        BY <1>3 DEF Unstamped
      <3>2. ASSUME NEW v \in Workers, On(v, c), Stamping(job[v])
            PROVE  On(v, c)' /\ Stamping(job[v])'
        <4>1. v # w
          BY <1>1, <1>2, <3>2 DEF Stamping
        <4>2. job'[v] = job[v]
          BY <1>4, <4>1, OthersStay DEF IInv
        <4> QED BY <3>2, <4>2 DEF On, At, Stamping
      <3>3. ClaimIsFirst(c)
        BY <1>2 DEF CheckoutFits
      <3> QED BY <1>3, <1>6, <3>1, <3>2, <3>3 DEF ClaimIsFirst
    <2>4. UsedIsPaid(c)'
      BY <1>2, <1>3, <1>6 DEF UsedIsPaid, CheckoutFits
    <2>5. PaidIsTold(c)' /\ AmountsAgree(c)'
      BY <1>1, <1>2, <1>3, <1>4, ToldKept, AmountsKept DEF Telling, Answering, CheckoutFits, IInv
    <2> QED BY <2>1, <2>2, <2>3, <2>4, <2>5 DEF CheckoutFits
  <1>10. Fits'
    <2>1. \A d \in Checkouts \ {c} : Same(d)
      BY <1>3 DEF Same
    <2> QED BY <1>1, <1>2, <1>4, <1>7, <1>8, <1>9, <2>1, AtHome DEF Exact, Follows
  <1>11. ReservedIsExact' /\ UsedIsExact'
    <2>1. \A d \in Checkouts : SlotsKept(d)
      BY <1>3 DEF SlotsKept, Holding, Redeemed, Unstamped
    <2>2. OwnSlotsKept(w, c)
      <3>1. (GivesBack(w, c)' <=> GivesBack(w, c)) \/ ~Holding(c)
        <4>1. CASE j.op = "sweep"
          BY <1>2, <4>1 DEF JobFits, VoucherFits, Holding
        <4>2. CASE j.op # "sweep"
          BY <1>1, <1>2, <1>4, <1>5, <4>2 DEF GivesBack, On, At, Follows
        <4> QED BY <4>1, <4>2
      <3>2. ~Carrying(w) /\ ~OwesCount(w) /\ ~OwesUse(w)
        BY <1>1, <1>2 DEF Carrying, OwesCount, OwesUse
      <3>3. ~Carrying(w)' /\ ~OwesCount(w)' /\ ~OwesUse(w)'
        BY <1>2, <1>4, <1>5 DEF Carrying, OwesCount, OwesUse, Follows
      <3> QED BY <3>1, <3>2, <3>3 DEF OwnSlotsKept
    <2> QED BY <1>2, <1>3, <1>4, <2>1, <2>2, CountsStay
  <1> QED BY <1>10, <1>11 DEF Exact

(* The sweep takes the reservation out of D1, or leaves the row alone.     *)
LEMMA CompareExact ==
    ASSUME IInv, Exact, NEW w \in Workers, CompareAndSet(w) PROVE Exact'
  <1>1. PICK c, j : c = job[w].c /\ j = job[w]
    OBVIOUS
  <1>2. /\ j.at = "cas" /\ ~At(w, "idle") /\ c \in Checkouts /\ j \in Job /\ j.c = c
        /\ JobTrue(j) /\ JobFits(c, j) /\ j.op = "sweep" /\ ~j.refused
        /\ CheckoutFits(c) /\ On(w, c)
    BY <1>1, AtWork DEF CompareAndSet, At, Exact, JobFits, OpFits, JobTrue
  <1>3. ~GivesBack(w, c) /\ ~Carrying(w) /\ ~OwesCount(w) /\ ~OwesUse(w) /\ ~Answers(job[w])
    BY <1>1, <1>2, NoSlotAtHand DEF Answers
  <1>4. UNCHANGED <<used, reserved, usage, countReleased, kv, row, charge>>
    BY DEF CompareAndSet, voucherVars, ledgerVars
  <1>5. CASE Finish(w) /\ UNCHANGED <<db, idle>>
    <2>1. \A d \in Checkouts : Same(d)
      BY <1>4, <1>5 DEF Same
    <2> QED BY <1>1, <1>2, <1>3, <1>4, <1>5, <2>1, EndsExact
  <1>6. CASE Update(c, [db[c] EXCEPT !.voucher = "released"]) /\ Goto(w, "release")
    <2>1. /\ db'[c].voucher = "released" /\ db'[c].pay = db[c].pay
          /\ \A d \in Checkouts \ {c} : db'[d] = db[d]
          /\ idle' = idle \ {c}
      <3>1. db[c] \in Session /\ db \in [Checkouts -> Session]
        BY <1>2 DEF IInv, TypeOK
      <3>2. db'[c] = [db[c] EXCEPT !.voucher = "released"]
        BY <1>2, <1>6, <3>1 DEF Update
      <3> QED BY <1>6, <3>1, <3>2 DEF Update, Session
    <2>2. PICK k : Moves(w, c, k) /\ k.at = "release" /\ Follows(j, k)
      BY <1>1, <1>2, <1>6, Goes DEF Labels, Exact
    <2>3. job'[w] = k /\ On(w, c)'
      <3>1. job'[w] = k
        BY <2>2, OthersStay DEF IInv
      <3> QED BY <1>2, <2>2, <3>1 DEF On, At, Follows
    <2>4. kv[c] = NONE /\ db[c].voucher = "reserved" /\ ~Used(c)
      BY <1>2 DEF JobFits, VoucherFits
    <2>5. JobFits(c, k)'
      <3>1. (OpFits(k) /\ SlotFits(k))'
        BY <1>2, <2>2 DEF Follows, JobFits, OpFits, SlotFits, Redeeming
      <3>2. VoucherFits(c, k)'
        BY <1>2, <1>4, <2>1, <2>2, <2>4 DEF Follows, VoucherFits, Redeeming
      <3>3. (PayFits(c, k) /\ ChargeFits(c, k) /\ UsageFits(c, k))'
        BY <1>2, <2>2 DEF Follows, PayFits, ChargeFits, UsageFits, Editing, Redeeming
      <3> QED BY <3>1, <3>2, <3>3 DEF JobFits
    <2>6. \A q : ~Companion(w, c, q)
      BY <1>1, <1>2, NoCompanion
    <2>7. CheckoutFits(c)'
      <3>1. CopiesAgree(c)' /\ IdleIsGone(c)'
        BY <1>4, <2>1, <2>4 DEF CopiesAgree, IdleIsGone
      <3>2. HeldIsReserved(c)'
        <4>1. HoldsRow(k)
          BY <1>2, <2>2 DEF HoldsRow, Follows
        <4> QED BY <1>2, <1>4, <2>3, <4>1 DEF HeldIsReserved, CheckoutFits, PerUser, HoldsRow
      <3>3. ClaimIsFirst(c)'
        BY <1>1, <1>2, <1>4, <2>2, ClaimKept DEF Stamping, CheckoutFits, IInv
      <3>4. UsedIsPaid(c)' /\ PaidIsTold(c)'
        BY <1>1, <1>2, <1>4, <2>1, <2>2, UsedKept, ToldKept DEF Telling, CheckoutFits, IInv
      <3>5. AmountsAgree(c)'
        <4>1. ASSUME NEW v \in Workers, On(v, c), Answering(job[v])
              PROVE  On(v, c)' /\ Answering(job[v])'
          <5>1. v # w
            BY <1>1, <1>2, <4>1 DEF Answering
          <5>2. job'[v] = job[v]
            BY <2>2, <5>1, OthersStay DEF IInv
          <5> QED BY <4>1, <5>2 DEF On, At, Answering
        <4>2. AmountsAgree(c) /\ db'[c].voucher # "none" /\ db[c].voucher # "none"
          BY <1>2, <2>1, <2>4 DEF CheckoutFits
        <4> QED BY <1>4, <4>1, <4>2 DEF AmountsAgree
      <3> QED BY <3>1, <3>2, <3>3, <3>4, <3>5 DEF CheckoutFits
    <2>8. Fits'
      <3>1. \A d \in Checkouts \ {c} : Same(d)
        BY <1>4, <2>1 DEF Same
      <3> QED BY <1>1, <1>2, <2>2, <2>5, <2>6, <2>7, <3>1, AtHome DEF Exact, Follows
    <2>9. ReservedIsExact' /\ UsedIsExact'
      <3>1. VoucherKept(w, c) /\ \A d \in Checkouts \ {c} : SlotsKept(d)
        BY <1>1, <1>2, <1>4, <2>1 DEF VoucherKept, SlotsKept, Holding, Redeemed, Unstamped
      <3>2. Carrying(w)' /\ ~OwesCount(w)' /\ ~OwesUse(w)'
        BY <1>2, <2>2, <2>3 DEF Carrying, OwesCount, OwesUse, Follows
      <3>3. Holding(c) /\ ~Holding(c)' /\ ~Redeemed(c)' /\ ~Unstamped(c)'
        <4>1. usage[c][ClaimPart] \in {"none", "reserved"}
          BY <1>2, <2>4, CheckoutAssumption DEF Used, IInv, TypeOK
        <4> QED BY <1>4, <2>1, <2>4, <4>1 DEF Holding, Redeemed, Unstamped
      <3>4. ~OthersGive(w, c)
        BY <1>1, <1>2, AloneGives
      <3>5. Reserving(c) /\ Using(c) /\ ~Reserving(c)' /\ ~Using(c)'
        BY <1>3, <3>3, <3>4, ReservingIs DEF Using
      <3>6. used \in Nat /\ reserved \in Nat
        BY DEF IInv, TypeOK
      <3> QED BY <1>2, <1>3, <1>4, <2>2, <3>1, <3>2, <3>5, <3>6, CountsMove DEF Exact, Bit
    <2> QED BY <2>8, <2>9 DEF Exact
  <1> QED BY <1>1, <1>5, <1>6 DEF CompareAndSet

(* The outcome of a payment or a refund goes to the KV copy, ...           *)
LEMMA PutExact ==
    ASSUME IInv, Exact, NEW w \in Workers, Put(w) PROVE Exact'
  <1>1. PICK c, j : c = job[w].c /\ j = job[w]
    OBVIOUS
  <1>2. /\ j.at = "put" /\ ~At(w, "idle") /\ c \in Checkouts /\ j \in Job /\ j.c = c
        /\ JobTrue(j) /\ JobFits(c, j) /\ j.op \in {"pay", "refund"} /\ CheckoutFits(c)
        /\ On(w, c)
    BY <1>1, AtWork DEF Put, At, Exact, JobFits, OpFits
  <1>3. /\ UNCHANGED <<used, reserved, usage, countReleased, db, idle, row, charge>>
        /\ kv'[c] = j.sess /\ \A d \in Checkouts \ {c} : kv'[d] = kv[d]
    BY <1>1, <1>2 DEF Put, voucherVars, ledgerVars, IInv, TypeOK
  <1>4. PICK k : Moves(w, c, k) /\ k.at = "persist" /\ Follows(j, k)
    BY <1>1, <1>2, Goes DEF Put, Labels, Exact
  <1>5. job'[w] = k /\ On(w, c)'
    <2>1. job'[w] = k
      BY <1>4, OthersStay DEF IInv
    <2> QED BY <1>2, <1>4, <2>1 DEF On, At, Follows
  <1>6. JobFits(c, k)'
    <2>1. (OpFits(k) /\ SlotFits(k))'
      BY <1>2, <1>4 DEF Follows, JobFits, OpFits, SlotFits, Redeeming
    <2>2. VoucherFits(c, k)'
      BY <1>2, <1>3, <1>4 DEF Follows, JobFits, VoucherFits, Redeeming
    <2>3. PayFits(c, k)'
      BY <1>2, <1>3, <1>4 DEF Follows, JobFits, PayFits, Redeeming
    <2>4. ChargeFits(c, k)' /\ UsageFits(c, k)'
      BY <1>2, <1>3, <1>4 DEF Follows, JobFits, ChargeFits, UsageFits, Editing, Open
    <2> QED BY <2>1, <2>2, <2>3, <2>4 DEF JobFits
  <1>7. ASSUME NEW q, Companion(w, c, q) PROVE JobFits(c, q)'
    <2>1. j.op = "pay"
      BY <1>1, <1>2, <1>7, NoCompanion
    <2>2. q.op \in {"hook", "reconcile"} /\ JobFits(c, q)
      BY <1>1, <1>2, <1>7, <2>1, BesideRequest
    <2>3. q.at \notin {"save", "persist"}
      BY <2>2 DEF JobFits, OpFits
    <2> QED BY <1>3, <2>2, <2>3, FitsOn
  <1>8. CheckoutFits(c)'
    <2>1. CopiesAgree(c)'
      <3>1. CASE j.refused
        <4>1. EditsCopies(c, k)'
          BY <1>2, <1>4, <3>1 DEF JobTrue, Editing, EditsCopies, Follows
        <4> QED BY <1>5, <4>1 DEF CopiesAgree
      <3>2. CASE ~j.refused
        BY <1>2, <1>3, <3>2 DEF JobFits, VoucherFits, CopiesAgree
      <3> QED BY <3>1, <3>2
    <2>2. HeldIsReserved(c)' /\ ClaimIsFirst(c)'
      BY <1>1, <1>2, <1>3, <1>4, HeldKept, ClaimKept
         DEF HoldsRow, Stamping, CheckoutFits, IInv, Follows
    <2>3. UsedIsPaid(c)' /\ PaidIsTold(c)'
      BY <1>1, <1>2, <1>3, <1>4, UsedKept, ToldKept DEF Telling, CheckoutFits, IInv
    <2>4. AmountsAgree(c)'
      BY <1>1, <1>2, <1>3, <1>4, AmountsKept DEF Answering, Follows, CheckoutFits, IInv
    <2>5. IdleIsGone(c)'
      BY <1>4, <1>5 DEF IdleIsGone, Storing
    <2> QED BY <2>1, <2>2, <2>3, <2>4, <2>5 DEF CheckoutFits
  <1>9. Fits'
    <2>1. \A d \in Checkouts \ {c} : Same(d)
      BY <1>3 DEF Same
    <2> QED BY <1>1, <1>2, <1>4, <1>6, <1>7, <1>8, <2>1, AtHome DEF Exact, Follows
  <1>10. ReservedIsExact' /\ UsedIsExact'
    <2>1. \A d \in Checkouts : SlotsKept(d)
      BY <1>3 DEF SlotsKept, Holding, Redeemed, Unstamped
    <2>2. OwnSlotsKept(w, c)
      <3>1. GivesBack(w, c)' <=> GivesBack(w, c)
        BY <1>1, <1>2, <1>4, <1>5 DEF GivesBack, On, At, Follows
      <3>2. ~Carrying(w) /\ ~OwesCount(w) /\ ~OwesUse(w)
        BY <1>1, <1>2 DEF Carrying, OwesCount, OwesUse
      <3>3. ~Carrying(w)' /\ ~OwesCount(w)' /\ ~OwesUse(w)'
        BY <1>2, <1>4, <1>5 DEF Carrying, OwesCount, OwesUse, Follows
      <3> QED BY <3>1, <3>2, <3>3 DEF OwnSlotsKept
    <2> QED BY <1>2, <1>3, <1>4, <2>1, <2>2, CountsStay
  <1> QED BY <1>9, <1>10 DEF Exact

(* ... then to D1, ...                                                     *)
LEMMA PersistExact ==
    ASSUME IInv, Exact, NEW w \in Workers, Persist(w) PROVE Exact'
  <1>1. PICK c, j : c = job[w].c /\ j = job[w]
    OBVIOUS
  <1>2. /\ j.at = "persist" /\ ~At(w, "idle") /\ c \in Checkouts /\ j \in Job /\ j.c = c
        /\ JobTrue(j) /\ JobFits(c, j) /\ j.op \in {"pay", "refund"} /\ CheckoutFits(c)
        /\ On(w, c)
    BY <1>1, AtWork DEF Persist, At, Exact, JobFits, OpFits
  <1>3. /\ UNCHANGED <<used, reserved, usage, countReleased, kv, row, charge>>
        /\ db'[c] = j.sess /\ \A d \in Checkouts \ {c} : db'[d] = db[d]
        /\ idle' = idle \ {c}
    BY <1>1, <1>2 DEF Persist, Update, voucherVars, ledgerVars, IInv, TypeOK
  <1>4. PICK k : Moves(w, c, k) /\ k.at = "upsert" /\ Follows(j, k)
    BY <1>1, <1>2, Goes DEF Persist, Labels, Exact
  <1>5. job'[w] = k /\ On(w, c)'
    <2>1. job'[w] = k
      BY <1>4, OthersStay DEF IInv
    <2> QED BY <1>2, <1>4, <2>1 DEF On, At, Follows
  <1>6. /\ j.refused => Open(c) /\ j.op = "pay" /\ j.sess.voucher # "reserved"
        /\ ~j.refused => db'[c].voucher = db[c].voucher
        /\ kv[c] = NONE \/ kv[c].voucher = j.sess.voucher
    BY <1>2, <1>3 DEF JobTrue, JobFits, ChargeFits, Editing, VoucherFits
  <1>7. JobFits(c, k)'
    <2>1. (OpFits(k) /\ SlotFits(k))'
      BY <1>2, <1>4 DEF Follows, JobFits, OpFits, SlotFits, Redeeming
    <2>2. VoucherFits(c, k)'
      BY <1>2, <1>3, <1>4 DEF Follows, JobFits, VoucherFits, Redeeming
    <2>3. PayFits(c, k)'
      BY <1>2, <1>3, <1>4 DEF Follows, JobFits, PayFits, Redeeming
    <2>4. ChargeFits(c, k)' /\ UsageFits(c, k)'
      BY <1>2, <1>3, <1>4 DEF Follows, JobFits, ChargeFits, UsageFits, Editing, Open
    <2> QED BY <2>1, <2>2, <2>3, <2>4 DEF JobFits
  <1>8. ASSUME NEW q, Companion(w, c, q) PROVE JobFits(c, q)'
    <2>1. j.op = "pay"
      BY <1>1, <1>2, <1>8, NoCompanion
    <2>2. /\ q \in Job /\ q.op \in {"hook", "reconcile"} /\ q.at # "idle" /\ q.c = c
          /\ JobTrue(q) /\ JobFits(c, q)
      BY <1>1, <1>2, <1>8, <2>1, BesideRequest
    <2>3. CASE j.refused
      BY <1>3, <1>6, <2>2, <2>3, FitsBesideEdit
    <2>4. CASE ~j.refused
      <3>1. q.at \notin {"save", "persist", "upsert"}
        BY <2>2 DEF JobFits, OpFits
      <3> QED BY <1>3, <1>6, <2>2, <2>4, <3>1, FitsOn
    <2> QED BY <2>3, <2>4
  <1>9. CheckoutFits(c)'
    <2>1. CopiesAgree(c)' /\ IdleIsGone(c)'
      BY <1>3, <1>6 DEF CopiesAgree, IdleIsGone
    <2>2. HeldIsReserved(c)'
      <3>1. CASE j.refused
        BY <1>2, <1>3, <3>1 DEF JobFits, UsageFits, HeldIsReserved
      <3>2. CASE ~j.refused
        BY <1>1, <1>2, <1>3, <1>4, <1>6, <3>2, HeldKept DEF HoldsRow, CheckoutFits, IInv
      <3> QED BY <3>1, <3>2
    <2>3. ClaimIsFirst(c)'
      BY <1>1, <1>2, <1>3, <1>4, ClaimKept DEF Stamping, CheckoutFits, IInv
    <2>4. UsedIsPaid(c)'
      BY <1>2, <1>3 DEF UsedIsPaid, CheckoutFits, Used
    <2>5. PaidIsTold(c)'
      BY <1>4, <1>5 DEF PaidIsTold, Telling
    <2>6. AmountsAgree(c)'
      <3>1. CASE j.refused
        BY <1>2, <1>3, <1>6, <3>1 DEF AmountsAgree, CheckoutFits, Open
      <3>2. CASE ~j.refused
        BY <1>1, <1>2, <1>3, <1>4, <1>6, <3>2, AmountsKept
           DEF Answering, Follows, CheckoutFits, IInv
      <3> QED BY <3>1, <3>2
    <2> QED BY <2>1, <2>2, <2>3, <2>4, <2>5, <2>6 DEF CheckoutFits
  <1>10. Fits'
    <2>1. \A d \in Checkouts \ {c} : Same(d)
      BY <1>3 DEF Same
    <2> QED BY <1>1, <1>2, <1>4, <1>7, <1>8, <1>9, <2>1, AtHome DEF Exact, Follows
  <1>11. ReservedIsExact' /\ UsedIsExact'
    <2>1. \A d \in Checkouts \ {c} : SlotsKept(d)
      BY <1>3 DEF SlotsKept, Holding, Redeemed, Unstamped
    <2>2. /\ ~OwesCount(w) /\ ~OwesUse(w) /\ ~OwesCount(w)' /\ ~OwesUse(w)'
          /\ ~Carrying(w) /\ ~Carrying(w)' /\ ~GivesBack(w, c)'
      BY <1>1, <1>2, <1>4, <1>5 DEF OwesCount, OwesUse, Carrying, GivesBack, Follows
    <2>3. CASE j.refused
      <3>1. VoucherKept(w, c) /\ GivesBack(w, c) /\ ~Holding(c)'
        BY <1>1, <1>2, <1>3, <1>6, <2>3 DEF VoucherKept, GivesBack, Holding
      <3>2. ~Reserving(c) /\ ~Reserving(c)'
        BY <3>1, ReservingIs
      <3>3. Using(c)' <=> Using(c)
        BY <1>3, <3>2 DEF Using, Redeemed, Unstamped
      <3>4. used \in Nat /\ reserved \in Nat
        BY DEF IInv, TypeOK
      <3> QED BY <1>2, <1>3, <1>4, <2>1, <2>2, <3>1, <3>2, <3>3, <3>4, CountsMove DEF Exact, Bit
    <2>4. CASE ~j.refused
      <3>1. \A d \in Checkouts : SlotsKept(d)
        BY <1>3, <1>6, <2>1, <2>4 DEF SlotsKept, Holding, Redeemed, Unstamped
      <3>2. OwnSlotsKept(w, c)
        BY <1>1, <1>2, <2>2, <2>4 DEF OwnSlotsKept, GivesBack
      <3> QED BY <1>2, <1>3, <1>4, <3>1, <3>2, CountsStay
    <2> QED BY <2>3, <2>4
  <1> QED BY <1>10, <1>11 DEF Exact

(* ... and to the payment's row.                                           *)
LEMMA UpsertExact ==
    ASSUME IInv, Exact, NEW w \in Workers, Upsert(w) PROVE Exact'
  <1>1. PICK c, j : c = job[w].c /\ j = job[w]
    OBVIOUS
  <1>2. /\ j.at = "upsert" /\ ~At(w, "idle") /\ c \in Checkouts /\ j \in Job /\ j.c = c
        /\ JobTrue(j) /\ JobFits(c, j) /\ j.op \in {"pay", "refund"} /\ CheckoutFits(c)
        /\ On(w, c)
    BY <1>1, AtWork DEF Upsert, At, Exact, JobFits, OpFits
  <1>3. /\ UNCHANGED <<used, reserved, usage, countReleased, kv, db, idle, charge>>
        /\ row'[c] = [st |-> j.sess.pay, disc |-> j.disc]
        /\ \A d \in Checkouts \ {c} : row'[d] = row[d]
    BY <1>1, <1>2 DEF Upsert, voucherVars, sessionVars, IInv, TypeOK
  <1>4. /\ j.op = "refund" => ~j.refused /\ j.sess.pay = "refunded" /\ charge[c].st = "refunded"
        /\ j.refused => j.sess.pay = "failed" /\ Open(c)
        /\ j.op = "pay" /\ ~j.refused => /\ j.sess.pay \in {"pending", "paid"}
                                         /\ j.disc = (db[c].voucher # "none")
                                         /\ charge[c].st # "none"
        /\ c \notin idle
        /\ j.sess.pay \in {"paid", "refunded"} => db[c].pay \in {"paid", "refunded"}
    BY <1>2 DEF JobTrue, Tells, JobFits, PayFits, VoucherFits, ChargeFits, Editing
  <1>5. PICK k : /\ Moves(w, c, k)
                 /\ \/ k.at = "settle" /\ Follows(j, k) /\ j.sess.pay = "paid"
                    \/ k.at = "settleRefund" /\ Follows(j, k) /\ j.sess.pay = "refunded"
                    \/ k.at = "idle" /\ k.op = "none" /\ ~k.refused
    <2>1. CASE Goto(w, "settle") /\ j.sess.pay = "paid"
      BY <1>1, <1>2, <2>1, Goes DEF Labels, Exact
    <2>2. CASE Goto(w, "settleRefund") /\ j.sess.pay = "refunded"
      BY <1>1, <1>2, <2>2, Goes DEF Labels, Exact
    <2>3. CASE Finish(w)
      BY <1>1, <1>2, <2>3, Ends
    <2> QED BY <1>1, <2>1, <2>2, <2>3 DEF Upsert
  <1>6. job'[w] = k
    BY <1>5, OthersStay DEF IInv
  <1>7. k.at # "idle" => JobFits(c, k)'
    <2> SUFFICES ASSUME k.at # "idle" PROVE JobFits(c, k)'
      OBVIOUS
    <2>1. (OpFits(k) /\ SlotFits(k))'
      BY <1>2, <1>4, <1>5 DEF Follows, JobFits, OpFits, SlotFits, Redeeming
    <2>2. VoucherFits(c, k)'
      BY <1>2, <1>3, <1>4, <1>5 DEF Follows, JobFits, VoucherFits, Redeeming
    <2>3. PayFits(c, k)'
      BY <1>2, <1>3, <1>4, <1>5 DEF Follows, JobFits, PayFits, Redeeming
    <2>4. ChargeFits(c, k)' /\ UsageFits(c, k)'
      BY <1>2, <1>3, <1>4, <1>5 DEF Follows, JobFits, ChargeFits, UsageFits, Editing, Open
    <2> QED BY <2>1, <2>2, <2>3, <2>4 DEF JobFits
  <1>8. ASSUME NEW q, Companion(w, c, q) PROVE JobFits(c, q)'
    <2>1. j.op = "pay"
      BY <1>1, <1>2, <1>8, NoCompanion
    <2>2. /\ q \in Job /\ q.op \in {"hook", "reconcile"} /\ q.at # "idle" /\ q.c = c
          /\ JobTrue(q) /\ JobFits(c, q)
      BY <1>1, <1>2, <1>8, <2>1, BesideRequest
    <2>3. CASE j.refused
      BY <1>3, <1>4, <2>2, <2>3, FitsBesideEdit
    <2>4. CASE ~j.refused
      <3>1. row'[c].st \notin {"none", "failed"}
        BY <1>3, <1>4, <2>1, <2>4
      <3>2. q.at \notin {"save", "persist", "upsert"}
        BY <2>2 DEF JobFits, OpFits
      <3> QED BY <1>3, <2>2, <3>1, <3>2, FitsOn
    <2> QED BY <2>3, <2>4
  <1>9. CheckoutFits(c)'
    <2>1. CopiesAgree(c)' /\ IdleIsGone(c)'
      BY <1>1, <1>2, <1>3, <1>5, CopiesKept, IdleKept DEF EditsCopies, Storing, CheckoutFits, IInv
    <2>2. HeldIsReserved(c)' /\ ClaimIsFirst(c)'
      BY <1>1, <1>2, <1>3, <1>5, HeldKept, ClaimKept DEF HoldsRow, Stamping, CheckoutFits, IInv
    <2>3. UsedIsPaid(c)'
      <3>1. Used(c) => ~j.refused
        BY <1>2, <1>4, OpenUnused
      <3> QED BY <1>2, <1>3, <1>4, <3>1 DEF UsedIsPaid, Used
    <2>4. PaidIsTold(c)'
      BY <1>3, <1>4 DEF PaidIsTold
    <2>5. AmountsAgree(c)'
      BY <1>2, <1>3, <1>4 DEF AmountsAgree, CheckoutFits, Open
    <2> QED BY <2>1, <2>2, <2>3, <2>4, <2>5 DEF CheckoutFits
  <1>10. Fits'
    <2>1. \A d \in Checkouts \ {c} : Same(d)
      BY <1>3 DEF Same
    <2> QED BY <1>1, <1>2, <1>5, <1>7, <1>8, <1>9, <2>1, AtHome DEF Exact, Follows
  <1>11. ReservedIsExact' /\ UsedIsExact'
    <2>1. \A d \in Checkouts : SlotsKept(d)
      BY <1>3 DEF SlotsKept, Holding, Redeemed, Unstamped
    <2>2. OwnSlotsKept(w, c)
      BY <1>1, <1>2, <1>5, <1>6
         DEF OwnSlotsKept, GivesBack, Carrying, OwesCount, OwesUse, Follows
    <2> QED BY <1>2, <1>3, <1>5, <2>1, <2>2, CountsStay
  <1> QED BY <1>10, <1>11 DEF Exact

(* In an orderly behaviour a status is written while it is the charge's,   *)
(* and none over a paid one but that of the refund.                        *)
LEMMA NotLate ==
    ASSUME NEW w, NEW current, NoteLate(w, current), Orderly'
    PROVE  /\ Orderly
           /\ job[w].status = "failed" => charge[job[w].c].st = "failed"
           /\ job[w].status \in {"pending", "failed"} => current # "paid"
  BY DEF NoteLate, Late, Orderly

(* The status goes to the payment's row, ...                               *)
LEMMA WriteRowExact ==
    ASSUME IInv, Exact, Orderly', NEW w \in Workers, WriteRow(w) PROVE Exact'
  <1>1. PICK c, j : c = job[w].c /\ j = job[w]
    OBVIOUS
  <1>2. /\ j.at = "row" /\ ~At(w, "idle") /\ c \in Checkouts /\ j \in Job /\ j.c = c
        /\ JobTrue(j) /\ JobFits(c, j) /\ j.op \in {"hook", "reconcile"} /\ ~j.refused
        /\ CheckoutFits(c) /\ On(w, c)
    BY <1>1, AtWork DEF WriteRow, At, Exact, JobFits, OpFits, JobTrue
  <1>3. /\ UNCHANGED <<used, reserved, usage, countReleased, kv, db, idle, charge>>
        /\ row'[c].st = j.status /\ row'[c].disc = row[c].disc
        /\ \A d \in Checkouts \ {c} : row'[d] = row[d]
    <2>1. row \in [Checkouts -> Money({"none", "pending", "paid", "failed", "refunded"})]
      BY DEF IInv, TypeOK
    <2>2. row' = [row EXCEPT ![c] = [row[c] EXCEPT !.st = j.status]]
      BY <1>1 DEF WriteRow
    <2>3. row'[c] = [row[c] EXCEPT !.st = j.status]
      BY <1>2, <2>1, <2>2
    <2>4. row'[c].st = j.status /\ row'[c].disc = row[c].disc
      BY <1>2, <2>1, <2>3 DEF Money
    <2> QED BY <2>1, <2>2, <2>4 DEF WriteRow, voucherVars, sessionVars
  <1>4. /\ j.status \in {"pending", "paid", "failed", "refunded"}
        /\ j.status = "failed" => charge[c].st = "failed"
        /\ j.status = "pending" => charge[c].st # "none"
    <2>1. j.status = "failed" => charge[c].st = "failed"
      BY <1>1, NotLate DEF WriteRow
    <2> QED BY <1>2, <2>1 DEF Job, JobFits, PayFits, ChargeFits
  <1>5. PICK k : Moves(w, c, k) /\ k.at = "session" /\ Follows(j, k)
    BY <1>1, <1>2, Goes DEF WriteRow, Labels, Exact
  <1>6. job'[w] = k /\ On(w, c)'
    <2>1. job'[w] = k
      BY <1>5, OthersStay DEF IInv
    <2> QED BY <1>2, <1>5, <2>1 DEF On, At, Follows
  <1>7. JobFits(c, k)'
    <2>1. (OpFits(k) /\ SlotFits(k))'
      BY <1>2, <1>5 DEF Follows, JobFits, OpFits, SlotFits, Redeeming
    <2>2. (VoucherFits(c, k) /\ UsageFits(c, k))'
      BY <1>2, <1>5 DEF Follows, VoucherFits, UsageFits, Redeeming
    <2>3. PayFits(c, k)'
      BY <1>2, <1>3, <1>4, <1>5 DEF Follows, JobFits, PayFits, Redeeming
    <2>4. ChargeFits(c, k)'
      BY <1>2, <1>3, <1>5 DEF Follows, JobFits, ChargeFits, Editing
    <2> QED BY <2>1, <2>2, <2>3, <2>4 DEF JobFits
  <1>8. ASSUME NEW q, Companion(w, c, q) PROVE JobFits(c, q)'
    <2>1. q.at # "idle" /\ q.c = c /\ JobTrue(q) /\ JobFits(c, q)
      BY <1>8 DEF Companion
    <2>2. CASE j.status = "failed"
      <3>1. Open(c)
        BY <1>4, <2>2 DEF Open
      <3> QED BY <1>3, <2>1, <3>1, FitsOn
    <2>3. CASE j.status # "failed"
      <3>1. row'[c].st \notin {"none", "failed"}
        BY <1>3, <1>4, <2>3
      <3> QED BY <1>3, <2>1, <3>1, FitsOn
    <2> QED BY <2>2, <2>3
  <1>9. CheckoutFits(c)'
    <2>1. CopiesAgree(c)' /\ IdleIsGone(c)'
      BY <1>1, <1>2, <1>3, <1>5, CopiesKept, IdleKept DEF EditsCopies, Storing, CheckoutFits, IInv
    <2>2. HeldIsReserved(c)' /\ ClaimIsFirst(c)'
      BY <1>1, <1>2, <1>3, <1>5, HeldKept, ClaimKept DEF HoldsRow, Stamping, CheckoutFits, IInv
    <2>3. UsedIsPaid(c)'
      <3>1. Used(c) => j.status # "failed"
        BY <1>2, <1>4, OpenUnused DEF Open
      <3> QED BY <1>2, <1>3, <1>4, <3>1 DEF UsedIsPaid, Used, CheckoutFits
    <2>4. PaidIsTold(c)'
      BY <1>3, <1>5, <1>6 DEF PaidIsTold, Telling, Follows
    <2>5. AmountsAgree(c)'
      <3>1. ASSUME NEW v \in Workers, On(v, c), Answering(job[v])
            PROVE  On(v, c)' /\ Answering(job[v])'
        <4>1. v # w
          BY <1>1, <1>2, <3>1 DEF Answering
        <4>2. job'[v] = job[v]
          BY <1>5, <4>1, OthersStay DEF IInv
        <4> QED BY <3>1, <4>2 DEF On, At, Answering
      <3> QED BY <1>2, <1>3, <1>4, <3>1 DEF AmountsAgree, CheckoutFits
    <2> QED BY <2>1, <2>2, <2>3, <2>4, <2>5 DEF CheckoutFits
  <1>10. Fits'
    <2>1. \A d \in Checkouts \ {c} : Same(d)
      BY <1>3 DEF Same
    <2> QED BY <1>1, <1>2, <1>5, <1>7, <1>8, <1>9, <2>1, AtHome DEF Exact, Follows
  <1>11. ReservedIsExact' /\ UsedIsExact'
    <2>1. \A d \in Checkouts : SlotsKept(d)
      BY <1>3 DEF SlotsKept, Holding, Redeemed, Unstamped
    <2>2. OwnSlotsKept(w, c)
      BY <1>1, <1>2, <1>5, <1>6
         DEF OwnSlotsKept, GivesBack, Carrying, OwesCount, OwesUse, Follows
    <2> QED BY <1>2, <1>3, <1>5, <2>1, <2>2, CountsStay
  <1> QED BY <1>10, <1>11 DEF Exact

(* ... to the session in D1 ...                                            *)
LEMMA WriteSessionExact ==
    ASSUME IInv, Exact, Orderly', NEW w \in Workers, WriteSession(w) PROVE Exact'
  <1>1. PICK c, j : c = job[w].c /\ j = job[w]
    OBVIOUS
  <1>2. /\ j.at = "session" /\ ~At(w, "idle") /\ c \in Checkouts /\ j \in Job /\ j.c = c
        /\ JobTrue(j) /\ JobFits(c, j) /\ j.op \in {"hook", "reconcile"} /\ ~j.refused
        /\ CheckoutFits(c) /\ On(w, c)
    BY <1>1, AtWork DEF WriteSession, At, Exact, JobFits, OpFits, JobTrue
  <1>3. /\ UNCHANGED <<used, reserved, usage, countReleased, kv, row, charge>>
        /\ db'[c].pay = j.status /\ db'[c].voucher = db[c].voucher
        /\ \A d \in Checkouts \ {c} : db'[d] = db[d]
        /\ idle' = idle \ {c}
    <2>1. db[c] \in Session /\ db \in [Checkouts -> Session]
      BY <1>2 DEF IInv, TypeOK
    <2>2. db' = [db EXCEPT ![c] = [db[c] EXCEPT !.pay = j.status]]
      BY <1>1 DEF WriteSession, Update
    <2>3. db'[c] = [db[c] EXCEPT !.pay = j.status]
      BY <1>2, <2>1, <2>2
    <2> QED BY <1>1, <2>1, <2>2, <2>3 DEF WriteSession, Update, voucherVars, ledgerVars, Session
  <1>4. db[c].pay \in {"paid", "refunded"} => j.status \in {"paid", "refunded"}
    <2>1. /\ j.status = "failed" => charge[c].st = "failed"
          /\ j.status \in {"pending", "failed"} => db[c].pay # "paid"
      BY <1>1, NotLate DEF WriteSession
    <2>2. /\ j.status \in {"pending", "paid", "failed", "refunded"}
          /\ j.status = "pending" => charge[c].st # "refunded"
      BY <1>2 DEF Job, JobFits, PayFits, ChargeFits
    <2>3. db[c].pay = "refunded" => charge[c].st = "refunded"
      BY <1>2 DEF IInv, StatusTrue, Tells
    <2> QED BY <2>1, <2>2, <2>3
  <1>5. PICK k : Moves(w, c, k) /\ k.at = "cached" /\ Follows(j, k)
    BY <1>1, <1>2, Goes DEF WriteSession, Labels, Exact
  <1>6. job'[w] = k
    BY <1>5, OthersStay DEF IInv
  <1>7. JobFits(c, k)'
    <2>1. (OpFits(k) /\ SlotFits(k))'
      BY <1>2, <1>5 DEF Follows, JobFits, OpFits, SlotFits, Redeeming
    <2>2. (VoucherFits(c, k) /\ UsageFits(c, k))'
      BY <1>2, <1>5 DEF Follows, VoucherFits, UsageFits, Redeeming
    <2>3. PayFits(c, k)'
      BY <1>2, <1>3, <1>5 DEF Follows, JobFits, PayFits, Redeeming
    <2>4. ChargeFits(c, k)'
      BY <1>2, <1>3, <1>5 DEF Follows, JobFits, ChargeFits, Editing
    <2> QED BY <2>1, <2>2, <2>3, <2>4 DEF JobFits
  <1>8. ASSUME NEW q, Companion(w, c, q) PROVE JobFits(c, q)'
    <2>1. JobFits(c, q)
      BY <1>8 DEF Companion
    <2> QED BY <1>3, <1>4, <2>1, FitsOn
  <1>9. CheckoutFits(c)'
    <2>1. CopiesAgree(c)' /\ IdleIsGone(c)'
      BY <1>1, <1>2, <1>3, <1>5, CopiesKept, IdleKept DEF EditsCopies, Storing, CheckoutFits, IInv
    <2>2. HeldIsReserved(c)' /\ ClaimIsFirst(c)'
      BY <1>1, <1>2, <1>3, <1>5, HeldKept, ClaimKept DEF HoldsRow, Stamping, CheckoutFits, IInv
    <2>3. UsedIsPaid(c)'
      BY <1>2, <1>3 DEF UsedIsPaid, Used, CheckoutFits
    <2>4. PaidIsTold(c)'
      <3>1. CASE j.status \in {"paid", "refunded"}
        BY <1>3, <3>1 DEF PaidIsTold
      <3>2. CASE j.status \notin {"paid", "refunded"}
        <4>1. ASSUME NEW v \in Workers, On(v, c), Telling(job[v])
              PROVE  On(v, c)' /\ Telling(job[v])'
          <5>1. v # w
            BY <1>1, <1>2, <3>2, <4>1 DEF Telling
          <5>2. job'[v] = job[v]
            BY <1>5, <5>1, OthersStay DEF IInv
          <5> QED BY <4>1, <5>2 DEF On, At, Telling
        <4> QED BY <1>2, <1>3, <1>4, <3>2, <4>1 DEF PaidIsTold, CheckoutFits
      <3> QED BY <3>1, <3>2
    <2>5. AmountsAgree(c)'
      BY <1>1, <1>2, <1>3, <1>5, AmountsKept DEF Answering, CheckoutFits, IInv
    <2> QED BY <2>1, <2>2, <2>3, <2>4, <2>5 DEF CheckoutFits
  <1>10. Fits'
    <2>1. \A d \in Checkouts \ {c} : Same(d)
      BY <1>3 DEF Same
    <2> QED BY <1>1, <1>2, <1>5, <1>7, <1>8, <1>9, <2>1, AtHome DEF Exact, Follows
  <1>11. ReservedIsExact' /\ UsedIsExact'
    <2>1. \A d \in Checkouts : SlotsKept(d)
      BY <1>3 DEF SlotsKept, Holding, Redeemed, Unstamped
    <2>2. OwnSlotsKept(w, c)
      BY <1>1, <1>2, <1>5, <1>6
         DEF OwnSlotsKept, GivesBack, Carrying, OwesCount, OwesUse, Follows
    <2> QED BY <1>2, <1>3, <1>5, <2>1, <2>2, CountsStay
  <1> QED BY <1>10, <1>11 DEF Exact

(* The handler k goes on where j stopped, with another copy of the session.*)
Resumes(j, k) ==
    /\ k.op = j.op /\ k.c = j.c /\ k.refused = j.refused
    /\ k.disc = j.disc /\ k.status = j.status /\ k.todo = j.todo
    /\ k.claimed = j.claimed /\ k.inserted = j.inserted /\ k.won = j.won

(* Once the copies show the status, what is owed for it is left.           *)
GoesForOwed(j, k) ==
    \/ k.at = "settle" /\ Resumes(j, k) /\ j.status = "paid"
    \/ k.at = "settleRefund" /\ Resumes(j, k) /\ j.status = "refunded"
    \/ k.at = "idle" /\ k.op = "none" /\ ~k.refused /\ j.status # "paid"

LEMMA OwedJob ==
    ASSUME IInv, Fits, NEW w \in Workers, ~At(w, "idle"), NEW s \in Session,
           job' = [job EXCEPT ![w] = IF Owed(w) = "idle" THEN Idle
                                     ELSE [job[w] EXCEPT !.at = Owed(w), !.sess = s]]
    PROVE  \E k : Moves(w, job[w].c, k) /\ GoesForOwed(job[w], k)
  <1>1. CASE Owed(w) = "idle"
    <2>1. Finish(w) /\ job[w].status # "paid"
      BY <1>1 DEF Finish, Owed
    <2> QED BY <2>1, Ends DEF GoesForOwed
  <1>2. CASE Owed(w) # "idle"
    <2>1. PICK k : k = [job[w] EXCEPT !.at = Owed(w), !.sess = s]
      OBVIOUS
    <2>2. /\ Owed(w) \in {"settle", "settleRefund"}
          /\ Owed(w) = "settle" => job[w].status = "paid"
          /\ Owed(w) = "settleRefund" => job[w].status = "refunded"
      BY <1>2 DEF Owed
    <2>3. job[w] \in Job /\ Owed(w) \in Labels
      BY <2>2, AtWork DEF Labels
    <2>4. k \in Job /\ k.at = Owed(w) /\ Resumes(job[w], k)
      BY <2>1, <2>3 DEF Job, Resumes
    <2>5. job' = [job EXCEPT ![w] = k]
      BY ZenonT(60), <1>2, <2>1
    <2>6. Moves(w, job[w].c, k)
      BY <2>4, <2>5 DEF Moves, Resumes
    <2> QED BY <2>2, <2>4, <2>6 DEF GoesForOwed
  <1> QED BY <1>1, <1>2

(* That fits.                                                              *)
LEMMA OwedFits ==
    ASSUME NEW c, NEW j \in Job, NEW k, j.at \in {"cached", "putBack"}, JobFits(c, j),
           j.op \in {"hook", "reconcile"}, ~j.refused, GoesForOwed(j, k), k.at # "idle"
    PROVE  JobFits(c, k)
  <1>1. OpFits(k) /\ SlotFits(k)
    BY DEF GoesForOwed, Resumes, JobFits, OpFits, SlotFits, Redeeming
  <1>2. VoucherFits(c, k) /\ UsageFits(c, k)
    BY DEF GoesForOwed, Resumes, VoucherFits, UsageFits, Redeeming
  <1>3. PayFits(c, k)
    BY DEF GoesForOwed, Resumes, JobFits, PayFits, Redeeming
  <1>4. ChargeFits(c, k)
    BY DEF GoesForOwed, Resumes, JobFits, ChargeFits, Editing
  <1> QED BY <1>1, <1>2, <1>3, <1>4 DEF JobFits

(* The KV copy is read ...                                                 *)
LEMMA ReadCachedExact ==
    ASSUME IInv, Exact, NEW w \in Workers, ReadCached(w) PROVE Exact'
  <1>1. PICK c, j : c = job[w].c /\ j = job[w]
    OBVIOUS
  <1>2. /\ j.at = "cached" /\ ~At(w, "idle") /\ c \in Checkouts /\ j \in Job /\ j.c = c
        /\ JobTrue(j) /\ JobFits(c, j) /\ j.op \in {"hook", "reconcile"} /\ ~j.refused
    BY <1>1, AtWork DEF ReadCached, At, Exact, JobFits, OpFits, JobTrue
  <1>3. ~GivesBack(w, c) /\ ~Carrying(w) /\ ~OwesCount(w) /\ ~OwesUse(w) /\ ~Answers(job[w])
    BY <1>1, <1>2, NoSlotAtHand DEF Answers
  <1>4. UNCHANGED <<used, reserved>> /\ \A d \in Checkouts : Same(d)
    BY DEF ReadCached, Same, voucherVars, sessionVars, ledgerVars
  <1>5. CASE kv[c] = NONE
    <2>1. job[w].sess \in Session
      BY <1>1, <1>2 DEF Job
    <2>2. job' = [job EXCEPT ![w] = IF Owed(w) = "idle" THEN Idle
                                    ELSE [job[w] EXCEPT !.at = Owed(w)]]
      BY <1>1, <1>5 DEF ReadCached
    <2>3. [job[w] EXCEPT !.at = Owed(w), !.sess = job[w].sess] = [job[w] EXCEPT !.at = Owed(w)]
      BY <1>1, <1>2 DEF Job
    <2>4. PICK k : Moves(w, c, k) /\ GoesForOwed(j, k)
      BY <1>1, <1>2, <2>1, <2>2, <2>3, OwedJob DEF Exact
    <2>5. CASE k.at = "idle"
      <3>1. ~GivesBack(w, c)' /\ ~Carrying(w)' /\ ~OwesCount(w)' /\ ~OwesUse(w)'
        BY <2>4, <2>5, IdleHoldsNothing
      <3>2. OwnSlotsKept(w, c)
        BY <1>3, <3>1 DEF OwnSlotsKept
      <3> QED BY <1>2, <1>3, <1>4, <2>4, <2>5, <3>2, MovesOnly
    <2>6. CASE k.at # "idle"
      <3>1. JobFits(c, k)
        BY <1>2, <2>4, <2>6, OwedFits
      <3>2. k.at \in {"settle", "settleRefund"} /\ k.op = j.op /\ ~k.refused
        BY <1>2, <2>4, <2>6 DEF GoesForOwed, Resumes
      <3> QED BY <1>1, <1>2, <1>3, <1>4, <2>4, <3>1, <3>2, GoesExact
    <2> QED BY <2>5, <2>6
  <1>6. CASE kv[c] # NONE
    <2>1. PICK k : k = [j EXCEPT !.at = "putBack", !.sess = kv[c]]
      OBVIOUS
    <2>2. kv[c] \in Session
      BY <1>2, <1>6 DEF IInv, TypeOK
    <2>3. k \in Job /\ k.at = "putBack" /\ Resumes(j, k)
      BY <1>2, <2>1, <2>2 DEF Job, Labels, Resumes
    <2>4. job' = [job EXCEPT ![w] = k]
      BY <1>1, <1>6, <2>1 DEF ReadCached
    <2>5. Moves(w, c, k)
      BY <1>1, <1>2, <2>3, <2>4 DEF Moves, Resumes
    <2>6. JobFits(c, k)
      <3>1. OpFits(k) /\ SlotFits(k)
        BY <1>2, <2>3 DEF Resumes, JobFits, OpFits, SlotFits, Redeeming
      <3>2. VoucherFits(c, k) /\ UsageFits(c, k)
        BY <1>2, <2>3 DEF Resumes, VoucherFits, UsageFits, Redeeming
      <3>3. PayFits(c, k) /\ ChargeFits(c, k)
        BY <1>2, <2>3 DEF Resumes, JobFits, PayFits, ChargeFits, Editing, Redeeming
      <3> QED BY <3>1, <3>2, <3>3 DEF JobFits
    <2> QED BY <1>1, <1>2, <1>3, <1>4, <2>3, <2>5, <2>6, GoesExact DEF Resumes
  <1> QED BY <1>5, <1>6

(* ... and put back: an orderly copy has the voucher it had.               *)
LEMMA WriteCachedExact ==
    ASSUME IInv, Exact, Orderly', NEW w \in Workers, WriteCached(w) PROVE Exact'
  <1>1. PICK c, j : c = job[w].c /\ j = job[w]
    OBVIOUS
  <1>2. /\ j.at = "putBack" /\ ~At(w, "idle") /\ c \in Checkouts /\ j \in Job /\ j.c = c
        /\ JobTrue(j) /\ JobFits(c, j) /\ j.op \in {"hook", "reconcile"} /\ ~j.refused
        /\ CheckoutFits(c) /\ On(w, c)
    BY <1>1, AtWork DEF WriteCached, At, Exact, JobFits, OpFits, JobTrue
  <1>3. /\ UNCHANGED <<used, reserved, usage, countReleased, db, idle, row, charge>>
        /\ kv[c] # NONE /\ kv'[c].voucher = kv[c].voucher
        /\ \A d \in Checkouts \ {c} : kv'[d] = kv[d]
    <2>1. kv \in [Checkouts -> Session \cup {NONE}]
      BY DEF IInv, TypeOK
    <2>2. kv' = [kv EXCEPT ![c] = [j.sess EXCEPT !.pay = j.status]]
      BY <1>1 DEF WriteCached
    <2>3. j.sess \in Session
      BY <1>2 DEF Job
    <2>4. kv'[c].voucher = j.sess.voucher
      <3>1. kv'[c] = [j.sess EXCEPT !.pay = j.status]
        BY <1>2, <2>1, <2>2
      <3> QED BY <2>3, <3>1 DEF Session
    <2>5. Stale(w) = {}
      BY DEF WriteCached, Orderly
    <2>6. kv[c] # NONE /\ kv[c].voucher = j.sess.voucher
      BY <1>1, <2>5 DEF Stale
    <2> QED BY <2>1, <2>2, <2>4, <2>6 DEF WriteCached, voucherVars, ledgerVars
  <1>4. PICK k : Moves(w, c, k) /\ GoesForOwed(j, k)
    <2>1. NewSession \in Session
      BY DEF NewSession, Session
    <2>2. job' = [job EXCEPT ![w] = IF Owed(w) = "idle" THEN Idle
                                    ELSE [job[w] EXCEPT !.at = Owed(w), !.sess = NewSession]]
      BY DEF WriteCached
    <2> QED BY <1>1, <1>2, <2>1, <2>2, OwedJob DEF Exact
  <1>5. job'[w] = k
    BY <1>4, OthersStay DEF IInv
  <1>6. k.at # "idle" => JobFits(c, k)'
    <2> SUFFICES ASSUME k.at # "idle" PROVE JobFits(c, k)'
      OBVIOUS
    <2>1. JobFits(c, k)
      BY <1>2, <1>4, OwedFits
    <2>2. k.at \in {"settle", "settleRefund"}
      BY <1>4 DEF GoesForOwed
    <2> QED BY <1>3, <2>1, <2>2, FitsOn
  <1>7. ASSUME NEW q, Companion(w, c, q) PROVE JobFits(c, q)'
    <2>1. JobFits(c, q)
      BY <1>7 DEF Companion
    <2> QED BY <1>3, <2>1, FitsOn
  <1>8. CheckoutFits(c)'
    <2>1. CopiesAgree(c)' /\ IdleIsGone(c)'
      BY <1>1, <1>2, <1>3, <1>4, CopiesKept, IdleKept DEF EditsCopies, Storing, CheckoutFits, IInv
    <2>2. HeldIsReserved(c)' /\ ClaimIsFirst(c)'
      BY <1>1, <1>2, <1>3, <1>4, HeldKept, ClaimKept DEF HoldsRow, Stamping, CheckoutFits, IInv
    <2>3. UsedIsPaid(c)' /\ PaidIsTold(c)'
      BY <1>1, <1>2, <1>3, <1>4, UsedKept, ToldKept DEF Telling, CheckoutFits, IInv
    <2>4. AmountsAgree(c)'
      BY <1>1, <1>2, <1>3, <1>4, AmountsKept DEF Answering, CheckoutFits, IInv
    <2> QED BY <2>1, <2>2, <2>3, <2>4 DEF CheckoutFits
  <1>9. Fits'
    <2>1. \A d \in Checkouts \ {c} : Same(d)
      BY <1>3 DEF Same
    <2> QED BY <1>1, <1>2, <1>4, <1>6, <1>7, <1>8, <2>1, AtHome DEF Exact, GoesForOwed, Resumes
  <1>10. ReservedIsExact' /\ UsedIsExact'
    <2>1. \A d \in Checkouts : SlotsKept(d)
      BY <1>3 DEF SlotsKept, Holding, Redeemed, Unstamped
    <2>2. OwnSlotsKept(w, c)
      BY <1>1, <1>2, <1>4, <1>5
         DEF OwnSlotsKept, GivesBack, Carrying, OwesCount, OwesUse, GoesForOwed
    <2> QED BY <1>2, <1>3, <1>4, <2>1, <2>2, CountsStay
  <1> QED BY <1>9, <1>10 DEF Exact

-----------------------------------------------------------------------------
(* The steps that write the uses.                                          *)

(* What a hold does to the rows: it is made where there was no row, and    *)
(* the holds it reclaims are of checkouts that nobody pays.                *)
LEMMA HoldInOrder ==
    ASSUME IInv, NEW w \in Workers, NEW c \in Checkouts, c = job[w].c, Hold(w), Orderly'
    PROVE  /\ \A p \in Parts \ {ClaimPart} : usage'[c][p] = usage[c][p]
           /\ \/ /\ usage[c][ClaimPart] = "none" /\ usage'[c][ClaimPart] = "reserved"
                 /\ Goto(w, "cache")
              \/ usage'[c] = usage[c] /\ Goto(w, "giveback")
           /\ \A d \in Checkouts \ {c} :
                \/ usage'[d] = usage[d]
                \/ /\ usage[d][ClaimPart] = "reserved" /\ usage'[d][ClaimPart] = "none"
                   /\ \A p \in Parts \ {ClaimPart} : usage'[d][p] = usage[d][p]
                   /\ Running(d) = {}
  <1> DEFINE Rows == [Parts -> {"none", "reserved", "active", "refunded"}]
             stale == {d \in ClaimsOf(Owner[c]) : /\ d # c
                                                  /\ usage[d][ClaimPart] = "reserved"
                                                  /\ orders[d].st = "unpaid"}
  <1>1. usage \in [Checkouts -> Rows] /\ ClaimPart \in Parts
    BY CheckoutAssumption DEF IInv, TypeOK
  <1>2. PICK old \in SUBSET stale :
          /\ LET kept == [d \in Checkouts |->
                            IF d \in old THEN [usage[d] EXCEPT ![ClaimPart] = "none"]
                            ELSE usage[d]]
                 fits == /\ HasClaimLeft(c) \/ old # {}
                         /\ usage[c][ClaimPart] = "none"
             IN /\ usage' = IF fits THEN [kept EXCEPT ![c][ClaimPart] = "reserved"] ELSE kept
                /\ Goto(w, IF fits THEN "cache" ELSE "giveback")
          /\ Stray(IF \E d \in old : Running(d) # {} \/ charge[d].st \in {"pending", "paid"}
                   THEN {"reclaimed"} ELSE {})
    BY DEF Hold
  <1>3. old \subseteq Checkouts \ {c} /\ \A d \in old : usage[d][ClaimPart] = "reserved"
    BY DEF ClaimsOf
  <1>4. \A d \in old : Running(d) = {}
    BY <1>2, NoStray
  <1> HIDE DEF stale
  <1>50. PICK kept :
           kept = [d \in Checkouts |-> IF d \in old THEN [usage[d] EXCEPT ![ClaimPart] = "none"]
                                       ELSE usage[d]]
    OBVIOUS
  <1>51. PICK fits \in BOOLEAN :
           fits <=> (HasClaimLeft(c) \/ old # {}) /\ usage[c][ClaimPart] = "none"
    OBVIOUS
  <1>5. /\ fits => usage[c][ClaimPart] = "none"
        /\ kept = [d \in Checkouts |-> IF d \in old THEN [usage[d] EXCEPT ![ClaimPart] = "none"]
                                        ELSE usage[d]]
        /\ usage' = IF fits THEN [kept EXCEPT ![c][ClaimPart] = "reserved"] ELSE kept
        /\ Goto(w, IF fits THEN "cache" ELSE "giveback")
    BY <1>2, <1>50, <1>51
  <1>6. /\ kept \in [Checkouts -> Rows] /\ kept[c] = usage[c]
        /\ \A d \in Checkouts \ {c} :
             \/ kept[d] = usage[d]
             \/ /\ usage[d][ClaimPart] = "reserved" /\ kept[d][ClaimPart] = "none"
                /\ \A p \in Parts \ {ClaimPart} : kept[d][p] = usage[d][p]
                /\ Running(d) = {}
    <2>1. \A d \in Checkouts \ old : kept[d] = usage[d]
      BY <1>5
    <2>2. \A d \in old : kept[d] = [usage[d] EXCEPT ![ClaimPart] = "none"]
      BY <1>3, <1>5
    <2>3. ASSUME NEW d \in old
          PROVE  /\ kept[d] \in Rows /\ kept[d][ClaimPart] = "none"
                 /\ \A p \in Parts \ {ClaimPart} : kept[d][p] = usage[d][p]
      <3>1. usage[d] \in Rows
        BY <1>1, <1>3
      <3> QED BY <1>1, <2>2, <3>1
    <2>4. kept \in [Checkouts -> Rows]
      <3>1. \A d \in Checkouts : kept[d] \in Rows
        BY <1>1, <2>1, <2>3
      <3> HIDE DEF Rows
      <3> QED BY <1>5, <3>1
    <2> QED BY <1>3, <1>4, <2>1, <2>3, <2>4
  <1>7. CASE fits
    <2>1. usage' = [kept EXCEPT ![c] = [kept[c] EXCEPT ![ClaimPart] = "reserved"]]
      BY <1>5, <1>7
    <2>2. usage'[c] = [kept[c] EXCEPT ![ClaimPart] = "reserved"]
      BY <1>6, <2>1
    <2>3. /\ usage'[c][ClaimPart] = "reserved"
          /\ \A p \in Parts \ {ClaimPart} : usage'[c][p] = usage[c][p]
      BY <1>1, <1>6, <2>2
    <2>4. \A d \in Checkouts \ {c} : usage'[d] = kept[d]
      BY <1>6, <2>1
    <2>5. usage[c][ClaimPart] = "none" /\ Goto(w, "cache")
      BY <1>5, <1>7
    <2> HIDE DEF Rows
    <2>6. ASSUME NEW d \in Checkouts \ {c}
          PROVE  \/ usage'[d] = usage[d]
                 \/ /\ usage[d][ClaimPart] = "reserved" /\ usage'[d][ClaimPart] = "none"
                    /\ \A p \in Parts \ {ClaimPart} : usage'[d][p] = usage[d][p]
                    /\ Running(d) = {}
      <3>1. usage'[d] = kept[d]
        BY <2>4
      <3> QED BY <1>6, <3>1
    <2> QED BY <2>3, <2>5, <2>6
  <1>8. CASE ~fits
    <2>1. usage' = kept /\ Goto(w, "giveback")
      BY <1>5, <1>8
    <2> QED BY <1>6, <2>1
  <1> QED BY <1>7, <1>8

(* A hold is written, or the customer has no claim left.                   *)
LEMMA HoldExact ==
    ASSUME IInv, Exact, Orderly', NEW w \in Workers, Hold(w) PROVE Exact'
  <1>1. PICK c, j : c = job[w].c /\ j = job[w]
    OBVIOUS
  <1>2. /\ j.at = "hold" /\ ~At(w, "idle") /\ c \in Checkouts /\ j \in Job /\ j.c = c
        /\ JobTrue(j) /\ JobFits(c, j) /\ j.op \in {"apply", "pay"} /\ ~j.refused
        /\ CheckoutFits(c) /\ On(w, c)
    BY <1>1, AtWork DEF Hold, At, Exact, JobFits, OpFits, JobTrue
  <1>3. UNCHANGED <<used, reserved, countReleased, kv, db, idle, row, charge>>
    BY DEF Hold, sessionVars, ledgerVars
  <1>4. /\ \A p \in Parts \ {ClaimPart} : usage'[c][p] = usage[c][p]
        /\ \/ /\ usage[c][ClaimPart] = "none" /\ usage'[c][ClaimPart] = "reserved"
              /\ Goto(w, "cache")
           \/ usage'[c] = usage[c] /\ Goto(w, "giveback")
        /\ \A d \in Checkouts \ {c} :
             \/ usage'[d] = usage[d]
             \/ /\ usage[d][ClaimPart] = "reserved" /\ usage'[d][ClaimPart] = "none"
                /\ \A p \in Parts \ {ClaimPart} : usage'[d][p] = usage[d][p]
                /\ Running(d) = {}
    BY <1>1, <1>2, HoldInOrder
  <1>5. PICK k : /\ Moves(w, c, k) /\ Follows(j, k)
                 /\ \/ /\ k.at = "cache"
                       /\ usage[c][ClaimPart] = "none" /\ usage'[c][ClaimPart] = "reserved"
                    \/ k.at = "giveback" /\ usage'[c] = usage[c]
    <2>1. CASE /\ usage[c][ClaimPart] = "none" /\ usage'[c][ClaimPart] = "reserved"
               /\ Goto(w, "cache")
      BY <1>1, <1>2, <2>1, Goes DEF Labels, Exact
    <2>2. CASE usage'[c] = usage[c] /\ Goto(w, "giveback")
      BY <1>1, <1>2, <2>2, Goes DEF Labels, Exact
    <2> QED BY <1>4, <2>1, <2>2
  <1>6. job'[w] = k /\ On(w, c)'
    <2>1. job'[w] = k
      BY <1>5, OthersStay DEF IInv
    <2> QED BY <1>2, <1>5, <2>1 DEF On, At, Follows
  <1>7. /\ Open(c) /\ PerUser /\ usage[c][ClaimPart] # "reserved" /\ db[c].voucher # "reserved"
        /\ ~Used(c)
    <2>1. Open(c) /\ PerUser /\ usage[c][ClaimPart] # "reserved" /\ db[c].voucher # "reserved"
      BY <1>2 DEF JobFits, ChargeFits, Editing, UsageFits, VoucherFits
    <2> QED BY <1>2, <2>1, OpenUnused
  <1>8. JobFits(c, k)'
    <2>1. (OpFits(k) /\ SlotFits(k))'
      BY <1>2, <1>5 DEF Follows, JobFits, OpFits, SlotFits, Redeeming
    <2>2. VoucherFits(c, k)'
      BY <1>2, <1>3, <1>5 DEF Follows, JobFits, VoucherFits, Redeeming
    <2>3. PayFits(c, k)'
      BY <1>2, <1>5 DEF Follows, JobFits, PayFits, Redeeming
    <2>4. ChargeFits(c, k)'
      BY <1>2, <1>3, <1>5, <1>7 DEF Follows, JobFits, ChargeFits, Editing, Open
    <2>5. UsageFits(c, k)'
      BY <1>2, <1>5, <1>7 DEF Follows, UsageFits
    <2> QED BY <2>1, <2>2, <2>3, <2>4, <2>5 DEF JobFits
  <1>9. ASSUME NEW q, Companion(w, c, q) PROVE JobFits(c, q)'
    <2>1. /\ q \in Job /\ q.op \in {"hook", "reconcile"} /\ q.at # "idle" /\ q.c = c
          /\ JobTrue(q) /\ JobFits(c, q)
      BY <1>1, <1>2, <1>9, BesideRequest
    <2> QED BY <1>3, <1>7, <2>1, FitsBesideEdit
  <1>10. CheckoutFits(c)'
    <2>1. CopiesAgree(c)' /\ IdleIsGone(c)'
      BY <1>1, <1>2, <1>3, <1>5, CopiesKept, IdleKept DEF EditsCopies, Storing, CheckoutFits, IInv
    <2>2. HeldIsReserved(c)'
      <3>1. CASE k.at = "cache"
        <4>1. HoldsRow(k) /\ PerUser
          BY <1>2, <1>5, <1>7, <3>1 DEF HoldsRow, Follows
        <4> QED BY <1>6, <4>1 DEF HeldIsReserved, HoldsRow, PerUser
      <3>2. CASE k.at # "cache"
        BY <1>5, <1>7, <3>2 DEF HeldIsReserved
      <3> QED BY <3>1, <3>2
    <2>3. ClaimIsFirst(c)' /\ ~Used(c)'
      <3>1. /\ ~Used(c)' /\ ~Unstamped(c)'
        BY <1>5, <1>7 DEF Used, Unstamped
      <3>2. <<c, ClaimPart>> \notin countReleased
        BY <1>2, <1>7 DEF CheckoutFits, ClaimIsFirst, Used
      <3>3. \A p \in Parts \ {ClaimPart} : usage'[c][p] = "none"
        BY <1>2, <1>4, <1>7 DEF CheckoutFits, ClaimIsFirst
      <3> QED BY <1>3, <3>1, <3>2, <3>3 DEF ClaimIsFirst
    <2>4. UsedIsPaid(c)'
      BY <2>3 DEF UsedIsPaid
    <2>5. PaidIsTold(c)' /\ AmountsAgree(c)'
      BY <1>1, <1>2, <1>3, <1>5, ToldKept, AmountsKept DEF Telling, Answering, CheckoutFits, IInv
    <2> QED BY <2>1, <2>2, <2>3, <2>4, <2>5 DEF CheckoutFits
  <1>11. ASSUME NEW d \in Checkouts \ {c} PROVE (Same(d) \/ FitsAt(d)') /\ SlotsKept(d)
    <2>1. CASE usage'[d] = usage[d]
      BY <1>3, <2>1, SameSlots DEF Same
    <2>2. CASE /\ usage[d][ClaimPart] = "reserved" /\ usage'[d][ClaimPart] = "none"
               /\ \A p \in Parts \ {ClaimPart} : usage'[d][p] = usage[d][p]
               /\ Running(d) = {}
      <3>1. ASSUME NEW v \in Workers PROVE ~On(v, d) /\ ~On(v, d)'
        <4>1. ~On(v, d)
          BY <2>2 DEF Running, On
        <4>2. CASE v = w
          BY <1>5, <1>6, <4>1, <4>2 DEF On, Moves
        <4>3. CASE v # w
          <5>1. job'[v] = job[v]
            BY <1>5, <4>3, OthersStay DEF IInv
          <5> QED BY <4>1, <5>1 DEF On, At
        <4> QED BY <4>1, <4>2, <4>3
      <3>2. CheckoutFits(d)
        BY DEF Exact, Fits, FitsAt
      <3>3. CopiesAgree(d)' /\ IdleIsGone(d)'
        BY <1>3, <3>1, <3>2 DEF CheckoutFits, CopiesAgree, IdleIsGone
      <3>4. HeldIsReserved(d)' /\ UsedIsPaid(d)'
        BY <2>2 DEF HeldIsReserved, UsedIsPaid, Used
      <3>5. ClaimIsFirst(d)'
        BY <1>3, <2>2, <3>2 DEF CheckoutFits, ClaimIsFirst, Used, Unstamped
      <3>6. PaidIsTold(d)' /\ AmountsAgree(d)'
        BY <1>3, <3>1, <3>2 DEF CheckoutFits, PaidIsTold, AmountsAgree
      <3>7. FitsAt(d)'
        BY <3>1, <3>3, <3>4, <3>5, <3>6 DEF FitsAt, CheckoutFits, Alone
      <3> QED BY <1>3, <2>2, <3>7 DEF SlotsKept, Holding, Redeemed, Unstamped
    <2> QED BY <1>4, <2>1, <2>2
  <1>12. Fits'
    BY <1>1, <1>2, <1>5, <1>8, <1>9, <1>10, <1>11, AtHome DEF Exact, Follows
  <1>13. ReservedIsExact' /\ UsedIsExact'
    <2>1. SlotsKept(c)
      BY <1>3, <1>5, <1>7 DEF SlotsKept, Holding, Redeemed, Unstamped
    <2>2. \A d \in Checkouts : SlotsKept(d)
      BY <1>11, <2>1
    <2>3. OwnSlotsKept(w, c)
      BY <1>1, <1>2, <1>3, <1>5, <1>6
         DEF OwnSlotsKept, GivesBack, Carrying, OwesCount, OwesUse, Follows
    <2> QED BY <1>2, <1>3, <1>5, <2>2, <2>3, CountsStay
  <1> QED BY <1>12, <1>13 DEF Exact

(* Once the money came nobody edits the voucher, gives its reservation     *)
(* back or holds a row for a reservation that D1 does not show.            *)
LEMMA PaidUnedited ==
    ASSUME IInv, Exact, NEW w \in Workers, NEW c \in Checkouts, On(w, c), ~Open(c),
           job[w].op # "sweep"
    PROVE  /\ ~OthersGive(w, c) /\ ~GivesBack(w, c)
           /\ usage[c][ClaimPart] = "reserved" => db[c].voucher = "reserved"
  <1>1. ASSUME NEW v \in Workers, On(v, c) PROVE ~Editing(c, job[v]) /\ JobFits(c, job[v])
    BY <1>1 DEF Exact, Fits, FitsAt, JobFits, ChargeFits
  <1>2. ASSUME NEW v \in Workers PROVE ~GivesBack(v, c)
    <2> SUFFICES ASSUME GivesBack(v, c) PROVE FALSE
      OBVIOUS
    <2>1. On(v, c) /\ (job[v].op = "remove" \/ job[v].refused)
      BY DEF GivesBack
    <2>2. job[v].refused => job[v].op = "pay"
      BY <2>1 DEF IInv, JobsTrue, JobTrue, On, At
    <2> QED BY <1>1, <2>1, <2>2 DEF Editing
  <1>3. ASSUME NEW v \in Workers, On(v, c), HoldsRow(job[v]) PROVE db[c].voucher = "reserved"
    <2>1. job[v].op # "sweep"
      BY <1>3 DEF Exact, Fits, FitsAt, Alone, Beside
    <2> QED BY <1>1, <1>3, <2>1 DEF Editing, HoldsRow
  <1>4. HeldIsReserved(c)
    BY DEF Exact, Fits, FitsAt, CheckoutFits
  <1> QED BY <1>2, <1>3, <1>4 DEF OthersGive, HeldIsReserved

(* What fits a handler fits it while uses are recorded.                    *)
LEMMA FitsRedeemed ==
    ASSUME NEW c, NEW q, JobFits(c, q), q.op \notin {"sweep", "refund"},
           kv'[c] = kv[c], db'[c] = db[c], charge'[c] = charge[c], row'[c] = row[c],
           c \in idle' => c \in idle,
           usage'[c][ClaimPart] = "reserved" => usage[c][ClaimPart] = "reserved",
           Used(c) => Used(c)'
    PROVE  JobFits(c, q)'
  <1>1. (OpFits(q) /\ SlotFits(q))'
    BY DEF JobFits, OpFits, SlotFits
  <1>2. VoucherFits(c, q)'
    BY DEF JobFits, VoucherFits
  <1>3. ChargeFits(c, q)'
    BY DEF JobFits, ChargeFits, Editing, Open
  <1>4. UsageFits(c, q)'
    BY DEF JobFits, UsageFits, OpFits
  <1>5. PayFits(c, q)'
    BY DEF JobFits, PayFits
  <1> QED BY <1>1, <1>2, <1>3, <1>4, <1>5 DEF JobFits

(* The handler j turns the hold of its checkout into a use, and is k.      *)
Flips(w, c, j, won, k) ==
    /\ UNCHANGED <<used, reserved, countReleased, kv, db, idle, row, orders, charge>>
    /\ \A d \in Checkouts \ {c} : usage'[d] = usage[d]
    /\ \A p \in Parts : usage'[c][p] = IF usage[c][p] = "reserved" THEN "active" ELSE usage[c][p]
    /\ usage[c][ClaimPart] # "reserved" => usage'[c] = usage[c]
    /\ won \in BOOLEAN /\ (won <=> usage[c][ClaimPart] = "reserved")
    /\ Moves(w, c, k) /\ k.at = "look" /\ k.op = j.op /\ k.sess = j.sess
    /\ ~k.refused /\ k.status = j.status /\ k.inserted = j.inserted /\ k.won = won

(* What a flip does: only the claim's row can have been held.              *)
LEMMA FlipMoves ==
    ASSUME IInv, Exact, NEW w \in Workers, NEW c, NEW j, c = job[w].c, j = job[w], Flip(w)
    PROVE  \E won, k : Flips(w, c, j, won, k)
  <1>2. /\ j.at = "flip" /\ ~At(w, "idle") /\ c \in Checkouts /\ j \in Job /\ j.c = c
        /\ ~j.refused /\ CheckoutFits(c)
    BY AtWork DEF Flip, At, Exact, JobFits, OpFits, JobTrue, Redeeming
  <1>3. UNCHANGED <<used, reserved, countReleased, kv, db, idle, row, orders, charge>>
    BY DEF Flip, sessionVars, ledgerVars
  <1>4. /\ \A d \in Checkouts \ {c} : usage'[d] = usage[d]
        /\ \A p \in Parts : usage'[c][p] = IF usage[c][p] = "reserved" THEN "active"
                                           ELSE usage[c][p]
        /\ usage[c][ClaimPart] # "reserved" => usage'[c] = usage[c]
    <2>1. usage \in [Checkouts -> [Parts -> {"none", "reserved", "active", "refunded"}]]
      BY DEF IInv, TypeOK
    <2>2. PICK u : u = [p \in Parts |-> IF usage[c][p] = "reserved" THEN "active"
                                        ELSE usage[c][p]]
      OBVIOUS
    <2>3. usage' = [usage EXCEPT ![c] = u]
      BY <2>2 DEF Flip
    <2>4. usage'[c] = u /\ \A d \in Checkouts \ {c} : usage'[d] = usage[d]
      BY <1>2, <2>1, <2>3
    <2>5. \A p \in Parts \ {ClaimPart} : usage[c][p] # "reserved"
      BY <1>2 DEF CheckoutFits, ClaimIsFirst
    <2>6. usage[c][ClaimPart] # "reserved" => u = usage[c]
      <3>1. usage[c] \in [Parts -> {"none", "reserved", "active", "refunded"}]
        BY <1>2, <2>1
      <3> QED BY <2>2, <2>5, <3>1
    <2> QED BY <2>2, <2>4, <2>6
  <1>5. PICK won \in BOOLEAN : /\ won <=> usage[c][ClaimPart] = "reserved"
                               /\ job' = [job EXCEPT ![w].at = "look", ![w].won = won]
    <2>1. PICK won : won = (\E p \in Parts : usage[c][p] = "reserved")
      OBVIOUS
    <2>2. \A p \in Parts \ {ClaimPart} : usage[c][p] # "reserved"
      BY <1>2 DEF CheckoutFits, ClaimIsFirst
    <2>3. won \in BOOLEAN /\ (won <=> usage[c][ClaimPart] = "reserved")
      BY <2>1, <2>2, CheckoutAssumption
    <2>4. job' = [job EXCEPT ![w].at = "look", ![w].won = won]
      BY <2>1 DEF Flip
    <2> QED BY <2>3, <2>4
  <1>6. PICK k : /\ Moves(w, c, k) /\ k.at = "look" /\ k.op = j.op /\ k.sess = j.sess
                 /\ ~k.refused /\ k.status = j.status /\ k.inserted = j.inserted
                 /\ k.won = won
    <2>1. PICK k : k = [j EXCEPT !.at = "look", !.won = won]
      OBVIOUS
    <2>2. /\ k \in Job /\ k.at = "look" /\ k.c = c /\ k.op = j.op /\ k.sess = j.sess
          /\ k.refused = j.refused /\ k.status = j.status /\ k.inserted = j.inserted
          /\ k.won = won
      BY <1>2, <2>1 DEF Job, Labels
    <2>3. job' = [job EXCEPT ![w] = k]
      BY ZenonT(60), <1>5, <2>1
    <2> QED BY <1>2, <2>2, <2>3 DEF Moves
  <1> QED BY <1>3, <1>4, <1>5, <1>6 DEF Flips

(* The hold becomes a use.                                                 *)
LEMMA FlipExact ==
    ASSUME IInv, Exact, NEW w \in Workers, Flip(w) PROVE Exact'
  <1>1. PICK c, j : c = job[w].c /\ j = job[w]
    OBVIOUS
  <1>2. /\ j.at = "flip" /\ ~At(w, "idle") /\ c \in Checkouts /\ j \in Job /\ j.c = c
        /\ JobTrue(j) /\ JobFits(c, j) /\ j.op \in {"pay", "hook", "reconcile"} /\ ~j.refused
        /\ CheckoutFits(c) /\ On(w, c)
    BY <1>1, AtWork DEF Flip, At, Exact, JobFits, OpFits, JobTrue, Redeeming
  <1>30. PICK won, k : Flips(w, c, j, won, k)
    BY <1>1, FlipMoves
  <1>3. UNCHANGED <<used, reserved, countReleased, kv, db, idle, row, charge>>
    BY <1>30 DEF Flips
  <1>4. /\ \A d \in Checkouts \ {c} : usage'[d] = usage[d]
        /\ \A p \in Parts : usage'[c][p] = IF usage[c][p] = "reserved" THEN "active"
                                           ELSE usage[c][p]
        /\ usage[c][ClaimPart] # "reserved" => usage'[c] = usage[c]
    BY <1>30 DEF Flips
  <1>5. won \in BOOLEAN /\ (won <=> usage[c][ClaimPart] = "reserved")
    BY <1>30 DEF Flips
  <1>6. /\ Moves(w, c, k) /\ k.at = "look" /\ k.op = j.op /\ k.sess = j.sess
        /\ ~k.refused /\ k.status = j.status /\ k.inserted = j.inserted
        /\ k.won = won
    BY <1>30 DEF Flips
  <1>7. job'[w] = k
    BY <1>6, OthersStay DEF IInv
  <1>8. /\ ~Open(c) /\ j.sess.voucher = db[c].voucher
        /\ usage'[c][ClaimPart] # "reserved" /\ (won => Used(c)') /\ (Used(c) => Used(c)')
        /\ c \notin idle /\ row[c].st \notin {"none", "failed"}
    <2>1. ~Open(c) /\ j.sess.voucher = db[c].voucher
      BY <1>2 DEF JobTrue, Paying, Took, Open, JobFits, VoucherFits, Redeeming
    <2>2. usage'[c][ClaimPart] # "reserved" /\ (won => Used(c)') /\ (Used(c) => Used(c)')
      BY <1>4, <1>5, CheckoutAssumption DEF Used
    <2>3. c \notin idle /\ row[c].st \notin {"none", "failed"}
      BY <1>2 DEF JobFits, PayFits, Redeeming
    <2> QED BY <2>1, <2>2, <2>3
  <1>9. JobFits(c, k)'
    <2>1. (OpFits(k) /\ SlotFits(k))'
      BY <1>2, <1>6 DEF JobFits, OpFits, SlotFits, Redeeming
    <2>2. VoucherFits(c, k)'
      BY <1>2, <1>3, <1>6, <1>8 DEF VoucherFits, Redeeming
    <2>3. PayFits(c, k)'
      BY <1>2, <1>3, <1>6, <1>8 DEF JobFits, PayFits, Redeeming
    <2>4. ChargeFits(c, k)'
      BY <1>2, <1>3, <1>6 DEF JobFits, ChargeFits, Editing, Open
    <2>5. UsageFits(c, k)'
      BY <1>6, <1>8 DEF UsageFits
    <2> QED BY <2>1, <2>2, <2>3, <2>4, <2>5 DEF JobFits
  <1>10. ASSUME NEW q, Companion(w, c, q) PROVE JobFits(c, q)'
    <2>1. JobFits(c, q) /\ q.op \notin {"sweep", "refund"}
      BY <1>2, <1>10 DEF Companion, Beside
    <2> QED BY <1>3, <1>8, <2>1, FitsRedeemed
  <1>11. CheckoutFits(c)'
    <2>1. CopiesAgree(c)' /\ IdleIsGone(c)'
      BY <1>1, <1>2, <1>3, <1>6, CopiesKept, IdleKept DEF EditsCopies, Storing, CheckoutFits, IInv
    <2>2. HeldIsReserved(c)'
      BY <1>8 DEF HeldIsReserved
    <2>3. ClaimIsFirst(c)'
      <3>1. Unstamped(c)' <=> Unstamped(c)
        BY <1>3, <1>4, CheckoutAssumption DEF Unstamped
      <3>2. ASSUME NEW v \in Workers, On(v, c), Stamping(job[v])
            PROVE  On(v, c)' /\ Stamping(job[v])'
        <4>1. v # w
          BY <1>1, <1>2, <3>2 DEF Stamping
        <4>2. job'[v] = job[v]
          BY <1>6, <4>1, OthersStay DEF IInv
        <4> QED BY <3>2, <4>2 DEF On, At, Stamping
      <3>3. ClaimIsFirst(c)
        BY <1>2 DEF CheckoutFits
      <3>4. \A p \in Parts \ {ClaimPart} : usage'[c][p] = usage[c][p]
        BY <1>4, <3>3 DEF ClaimIsFirst
      <3>5. usage[c][ClaimPart] = "refunded" => usage'[c][ClaimPart] = "refunded"
        BY <1>4, CheckoutAssumption
      <3> QED BY <1>3, <1>8, <3>1, <3>2, <3>3, <3>4, <3>5 DEF ClaimIsFirst
    <2>4. UsedIsPaid(c)'
      BY <1>3, <1>8 DEF UsedIsPaid
    <2>5. PaidIsTold(c)' /\ AmountsAgree(c)'
      BY <1>1, <1>2, <1>3, <1>6, ToldKept, AmountsKept DEF Telling, Answering, CheckoutFits, IInv
    <2> QED BY <2>1, <2>2, <2>3, <2>4, <2>5 DEF CheckoutFits
  <1>12. \A d \in Checkouts \ {c} : Same(d)
    BY <1>3, <1>4 DEF Same
  <1>13. Fits'
    BY <1>1, <1>2, <1>6, <1>9, <1>10, <1>11, <1>12, AtHome DEF Exact
  <1>14. ReservedIsExact' /\ UsedIsExact'
    <2>1. /\ ~GivesBack(w, c) /\ ~Carrying(w) /\ ~OwesCount(w) /\ ~OwesUse(w)
          /\ ~GivesBack(w, c)' /\ ~Carrying(w)' /\ ~OwesUse(w)'
          /\ OwesCount(w)' <=> won /\ j.sess.voucher = "reserved"
      BY <1>1, <1>2, <1>6, <1>7 DEF GivesBack, Carrying, OwesCount, OwesUse
    <2>4. ~OthersGive(w, c) /\ (usage[c][ClaimPart] = "reserved" => db[c].voucher = "reserved")
      BY <1>1, <1>2, <1>8, PaidUnedited
    <2>2. CASE usage[c][ClaimPart] = "reserved"
      <3>1. Holding(c) /\ ~Holding(c)' /\ Redeemed(c)' /\ ~OthersGive(w, c)
        BY <1>4, <2>2, <2>4, CheckoutAssumption DEF Holding, Redeemed
      <3>2. Reserving(c) /\ Using(c) /\ ~Reserving(c)' /\ Using(c)'
        BY <2>1, <3>1, ReservingIs DEF Using
      <3>3. OwesCount(w)'
        BY <1>5, <1>8, <2>1, <2>2, <2>4
      <3>4. VoucherKept(w, c) /\ \A d \in Checkouts \ {c} : SlotsKept(d)
        BY <1>3, <1>12, SameSlots DEF VoucherKept
      <3>5. used \in Nat /\ reserved \in Nat
        BY DEF IInv, TypeOK
      <3> QED BY <1>2, <1>3, <1>6, <2>1, <3>2, <3>3, <3>4, <3>5, CountsMove DEF Exact, Bit
    <2>3. CASE usage[c][ClaimPart] # "reserved"
      <3>1. \A d \in Checkouts : SlotsKept(d)
        BY <1>3, <1>4, <1>12, <2>3, SameSlots DEF Same
      <3>2. OwnSlotsKept(w, c)
        BY <1>5, <2>1, <2>3 DEF OwnSlotsKept
      <3> QED BY <1>2, <1>3, <1>6, <3>1, <3>2, CountsStay
    <2> QED BY <2>2, <2>3
  <1> QED BY <1>13, <1>14 DEF Exact

(* The handler j adds the row of order p, or meets it: then it is k.       *)
Inserts(w, c, j, p, added, claim, k) ==
    /\ p \in j.todo /\ added \in BOOLEAN /\ claim \in BOOLEAN /\ k \in Job
    /\ p = ClaimPart \/ ClaimPart \notin j.todo
    /\ added => usage[c][p] = "none"
    /\ p = ClaimPart => added \/ usage[c][p] # "none"
    /\ claim <=> added /\ p = ClaimPart
    /\ usage' = IF added THEN [usage EXCEPT ![c][p] = "active"] ELSE usage
    /\ Moves(w, c, k)
    /\ \/ k.at = "insert"
       \/ k.at = "unslot" /\ j.claimed /\ ~(j.inserted \/ claim)
       \/ /\ k.at \in {"count", "idle"} /\ ~(j.claimed /\ ~(j.inserted \/ claim))
          /\ k.at = "count" <=> (j.won \/ claim) /\ j.sess.voucher = "reserved"
    /\ k.at # "idle" =>
         /\ k.op = j.op /\ k.sess = j.sess /\ k.refused = j.refused
         /\ k.status = j.status /\ k.claimed = j.claimed /\ k.todo = j.todo \ {p}
         /\ k.won = (j.won \/ claim) /\ k.inserted = (j.inserted \/ claim)
    /\ usage[c][p] = "none" => added
    /\ k.at = "insert" \/ j.todo = {p}

(* What an insert does in an orderly behaviour: the claim is not lost.     *)
LEMMA InsertInOrder ==
    ASSUME IInv, Exact, Orderly', NEW w \in Workers, NEW c, NEW j, c = job[w].c, j = job[w],
           Insert(w)
    PROVE  \E p, added, claim, k : Inserts(w, c, j, p, added, claim, k)
  <1>1. At(w, "insert")
    BY Zenon DEF Insert
  <1>2. j.at = "insert" /\ ~At(w, "idle") /\ c \in Checkouts /\ j \in Job /\ j.c = c
    BY <1>1, AtWork DEF At, Exact
  <1>30. PICK p \in NextOrders(w) :
          LET d     == job[w].c
              added == /\ usage[d][p] = "none"
                       /\ p = ClaimPart /\ PerUser => HasClaimLeft(d)
              claim == added /\ p = ClaimPart
              won   == job[w].won \/ claim
              last  == job[w].todo = {p}
              next  == IF job[w].claimed /\ ~(job[w].inserted \/ claim) THEN "unslot"
                       ELSE Last(w, won)
          IN /\ usage' = IF added THEN [usage EXCEPT ![d][p] = "active"] ELSE usage
             /\ IF last /\ next = "idle" THEN Finish(w)
                ELSE job' = [job EXCEPT ![w].at = IF last THEN next ELSE "insert",
                                        ![w].todo = @ \ {p}, ![w].won = won,
                                        ![w].inserted = @ \/ claim]
             /\ strayed' = IF p = ClaimPart /\ ~added /\ usage[d][p] = "none"
                           THEN strayed \cup {"claimLost"} ELSE strayed
    BY Zenon DEF Insert
  <1>31. PICK added : added = (/\ usage[c][p] = "none"
                               /\ p = ClaimPart /\ PerUser => HasClaimLeft(c))
    OBVIOUS
  <1>32. PICK claim, won :
           /\ claim = (added /\ p = ClaimPart)
           /\ won = (j.won \/ claim)
    OBVIOUS
  <1>33. PICK next : next = IF j.claimed /\ ~(j.inserted \/ claim) THEN "unslot" ELSE Last(w, won)
    OBVIOUS
  <1>3. /\ p \in NextOrders(w)
        /\ added = (/\ usage[c][p] = "none"
                    /\ p = ClaimPart /\ PerUser => HasClaimLeft(c))
        /\ claim = (added /\ p = ClaimPart)
        /\ won = (j.won \/ claim)
        /\ next = IF j.claimed /\ ~(j.inserted \/ claim) THEN "unslot" ELSE Last(w, won)
        /\ usage' = IF added THEN [usage EXCEPT ![c][p] = "active"] ELSE usage
        /\ IF j.todo = {p} /\ next = "idle" THEN Finish(w)
           ELSE job' = [job EXCEPT ![w].at = IF j.todo = {p} THEN next ELSE "insert",
                                   ![w].todo = @ \ {p}, ![w].won = won,
                                   ![w].inserted = @ \/ claim]
        /\ strayed' = IF p = ClaimPart /\ ~added /\ usage[c][p] = "none"
                      THEN strayed \cup {"claimLost"} ELSE strayed
    BY ZenonT(60), <1>30, <1>31, <1>32, <1>33
  <1>4. p \in j.todo /\ (p = ClaimPart \/ ClaimPart \notin j.todo)
    <2>1. p \in NextOrders(w)
      BY Zenon, <1>3
    <2> QED BY <2>1 DEF NextOrders
  <1>5. p = ClaimPart => added \/ usage[c][p] # "none"
    <2>1. strayed' = IF p = ClaimPart /\ ~added /\ usage[c][p] = "none"
                     THEN strayed \cup {"claimLost"} ELSE strayed
      BY Zenon, <1>3
    <2> QED BY <2>1 DEF Orderly
  <1>50. usage[c][p] = "none" => added
    <2>1. p # ClaimPart /\ usage[c][p] = "none" => added
      BY Zenon, <1>3
    <2> QED BY <1>5, <2>1
  <1>6. added \in BOOLEAN /\ (added => usage[c][p] = "none")
    BY Zenon, <1>3
  <1>7. claim \in BOOLEAN /\ (claim <=> added /\ p = ClaimPart)
    BY Zenon, <1>3
  <1>8. won \in BOOLEAN /\ won = (j.won \/ claim)
    BY Zenon, <1>3
  <1>9. next = IF j.claimed /\ ~(j.inserted \/ claim) THEN "unslot"
               ELSE IF won /\ j.sess.voucher = "reserved" THEN "count" ELSE "idle"
    <2>1. next = IF j.claimed /\ ~(j.inserted \/ claim) THEN "unslot" ELSE Last(w, won)
      BY Zenon, <1>3
    <2> QED BY <2>1 DEF Last
  <1>10. usage' = IF added THEN [usage EXCEPT ![c][p] = "active"] ELSE usage
    BY Zenon, <1>3
  <1>11. ASSUME NEW k, Moves(w, c, k),
                \/ k.at = "insert"
                \/ k.at = next,
                k.at # "idle" =>
                  /\ k.op = j.op /\ k.sess = j.sess /\ k.refused = j.refused
                  /\ k.status = j.status /\ k.claimed = j.claimed /\ k.todo = j.todo \ {p}
                  /\ k.won = won /\ k.inserted = (j.inserted \/ claim)
         PROVE  /\ k \in Job
                /\ \/ k.at = "insert"
                   \/ k.at = "unslot" /\ j.claimed /\ ~(j.inserted \/ claim)
                   \/ /\ k.at \in {"count", "idle"} /\ ~(j.claimed /\ ~(j.inserted \/ claim))
                      /\ k.at = "count" <=> (j.won \/ claim) /\ j.sess.voucher = "reserved"
                /\ k.at # "idle" => k.won = (j.won \/ claim)
    BY <1>8, <1>9, <1>11 DEF Moves
  <1>12. \E k : /\ Moves(w, c, k) /\ (k.at = "insert" \/ k.at = next)
                /\ k.at = "insert" \/ j.todo = {p}
                /\ k.at # "idle" =>
                     /\ k.op = j.op /\ k.sess = j.sess /\ k.refused = j.refused
                     /\ k.status = j.status /\ k.claimed = j.claimed /\ k.todo = j.todo \ {p}
                     /\ k.won = won /\ k.inserted = (j.inserted \/ claim)
    <2>1. CASE j.todo = {p} /\ next = "idle"
      <3>1. Finish(w)
        BY Zenon, <1>3, <2>1
      <3>2. PICK k : Moves(w, c, k) /\ k.at = "idle"
        BY <1>2, <3>1, Ends
      <3> QED BY <2>1, <3>2
    <2>2. CASE ~(j.todo = {p} /\ next = "idle")
      <3>1. PICK l : l = IF j.todo = {p} THEN next ELSE "insert"
        OBVIOUS
      <3>2. job' = [job EXCEPT ![w].at = l, ![w].todo = @ \ {p}, ![w].won = won,
                               ![w].inserted = @ \/ claim]
        BY Zenon, <1>3, <2>2, <3>1
      <3>8. PICK todo, inserted : /\ todo = j.todo \ {p}
                                  /\ inserted = (j.inserted \/ claim)
        OBVIOUS
      <3>3. PICK k : k = [j EXCEPT !.at = l, !.todo = todo, !.won = won,
                                   !.inserted = inserted]
        OBVIOUS
      <3>9. todo \in SUBSET Parts /\ inserted \in BOOLEAN
        <4>1. todo \in SUBSET Parts
          BY <1>2, <3>8 DEF Job
        <4>2. inserted \in BOOLEAN
          BY Zenon, <3>8
        <4> QED BY <4>1, <4>2
      <3>4. /\ l \in {"insert", "unslot", "count"} /\ (l = "insert" \/ l = next)
            /\ l = "insert" \/ j.todo = {p}
        BY <1>9, <2>2, <3>1
      <3>5. /\ k \in Job /\ k.at = l /\ k.c = c /\ k.op = j.op /\ k.sess = j.sess
            /\ k.refused = j.refused /\ k.status = j.status /\ k.claimed = j.claimed
            /\ k.todo = j.todo \ {p} /\ k.won = won /\ k.inserted = (j.inserted \/ claim)
        <4>1. k \in Job
          <5>1. l \in Labels /\ todo \in SUBSET Parts /\ won \in BOOLEAN /\ inserted \in BOOLEAN
            BY <1>8, <3>4, <3>9 DEF Labels
          <5> HIDE DEF Labels
          <5> QED BY ZenonT(60), <1>2, <3>3, <5>1 DEF Job
        <4>2. /\ k.at = l /\ k.c = c /\ k.op = j.op /\ k.sess = j.sess
              /\ k.refused = j.refused /\ k.status = j.status /\ k.claimed = j.claimed
              /\ k.todo = j.todo \ {p} /\ k.won = won /\ k.inserted = (j.inserted \/ claim)
          <5>1. /\ k.at = l /\ k.c = c /\ k.op = j.op /\ k.sess = j.sess
                /\ k.refused = j.refused /\ k.status = j.status /\ k.claimed = j.claimed
                /\ k.todo = todo /\ k.won = won /\ k.inserted = inserted
            BY <1>2, <3>3 DEF Job
          <5> QED BY Zenon, <3>8, <5>1
        <4> QED BY <4>1, <4>2
      <3>6. job' = [job EXCEPT ![w] = k]
        BY ZenonT(60), <3>2, <3>3, <3>8
      <3>7. Moves(w, c, k)
        BY <1>2, <3>5, <3>6 DEF Moves
      <3> QED BY <3>4, <3>5, <3>7
    <2> QED BY <2>1, <2>2
  <1>13. PICK k : /\ Moves(w, c, k) /\ (k.at = "insert" \/ k.at = next)
                  /\ k.at = "insert" \/ j.todo = {p}
                  /\ k.at # "idle" =>
                       /\ k.op = j.op /\ k.sess = j.sess /\ k.refused = j.refused
                       /\ k.status = j.status /\ k.claimed = j.claimed /\ k.todo = j.todo \ {p}
                       /\ k.won = won /\ k.inserted = (j.inserted \/ claim)
    BY Zenon, <1>12
  <1>14. /\ k \in Job
         /\ \/ k.at = "insert"
            \/ k.at = "unslot" /\ j.claimed /\ ~(j.inserted \/ claim)
            \/ /\ k.at \in {"count", "idle"} /\ ~(j.claimed /\ ~(j.inserted \/ claim))
               /\ k.at = "count" <=> (j.won \/ claim) /\ j.sess.voucher = "reserved"
         /\ k.at # "idle" => k.won = (j.won \/ claim)
    BY Zenon, <1>11, <1>13
  <1>15. Inserts(w, c, j, p, added, claim, k)
    BY <1>4, <1>5, <1>50, <1>6, <1>7, <1>10, <1>13, <1>14 DEF Inserts
  <1> QED BY Zenon, <1>15

(* A redemption adds the row of an order: the first one is the use.        *)
LEMMA InsertExact ==
    ASSUME IInv, Exact, Orderly', NEW w \in Workers, Insert(w) PROVE Exact'
  <1>1. PICK c, j : c = job[w].c /\ j = job[w]
    OBVIOUS
  <1>2. /\ j.at = "insert" /\ ~At(w, "idle") /\ c \in Checkouts /\ j \in Job /\ j.c = c
        /\ JobTrue(j) /\ JobFits(c, j) /\ j.op \in {"pay", "hook", "reconcile"} /\ ~j.refused
        /\ CheckoutFits(c) /\ On(w, c)
    <2>1. At(w, "insert")
      BY Zenon DEF Insert
    <2>2. j.at = "insert" /\ ~At(w, "idle")
      BY <1>1, <2>1 DEF At
    <2>3. c \in Checkouts /\ j \in Job /\ j.c = c /\ On(w, c) /\ CheckoutFits(c)
      BY <1>1, <2>2, AtWork DEF Exact
    <2>4. JobTrue(j) /\ JobFits(c, j)
      BY <1>1, <2>2, AtWork DEF Exact
    <2>5. j.op \in {"pay", "hook", "reconcile"} /\ ~j.refused
      BY <2>2, <2>4 DEF JobFits, OpFits, JobTrue, Redeeming
    <2> QED BY <2>2, <2>3, <2>4, <2>5
  <1>3. UNCHANGED <<used, reserved, countReleased, kv, db, idle, row, charge>>
    <2>1. UNCHANGED <<used, reserved, countReleased, sessionVars, ledgerVars, asked>>
      BY Zenon DEF Insert
    <2> QED BY <2>1 DEF sessionVars, ledgerVars
  <1>40. PICK p, added, claim, k : Inserts(w, c, j, p, added, claim, k)
    BY Zenon, <1>1, InsertInOrder
  <1>4. /\ p \in j.todo /\ added \in BOOLEAN /\ claim \in BOOLEAN /\ k \in Job
        /\ p = ClaimPart \/ ClaimPart \notin j.todo
        /\ added => usage[c][p] = "none"
        /\ p = ClaimPart => added \/ usage[c][p] # "none"
        /\ claim <=> added /\ p = ClaimPart
        /\ usage' = IF added THEN [usage EXCEPT ![c][p] = "active"] ELSE usage
        /\ Moves(w, c, k)
        /\ \/ k.at = "insert"
           \/ k.at = "unslot" /\ j.claimed /\ ~(j.inserted \/ claim)
           \/ /\ k.at \in {"count", "idle"} /\ ~(j.claimed /\ ~(j.inserted \/ claim))
              /\ k.at = "count" <=> (j.won \/ claim) /\ j.sess.voucher = "reserved"
        /\ k.at # "idle" =>
             /\ k.op = j.op /\ k.sess = j.sess /\ k.refused = j.refused
             /\ k.status = j.status /\ k.claimed = j.claimed /\ k.todo = j.todo \ {p}
             /\ k.won = (j.won \/ claim) /\ k.inserted = (j.inserted \/ claim)
    BY Zenon, <1>40 DEF Inserts
  <1>5. p \in Parts
    <2>1. j.todo \in SUBSET Parts
      BY <1>2 DEF Job
    <2>2. p \in j.todo
      BY <1>4
    <2> QED BY <2>1, <2>2
  <1>6. /\ \A d \in Checkouts \ {c} : usage'[d] = usage[d]
        /\ \A q \in Parts : usage'[c][q] = IF added /\ q = p THEN "active" ELSE usage[c][q]
    <2>1. usage \in [Checkouts -> [Parts -> {"none", "reserved", "active", "refunded"}]]
      BY DEF IInv, TypeOK
    <2>2. usage' = IF added THEN [usage EXCEPT ![c][p] = "active"] ELSE usage
      BY <1>4
    <2> QED BY <1>2, <1>5, <2>1, <2>2
  <1>7. /\ usage[c][ClaimPart] \in {"none", "active", "refunded"}
        /\ claim => usage[c][ClaimPart] = "none" /\ usage'[c][ClaimPart] = "active"
        /\ ~claim => /\ usage'[c][ClaimPart] = usage[c][ClaimPart]
                     /\ Used(c)
        /\ Used(c)'
    <2>1. usage[c][ClaimPart] \in {"none", "active", "refunded"}
      BY <1>2, CheckoutAssumption DEF JobFits, UsageFits, IInv, TypeOK
    <2>2. claim => usage[c][ClaimPart] = "none" /\ usage'[c][ClaimPart] = "active"
      BY <1>4, <1>6, CheckoutAssumption
    <2>3. ~claim => usage'[c][ClaimPart] = usage[c][ClaimPart]
      BY <1>4, <1>6, CheckoutAssumption
    <2>4. ~claim => Used(c)
      BY <1>2, <1>4, <2>1 DEF JobFits, UsageFits, Used
    <2> QED BY <2>1, <2>2, <2>3, <2>4 DEF Used
  <1>8. job'[w] = k
    BY <1>4, OthersStay DEF IInv
  <1>9. /\ ~Open(c) /\ j.sess.voucher = db[c].voucher
        /\ c \notin idle /\ row[c].st \notin {"none", "failed"}
    <2>1. ~Open(c)
      BY <1>2 DEF JobTrue, Paying, Took, Open
    <2> QED BY <1>2, <2>1 DEF JobFits, VoucherFits, PayFits, Redeeming
  <1>10. ~OthersGive(w, c)
    BY <1>1, <1>2, <1>9, PaidUnedited
  <1>11. /\ claim => ~j.won /\ ~j.inserted /\ (j.claimed <=> j.sess.voucher # "reserved")
         /\ j.claimed => j.sess.voucher # "reserved"
    <2>1. claim => ClaimPart \in j.todo /\ ~Used(c)
      BY <1>4, <1>7 DEF Used
    <2> QED BY <1>2, <2>1 DEF JobFits, SlotFits, UsageFits
  <1>12. k.at # "idle" => JobFits(c, k)'
    <2> SUFFICES ASSUME k.at # "idle" PROVE JobFits(c, k)'
      OBVIOUS
    <2>1. k.op = j.op /\ k.sess = j.sess /\ ~k.refused /\ k.status = j.status
          /\ k.at \in {"insert", "unslot", "count"} /\ k.claimed = j.claimed
          /\ k.todo = j.todo \ {p} /\ k.won = (j.won \/ claim) /\ k.inserted = (j.inserted \/ claim)
      BY <1>2, <1>4
    <2>2. OpFits(k)'
      BY <1>2, <2>1 DEF OpFits, Redeeming
    <2>3. SlotFits(k)'
      <3>1. ClaimPart \notin k.todo
        BY <1>4, <2>1
      <3>2. k.at = "unslot" => j.claimed
        BY <1>4, <2>1
      <3>3. k.at = "count" => k.won /\ k.sess.voucher = "reserved"
        BY <1>4, <2>1
      <3> QED BY <1>11, <2>1, <3>1, <3>2, <3>3 DEF SlotFits
    <2>4. VoucherFits(c, k)'
      BY <1>2, <1>3, <1>9, <2>1 DEF VoucherFits, Redeeming
    <2>5. PayFits(c, k)'
      BY <1>2, <1>3, <1>9, <2>1 DEF JobFits, PayFits, Redeeming
    <2>6. ChargeFits(c, k)'
      BY <1>2, <1>3, <2>1 DEF JobFits, ChargeFits, Editing, Open
    <2>7. UsageFits(c, k)'
      BY <1>7, <2>1 DEF UsageFits, Used
    <2> QED BY <2>2, <2>3, <2>4, <2>5, <2>6, <2>7 DEF JobFits
  <1>13. ASSUME NEW q, Companion(w, c, q) PROVE JobFits(c, q)'
    <2>1. JobFits(c, q) /\ q.op \notin {"sweep", "refund"}
      BY <1>2, <1>13 DEF Companion, Beside
    <2> QED BY <1>3, <1>7, <2>1, FitsRedeemed
  <1>14. \A d \in Checkouts \ {c} : Same(d)
    BY <1>3, <1>6 DEF Same
  <1>15. k.at = "idle" \/ k.op = j.op
    BY <1>4
  <1>16. CheckoutFits(c)'
    <2>1. CopiesAgree(c)' /\ IdleIsGone(c)'
      BY <1>1, <1>2, <1>3, <1>4, CopiesKept, IdleKept DEF EditsCopies, Storing, CheckoutFits, IInv
    <2>2. HeldIsReserved(c)'
      BY <1>7 DEF HeldIsReserved
    <2>3. ClaimIsFirst(c)'
      <3>1. Unstamped(c)' <=> Unstamped(c)
        BY <1>3, <1>7 DEF Unstamped
      <3>2. ASSUME NEW v \in Workers, On(v, c), Stamping(job[v])
            PROVE  On(v, c)' /\ Stamping(job[v])'
        <4>1. v # w
          BY <1>1, <1>2, <3>2 DEF Stamping
        <4>2. job'[v] = job[v]
          BY <1>4, <4>1, OthersStay DEF IInv
        <4> QED BY <3>2, <4>2 DEF On, At, Stamping
      <3>3. ClaimIsFirst(c)
        BY <1>2 DEF CheckoutFits
      <3>4. \A q \in Parts \ {ClaimPart} : usage'[c][q] # "reserved"
        BY <1>6, <3>3 DEF ClaimIsFirst
      <3>5. usage[c][ClaimPart] = "refunded" => usage'[c][ClaimPart] = "refunded"
        BY <1>7
      <3> QED BY <1>3, <1>7, <3>1, <3>2, <3>3, <3>4, <3>5 DEF ClaimIsFirst
    <2>4. UsedIsPaid(c)'
      BY <1>3, <1>9 DEF UsedIsPaid
    <2>5. PaidIsTold(c)' /\ AmountsAgree(c)'
      BY <1>1, <1>2, <1>3, <1>4, ToldKept, AmountsKept DEF Telling, Answering, CheckoutFits, IInv
    <2> QED BY <2>1, <2>2, <2>3, <2>4, <2>5 DEF CheckoutFits
  <1>17. Fits'
    BY <1>1, <1>2, <1>4, <1>12, <1>13, <1>14, <1>15, <1>16, AtHome DEF Exact
  <1>18. ReservedIsExact' /\ UsedIsExact'
    <2>1. /\ ~GivesBack(w, c) /\ ~Carrying(w) /\ ~GivesBack(w, c)' /\ ~Carrying(w)'
      BY <1>1, <1>2, <1>4, <1>8 DEF GivesBack, Carrying
    <2>2. /\ OwesCount(w) <=> j.won /\ j.sess.voucher = "reserved"
          /\ OwesUse(w) <=> j.claimed /\ ~j.inserted
      BY <1>1, <1>2 DEF OwesCount, OwesUse
    <2>3. /\ OwesCount(w)' <=> (j.won \/ claim) /\ j.sess.voucher = "reserved"
          /\ OwesUse(w)' <=> j.claimed /\ ~(j.inserted \/ claim)
      <3>1. CASE k.at = "idle"
        BY <1>4, <1>8, <3>1 DEF OwesCount, OwesUse
      <3>2. CASE k.at = "insert"
        BY <1>4, <1>8, <3>2 DEF OwesCount, OwesUse
      <3>3. CASE k.at = "unslot"
        BY <1>4, <1>8, <3>3 DEF OwesCount, OwesUse
      <3>4. CASE k.at = "count"
        BY <1>4, <1>8, <3>4 DEF OwesCount, OwesUse
      <3> QED BY <1>4, <3>1, <3>2, <3>3, <3>4
    <2>4. CASE claim
      <3>1. /\ Reserving(c) <=> j.sess.voucher = "reserved"
            /\ ~Reserving(c)'
        BY <1>7, <1>9, <1>10, <2>1, <2>4, ReservingIs DEF Holding
      <3>2. /\ Using(c) <=> j.sess.voucher = "reserved"
            /\ Using(c)'
        BY <1>7, <2>4, <3>1 DEF Using, Redeemed, Unstamped
      <3>3. /\ ~OwesCount(w) /\ (OwesCount(w)' <=> j.sess.voucher = "reserved")
            /\ (OwesUse(w) <=> j.sess.voucher # "reserved") /\ ~OwesUse(w)'
        BY <1>11, <2>2, <2>3, <2>4
      <3>4. VoucherKept(w, c) /\ \A d \in Checkouts \ {c} : SlotsKept(d)
        BY <1>3, <1>14, SameSlots DEF VoucherKept
      <3>5. used \in Nat /\ reserved \in Nat
        BY DEF IInv, TypeOK
      <3> QED BY <1>2, <1>3, <1>4, <2>1, <3>1, <3>2, <3>3, <3>4, <3>5, CountsMove DEF Exact, Bit
    <2>5. CASE ~claim
      <3>1. SlotsKept(c)
        BY <1>3, <1>7, <2>5 DEF SlotsKept, Holding, Redeemed, Unstamped
      <3>2. \A d \in Checkouts : SlotsKept(d)
        BY <1>14, <3>1, SameSlots
      <3>3. OwnSlotsKept(w, c)
        BY <2>1, <2>2, <2>3, <2>5 DEF OwnSlotsKept
      <3> QED BY <1>2, <1>3, <1>4, <3>2, <3>3, CountsStay
    <2> QED BY <2>4, <2>5
  <1> QED BY <1>17, <1>18 DEF Exact

(* A refund marks the uses refunded, ...                                   *)
LEMMA MarkExact ==
    ASSUME IInv, Exact, NEW w \in Workers, Mark(w) PROVE Exact'
  <1>1. PICK c, j : c = job[w].c /\ j = job[w]
    OBVIOUS
  <1>2. /\ j.at = "mark" /\ ~At(w, "idle") /\ c \in Checkouts /\ j \in Job /\ j.c = c
        /\ JobTrue(j) /\ JobFits(c, j) /\ j.op = "refund" /\ ~j.refused
        /\ CheckoutFits(c) /\ On(w, c)
    BY <1>1, AtWork DEF Mark, At, Exact, JobFits, OpFits, JobTrue
  <1>3. UNCHANGED <<used, reserved, countReleased, kv, db, idle, row, charge>>
    BY DEF Mark, sessionVars, ledgerVars
  <1>4. /\ \A d \in Checkouts \ {c} : usage'[d] = usage[d]
        /\ \A p \in Parts : usage'[c][p] = IF usage[c][p] = "active" THEN "refunded"
                                           ELSE usage[c][p]
    <2>1. usage \in [Checkouts -> [Parts -> {"none", "reserved", "active", "refunded"}]]
      BY DEF IInv, TypeOK
    <2>2. PICK u : u = [p \in Parts |-> IF usage[c][p] = "active" THEN "refunded"
                                        ELSE usage[c][p]]
      OBVIOUS
    <2>3. usage' = [usage EXCEPT ![c] = u]
      BY <1>1, <2>2 DEF Mark
    <2>4. usage'[c] = u /\ \A d \in Checkouts \ {c} : usage'[d] = usage[d]
      BY <1>2, <2>1, <2>3
    <2> QED BY <2>2, <2>4
  <1>5. PICK k : Moves(w, c, k) /\ k.at = "fully" /\ Follows(j, k)
    BY <1>1, <1>2, Goes DEF Mark, Labels, Exact
  <1>6. job'[w] = k /\ On(w, c)'
    <2>1. job'[w] = k
      BY <1>5, OthersStay DEF IInv
    <2> QED BY <1>2, <1>5, <2>1 DEF On, At, Follows
  <1>7. JobFits(c, k)'
    <2>1. (OpFits(k) /\ SlotFits(k))'
      BY <1>2, <1>5 DEF Follows, JobFits, OpFits, SlotFits, Redeeming
    <2>2. VoucherFits(c, k)'
      BY <1>2, <1>5 DEF Follows, VoucherFits, Redeeming
    <2>3. (PayFits(c, k) /\ ChargeFits(c, k))'
      BY <1>2, <1>5 DEF Follows, PayFits, ChargeFits, Editing, Redeeming
    <2>4. UsageFits(c, k)'
      BY <1>2, <1>4, <1>5 DEF Follows, UsageFits
    <2> QED BY <2>1, <2>2, <2>3, <2>4 DEF JobFits
  <1>8. \A q : ~Companion(w, c, q)
    BY <1>1, <1>2, NoCompanion
  <1>9. /\ Used(c)' <=> Used(c)
        /\ usage'[c][ClaimPart] = "reserved" <=> usage[c][ClaimPart] = "reserved"
    BY <1>4, CheckoutAssumption DEF Used
  <1>10. CheckoutFits(c)'
    <2>1. CopiesAgree(c)' /\ IdleIsGone(c)'
      BY <1>1, <1>2, <1>3, <1>5, CopiesKept, IdleKept
         DEF EditsCopies, Editing, Storing, CheckoutFits, IInv
    <2>2. HeldIsReserved(c)'
      <3>1. ASSUME NEW v \in Workers, On(v, c), HoldsRow(job[v])
            PROVE  On(v, c)' /\ HoldsRow(job[v])'
        <4>1. v # w
          BY <1>1, <1>2, <3>1 DEF HoldsRow
        <4>2. job'[v] = job[v]
          BY <1>5, <4>1, OthersStay DEF IInv
        <4> QED BY <3>1, <4>2 DEF On, At, HoldsRow
      <3> QED BY <1>2, <1>3, <1>9, <3>1 DEF HeldIsReserved, CheckoutFits, PerUser
    <2>3. ClaimIsFirst(c)'
      <3>1. ClaimIsFirst(c)
        BY <1>2 DEF CheckoutFits
      <3>2. \A p \in Parts \ {ClaimPart} :
              usage'[c][p] # "reserved" /\ (usage'[c][p] # "none" => Used(c)')
        BY <1>4, <1>9, <3>1 DEF ClaimIsFirst
      <3>3. usage[c][ClaimPart] = "refunded" => usage'[c][ClaimPart] = "refunded"
        BY <1>4, CheckoutAssumption
      <3>4. Stamping(job'[w])
        BY <1>5, <1>6 DEF Stamping
      <3> QED BY <1>3, <1>6, <3>1, <3>2, <3>3, <3>4 DEF ClaimIsFirst, Stamping
    <2>4. UsedIsPaid(c)'
      BY <1>2, <1>3, <1>9 DEF UsedIsPaid, CheckoutFits
    <2>5. PaidIsTold(c)' /\ AmountsAgree(c)'
      BY <1>1, <1>2, <1>3, <1>5, ToldKept, AmountsKept DEF Telling, Answering, CheckoutFits, IInv
    <2> QED BY <2>1, <2>2, <2>3, <2>4, <2>5 DEF CheckoutFits
  <1>11. \A d \in Checkouts \ {c} : Same(d)
    BY <1>3, <1>4 DEF Same
  <1>12. Fits'
    BY <1>1, <1>2, <1>5, <1>7, <1>8, <1>10, <1>11, AtHome DEF Exact, Follows
  <1>13. ReservedIsExact' /\ UsedIsExact'
    <2>1. /\ ~GivesBack(w, c) /\ ~Carrying(w) /\ ~OwesCount(w) /\ ~OwesUse(w)
          /\ ~GivesBack(w, c)' /\ ~Carrying(w)' /\ ~OwesCount(w)' /\ ~OwesUse(w)'
      BY <1>1, <1>2, <1>5, <1>6 DEF GivesBack, Carrying, OwesCount, OwesUse, Follows
    <2>2. VoucherKept(w, c) /\ \A d \in Checkouts \ {c} : SlotsKept(d)
      BY <1>3, <1>11, SameSlots DEF VoucherKept
    <2>3. \A d \in Checkouts \ {c} : db'[d].voucher = db[d].voucher
      BY <1>3
    <2>4. OthersGive(w, c)' <=> OthersGive(w, c)
      BY <1>2, <1>5, <2>2, <2>3, OthersKeepSlots DEF OthersGive, Exact
    <2>5. Holding(c)' <=> Holding(c)
      BY <1>3, <1>4, CheckoutAssumption DEF Holding
    <2>6. Reserving(c)' <=> Reserving(c)
      BY <2>1, <2>4, <2>5, ReservingIs
    <2>7. (Redeemed(c) \/ Unstamped(c))' <=> Redeemed(c) \/ Unstamped(c)
      <3>1. <<c, ClaimPart>> \in countReleased => usage[c][ClaimPart] = "refunded"
        BY <1>2 DEF CheckoutFits, ClaimIsFirst
      <3> QED BY <1>3, <1>4, <3>1, CheckoutAssumption DEF Redeemed, Unstamped
    <2>8. Using(c)' <=> Using(c)
      BY <2>6, <2>7 DEF Using
    <2>9. used \in Nat /\ reserved \in Nat
      BY DEF IInv, TypeOK
    <2> QED BY <1>2, <1>3, <1>5, <2>1, <2>2, <2>6, <2>8, <2>9, CountsMove DEF Exact, Bit
  <1> QED BY <1>12, <1>13 DEF Exact

(* ... and stamps the claim's row, whose use is given back next.           *)
LEMMA FullyExact ==
    ASSUME IInv, Exact, NEW w \in Workers, Fully(w) PROVE Exact'
  <1>1. PICK c, j : c = job[w].c /\ j = job[w]
    OBVIOUS
  <1>2. /\ j.at = "fully" /\ ~At(w, "idle") /\ c \in Checkouts /\ j \in Job /\ j.c = c
        /\ JobTrue(j) /\ JobFits(c, j) /\ j.op = "refund" /\ ~j.refused
        /\ CheckoutFits(c) /\ On(w, c)
    BY <1>1, AtWork DEF Fully, At, Exact, JobFits, OpFits, JobTrue
  <1>3. UNCHANGED <<used, reserved, usage, kv, db, idle, row, charge>>
    BY DEF Fully, sessionVars, ledgerVars
  <1>4. /\ ClaimIsFirst(c)
        /\ Live(c) # {} => ClaimPart \in Live(c)
        /\ Unstamped(c) => ClaimPart \in Live(c) /\ \A p \in Live(c) : usage[c][p] = "refunded"
    <2>1. ClaimIsFirst(c)
      BY <1>2 DEF CheckoutFits
    <2>2. ASSUME NEW p \in Parts
          PROVE  /\ usage[c][p] \in {"none", "reserved", "refunded"}
                 /\ p # ClaimPart => usage[c][p] # "reserved"
      <3>1. usage[c][p] # "active"
        BY <1>2 DEF JobFits, UsageFits
      <3>2. usage[c] \in [Parts -> {"none", "reserved", "active", "refunded"}]
        BY <1>2 DEF IInv, TypeOK
      <3> QED BY <2>1, <3>1, <3>2 DEF ClaimIsFirst
    <2>3. Live(c) # {} => ClaimPart \in Live(c)
      BY <2>1, CheckoutAssumption DEF ClaimIsFirst, Live, Used
    <2>4. ASSUME Unstamped(c), NEW p \in Live(c) PROVE usage[c][p] = "refunded"
      BY <2>2, <2>4 DEF Live, Unstamped
    <2>5. Unstamped(c) => ClaimPart \in Live(c)
      BY CheckoutAssumption DEF Live, Unstamped
    <2> QED BY <2>1, <2>3, <2>4, <2>5
  <1>5. \A q : ~Companion(w, c, q)
    BY <1>1, <1>2, NoCompanion
  <1>6. /\ ~GivesBack(w, c) /\ ~Carrying(w) /\ ~OwesCount(w) /\ ~OwesUse(w)
    BY <1>1, <1>2 DEF GivesBack, Carrying, OwesCount, OwesUse
  <1>7. ASSUME NEW k, Moves(w, c, k), k.at = "idle" \/ k.op = j.op,
               k.at # "idle" => JobFits(c, k)', k.at \notin {"save", "persist"},
               \A d \in Checkouts \ {c} : Same(d),
               ClaimIsFirst(c)'
        PROVE  Fits'
    <2>1. CopiesAgree(c)' /\ IdleIsGone(c)'
      BY <1>1, <1>2, <1>3, <1>7, CopiesKept, IdleKept
         DEF EditsCopies, Editing, Storing, CheckoutFits, IInv
    <2>2. HeldIsReserved(c)'
      BY <1>1, <1>2, <1>3, <1>7, HeldKept DEF HoldsRow, CheckoutFits, IInv
    <2>3. UsedIsPaid(c)' /\ PaidIsTold(c)' /\ AmountsAgree(c)'
      BY <1>1, <1>2, <1>3, <1>7, UsedKept, ToldKept, AmountsKept
         DEF Telling, Answering, CheckoutFits, IInv
    <2>4. CheckoutFits(c)'
      BY <1>7, <2>1, <2>2, <2>3 DEF CheckoutFits
    <2> QED BY <1>1, <1>2, <1>5, <1>7, <2>4, AtHome DEF Exact
  <1>8. ASSUME NEW p \in Live(c), ClaimPart \in Live(c) => p = ClaimPart,
               \A q \in Live(c) : usage[c][q] = "refunded",
               <<c, p>> \notin countReleased, countReleased' = countReleased \cup {<<c, p>>},
               Goto(w, "uncount")
        PROVE  Exact'
    <2>1. p = ClaimPart /\ Unstamped(c) /\ ~Unstamped(c)' /\ usage[c][ClaimPart] = "refunded"
      BY <1>3, <1>4, <1>8 DEF Unstamped
    <2>2. PICK k : Moves(w, c, k) /\ k.at = "uncount" /\ Follows(j, k)
      BY <1>1, <1>2, <1>8, Goes DEF Labels, Exact
    <2>3. job'[w] = k
      BY <2>2, OthersStay DEF IInv
    <2>4. JobFits(c, k)'
      <3>1. (OpFits(k) /\ SlotFits(k))'
        BY <1>2, <2>2 DEF Follows, JobFits, OpFits, SlotFits, Redeeming
      <3>2. VoucherFits(c, k)'
        BY <1>2, <2>2 DEF Follows, VoucherFits, Redeeming
      <3>3. (PayFits(c, k) /\ ChargeFits(c, k) /\ UsageFits(c, k))'
        BY <1>2, <2>2 DEF Follows, PayFits, ChargeFits, UsageFits, Editing, Redeeming
      <3> QED BY <3>1, <3>2, <3>3 DEF JobFits
    <2>5. \A d \in Checkouts \ {c} : Same(d)
      BY <1>3, <1>8 DEF Same
    <2>6. ClaimIsFirst(c)'
      BY <1>3, <1>4, <2>1 DEF ClaimIsFirst, Used
    <2>7. Fits'
      BY <1>7, <2>2, <2>4, <2>5, <2>6 DEF Follows
    <2>8. ReservedIsExact' /\ UsedIsExact'
      <3>1. /\ ~GivesBack(w, c)' /\ ~Carrying(w)' /\ ~OwesCount(w)' /\ OwesUse(w)'
        BY <1>2, <2>2, <2>3 DEF GivesBack, Carrying, OwesCount, OwesUse, Follows
      <3>2. VoucherKept(w, c) /\ \A d \in Checkouts \ {c} : SlotsKept(d)
        BY <1>3, <2>5, SameSlots DEF VoucherKept
      <3>3. /\ ~Reserving(c) /\ ~Reserving(c)'
            /\ Using(c) /\ ~Using(c)'
        BY <1>3, <2>1 DEF Reserving, Using, Holding, Redeemed
      <3>4. used \in Nat /\ reserved \in Nat
        BY DEF IInv, TypeOK
      <3> QED BY <1>2, <1>3, <1>6, <2>2, <3>1, <3>2, <3>3, <3>4, CountsMove DEF Exact, Bit
    <2> QED BY <2>7, <2>8 DEF Exact
  <1>9. ASSUME Finish(w), UNCHANGED countReleased, ~Unstamped(c)
        PROVE  Exact'
    <2>1. PICK k : Moves(w, c, k) /\ k.at = "idle"
      BY <1>1, <1>2, <1>9, Ends
    <2>2. \A d \in Checkouts : Same(d)
      BY <1>3, <1>9 DEF Same
    <2>3. ClaimIsFirst(c)'
      BY <1>3, <1>4, <1>9 DEF ClaimIsFirst, Unstamped, Used
    <2>4. Fits'
      BY <1>7, <2>1, <2>2, <2>3
    <2>5. OwnSlotsKept(w, c) /\ \A d \in Checkouts : SlotsKept(d)
      BY <1>6, <2>1, <2>2, IdleHoldsNothing, SameSlots DEF OwnSlotsKept
    <2>6. ReservedIsExact' /\ UsedIsExact'
      BY <1>2, <1>3, <2>1, <2>5, CountsStay
    <2> QED BY <2>4, <2>6 DEF Exact
  <1>10. CASE /\ \/ \E p \in Live(c) : usage[c][p] # "refunded"
                 \/ \A p \in {q \in Live(c) : ClaimPart \in Live(c) => q = ClaimPart} :
                      <<c, p>> \in countReleased
              /\ Finish(w)
              /\ UNCHANGED countReleased
    <2>1. ~Unstamped(c)
      BY <1>4, <1>10 DEF Unstamped
    <2> QED BY <1>9, <1>10, <2>1
  <1>11. CASE /\ \A p \in Live(c) : usage[c][p] = "refunded"
              /\ \E p \in {q \in Live(c) : ClaimPart \in Live(c) => q = ClaimPart} :
                   /\ <<c, p>> \notin countReleased
                   /\ countReleased' = countReleased \cup {<<c, p>>}
              /\ Goto(w, "uncount")
    BY <1>8, <1>11
  <1> QED BY <1>1, <1>10, <1>11 DEF Fully

-----------------------------------------------------------------------------
(* Every step.                                                             *)

(* A disorder that happened is remembered.                                 *)
LEMMA OrderIsLost == [Next]_vars /\ Orderly' => Orderly
  <1> SUFFICES ASSUME [Next]_vars, Orderly' PROVE Orderly
    OBVIOUS
  <1>1. ASSUME strayed \subseteq strayed' PROVE Orderly
    BY <1>1 DEF Orderly
  <1>2. CASE UNCHANGED vars
    BY <1>1, <1>2 DEF vars, boundVars
  <1>3. ASSUME NEW d, Stray(d) PROVE Orderly
    BY <1>3, NoStray
  <1>4. ASSUME NEW w \in Workers, NEW c \in Checkouts,
               \/ Apply(w, c) \/ Remove(w, c) \/ Pay(w, c)
               \/ Reconcile(w, c) \/ Refund(w, c) \/ Sweep(w, c)
               \/ \E e \in Events : Hook(w, c, e)
        PROVE  Orderly
    <2>1. \E d : Stray(d)
      BY <1>4 DEF Apply, Remove, Pay, Reconcile, Refund, Sweep, Hook
    <2> QED BY <1>3, <2>1
  <1>5. ASSUME NEW w \in Workers, Step(w) PROVE Orderly
    <2>1. CASE ClaimSlot(w) \/ GiveBack(w) \/ Cache(w) \/ Save(w) \/ Release(w) \/ Unhold(w)
      <3>1. UNCHANGED strayed
        BY <2>1 DEF ClaimSlot, GiveBack, Cache, Save, Release, Unhold, boundVars
      <3> QED BY <1>1, <3>1
    <2>2. CASE Put(w) \/ Persist(w) \/ Upsert(w) \/ Find(w) \/ Query(w) \/ Flip(w) \/ Mark(w)
      <3>1. UNCHANGED strayed
        BY <2>2 DEF Put, Persist, Upsert, Find, Query, Flip, Mark, boundVars
      <3> QED BY <1>1, <3>1
    <2>3. CASE Settle(w) \/ Load(w) \/ Look(w) \/ Slot(w) \/ Unslot(w) \/ CountPaid(w)
      <3>1. UNCHANGED strayed
        BY <2>3 DEF Settle, PayOrders, Load, Look, Slot, Unslot, CountPaid, boundVars
      <3> QED BY <1>1, <3>1
    <2>4. CASE CallRefund(w) \/ SettleRefund(w) \/ Fully(w) \/ Uncount(w) \/ CompareAndSet(w)
      <3>1. UNCHANGED strayed
        BY <2>4 DEF CallRefund, SettleRefund, Fully, Uncount, CompareAndSet, boundVars
      <3> QED BY <1>1, <3>1
    <2>5. CASE WriteRow(w) \/ WriteSession(w) \/ ReadCached(w) \/ WriteCached(w)
      <3>1. strayed \subseteq strayed'
        BY <2>5 DEF WriteRow, WriteSession, ReadCached, WriteCached, NoteLate, boundVars
      <3> QED BY <1>1, <3>1
    <2>6. CASE Insert(w)
      <3>1. \E p : strayed' = strayed \cup {"claimLost"} \/ strayed' = strayed
        BY Zenon, <2>6 DEF Insert
      <3> QED BY <1>1, <3>1
    <2>7. CASE Hold(w)
      <3>1. \E d : Stray(d)
        BY Zenon, <2>7 DEF Hold
      <3> QED BY <1>3, <3>1
    <2>8. CASE Charge(w)
      <3>1. UNCHANGED strayed \/ \E d : Stray(d)
        BY Zenon, <2>8 DEF Charge
      <3> QED BY <1>1, <1>3, <3>1
    <2> QED BY <1>5, <2>1, <2>2, <2>3, <2>4, <2>5, <2>6, <2>7, <2>8 DEF Step
  <1>6. ASSUME NEW w \in Workers, StoreFails(w) \/ Stop(w) PROVE Orderly
    <2>1. \E d : Stray(d)
      BY <1>6 DEF StoreFails, Stop
    <2> QED BY <1>3, <2>1
  <1>7. ASSUME NEW c \in Checkouts, Decide(c) \/ DayPasses(c) \/ FallsBehind(c) \/ CatchesUp(c)
        PROVE  Orderly
    <2>1. UNCHANGED strayed \/ \E d : Stray(d)
      BY <1>7 DEF Decide, DayPasses, FallsBehind, CatchesUp, boundVars
    <2> QED BY <1>1, <1>3, <2>1
  <1> QED BY <1>2, <1>4, <1>5, <1>6, <1>7 DEF Next

(* The counts are exact before anything happened, ...                      *)
LEMMA InitExact == Init => Exact
  <1> SUFFICES ASSUME Init PROVE Exact
    OBVIOUS
  <1>1. ASSUME NEW w \in Workers PROVE job[w] = Idle /\ At(w, "idle")
    BY DEF Init, At, Idle
  <1>2. ASSUME NEW c \in Checkouts
        PROVE  /\ usage[c] = [p \in Parts |-> "none"] /\ kv[c] = NewSession /\ db[c] = NewSession
               /\ row[c].st = "none" /\ charge[c].st = "none" /\ row[c].disc = FALSE
               /\ countReleased = {} /\ idle = {}
    BY DEF Init
  <1>3. ASSUME NEW c \in Checkouts PROVE FitsAt(c)
    <2>1. Alone(c) /\ \A w \in Workers : ~On(w, c)
      BY <1>1 DEF Alone, On
    <2>2. CopiesAgree(c) /\ HeldIsReserved(c) /\ ClaimIsFirst(c)
      BY <1>2, CheckoutAssumption DEF CopiesAgree, HeldIsReserved, ClaimIsFirst, Unstamped
    <2>3. UsedIsPaid(c) /\ PaidIsTold(c) /\ AmountsAgree(c) /\ IdleIsGone(c)
      BY <1>2, CheckoutAssumption DEF UsedIsPaid, PaidIsTold, AmountsAgree, IdleIsGone, Used
    <2> QED BY <2>1, <2>2, <2>3 DEF FitsAt, CheckoutFits
  <1>4. {c \in Checkouts : Reserving(c)} = {} /\ {c \in Checkouts : Using(c)} = {}
    <2>1. ASSUME NEW c \in Checkouts PROVE ~Reserving(c) /\ ~Using(c)
      <3>1. usage[c][ClaimPart] = "none" /\ db[c].voucher = "none"
        <4>1. usage[c] = [p \in Parts |-> "none"] /\ db[c] = NewSession
          BY Zenon, <1>2
        <4> QED BY <4>1, CheckoutAssumption DEF NewSession
      <3>2. ~Holding(c) /\ ~Redeemed(c) /\ ~Unstamped(c)
        BY <3>1 DEF Holding, Redeemed, Unstamped
      <3> QED BY <3>2 DEF Reserving, Using
    <2> QED BY <2>1
  <1>5. /\ {w \in Workers : Carrying(w)} = {} /\ {w \in Workers : OwesCount(w)} = {}
        /\ {w \in Workers : OwesUse(w)} = {}
    <2>1. ASSUME NEW w \in Workers PROVE ~Carrying(w) /\ ~OwesCount(w) /\ ~OwesUse(w)
      <3>1. job[w].at = "idle"
        BY <1>1 DEF At
      <3>2. job[w].op = "none"
        BY <1>1 DEF Idle
      <3> QED BY <3>1, <3>2 DEF Carrying, OwesCount, OwesUse
    <2> QED BY <2>1
  <1>6. used = 0 /\ reserved = 0
    BY DEF Init
  <1>7. ReservedIsExact /\ UsedIsExact
    BY <1>4, <1>5, <1>6, FS_EmptySet DEF ReservedIsExact, UsedIsExact
  <1> QED BY <1>3, <1>7 DEF Exact, Fits

(* ... after nothing happened, or a place in a worker's list changed, ...   *)
LEMMA StutterExact ==
    ASSUME IInv, Exact, UNCHANGED vars \/ \E c \in Checkouts : FallsBehind(c) \/ CatchesUp(c)
    PROVE  Exact'
  <1>1. UNCHANGED <<job, used, reserved, usage, charge, row, kv, db, idle, countReleased>>
    BY DEF vars, FallsBehind, CatchesUp, voucherVars, sessionVars, ledgerVars
  <1>2. \A d \in Checkouts : Same(d)
    BY <1>1 DEF Same
  <1>3. Fits'
    BY <1>1, <1>2, Elsewhere DEF Exact, Fits, On, At
  <1>4. ReservedIsExact' /\ UsedIsExact'
    BY <1>1, <1>2, SameSlots, CountsStand
  <1> QED BY <1>3, <1>4 DEF Exact

(* ... and after every step of an orderly behaviour.                       *)
LEMMA NextCounts == IInv /\ CountInv /\ [Next]_vars => CountInv'
  <1> SUFFICES ASSUME IInv, CountInv, [Next]_vars, Orderly' PROVE Exact'
    BY DEF CountInv
  <1>1. Exact
    BY OrderIsLost DEF CountInv
  <1>2. IInv'
    BY NextIInv
  <1>3. CASE UNCHANGED vars
    BY <1>1, <1>3, StutterExact
  <1>4. ASSUME NEW w \in Workers, NEW c \in Checkouts,
               \/ Apply(w, c) \/ Remove(w, c) \/ Pay(w, c)
               \/ Reconcile(w, c) \/ Refund(w, c) \/ Sweep(w, c)
               \/ \E e \in Events : Hook(w, c, e)
        PROVE  Exact'
    BY <1>1, <1>4, AskExact, BackExact
  <1>5. ASSUME NEW w \in Workers, Step(w) PROVE Exact'
    <2>1. CASE ClaimSlot(w) \/ Hold(w) \/ GiveBack(w) \/ Cache(w) \/ Save(w) \/ Release(w)
      BY <1>1, <2>1, ClaimExact, HoldExact, GiveBackExact, CacheExact, SaveExact, ReleaseExact
    <2>2. CASE Unhold(w) \/ Charge(w) \/ Put(w) \/ Persist(w) \/ Upsert(w) \/ Find(w) \/ Query(w)
      BY <1>1, <1>2, <2>2, UnholdExact, ChargeExact, PutExact, PersistExact, UpsertExact,
         FindExact, QueryExact
    <2>3. CASE \/ WriteRow(w) \/ WriteSession(w) \/ ReadCached(w) \/ WriteCached(w)
               \/ Settle(w) \/ Load(w)
      BY <1>1, <2>3, WriteRowExact, WriteSessionExact, ReadCachedExact, WriteCachedExact,
         SettleExact, LoadExact
    <2>4. CASE Flip(w) \/ Look(w) \/ Slot(w) \/ Insert(w) \/ Unslot(w) \/ CountPaid(w)
      BY <1>1, <2>4, FlipExact, LookExact, SlotExact, InsertExact, GiveBackExact
    <2>5. CASE \/ CallRefund(w) \/ SettleRefund(w) \/ Mark(w) \/ Fully(w) \/ Uncount(w)
               \/ CompareAndSet(w)
      BY <1>1, <2>5, CallRefundExact, SettleRefundExact, MarkExact, FullyExact, GiveBackExact,
         CompareExact
    <2> QED BY <1>5, <2>1, <2>2, <2>3, <2>4, <2>5 DEF Step
  <1>6. ASSUME NEW w \in Workers, StoreFails(w) \/ Stop(w) PROVE Exact'
    BY <1>1, <1>6, StopExact
  <1>7. ASSUME NEW c \in Checkouts, Decide(c) \/ DayPasses(c) \/ FallsBehind(c) \/ CatchesUp(c)
        PROVE  Exact'
    BY <1>1, <1>7, DecideExact, DayExact, StutterExact
  <1> QED BY <1>3, <1>4, <1>5, <1>6, <1>7 DEF Next

(* Once no handler runs, the slots are where D1 shows them.                *)
LEMMA QuietCounts == ASSUME CountInv PROVE UsesAreCounted
  <1> SUFFICES ASSUME Quiet, Orderly
               PROVE  /\ used = Cardinality({c \in Checkouts : Holding(c) \/ Redeemed(c)})
                      /\ reserved = Cardinality({c \in Checkouts : Holding(c)})
    BY DEF UsesAreCounted
  <1>1. Exact
    BY DEF CountInv
  <1>2. \A w \in Workers : job[w].at = "idle"
    BY DEF Quiet, At
  <1>3. ASSUME NEW w \in Workers PROVE ~Carrying(w) /\ ~OwesCount(w) /\ ~OwesUse(w)
    <2>1. job[w].at = "idle"
      BY <1>2
    <2> QED BY <2>1 DEF Carrying, OwesCount, OwesUse
  <1>4. ASSUME NEW c \in Checkouts
        PROVE  /\ Reserving(c) <=> Holding(c)
               /\ Using(c) <=> Holding(c) \/ Redeemed(c)
    <2>1. \A w \in Workers : ~On(w, c)
      BY <1>2 DEF On, At
    <2>2. ~Unstamped(c)
      BY <1>1, <2>1 DEF Exact, Fits, FitsAt, CheckoutFits, ClaimIsFirst
    <2>3. Reserving(c) <=> Holding(c)
      BY <2>1 DEF Reserving, GivesBack
    <2> QED BY <2>2, <2>3 DEF Using
  <1>5. /\ {c \in Checkouts : Reserving(c)} = {c \in Checkouts : Holding(c)}
        /\ {c \in Checkouts : Using(c)} = {c \in Checkouts : Holding(c) \/ Redeemed(c)}
    BY <1>4
  <1>6. /\ {w \in Workers : Carrying(w)} = {} /\ {w \in Workers : OwesCount(w)} = {}
        /\ {w \in Workers : OwesUse(w)} = {}
    BY <1>3
  <1>7. /\ reserved = Cardinality({c \in Checkouts : Holding(c)}) + 0 + 0
        /\ used = Cardinality({c \in Checkouts : Holding(c) \/ Redeemed(c)}) + 0 + 0
    BY <1>1, <1>5, <1>6, FS_EmptySet DEF Exact, ReservedIsExact, UsedIsExact
  <1>8. /\ Cardinality({c \in Checkouts : Holding(c)}) \in Nat
        /\ Cardinality({c \in Checkouts : Holding(c) \/ Redeemed(c)}) \in Nat
    BY CheckoutAssumption, FS_Subset, FS_CardinalityType
  <1> QED BY <1>7, <1>8

(* used_count and reserved_count are exact whenever no handler runs: no    *)
(* interleaving of orderly handlers loses a slot or gives one back twice.  *)
THEOREM UsesAreExact == Spec => []UsesAreCounted
  <1>1. Init => CountInv
    BY InitExact DEF CountInv
  <1>2. CountInv => UsesAreCounted
    BY QuietCounts
  <1> QED BY <1>1, <1>2, NextCounts, AlwaysIInv, PTL DEF Spec
=============================================================================
