------------------------ MODULE MarketCheckoutProofs ------------------------
(***************************************************************************)
(* The shares of the stalls follow the charge and a use of the voucher     *)
(* follows the money, for every number of checkouts, stalls and handlers   *)
(* in flight, and for every disorder a behaviour may begin.                *)
(***************************************************************************)
EXTENDS MarketCheckout, FiniteSetTheorems, TLAPS

Statuses == {"none", "pending", "paid", "failed", "refunded"}

(* The provider took the money of the checkout; it may have returned it.   *)
Took(c) == charge[c].st \in {"paid", "refunded"}

(* A status that somebody holds of the checkout was the charge's once.     *)
Tells(c, st) == /\ st = "paid" => Took(c)
                /\ st = "refunded" => charge[c].st = "refunded"

(* What a handler knows: no stage that settles is reached before the money *)
(* came, none that refunds before it went back, and the amount of a paid   *)
(* charge is the one it works with.                                        *)
Paying    == {"settle", "load", "flip", "look", "slot", "insert", "unslot", "count"}
Refunding == {"settleRefund", "mark", "fully", "uncount"}
KnowsAmount(j) ==
    \/ j.at \in {"put", "persist", "upsert"} /\ j.sess.pay = "paid"
    \/ j.at \in {"row", "session", "cached", "putBack"} /\ j.status = "paid"
    \/ j.at = "settle"
JobTrue(j) ==
    j.at # "idle" =>
      /\ j.c \in Checkouts
      /\ Tells(j.c, j.sess.pay) /\ Tells(j.c, j.status)
      /\ j.at \in Paying => Took(j.c)
      /\ j.at \in Refunding => charge[j.c].st = "refunded"
      /\ KnowsAmount(j) => j.disc = charge[j.c].disc
      /\ j.refused => /\ j.op = "pay" /\ j.sess.pay = "failed"
                      /\ j.at \in {"release", "unhold", "put", "persist", "upsert"}
      /\ j.at = "charge" => j.op = "pay"

JobsTrue == \A w \in Workers : JobTrue(job[w])

StatusTrue ==
    \A c \in Checkouts :
      /\ kv[c] # NONE => Tells(c, kv[c].pay)
      /\ Tells(c, db[c].pay)
      /\ Tells(c, row[c].st)

IInv == TypeOK /\ JobsTrue /\ StatusTrue /\ SharesMatchTheCharge /\ UsesAreOfPaidCheckouts

(* The charge only moves on: what was taken stays taken, for the amount it *)
(* was taken for, and what was returned stays returned.                    *)
ChargeGrows ==
    \A c \in Checkouts :
      /\ Took(c) => Took(c)' /\ charge'[c].disc = charge[c].disc
      /\ charge[c].st = "refunded" => charge'[c].st = "refunded"

(* A charge that does not change grows.                                    *)
LEMMA StillGrows == ASSUME UNCHANGED charge PROVE ChargeGrows
  BY DEF ChargeGrows, Took

(* What is true of a handler stays true while the charge grows.            *)
LEMMA JobStaysTrue ==
    ASSUME NEW j, JobTrue(j), ChargeGrows PROVE JobTrue(j)'
  BY DEF JobTrue, KnowsAmount, ChargeGrows, Tells, Took, Paying, Refunding

(* One handler's step: the others keep what they know.                     *)
LEMMA OneJob ==
    ASSUME TypeOK, JobsTrue, ChargeGrows, NEW w \in Workers, NEW j \in Job,
           job' = [job EXCEPT ![w] = j], JobTrue(j)'
    PROVE  job' \in [Workers -> Job] /\ JobsTrue'
  <1>1. /\ job' \in [Workers -> Job] /\ job'[w] = j
        /\ \A v \in Workers \ {w} : job'[v] = job[v]
    BY DEF TypeOK
  <1>2. ASSUME NEW v \in Workers PROVE JobTrue(job[v])'
    <2>1. PICK k : k = job'[v] /\ (v = w => k = j) /\ (v # w => k = job[v])
      BY <1>1
    <2>2. JobTrue(k)'
      BY <2>1, JobStaysTrue DEF JobsTrue
    <2> QED BY <2>1, <2>2 DEF JobTrue, KnowsAmount, Tells, Took
  <1> QED BY <1>1, <1>2 DEF JobsTrue

(* A handler that ends knows nothing.                                      *)
LEMMA FinishJob ==
    ASSUME TypeOK, JobsTrue, ChargeGrows, NEW w \in Workers, Finish(w)
    PROVE  job' \in [Workers -> Job] /\ JobsTrue'
  <1>1. PICK k : k = Idle
    OBVIOUS
  <1>2. k \in Job /\ k.at = "idle"
    BY <1>1 DEF Idle, Job, Ops, Labels, NewSession, Session
  <1>3. JobTrue(k)'
    BY <1>2 DEF JobTrue, KnowsAmount
  <1> QED BY <1>1, <1>2, <1>3, OneJob DEF Finish

(* A handler that goes on to a stage it may reach with what it knows.      *)
MayGo(w, l) == JobTrue([job[w] EXCEPT !.at = l])

(* It knows that at the stage it goes to.                                  *)
LEMMA GotoJob ==
    ASSUME TypeOK, JobsTrue, ChargeGrows, NEW w \in Workers, NEW l \in Labels,
           Goto(w, l), MayGo(w, l)
    PROVE  job' \in [Workers -> Job] /\ JobsTrue'
  <1>1. PICK k : k = [job[w] EXCEPT !.at = l]
    OBVIOUS
  <1>2. k \in Job /\ job' = [job EXCEPT ![w] = k]
    BY ZenonT(60), <1>1 DEF TypeOK, Job, Goto
  <1>3. JobTrue(k)'
    BY <1>1, JobStaysTrue DEF MayGo
  <1> QED BY <1>2, <1>3, OneJob

(* A status stays true of the checkout while the charge grows.             *)
LEMMA TellsStays ==
    ASSUME ChargeGrows, NEW c \in Checkouts, NEW st, Tells(c, st) PROVE Tells(c, st)'
  BY DEF ChargeGrows, Tells, Took

(* The copies that a step leaves alone stay true, and so do the orders and *)
(* the uses it leaves alone, or takes a use away from.                     *)
LEMMA StatusKept ==
    ASSUME StatusTrue, ChargeGrows, UNCHANGED <<kv, db, row>> PROVE StatusTrue'
  BY DEF StatusTrue, ChargeGrows, Tells, Took

(* A copy that is written tells what the writer knew.                      *)
LEMMA KvWritten ==
    ASSUME TypeOK, StatusTrue, ChargeGrows, UNCHANGED <<db, row>>, NEW c \in Checkouts, NEW s,
           kv' = [kv EXCEPT ![c] = s], s # NONE => Tells(c, s.pay)
    PROVE  StatusTrue'
  BY DEF TypeOK, StatusTrue, ChargeGrows, Tells, Took

(* So does the D1 row of the session, ...                                  *)
LEMMA DbWritten ==
    ASSUME TypeOK, StatusTrue, ChargeGrows, UNCHANGED <<kv, row>>, NEW c \in Checkouts, NEW s,
           db' = [db EXCEPT ![c] = s], Tells(c, s.pay)
    PROVE  StatusTrue'
  BY DEF TypeOK, StatusTrue, ChargeGrows, Tells, Took

(* ... and the row of the payment.                                         *)
LEMMA RowWritten ==
    ASSUME TypeOK, StatusTrue, ChargeGrows, UNCHANGED <<kv, db>>, NEW c \in Checkouts, NEW m,
           row' = [row EXCEPT ![c] = m], Tells(c, m.st)
    PROVE  StatusTrue'
  BY DEF TypeOK, StatusTrue, ChargeGrows, Tells, Took

(* Orders and uses that are left alone, or lose a use, match the charge.   *)
LEMMA MoneyKept ==
    ASSUME SharesMatchTheCharge, UsesAreOfPaidCheckouts, ChargeGrows, UNCHANGED orders,
           \A c \in Checkouts, p \in Parts : usage'[c][p] \in {usage[c][p], "none", "reserved"}
    PROVE  SharesMatchTheCharge' /\ UsesAreOfPaidCheckouts'
  <1>1. SharesMatchTheCharge'
    BY DEF SharesMatchTheCharge, ChargeGrows, Took
  <1>2. UsesAreOfPaidCheckouts'
    BY DEF UsesAreOfPaidCheckouts, ChargeGrows, Took
  <1> QED BY <1>1, <1>2

(* A step that writes neither copies, orders nor uses.                     *)
LEMMA Untouched ==
    ASSUME IInv, ChargeGrows, UNCHANGED <<kv, db, row, orders, usage>>,
           TypeOK', JobsTrue'
    PROVE  IInv'
  <1>1. StatusTrue'
    BY StatusKept DEF IInv
  <1>2. SharesMatchTheCharge' /\ UsesAreOfPaidCheckouts'
    BY MoneyKept DEF IInv
  <1> QED BY <1>1, <1>2 DEF IInv

(* What a handler reads is a session, and true.                            *)
LEMMA ReadIsTrue ==
    ASSUME TypeOK, StatusTrue, NEW c \in Checkouts
    PROVE  Read(c) \in Session /\ Tells(c, Read(c).pay)
  BY DEF TypeOK, StatusTrue, Read

-----------------------------------------------------------------------------
(* The invariant holds initially ... *)
LEMMA InitIInv == Init => IInv
  <1> SUFFICES ASSUME Init PROVE IInv
    OBVIOUS
  <1>1. /\ NewSession \in Session /\ Idle \in Job /\ Idle.at = "idle"
        /\ NewSession.pay = "none"
    BY DEF Idle, Job, Ops, Labels, NewSession, Session
  <1>2. TypeOK
    <2>1. /\ used \in Nat /\ reserved \in Nat /\ countReleased = {}
          /\ idle = {} /\ unmoved = {} /\ behind = {}
          /\ strayed = {} /\ asked \in 0 .. MaxRequests
      BY CheckoutAssumption DEF Init
    <2>2. usage \in [Checkouts -> [Parts -> {"none", "reserved", "active", "refunded"}]]
      BY DEF Init
    <2>3. kv \in [Checkouts -> Session \cup {NONE}] /\ db \in [Checkouts -> Session]
      BY <1>1 DEF Init
    <2>4. /\ row \in [Checkouts -> Money({"none", "pending", "paid", "failed", "refunded"})]
          /\ orders \in [Checkouts -> Money({"unpaid", "completed", "refunded"})]
          /\ audited \in [Checkouts -> SUBSET Events]
      BY DEF Init, Money
    <2>5. charge \in [Checkouts -> [st : {"none", "pending", "paid", "failed", "refunded"},
                                    disc : BOOLEAN, failed : BOOLEAN]]
      BY DEF Init
    <2>6. job \in [Workers -> Job]
      BY <1>1 DEF Init
    <2> QED BY <2>1, <2>2, <2>3, <2>4, <2>5, <2>6 DEF TypeOK
  <1>3. JobsTrue
    BY <1>1 DEF Init, JobsTrue, JobTrue, KnowsAmount
  <1>4. StatusTrue
    BY <1>1 DEF Init, StatusTrue, Tells
  <1>5. SharesMatchTheCharge /\ UsesAreOfPaidCheckouts
    BY DEF Init, SharesMatchTheCharge, UsesAreOfPaidCheckouts
  <1> QED BY <1>2, <1>3, <1>4, <1>5 DEF IInv

(* ... and a handler that begins knows what it read.                       *)
LEMMA BeginJob ==
    ASSUME IInv, NEW w \in Workers, NEW k \in Job, job' = [job EXCEPT ![w] = k], JobTrue(k),
           UNCHANGED charge
    PROVE  job' \in [Workers -> Job] /\ JobsTrue' /\ ChargeGrows
  <1>1. ChargeGrows
    BY StillGrows
  <1>2. JobTrue(k)'
    BY <1>1, JobStaysTrue
  <1> QED BY <1>1, <1>2, OneJob DEF IInv

(* The jobs the handlers begin with.                                       *)
LEMMA BegunJob ==
    ASSUME NEW o \in Ops, NEW l \in Labels, NEW c \in Checkouts, NEW s \in Session,
           Tells(c, s.pay), l \notin Paying, l \notin Refunding,
           l \notin {"put", "persist", "upsert"},
           l \notin {"row", "session", "cached", "putBack"},
           l = "charge" => o = "pay"
    PROVE  /\ [Idle EXCEPT !.op = o, !.at = l, !.c = c, !.sess = s] \in Job
           /\ JobTrue([Idle EXCEPT !.op = o, !.at = l, !.c = c, !.sess = s])
  <1> DEFINE k == [Idle EXCEPT !.op = o, !.at = l, !.c = c, !.sess = s]
  <1>1. /\ k \in Job
        /\ k.op = o /\ k.at = l /\ k.c = c /\ k.sess = s
        /\ k.status = "none" /\ k.refused = FALSE
    <2>1. Idle \in Job /\ Idle.status = "none" /\ Idle.refused = FALSE
      BY DEF Idle, Job, Ops, Labels, NewSession, Session
    <2> HIDE DEF Idle
    <2> QED BY <2>1 DEF Job
  <1> HIDE DEF k
  <1>2. JobTrue(k)
    BY <1>1 DEF JobTrue, KnowsAmount, Tells, Paying
  <1> QED BY <1>1, <1>2 DEF k

(* The shopper's requests keep the invariant, ...                          *)
LEMMA AskKeeps ==
    ASSUME IInv, NEW w \in Workers, NEW c \in Checkouts, Apply(w, c) \/ Remove(w, c) \/ Pay(w, c)
    PROVE  IInv'
  <1>1. PICK o \in {"apply", "remove", "pay"}, l \in {"claim", "release", "cache", "charge"},
             s \in Session :
          /\ Ask(w, c, o, l, s) /\ Tells(c, s.pay) /\ (l = "charge" => o = "pay")
    <2>1. Read(c) \in Session /\ Tells(c, Read(c).pay)
      BY ReadIsTrue DEF IInv
    <2>2. CASE Apply(w, c)
      BY <2>1, <2>2 DEF Apply
    <2>3. CASE Remove(w, c)
      <3>1. LET s == [Read(c) EXCEPT !.voucher = "none"] IN s \in Session /\ s.pay = Read(c).pay
        BY <2>1 DEF Session
      <3> QED BY <2>1, <2>3, <3>1 DEF Remove
    <2>4. CASE Pay(w, c)
      <3>1. Read(c).voucher \in {"none", "reserved", "released"}
        BY <2>1 DEF Session
      <3> QED BY <2>1, <2>4, <3>1 DEF Pay
    <2> QED BY <2>2, <2>3, <2>4
  <1>2. PICK k : k = [Idle EXCEPT !.op = o, !.at = l, !.c = c, !.sess = s]
    OBVIOUS
  <1>3. k \in Job /\ JobTrue(k)
    <2>1. /\ o \in Ops /\ l \in Labels /\ l \notin Paying /\ l \notin Refunding
          /\ l \notin {"put", "persist", "upsert"}
          /\ l \notin {"row", "session", "cached", "putBack"}
      BY DEF Ops, Labels, Paying, Refunding
    <2>2. Tells(c, s.pay) /\ (l = "charge" => o = "pay")
      BY <1>1
    <2> QED BY ONLY <1>2, <2>1, <2>2, BegunJob
  <1>4. job' = [job EXCEPT ![w] = k] /\ asked' = asked + 1 /\ asked < MaxRequests
    BY <1>1, <1>2 DEF Ask, Begin
  <1>5. UNCHANGED <<voucherVars, sessionVars, ledgerVars>> /\ strayed' \subseteq strayed \cup Strays
    BY CheckoutAssumption DEF Apply, Remove, Pay, Stray
  <1>6. job' \in [Workers -> Job] /\ JobsTrue' /\ ChargeGrows
    BY <1>3, <1>4, <1>5, BeginJob DEF ledgerVars
  <1>7. TypeOK'
    BY <1>4, <1>5, <1>6, CheckoutAssumption
       DEF IInv, TypeOK, voucherVars, sessionVars, ledgerVars
  <1> QED BY <1>5, <1>6, <1>7, Untouched DEF voucherVars, sessionVars, ledgerVars

(* ... and so do the handlers that run behind them.                        *)
LEMMA BackKeeps ==
    ASSUME IInv, NEW w \in Workers, NEW c \in Checkouts,
           \/ Reconcile(w, c) \/ Refund(w, c) \/ Sweep(w, c)
           \/ \E e \in Events : Hook(w, c, e)
    PROVE  IInv'
  <1>1. PICK k : k \in Job /\ JobTrue(k) /\ job' = [job EXCEPT ![w] = k]
    <2>0. /\ row[c].disc \in BOOLEAN /\ db[c] \in Session /\ Tells(c, db[c].pay)
          /\ Read(c) \in Session /\ Tells(c, Read(c).pay)
      BY ReadIsTrue DEF IInv, TypeOK, StatusTrue, Money
    <2>1. CASE Reconcile(w, c)
      <3>1. PICK k : k = [Idle EXCEPT !.op = "reconcile", !.at = "query", !.c = c,
                                      !.disc = row[c].disc]
        OBVIOUS
      <3>2. /\ k \in Job /\ k.at = "query" /\ k.c = c /\ k.sess.pay = "none"
            /\ k.status = "none" /\ k.refused = FALSE
        BY <2>0, <3>1 DEF Idle, Job, Ops, Labels, NewSession, Session
      <3> QED BY <2>1, <3>1, <3>2 DEF Reconcile, JobTrue, KnowsAmount, Tells, Paying, Refunding
    <2>2. CASE Refund(w, c)
      <3>1. PICK k : k = [Idle EXCEPT !.op = "refund", !.at = "callRefund", !.c = c,
                                      !.sess = Read(c), !.disc = row[c].disc]
        OBVIOUS
      <3>2. /\ k \in Job /\ k.at = "callRefund" /\ k.c = c /\ k.sess = Read(c)
            /\ k.status = "none" /\ k.refused = FALSE
        BY <2>0, <3>1 DEF Idle, Job, Ops, Labels
      <3> QED BY <2>0, <2>2, <3>1, <3>2 DEF Refund, JobTrue, KnowsAmount, Tells, Paying, Refunding
    <2>3. CASE Sweep(w, c)
      <3>1. PICK k : k = [Idle EXCEPT !.op = "sweep", !.at = "cas", !.c = c, !.sess = db[c]]
        OBVIOUS
      <3>2. k \in Job /\ JobTrue(k)
        BY <2>0, <3>1, BegunJob DEF Ops, Labels, Paying, Refunding
      <3> QED BY <2>3, <3>1, <3>2 DEF Sweep, Begin
    <2>4. ASSUME NEW e \in Events, Hook(w, c, e)
          PROVE  \E k : k \in Job /\ JobTrue(k) /\ job' = [job EXCEPT ![w] = k]
      <3>1. PICK k : k = [Idle EXCEPT !.op = "hook", !.at = "find", !.c = c,
                                      !.status = EventStatus(e)]
        OBVIOUS
      <3>2. EventStatus(e) \in Statuses /\ Tells(c, EventStatus(e))
        BY <2>4 DEF Hook, Told, EventStatus, Events, Statuses, Tells, Took
      <3>3. /\ k \in Job /\ k.at = "find" /\ k.c = c /\ k.sess.pay = "none"
            /\ k.status = EventStatus(e) /\ k.refused = FALSE
        BY <3>1, <3>2 DEF Idle, Job, Ops, Labels, NewSession, Session, Statuses
      <3> QED BY <2>4, <3>1, <3>2, <3>3 DEF Hook, JobTrue, KnowsAmount, Tells, Paying, Refunding
    <2> QED BY <2>1, <2>2, <2>3, <2>4
  <1>2. /\ UNCHANGED <<used, reserved, usage, countReleased, kv, db, idle, behind, row, orders,
                       charge, asked>>
        /\ strayed' \subseteq strayed \cup Strays
        /\ audited' \in [Checkouts -> SUBSET Events]
        /\ unmoved' \subseteq Checkouts
    <2>1. CASE Reconcile(w, c)
      BY <2>1, CheckoutAssumption DEF Reconcile, Stray, IInv, TypeOK, voucherVars,
         sessionVars, ledgerVars
    <2>2. CASE Refund(w, c)
      BY <2>2, CheckoutAssumption DEF Refund, Stray, IInv, TypeOK, voucherVars,
         sessionVars, ledgerVars
    <2>3. CASE Sweep(w, c)
      BY <2>3, CheckoutAssumption DEF Sweep, Stray, IInv, TypeOK, voucherVars,
         sessionVars, ledgerVars
    <2>4. ASSUME NEW e \in Events, Hook(w, c, e)
          PROVE  /\ UNCHANGED <<used, reserved, usage, countReleased, kv, db, idle, behind,
                                row, orders, charge, asked>>
                 /\ strayed' \subseteq strayed \cup Strays
                 /\ audited' \in [Checkouts -> SUBSET Events]
                 /\ unmoved' \subseteq Checkouts
      <3>1. audited' = [audited EXCEPT ![c] = @ \cup {e}] /\ audited \in [Checkouts -> SUBSET Events]
        BY <2>4 DEF Hook, IInv, TypeOK
      <3>2. strayed' \subseteq strayed \cup Strays
        BY <2>4, CheckoutAssumption DEF Hook, Stray
      <3>3. UNCHANGED <<voucherVars, sessionVars, row, orders, charge, asked>>
        BY <2>4 DEF Hook
      <3> QED BY <3>1, <3>2, <3>3 DEF IInv, TypeOK, voucherVars, sessionVars
    <2> QED BY <2>1, <2>2, <2>3, <2>4
  <1>3. job' \in [Workers -> Job] /\ JobsTrue' /\ ChargeGrows
    BY <1>1, <1>2, BeginJob
  <1>4. TypeOK'
    BY <1>2, <1>3 DEF IInv, TypeOK
  <1> QED BY <1>2, <1>3, <1>4, Untouched

-----------------------------------------------------------------------------
(* The stages that need nothing but a true status.                         *)
Plain == {"hold", "giveback", "cache", "save", "charge", "release", "unhold"}

(* A handler goes on to them freely.                                       *)
LEMMA PlainGo ==
    ASSUME TypeOK, JobsTrue, NEW w \in Workers, job[w].at # "idle", NEW l \in Plain,
           ~job[w].refused \/ (l \in {"release", "unhold"} /\ job[w].op = "pay"),
           l = "charge" => job[w].op = "pay"
    PROVE  MayGo(w, l) /\ l \in Labels
  <1>1. job[w] \in Job /\ JobTrue(job[w])
    BY DEF TypeOK, JobsTrue
  <1>2. PICK k : k = [job[w] EXCEPT !.at = l]
    OBVIOUS
  <1>3. /\ k.at = l /\ k.c = job[w].c /\ k.sess = job[w].sess /\ k.status = job[w].status
        /\ k.refused = job[w].refused /\ k.op = job[w].op
    BY <1>1, <1>2 DEF Job
  <1>4. JobTrue(k)
    BY <1>1, <1>3 DEF JobTrue, KnowsAmount, Plain, Paying, Refunding
  <1> QED BY <1>2, <1>4 DEF MayGo, Plain, Labels

(* A handler that has given its place back, or found it taken.             *)
LEMMA BackJob ==
    ASSUME TypeOK, JobsTrue, ChargeGrows, NEW w \in Workers, job[w].at \in {"release", "unhold"},
           Back(w)
    PROVE  job' \in [Workers -> Job] /\ JobsTrue'
  <1>1. job[w] \in Job /\ JobTrue(job[w])
    BY DEF TypeOK, JobsTrue
  <1>2. CASE job[w].op = "remove"
    <2>1. Goto(w, "cache") /\ ~job[w].refused /\ job[w].at # "idle"
      BY <1>1, <1>2 DEF Back, JobTrue, KnowsAmount
    <2> QED BY <2>1, PlainGo, GotoJob DEF Plain
  <1>3. CASE job[w].op # "remove" /\ job[w].refused
    <2>1. Goto(w, "put") /\ job[w].sess.pay = "failed" /\ job[w].op = "pay"
      BY <1>1, <1>3 DEF Back, JobTrue, KnowsAmount
    <2>2. PICK k : k = [job[w] EXCEPT !.at = "put"]
      OBVIOUS
    <2>3. /\ k.at = "put" /\ k.c = job[w].c /\ k.sess = job[w].sess /\ k.status = job[w].status
          /\ k.refused = job[w].refused /\ k.op = job[w].op
      BY <1>1, <2>2 DEF Job
    <2>4. JobTrue(k)
      BY <1>1, <2>1, <2>3 DEF JobTrue, KnowsAmount, Paying, Refunding
    <2> QED BY <2>1, <2>2, <2>4, GotoJob DEF MayGo, Labels
  <1>4. CASE job[w].op # "remove" /\ ~job[w].refused
    BY <1>4, FinishJob DEF Back
  <1> QED BY <1>2, <1>3, <1>4

(* Only a payment on its way back from a refusal is refused.               *)
LEMMA NotRefused ==
    ASSUME JobsTrue, NEW w \in Workers, job[w].at # "idle",
           job[w].at \notin {"release", "unhold", "put", "persist", "upsert"}
    PROVE  ~job[w].refused /\ job[w].c \in Checkouts
  BY DEF JobsTrue, JobTrue, KnowsAmount

(* Claiming a slot writes the counts alone.                                *)
LEMMA ClaimKeeps ==
    ASSUME IInv, NEW w \in Workers, ClaimSlot(w)
    PROVE  IInv'
  <1>0. /\ job[w] \in Job /\ JobTrue(job[w]) /\ job[w].at = "claim" /\ ~job[w].refused
        /\ UNCHANGED <<usage, countReleased, kv, db, idle, unmoved, behind, row, orders,
                       audited, charge, asked, strayed>>
    BY NotRefused DEF IInv, TypeOK, JobsTrue, ClaimSlot, At, sessionVars, ledgerVars, boundVars
  <1>1. ChargeGrows
    BY <1>0, StillGrows
  <1>2. job' \in [Workers -> Job] /\ JobsTrue'
    <2>1. CASE Finish(w)
      BY <1>1, <2>1, FinishJob DEF IInv
    <2>2. CASE job' = [job EXCEPT ![w].at = IF PerUser THEN "hold" ELSE "cache",
                                  ![w].sess.voucher = "reserved"]
      <3>1. PICK k : k = [job[w] EXCEPT !.at = IF PerUser THEN "hold" ELSE "cache",
                                        !.sess = [job[w].sess EXCEPT !.voucher = "reserved"]]
        OBVIOUS
      <3>2. /\ k \in Job /\ k.at \in {"hold", "cache"} /\ k.c = job[w].c
            /\ k.sess.pay = job[w].sess.pay /\ k.status = job[w].status /\ ~k.refused
        BY <1>0, <3>1 DEF Job, Labels, Session
      <3>3. JobTrue(k)
        BY <1>0, <3>2 DEF JobTrue, KnowsAmount, Paying, Refunding
      <3>4. job' = [job EXCEPT ![w] = k]
        BY <2>2, <3>1
      <3> QED BY <1>0, <3>2, <3>3, <3>4, BeginJob
    <2> QED BY <2>1, <2>2 DEF ClaimSlot
  <1>3. used' \in Nat /\ reserved' \in Nat
    BY DEF ClaimSlot, IInv, TypeOK
  <1>4. TypeOK'
    BY <1>0, <1>2, <1>3 DEF IInv, TypeOK
  <1> QED BY <1>0, <1>1, <1>2, <1>4, Untouched

(* What the guarded insert of a hold does to the rows.                     *)
LEMMA HoldRows ==
    ASSUME IInv, NEW w \in Workers, Hold(w)
    PROVE  /\ usage' \in [Checkouts -> [Parts -> {"none", "reserved", "active", "refunded"}]]
           /\ \A c \in Checkouts, p \in Parts : usage'[c][p] \in {usage[c][p], "none", "reserved"}
           /\ Goto(w, "cache") \/ Goto(w, "giveback")
           /\ strayed' \subseteq Strays
  <1> DEFINE Rows == [Parts -> {"none", "reserved", "active", "refunded"}]
  <1>0. usage \in [Checkouts -> Rows] /\ ClaimPart \in Parts /\ job[w].c \in Checkouts
    BY CheckoutAssumption, NotRefused DEF IInv, TypeOK, Hold, At
  <1>1. PICK old \in SUBSET Checkouts, fits \in BOOLEAN : \E kept :
          /\ kept = [d \in Checkouts |-> IF d \in old THEN [usage[d] EXCEPT ![ClaimPart] = "none"]
                                         ELSE usage[d]]
          /\ usage' = IF fits THEN [kept EXCEPT ![job[w].c][ClaimPart] = "reserved"] ELSE kept
          /\ Goto(w, IF fits THEN "cache" ELSE "giveback")
    <2> DEFINE c == job[w].c
               stale == {d \in ClaimsOf(Owner[c]) : /\ d # c
                                                    /\ usage[d][ClaimPart] = "reserved"
                                                    /\ orders[d].st = "unpaid"}
    <2>1. PICK old \in SUBSET stale :
            LET kept == [d \in Checkouts |->
                           IF d \in old THEN [usage[d] EXCEPT ![ClaimPart] = "none"]
                           ELSE usage[d]]
                fits == /\ HasClaimLeft(c) \/ old # {}
                        /\ usage[c][ClaimPart] = "none"
            IN /\ usage' = IF fits THEN [kept EXCEPT ![c][ClaimPart] = "reserved"] ELSE kept
               /\ Goto(w, IF fits THEN "cache" ELSE "giveback")
      BY DEF Hold
    <2>2. old \in SUBSET Checkouts
      BY DEF ClaimsOf
    <2>3. PICK fits \in BOOLEAN :
             fits = (/\ HasClaimLeft(c) \/ old # {}
                     /\ usage[c][ClaimPart] = "none")
      OBVIOUS
    <2> HIDE DEF stale
    <2> QED BY <2>1, <2>2, <2>3
  <1>k. PICK kept :
          /\ kept = [d \in Checkouts |-> IF d \in old THEN [usage[d] EXCEPT ![ClaimPart] = "none"]
                                         ELSE usage[d]]
          /\ usage' = IF fits THEN [kept EXCEPT ![job[w].c][ClaimPart] = "reserved"] ELSE kept
          /\ Goto(w, IF fits THEN "cache" ELSE "giveback")
    BY <1>1
  <1>2. /\ kept \in [Checkouts -> Rows]
        /\ \A c \in Checkouts, p \in Parts : kept[c][p] \in {usage[c][p], "none"}
    BY <1>0, <1>1, <1>k
  <1>3. strayed' \subseteq Strays
    BY CheckoutAssumption DEF Hold, Stray, IInv, TypeOK
  <1>4. CASE fits
    <2>1. usage' = [kept EXCEPT ![job[w].c] = [kept[job[w].c] EXCEPT ![ClaimPart] = "reserved"]]
      BY <1>1, <1>k, <1>4
    <2>2. [kept[job[w].c] EXCEPT ![ClaimPart] = "reserved"] \in Rows
      BY <1>0, <1>2
    <2>3. usage' \in [Checkouts -> Rows]
      BY <1>0, <1>2, <2>1, <2>2
    <2>4. \A c \in Checkouts, p \in Parts : usage'[c][p] \in {kept[c][p], "reserved"}
      BY <1>0, <1>2, <2>1
    <2>5. Goto(w, "cache")
      BY <1>1, <1>k, <1>4
    <2> QED BY <1>2, <1>3, <2>3, <2>4, <2>5
  <1>5. CASE ~fits
    BY <1>1, <1>k, <1>2, <1>3, <1>5
  <1> QED BY <1>4, <1>5

(* A step that writes the uses alone.                                      *)
LEMMA HoldKeeps ==
    ASSUME IInv, NEW w \in Workers, Hold(w)
    PROVE  IInv'
  <1>0. /\ job[w].at = "hold" /\ ~job[w].refused
        /\ UNCHANGED <<used, reserved, countReleased, kv, db, idle, unmoved, behind, row,
                       orders, audited, charge, asked>>
    BY NotRefused DEF IInv, Hold, At, sessionVars, ledgerVars
  <1>1. ChargeGrows
    BY <1>0, StillGrows
  <1>2. job' \in [Workers -> Job] /\ JobsTrue'
    BY <1>0, <1>1, HoldRows, PlainGo, GotoJob DEF IInv, Plain
  <1>3. TypeOK'
    BY <1>0, <1>2, HoldRows DEF IInv, TypeOK
  <1>4. SharesMatchTheCharge' /\ UsesAreOfPaidCheckouts'
    BY <1>0, <1>1, HoldRows, MoneyKept DEF IInv
  <1>5. StatusTrue'
    BY <1>0, <1>1, StatusKept DEF IInv
  <1> QED BY <1>2, <1>3, <1>4, <1>5 DEF IInv

(* So does giving it back, and a store that fails writes nothing.          *)
LEMMA GiveBackKeeps ==
    ASSUME IInv, NEW w \in Workers, GiveBack(w) \/ StoreFails(w)
    PROVE  IInv'
  <1>0. /\ job[w].at # "idle" /\ ~job[w].refused
        /\ UNCHANGED <<usage, countReleased, kv, db, idle, unmoved, behind, row, orders,
                       audited, charge, asked>>
    BY NotRefused DEF IInv, GiveBack, StoreFails, At, voucherVars, sessionVars, ledgerVars,
       boundVars
  <1>1. ChargeGrows
    BY <1>0, StillGrows
  <1>2. Finish(w) \/ Goto(w, "release")
    BY DEF GiveBack, StoreFails
  <1>3. job' \in [Workers -> Job] /\ JobsTrue'
    BY <1>0, <1>1, <1>2, FinishJob, PlainGo, GotoJob DEF IInv, Plain
  <1>4. used' \in Nat /\ reserved' \in Nat /\ strayed' \subseteq Strays
    BY CheckoutAssumption DEF GiveBack, StoreFails, Less, Stray, IInv, TypeOK, boundVars,
       voucherVars
  <1>5. TypeOK'
    BY <1>0, <1>3, <1>4 DEF IInv, TypeOK
  <1> QED BY <1>0, <1>1, <1>3, <1>5, Untouched

(* The copies of the session are written with what the handler read.       *)
LEMMA CacheKeeps ==
    ASSUME IInv, NEW w \in Workers, Cache(w) \/ Save(w)
    PROVE  IInv'
  <1>c. PICK c \in Checkouts : c = job[w].c
    BY NotRefused DEF IInv, Cache, Save, At
  <1>0. /\ job[w] \in Job /\ JobTrue(job[w]) /\ job[w].at # "idle" /\ ~job[w].refused
        /\ UNCHANGED <<used, reserved, usage, countReleased, row, orders, audited, charge,
                       asked, strayed>>
    BY NotRefused DEF IInv, TypeOK, JobsTrue, Cache, Save, At, voucherVars, ledgerVars, boundVars
  <1>1. ChargeGrows
    BY <1>0, StillGrows
  <1>2. Finish(w) \/ Goto(w, "save") \/ (Goto(w, "charge") /\ job[w].op = "pay")
    BY DEF Cache, Save
  <1>3. job' \in [Workers -> Job] /\ JobsTrue'
    BY <1>0, <1>1, <1>2, FinishJob, PlainGo, GotoJob DEF IInv, Plain
  <1>4. /\ kv' \in [Checkouts -> Session \cup {NONE}] /\ db' \in [Checkouts -> Session]
        /\ idle' \subseteq Checkouts /\ unmoved' \subseteq Checkouts
        /\ behind' \subseteq Checkouts
        /\ StatusTrue'
    <2>1. CASE Cache(w)
      <3>1. kv' = [kv EXCEPT ![c] = job[w].sess] /\ UNCHANGED <<db, idle, unmoved, behind>>
        BY <1>c, <2>1 DEF Cache
      <3>2. job[w].sess \in Session /\ Tells(c, job[w].sess.pay)
        BY <1>0, <1>c DEF Job, JobTrue, KnowsAmount
      <3>3. StatusTrue'
        BY <1>0, <1>1, <3>1, <3>2, KvWritten DEF IInv
      <3> QED BY <3>1, <3>2, <3>3 DEF IInv, TypeOK
    <2>2. CASE Save(w)
      <3>1. PICK s : s = [db[c] EXCEPT !.voucher = job[w].sess.voucher]
        OBVIOUS
      <3>2. s \in Session /\ s.pay = db[c].pay
        BY <1>0, <3>1 DEF IInv, TypeOK, Session, Job
      <3>3. /\ db' = [db EXCEPT ![c] = s] /\ UNCHANGED kv
            /\ idle' \subseteq idle /\ unmoved' \subseteq unmoved /\ behind' \subseteq behind
        BY <1>c, <2>2, <3>1 DEF Save, Update
      <3>4. StatusTrue'
        BY <1>0, <1>1, <3>2, <3>3, DbWritten DEF IInv, StatusTrue
      <3> QED BY <3>2, <3>3, <3>4 DEF IInv, TypeOK
    <2> QED BY <2>1, <2>2
  <1>5. TypeOK'
    BY <1>0, <1>3, <1>4 DEF IInv, TypeOK
  <1>6. SharesMatchTheCharge' /\ UsesAreOfPaidCheckouts'
    BY <1>0, <1>1, MoneyKept DEF IInv
  <1> QED BY <1>3, <1>4, <1>5, <1>6 DEF IInv

(* A release writes the counts, and takes a hold away.                     *)
LEMMA ReleaseKeeps ==
    ASSUME IInv, NEW w \in Workers, Release(w) \/ Unhold(w)
    PROVE  IInv'
  <1>c. PICK c \in Checkouts : c = job[w].c
    BY DEF IInv, JobsTrue, JobTrue, KnowsAmount, Release, Unhold, At
  <1>0. /\ JobTrue(job[w]) /\ job[w].at \in {"release", "unhold"}
        /\ UNCHANGED <<countReleased, kv, db, idle, unmoved, behind, row, orders, audited,
                       charge, asked, strayed>>
    BY DEF IInv, JobsTrue, Release, Unhold, At, sessionVars, ledgerVars, boundVars
  <1>1. ChargeGrows
    BY <1>0, StillGrows
  <1>2. job' \in [Workers -> Job] /\ JobsTrue'
    <2>1. CASE Back(w)
      BY <1>0, <1>1, <2>1, BackJob DEF IInv
    <2>2. CASE Goto(w, "unhold")
      BY <1>0, <1>1, <2>2, PlainGo, GotoJob DEF IInv, Plain, JobTrue, KnowsAmount
    <2> QED BY <2>1, <2>2 DEF Release, Unhold
  <1>3. /\ used' \in Nat /\ reserved' \in Nat
        /\ usage' \in [Checkouts -> [Parts -> {"none", "reserved", "active", "refunded"}]]
        /\ \A d \in Checkouts, p \in Parts : usage'[d][p] \in {usage[d][p], "none", "reserved"}
    <2>1. CASE Release(w)
      BY <2>1 DEF Release, Less, IInv, TypeOK
    <2>2. CASE Unhold(w)
      <3>1. PICK r : r = [usage[c] EXCEPT ![ClaimPart] = IF @ = "reserved" THEN "none" ELSE @]
        OBVIOUS
      <3>2. r \in [Parts -> {"none", "reserved", "active", "refunded"}]
            /\ \A p \in Parts : r[p] \in {usage[c][p], "none"}
        BY <3>1, CheckoutAssumption DEF IInv, TypeOK
      <3>3. usage' = [usage EXCEPT ![c] = r] /\ UNCHANGED <<used, reserved>>
        BY <1>c, <2>2, <3>1 DEF Unhold
      <3> QED BY <3>2, <3>3 DEF IInv, TypeOK
    <2> QED BY <2>1, <2>2
  <1>4. TypeOK'
    BY <1>0, <1>2, <1>3 DEF IInv, TypeOK
  <1>5. SharesMatchTheCharge' /\ UsesAreOfPaidCheckouts'
    BY <1>0, <1>1, <1>3, MoneyKept DEF IInv
  <1>6. StatusTrue'
    BY <1>0, <1>1, StatusKept DEF IInv
  <1> QED BY <1>2, <1>4, <1>5, <1>6 DEF IInv

-----------------------------------------------------------------------------
(* The answer of the provider: a paid charge is told with its amount, and  *)
(* a refusal with none.                                                    *)
LEMMA AnsweredJob ==
    ASSUME TypeOK, JobsTrue, ChargeGrows, NEW w \in Workers, At(w, "charge"),
           NEW st \in {"pending", "paid"}, Answered(w, st),
           st = "paid" => /\ charge'[job[w].c].st \in {"paid", "refunded"}
                          /\ charge'[job[w].c].disc = (job[w].sess.voucher # "none")
    PROVE  job' \in [Workers -> Job] /\ JobsTrue'
  <1>0. job[w] \in Job /\ JobTrue(job[w]) /\ job[w].at = "charge" /\ ~job[w].refused
        /\ job[w].c \in Checkouts
    BY NotRefused DEF TypeOK, JobsTrue, At
  <1>1. PICK k : k = [job[w] EXCEPT !.sess = [job[w].sess EXCEPT !.pay = st], !.at = "put",
                                    !.disc = job[w].sess.voucher # "none"]
    OBVIOUS
  <1>2. /\ k \in Job /\ k.at = "put" /\ k.c = job[w].c /\ k.sess.pay = st
        /\ k.status = job[w].status /\ ~k.refused /\ k.disc = (job[w].sess.voucher # "none")
    BY ZenonT(60), <1>0, <1>1 DEF Job, Labels, Session
  <1>3. job' = [job EXCEPT ![w] = k]
    BY <1>1 DEF Answered
  <1>4. Tells(k.c, k.status)'
    BY <1>0, <1>2, TellsStays DEF JobTrue, KnowsAmount
  <1>5. JobTrue(k)'
    BY <1>0, <1>2, <1>4 DEF JobTrue, KnowsAmount, Tells, Took, Paying, Refunding
  <1> QED BY <1>2, <1>3, <1>5, OneJob

(* A refused handler knows that the payment failed.                        *)
LEMMA RefusedJob ==
    ASSUME TypeOK, JobsTrue, ChargeGrows, NEW w \in Workers, At(w, "charge"), Refused(w),
           job[w].op = "pay"
    PROVE  job' \in [Workers -> Job] /\ JobsTrue'
  <1>0. job[w] \in Job /\ JobTrue(job[w]) /\ job[w].at = "charge" /\ job[w].c \in Checkouts
    BY NotRefused DEF TypeOK, JobsTrue, At
  <1> DEFINE held == job[w].sess.voucher = "reserved"
             v == IF held THEN "released" ELSE job[w].sess.voucher
  <1>1. PICK k : k = [job[w] EXCEPT !.sess = [job[w].sess EXCEPT !.pay = "failed", !.voucher = v],
                                    !.disc = FALSE, !.at = IF held THEN "release" ELSE "put",
                                    !.refused = TRUE]
    OBVIOUS
  <1>2. /\ k \in Job /\ k.at \in {"release", "put"} /\ k.c = job[w].c /\ k.sess.pay = "failed"
        /\ k.status = job[w].status /\ k.op = "pay"
    BY ZenonT(60), <1>0, <1>1 DEF Job, Labels, Session
  <1>3. job' = [job EXCEPT ![w] = k]
    <2>1. job \in [Workers -> Job] /\ job[w].sess \in Session
      BY <1>0 DEF TypeOK, Job
    <2>2. CASE held
      <3>1. k = [job[w] EXCEPT !.sess = [job[w].sess EXCEPT !.pay = "failed",
                                                            !.voucher = "released"],
                               !.disc = FALSE, !.at = "release", !.refused = TRUE]
        BY <1>1, <2>2
      <3>2. job' = [job EXCEPT ![w].sess.pay = "failed", ![w].disc = FALSE,
                               ![w].sess.voucher = "released", ![w].at = "release",
                               ![w].refused = TRUE]
        BY <2>2 DEF Refused
      <3> QED BY ZenonT(60), <2>1, <3>1, <3>2
    <2>3. CASE ~held
      <3>1. k = [job[w] EXCEPT !.sess = [job[w].sess EXCEPT !.pay = "failed",
                                                            !.voucher = job[w].sess.voucher],
                               !.disc = FALSE, !.at = "put", !.refused = TRUE]
        BY <1>1, <2>3
      <3>2. job' = [job EXCEPT ![w].sess.pay = "failed", ![w].disc = FALSE,
                               ![w].sess.voucher = job[w].sess.voucher, ![w].at = "put",
                               ![w].refused = TRUE]
        BY <2>3 DEF Refused
      <3> QED BY ZenonT(60), <2>1, <3>1, <3>2
    <2> QED BY <2>2, <2>3
  <1>4. Tells(k.c, k.status)'
    BY <1>0, <1>2, TellsStays DEF JobTrue, KnowsAmount
  <1>5. JobTrue(k)'
    BY <1>0, <1>2, <1>4 DEF JobTrue, KnowsAmount, Tells, Took, Paying, Refunding
  <1> QED BY <1>2, <1>3, <1>5, OneJob

(* The provider charges once, and tells what it charged.                   *)
LEMMA ChargeKeeps ==
    ASSUME IInv, NEW w \in Workers, Charge(w)
    PROVE  IInv'
  <1>c. PICK c \in Checkouts : c = job[w].c
    BY NotRefused DEF IInv, Charge, At
  <1>p. job[w].op = "pay"
    BY DEF IInv, JobsTrue, JobTrue, KnowsAmount, Charge, At
  <1>0. /\ At(w, "charge") /\ job[w] \in Job /\ charge[c] \in
             [st : {"none", "pending", "paid", "failed", "refunded"},
              disc : BOOLEAN, failed : BOOLEAN]
        /\ UNCHANGED <<used, reserved, usage, countReleased, kv, db, idle, unmoved, behind,
                       row, orders, audited, asked>>
    BY DEF Charge, IInv, TypeOK, voucherVars, sessionVars
  <1>1. strayed' \subseteq Strays
    BY CheckoutAssumption DEF Charge, Stray, IInv, TypeOK
  <1>2. ASSUME NEW st \in {"pending", "paid"}, charge[c].st \in {"none", "failed"},
               charge' = [charge EXCEPT ![c].st = st,
                                        ![c].disc = job[w].sess.voucher # "none"],
               Answered(w, st) \/ Refused(w)
        PROVE  IInv'
    <2>1. /\ charge'[c].st = st /\ charge'[c].disc = (job[w].sess.voucher # "none")
          /\ \A d \in Checkouts \ {c} : charge'[d] = charge[d]
          /\ charge' \in [Checkouts -> [st : {"none", "pending", "paid", "failed", "refunded"},
                                        disc : BOOLEAN, failed : BOOLEAN]]
      BY <1>0, <1>2 DEF IInv, TypeOK
    <2>2. ChargeGrows
      BY <1>2, <2>1 DEF ChargeGrows, Took
    <2>3. job' \in [Workers -> Job] /\ JobsTrue'
      <3>1. CASE Refused(w)
        BY <1>0, <1>p, <2>2, <3>1, RefusedJob DEF IInv
      <3>2. CASE Answered(w, st)
        <4>1. /\ charge'[job[w].c].st \in {"paid", "refunded"} \/ st # "paid"
              /\ charge'[job[w].c].disc = (job[w].sess.voucher # "none")
          BY <1>c, <2>1
        <4>2. TypeOK /\ JobsTrue /\ At(w, "charge")
          BY <1>0 DEF IInv
        <4> QED BY <2>2, <3>2, <4>1, <4>2, AnsweredJob
      <3> QED BY <1>2, <3>1, <3>2
    <2>4. TypeOK'
      BY <1>0, <1>1, <2>1, <2>3 DEF IInv, TypeOK
    <2> QED BY <1>0, <2>2, <2>3, <2>4, Untouched
  <1>3. ASSUME UNCHANGED charge,
               \/ Refused(w)
               \/ Answered(w, "pending")
               \/ /\ charge[c].st \in {"paid", "refunded"}
                  /\ charge[c].disc = (job[w].sess.voucher # "none")
                  /\ Answered(w, "paid")
        PROVE  IInv'
    <2>1. ChargeGrows
      BY <1>3, StillGrows
    <2>2. job' \in [Workers -> Job] /\ JobsTrue'
      <3>1. CASE Refused(w)
        BY <1>0, <1>p, <2>1, <3>1, RefusedJob DEF IInv
      <3>2. CASE Answered(w, "pending")
        BY <1>0, <2>1, <3>2, AnsweredJob DEF IInv
      <3>3. CASE /\ charge[c].st \in {"paid", "refunded"}
                 /\ charge[c].disc = (job[w].sess.voucher # "none")
                 /\ Answered(w, "paid")
        BY <1>0, <1>3, <1>c, <2>1, <3>3, AnsweredJob DEF IInv
      <3> QED BY <1>3, <3>1, <3>2, <3>3
    <2>3. TypeOK'
      BY <1>0, <1>1, <1>3, <2>2 DEF IInv, TypeOK
    <2> QED BY <1>0, <1>3, <2>1, <2>2, <2>3, Untouched
  <1> QED BY <1>2, <1>3, <1>c DEF Charge

(* The outcome is written by the handler that knows it.                    *)
LEMMA OutcomeGo ==
    ASSUME TypeOK, JobsTrue, NEW w \in Workers, job[w].at \in {"put", "persist", "upsert"},
           NEW l,
           \/ l \in {"persist", "upsert"}
           \/ l = "settle" /\ job[w].sess.pay = "paid"
           \/ l = "settleRefund" /\ job[w].sess.pay = "refunded"
    PROVE  MayGo(w, l) /\ l \in Labels
  <1>1. job[w] \in Job /\ JobTrue(job[w])
    BY DEF TypeOK, JobsTrue
  <1>2. PICK k : k = [job[w] EXCEPT !.at = l]
    OBVIOUS
  <1>3. /\ k.at = l /\ k.c = job[w].c /\ k.sess = job[w].sess /\ k.status = job[w].status
        /\ k.refused = job[w].refused /\ k.op = job[w].op /\ k.disc = job[w].disc
    BY <1>1, <1>2 DEF Job
  <1>4. JobTrue(k)
    <2>1. CASE l \in {"persist", "upsert"}
      BY <1>1, <1>3, <2>1 DEF JobTrue, KnowsAmount, Paying, Refunding
    <2>2. CASE l = "settle" /\ job[w].sess.pay = "paid"
      BY <1>1, <1>3, <2>2 DEF JobTrue, KnowsAmount, Paying, Refunding, Tells
    <2>3. CASE l = "settleRefund" /\ job[w].sess.pay = "refunded"
      BY <1>1, <1>3, <2>3 DEF JobTrue, KnowsAmount, Paying, Refunding, Tells
    <2> QED BY <2>1, <2>2, <2>3
  <1> QED BY <1>2, <1>4 DEF MayGo, Labels

(* The copies of the session get the outcome, ...                          *)
LEMMA PutKeeps ==
    ASSUME IInv, NEW w \in Workers, Put(w) \/ Persist(w)
    PROVE  IInv'
  <1>c. PICK c \in Checkouts : c = job[w].c
    BY DEF IInv, JobsTrue, JobTrue, KnowsAmount, Put, Persist, At
  <1>0. /\ job[w] \in Job /\ JobTrue(job[w]) /\ job[w].at \in {"put", "persist"}
        /\ UNCHANGED <<used, reserved, usage, countReleased, row, orders, audited, charge,
                       asked, strayed>>
    BY DEF IInv, TypeOK, JobsTrue, Put, Persist, At, voucherVars, ledgerVars, boundVars
  <1>1. ChargeGrows
    BY <1>0, StillGrows
  <1>2. job' \in [Workers -> Job] /\ JobsTrue'
    <2>1. PICK l \in {"persist", "upsert"} : Goto(w, l)
      BY DEF Put, Persist
    <2> QED BY <1>0, <1>1, <2>1, OutcomeGo, GotoJob DEF IInv
  <1>3. job[w].sess \in Session /\ Tells(c, job[w].sess.pay)
    BY <1>0, <1>c DEF Job, JobTrue, KnowsAmount
  <1>4. /\ kv' \in [Checkouts -> Session \cup {NONE}] /\ db' \in [Checkouts -> Session]
        /\ idle' \subseteq Checkouts /\ unmoved' \subseteq Checkouts
        /\ behind' \subseteq Checkouts
        /\ StatusTrue'
    <2>1. CASE Put(w)
      <3>1. kv' = [kv EXCEPT ![c] = job[w].sess] /\ UNCHANGED <<db, idle, unmoved, behind>>
        BY <1>c, <2>1 DEF Put
      <3>2. StatusTrue'
        BY <1>0, <1>1, <1>3, <3>1, KvWritten DEF IInv
      <3> QED BY <1>3, <3>1, <3>2 DEF IInv, TypeOK
    <2>2. CASE Persist(w)
      <3>1. /\ db' = [db EXCEPT ![c] = job[w].sess] /\ UNCHANGED kv
            /\ idle' \subseteq idle /\ unmoved' \subseteq unmoved /\ behind' \subseteq behind
        BY <1>c, <2>2 DEF Persist, Update
      <3>2. StatusTrue'
        BY <1>0, <1>1, <1>3, <3>1, DbWritten DEF IInv
      <3> QED BY <1>3, <3>1, <3>2 DEF IInv, TypeOK
    <2> QED BY <2>1, <2>2
  <1>5. TypeOK'
    BY <1>0, <1>2, <1>4 DEF IInv, TypeOK
  <1>6. SharesMatchTheCharge' /\ UsesAreOfPaidCheckouts'
    BY <1>0, <1>1, MoneyKept DEF IInv
  <1> QED BY <1>2, <1>4, <1>5, <1>6 DEF IInv

(* ... and so does the payment's row.                                      *)
LEMMA UpsertKeeps ==
    ASSUME IInv, NEW w \in Workers, Upsert(w)
    PROVE  IInv'
  <1>c. PICK c \in Checkouts : c = job[w].c
    BY DEF IInv, JobsTrue, JobTrue, KnowsAmount, Upsert, At
  <1>0. /\ job[w] \in Job /\ JobTrue(job[w]) /\ job[w].at = "upsert"
        /\ UNCHANGED <<used, reserved, usage, countReleased, kv, db, idle, unmoved, behind,
                       orders, audited, charge, asked, strayed>>
    BY DEF IInv, TypeOK, JobsTrue, Upsert, At, voucherVars, sessionVars, boundVars
  <1>1. ChargeGrows
    BY <1>0, StillGrows
  <1>2. job' \in [Workers -> Job] /\ JobsTrue'
    <2>1. CASE job[w].sess.pay = "paid" /\ Goto(w, "settle")
      BY <1>0, <1>1, <2>1, OutcomeGo, GotoJob DEF IInv
    <2>2. CASE job[w].sess.pay = "refunded" /\ Goto(w, "settleRefund")
      BY <1>0, <1>1, <2>2, OutcomeGo, GotoJob DEF IInv
    <2>3. CASE Finish(w)
      BY <1>1, <2>3, FinishJob DEF IInv
    <2> QED BY <2>1, <2>2, <2>3 DEF Upsert
  <1>3. PICK m : m = [st |-> job[w].sess.pay, disc |-> job[w].disc]
    OBVIOUS
  <1>4. /\ m \in Money({"none", "pending", "paid", "failed", "refunded"})
        /\ Tells(c, m.st) /\ row' = [row EXCEPT ![c] = m]
    BY <1>0, <1>3, <1>c DEF Money, Job, Session, JobTrue, KnowsAmount, Upsert
  <1>5. StatusTrue'
    BY <1>0, <1>1, <1>4, RowWritten DEF IInv
  <1>6. TypeOK'
    BY <1>0, <1>2, <1>4 DEF IInv, TypeOK
  <1>7. SharesMatchTheCharge' /\ UsesAreOfPaidCheckouts'
    BY <1>0, <1>1, MoneyKept DEF IInv
  <1> QED BY <1>2, <1>5, <1>6, <1>7 DEF IInv

(* The bank decides a pending charge only.                                 *)
LEMMA DecideKeeps ==
    ASSUME IInv, NEW c \in Checkouts, Decide(c)
    PROVE  IInv'
  <1>0. /\ UNCHANGED <<used, reserved, usage, countReleased, kv, db, idle, unmoved, behind,
                       row, orders, audited, job, asked, strayed>>
        /\ charge[c].st = "pending"
    BY DEF Decide, voucherVars, sessionVars, boundVars
  <1>1. /\ \A d \in Checkouts \ {c} : charge'[d] = charge[d]
        /\ charge' \in [Checkouts -> [st : {"none", "pending", "paid", "failed", "refunded"},
                                      disc : BOOLEAN, failed : BOOLEAN]]
    <2>1. PICK st \in {"paid", "failed"} :
             charge' = [charge EXCEPT ![c].st = st, ![c].failed = @ \/ st = "failed"]
      BY DEF Decide
    <2> QED BY ZenonT(60), <2>1 DEF IInv, TypeOK
  <1>2. ChargeGrows
    BY <1>0, <1>1 DEF ChargeGrows, Took
  <1>3. JobsTrue'
    <2> SUFFICES ASSUME NEW w \in Workers PROVE JobTrue(job[w])'
      BY DEF JobsTrue
    <2>1. PICK k : k = job[w]
      OBVIOUS
    <2>2. JobTrue(k)'
      BY <1>2, <2>1, JobStaysTrue DEF IInv, JobsTrue
    <2> QED BY <1>0, <2>1, <2>2 DEF JobTrue, KnowsAmount, Tells, Took
  <1>4. TypeOK'
    BY <1>0, <1>1 DEF IInv, TypeOK
  <1> QED BY <1>0, <1>2, <1>3, <1>4, Untouched

-----------------------------------------------------------------------------
(* A webhook or a tick knows what the provider told.                       *)
LEMMA FindKeeps ==
    ASSUME IInv, NEW w \in Workers, Find(w) \/ Query(w)
    PROVE  IInv'
  <1>c. PICK c \in Checkouts : c = job[w].c
    BY NotRefused DEF IInv, Find, Query, At
  <1>0. /\ job[w] \in Job /\ JobTrue(job[w]) /\ job[w].at \in {"find", "query"}
        /\ ~job[w].refused /\ row[c].disc \in BOOLEAN
        /\ charge[c].st \in {"none", "pending", "paid", "failed", "refunded"}
        /\ UNCHANGED <<used, reserved, usage, countReleased, kv, db, idle, unmoved, behind,
                       row, orders, audited, charge, asked, strayed>>
    BY NotRefused DEF IInv, TypeOK, JobsTrue, Money, Find, Query, At, voucherVars, sessionVars,
       ledgerVars, boundVars
  <1>1. ChargeGrows
    BY <1>0, StillGrows
  <1>2. CASE Finish(w)
    <2>1. job' \in [Workers -> Job] /\ JobsTrue'
      BY <1>1, <1>2, FinishJob DEF IInv
    <2>2. TypeOK'
      BY <1>0, <2>1 DEF IInv, TypeOK
    <2> QED BY <1>0, <1>1, <2>1, <2>2, Untouched
  <1>3. ASSUME NEW k \in Job, JobTrue(k), job' = [job EXCEPT ![w] = k] PROVE IInv'
    <2>1. job' \in [Workers -> Job] /\ JobsTrue'
      BY <1>0, <1>3, BeginJob
    <2>2. TypeOK'
      BY <1>0, <2>1 DEF IInv, TypeOK
    <2> QED BY <1>0, <1>1, <2>1, <2>2, Untouched
  <1>4. CASE /\ Find(w) /\ Agrees(c, job[w].status)
             /\ job' = [job EXCEPT ![w].at = "row", ![w].disc = row[c].disc]
    <2>1. PICK k : k = [job[w] EXCEPT !.at = "row", !.disc = row[c].disc]
      OBVIOUS
    <2>2. /\ k \in Job /\ k.at = "row" /\ k.c = c /\ k.sess = job[w].sess
          /\ k.status = job[w].status /\ ~k.refused /\ k.disc = row[c].disc
      BY <1>0, <1>c, <2>1 DEF Job, Labels
    <2>3. k.status = "paid" => k.disc = charge[c].disc
      BY <1>4, <2>2 DEF Agrees
    <2>4. JobTrue(k)
      BY <1>0, <1>c, <2>2, <2>3 DEF JobTrue, KnowsAmount, Paying, Refunding
    <2> QED BY <1>3, <1>4, <2>1, <2>2, <2>4
  <1>5. CASE /\ Query(w) /\ ~(charge[c].st = "paid" /\ charge[c].disc # job[w].disc)
             /\ job' = [job EXCEPT ![w].at = "row", ![w].status = charge[c].st]
    <2>1. PICK k : k = [job[w] EXCEPT !.at = "row", !.status = charge[c].st]
      OBVIOUS
    <2>2. /\ k \in Job /\ k.at = "row" /\ k.c = c /\ k.sess = job[w].sess
          /\ k.status = charge[c].st /\ ~k.refused /\ k.disc = job[w].disc
      BY <1>0, <1>c, <2>1 DEF Job, Labels
    <2>3. k.status = "paid" => k.disc = charge[c].disc
      BY <1>5, <2>2
    <2>4. Tells(c, k.status)
      BY <2>2 DEF Tells, Took
    <2>5. JobTrue(k)
      BY <1>0, <1>c, <2>2, <2>3, <2>4 DEF JobTrue, KnowsAmount, Paying, Refunding
    <2> QED BY <1>3, <1>5, <2>1, <2>2, <2>5
  <1> QED BY <1>2, <1>4, <1>5, <1>c DEF Find, Query

(* A status that is written is a true one, however late.                   *)
Writing == {"row", "session", "cached", "putBack"}
LEMMA TellGo ==
    ASSUME IInv, NEW w \in Workers, job[w].at \in Writing, NEW l, NEW k,
           \/ l \in Writing
           \/ l = "settle" /\ job[w].status = "paid"
           \/ l = "settleRefund" /\ job[w].status = "refunded",
           k \in Job, k.at = l, k.c = job[w].c, k.op = job[w].op, k.status = job[w].status,
           k.refused = job[w].refused, k.disc = job[w].disc, Tells(job[w].c, k.sess.pay)
    PROVE  JobTrue(k)
  <1>1. JobTrue(job[w]) /\ ~job[w].refused
    BY NotRefused DEF IInv, JobsTrue, Writing
  <1>2. CASE l \in Writing
    BY <1>1, <1>2 DEF JobTrue, KnowsAmount, Paying, Refunding, Writing
  <1>3. CASE l = "settle" /\ job[w].status = "paid"
    BY <1>1, <1>3 DEF JobTrue, KnowsAmount, Paying, Refunding, Tells, Writing
  <1>4. CASE l = "settleRefund" /\ job[w].status = "refunded"
    BY <1>1, <1>4 DEF JobTrue, KnowsAmount, Paying, Refunding, Tells, Writing
  <1> QED BY <1>2, <1>3, <1>4

(* The handler writes, goes on or ends, and knows no more than it did.     *)
LEMMA WritingJob ==
    ASSUME IInv, UNCHANGED charge, NEW w \in Workers,
           WriteRow(w) \/ WriteSession(w) \/ ReadCached(w) \/ WriteCached(w)
    PROVE  job' \in [Workers -> Job] /\ JobsTrue'
  <1>0. /\ job[w] \in Job /\ job[w].at \in Writing /\ job[w].c \in Checkouts
        /\ Tells(job[w].c, job[w].sess.pay)
    BY NotRefused DEF IInv, TypeOK, JobsTrue, JobTrue, WriteRow, WriteSession, ReadCached,
       WriteCached, At, Writing
  <1>1. ChargeGrows
    BY StillGrows
  <1>2. CASE Finish(w)
    BY <1>1, <1>2, FinishJob DEF IInv
  <1>3. ASSUME NEW l \in Labels, NEW s \in Session,
               \/ l \in Writing
               \/ l = "settle" /\ job[w].status = "paid"
               \/ l = "settleRefund" /\ job[w].status = "refunded",
               Tells(job[w].c, s.pay),
               job' = [job EXCEPT ![w] = [job[w] EXCEPT !.at = l, !.sess = s]]
        PROVE  job' \in [Workers -> Job] /\ JobsTrue'
    <2>1. PICK k : k = [job[w] EXCEPT !.at = l, !.sess = s]
      OBVIOUS
    <2>2. /\ k \in Job /\ k.at = l /\ k.c = job[w].c /\ k.op = job[w].op
          /\ k.status = job[w].status /\ k.refused = job[w].refused
          /\ k.disc = job[w].disc /\ k.sess = s
      BY <1>0, <2>1 DEF Job
    <2>3. JobTrue(k)
      BY <1>0, <1>3, <2>2, TellGo
    <2> QED BY <1>3, <2>1, <2>2, <2>3, BeginJob
  <1>4. ASSUME NEW l \in Labels,
               \/ l \in Writing
               \/ l = "settle" /\ job[w].status = "paid"
               \/ l = "settleRefund" /\ job[w].status = "refunded",
               job' = [job EXCEPT ![w] = [job[w] EXCEPT !.at = l]]
        PROVE  job' \in [Workers -> Job] /\ JobsTrue'
    <2>1. /\ job[w].sess \in Session
          /\ [job[w] EXCEPT !.at = l] = [job[w] EXCEPT !.at = l, !.sess = job[w].sess]
      BY <1>0 DEF Job
    <2> QED BY <1>0, <1>3, <1>4, <2>1
  <1>5. CASE WriteRow(w) \/ WriteSession(w)
    <2>1. PICK l \in {"session", "cached"} : job' = [job EXCEPT ![w].at = l]
      BY <1>5 DEF WriteRow, WriteSession, Goto
    <2>2. job' = [job EXCEPT ![w] = [job[w] EXCEPT !.at = l]]
      BY <2>1
    <2> QED BY <1>4, <2>1, <2>2 DEF Writing, Labels
  <1>6. /\ Owed(w) \in {"idle", "settle", "settleRefund"} \cap Labels
        /\ Owed(w) = "settle" => job[w].status = "paid"
        /\ Owed(w) = "settleRefund" => job[w].status = "refunded"
    BY DEF Owed, Labels
  <1>7. CASE ReadCached(w)
    <2>1. CASE kv[job[w].c] # NONE
      <3>1. PICK s \in Session : s = kv[job[w].c] /\ Tells(job[w].c, s.pay)
        BY <1>0, <2>1 DEF IInv, TypeOK, StatusTrue
      <3>2. job' = [job EXCEPT ![w] = [job[w] EXCEPT !.at = "putBack", !.sess = s]]
        BY <1>7, <2>1, <3>1 DEF ReadCached
      <3> QED BY <1>3, <3>1, <3>2 DEF Writing, Labels
    <2>2. CASE kv[job[w].c] = NONE /\ Owed(w) = "idle"
      BY <1>2, <1>7, <2>2 DEF ReadCached, Finish
    <2>3. CASE kv[job[w].c] = NONE /\ Owed(w) # "idle"
      <3>1. job' = [job EXCEPT ![w] = [job[w] EXCEPT !.at = Owed(w)]]
        BY <1>7, <2>3 DEF ReadCached
      <3> QED BY <1>4, <1>6, <2>3, <3>1
    <2> QED BY <2>1, <2>2, <2>3
  <1>8. CASE WriteCached(w)
    <2>1. CASE Owed(w) = "idle"
      BY <1>2, <1>8, <2>1 DEF WriteCached, Finish
    <2>2. CASE Owed(w) # "idle"
      <3>0. NewSession \in Session /\ NewSession.pay = "none"
        BY DEF NewSession, Session
      <3>1. PICK s \in Session : s = NewSession /\ Tells(job[w].c, s.pay)
        BY <3>0 DEF Tells
      <3>2. job' = [job EXCEPT ![w] = [job[w] EXCEPT !.at = Owed(w), !.sess = s]]
        BY <1>8, <2>2, <3>1 DEF WriteCached
      <3> QED BY <1>3, <1>6, <2>2, <3>1, <3>2
    <2> QED BY <2>1, <2>2
  <1> QED BY <1>5, <1>7, <1>8

(* So the row and both copies stay true.                                   *)
LEMMA WriteKeeps ==
    ASSUME IInv, NEW w \in Workers,
           WriteRow(w) \/ WriteSession(w) \/ ReadCached(w) \/ WriteCached(w)
    PROVE  IInv'
  <1>c. PICK c \in Checkouts : c = job[w].c
    BY NotRefused DEF IInv, WriteRow, WriteSession, ReadCached, WriteCached, At
  <1>0. /\ job[w] \in Job /\ JobTrue(job[w]) /\ job[w].at \in Writing
        /\ UNCHANGED <<used, reserved, usage, countReleased, orders, audited, charge, asked>>
    BY DEF IInv, TypeOK, JobsTrue, WriteRow, WriteSession, ReadCached, WriteCached, At, Writing,
       voucherVars, sessionVars, ledgerVars, boundVars
  <1>1. ChargeGrows
    BY <1>0, StillGrows
  <1>2. job' \in [Workers -> Job] /\ JobsTrue'
    BY <1>0, WritingJob
  <1>3. /\ job[w].status \in {"none", "pending", "paid", "failed", "refunded"}
        /\ Tells(c, job[w].status)
    BY <1>0, <1>c DEF Job, JobTrue, Writing
  <1>4. strayed' \subseteq Strays
    BY DEF WriteRow, WriteSession, ReadCached, WriteCached, NoteLate, Late, Stale, Strays, IInv,
       TypeOK, boundVars
  <1>5. /\ kv' \in [Checkouts -> Session \cup {NONE}] /\ db' \in [Checkouts -> Session]
        /\ row' \in [Checkouts -> Money({"none", "pending", "paid", "failed", "refunded"})]
        /\ idle' \subseteq Checkouts /\ unmoved' \subseteq Checkouts
        /\ behind' \subseteq Checkouts
        /\ StatusTrue'
    <2>1. CASE WriteRow(w)
      <3>1. PICK m : m = [row[c] EXCEPT !.st = job[w].status]
        OBVIOUS
      <3>2. /\ m \in Money({"none", "pending", "paid", "failed", "refunded"})
            /\ m.st = job[w].status
        <4>1. row[c] \in Money({"none", "pending", "paid", "failed", "refunded"})
          BY DEF IInv, TypeOK
        <4> QED BY <1>3, <3>1, <4>1 DEF Money
      <3>3. row' = [row EXCEPT ![c] = m] /\ UNCHANGED <<kv, db, idle, unmoved, behind>>
        BY <1>c, <2>1, <3>1 DEF WriteRow, sessionVars
      <3>4. StatusTrue'
        BY <1>1, <1>3, <3>2, <3>3, RowWritten DEF IInv
      <3> QED BY <3>2, <3>3, <3>4 DEF IInv, TypeOK
    <2>2. CASE WriteSession(w)
      <3>1. PICK s : s = [db[c] EXCEPT !.pay = job[w].status]
        OBVIOUS
      <3>2. s \in Session /\ s.pay = job[w].status
        BY <1>3, <3>1 DEF IInv, TypeOK, Session
      <3>3. /\ db' = [db EXCEPT ![c] = s] /\ UNCHANGED <<kv, row>>
            /\ idle' \subseteq idle /\ unmoved' \subseteq unmoved /\ behind' \subseteq behind
        BY <1>c, <2>2, <3>1 DEF WriteSession, Update, ledgerVars
      <3>4. StatusTrue'
        BY <1>1, <1>3, <3>2, <3>3, DbWritten DEF IInv
      <3> QED BY <3>2, <3>3, <3>4 DEF IInv, TypeOK
    <2>3. CASE WriteCached(w)
      <3>0. UNCHANGED <<db, row, idle, unmoved, behind>>
        BY <2>3 DEF WriteCached, ledgerVars
      <3>1. PICK s : s = [job[w].sess EXCEPT !.pay = job[w].status]
        OBVIOUS
      <3>2. s \in Session /\ s.pay = job[w].status
        <4>1. job[w].sess \in Session
          BY <1>0 DEF Job
        <4> QED BY <1>3, <3>1, <4>1 DEF Session
      <3>3. kv' = [kv EXCEPT ![c] = s]
        BY <1>c, <2>3, <3>1 DEF WriteCached
      <3>4. StatusTrue'
        BY <1>1, <1>3, <3>0, <3>2, <3>3, KvWritten DEF IInv
      <3> QED BY <3>0, <3>2, <3>3, <3>4 DEF IInv, TypeOK
    <2>4. CASE ReadCached(w)
      <3>1. UNCHANGED <<kv, db, row, idle, unmoved, behind>>
        BY <2>4 DEF ReadCached, sessionVars, ledgerVars
      <3>2. StatusTrue'
        BY <1>1, <3>1, StatusKept DEF IInv
      <3> QED BY <3>1, <3>2 DEF IInv, TypeOK
    <2> QED BY <2>1, <2>2, <2>3, <2>4
  <1>6. TypeOK'
    BY <1>0, <1>2, <1>4, <1>5 DEF IInv, TypeOK
  <1>7. SharesMatchTheCharge' /\ UsesAreOfPaidCheckouts'
    BY <1>0, <1>1, MoneyKept DEF IInv
  <1> QED BY <1>2, <1>5, <1>6, <1>7 DEF IInv

(* A handler that stops leaves everything as it is.                        *)
LEMMA StopKeeps ==
    ASSUME IInv, NEW w \in Workers, Stop(w)
    PROVE  IInv'
  <1>0. UNCHANGED <<used, reserved, usage, countReleased, kv, db, idle, unmoved, behind, row,
                    orders, audited, charge, asked>>
    BY DEF Stop, voucherVars, sessionVars, ledgerVars
  <1>1. ChargeGrows
    BY <1>0, StillGrows
  <1>2. job' \in [Workers -> Job] /\ JobsTrue'
    BY <1>1, FinishJob DEF IInv, Stop
  <1>3. strayed' \subseteq Strays
    BY CheckoutAssumption DEF Stop, Stray, IInv, TypeOK
  <1>4. TypeOK'
    BY <1>0, <1>2, <1>3 DEF IInv, TypeOK
  <1> QED BY <1>0, <1>1, <1>2, <1>4, Untouched

-----------------------------------------------------------------------------
(* A handler that settles goes through stages that need the money to have  *)
(* come, one that refunds through those that need it to have gone back.    *)
LEMMA PaidGo ==
    ASSUME TypeOK, JobsTrue, NEW w \in Workers, job[w].at \in Paying,
           NEW l \in Paying \ {"settle"}
    PROVE  MayGo(w, l) /\ l \in Labels
  <1>1. job[w] \in Job /\ JobTrue(job[w]) /\ ~job[w].refused /\ job[w].at # "idle"
    BY NotRefused DEF TypeOK, JobsTrue, Paying
  <1>2. PICK k : k = [job[w] EXCEPT !.at = l]
    OBVIOUS
  <1>3. /\ k.at = l /\ k.c = job[w].c /\ k.sess = job[w].sess /\ k.status = job[w].status
        /\ k.refused = job[w].refused /\ k.op = job[w].op /\ k.disc = job[w].disc
    BY <1>1, <1>2 DEF Job
  <1>4. JobTrue(k)
    BY <1>1, <1>3 DEF JobTrue, KnowsAmount, Paying, Refunding
  <1> QED BY <1>2, <1>4 DEF MayGo, Labels, Paying

(* One that refunds goes on to the next of its stages.                     *)
LEMMA RefundGo ==
    ASSUME TypeOK, JobsTrue, NEW w \in Workers, job[w].at \in Refunding, NEW l \in Refunding
    PROVE  MayGo(w, l) /\ l \in Labels
  <1>1. job[w] \in Job /\ JobTrue(job[w]) /\ ~job[w].refused /\ job[w].at # "idle"
    BY NotRefused DEF TypeOK, JobsTrue, Refunding
  <1>2. PICK k : k = [job[w] EXCEPT !.at = l]
    OBVIOUS
  <1>3. /\ k.at = l /\ k.c = job[w].c /\ k.sess = job[w].sess /\ k.status = job[w].status
        /\ k.refused = job[w].refused /\ k.op = job[w].op /\ k.disc = job[w].disc
    BY <1>1, <1>2 DEF Job
  <1>4. JobTrue(k)
    BY <1>1, <1>3 DEF JobTrue, KnowsAmount, Paying, Refunding
  <1> QED BY <1>2, <1>4 DEF MayGo, Labels, Refunding

(* The rows of a checkout that are written after the money came or went.   *)
LEMMA UseWritten ==
    ASSUME IInv, UNCHANGED <<orders, charge>>, NEW c \in Checkouts,
           NEW r \in [Parts -> {"none", "reserved", "active", "refunded"}],
           usage' = [usage EXCEPT ![c] = r],
           \A p \in Parts : /\ r[p] = "active" => Took(c)
                            /\ r[p] = "refunded" => charge[c].st = "refunded"
    PROVE  /\ usage' \in [Checkouts -> [Parts -> {"none", "reserved", "active", "refunded"}]]
           /\ SharesMatchTheCharge' /\ UsesAreOfPaidCheckouts'
  <1>1. usage \in [Checkouts -> [Parts -> {"none", "reserved", "active", "refunded"}]]
    BY DEF IInv, TypeOK
  <1>2. SharesMatchTheCharge'
    BY DEF IInv, SharesMatchTheCharge
  <1>3. UsesAreOfPaidCheckouts'
    BY <1>1 DEF IInv, UsesAreOfPaidCheckouts, Took
  <1> QED BY <1>1, <1>2, <1>3

(* The stalls' orders are paid with shares that add up to the charge.      *)
LEMMA SettleKeeps ==
    ASSUME IInv, NEW w \in Workers, Settle(w)
    PROVE  IInv'
  <1>c. PICK c \in Checkouts : c = job[w].c
    BY NotRefused DEF IInv, Settle, At
  <1>0. /\ job[w] \in Job /\ JobTrue(job[w]) /\ job[w].at = "settle"
        /\ UNCHANGED <<used, reserved, usage, countReleased, kv, db, idle, unmoved, behind, row,
                       audited, charge, asked, strayed>>
    BY DEF IInv, TypeOK, JobsTrue, Settle, PayOrders, At, voucherVars, sessionVars,
       ledgerVars, boundVars
  <1>1. ChargeGrows
    BY <1>0, StillGrows
  <1>2. job' \in [Workers -> Job] /\ JobsTrue'
    <2>1. CASE Finish(w)
      BY <1>1, <2>1, FinishJob DEF IInv
    <2>2. CASE Goto(w, "load") \/ Goto(w, "flip")
      BY <1>0, <1>1, <2>2, PaidGo, GotoJob DEF IInv, Paying
    <2> QED BY <2>1, <2>2 DEF Settle, PayOrders
  <1>3. orders' = orders \/ (/\ orders[c].st = "unpaid" /\ Shares(w) = job[w].disc
                             /\ orders' = [orders EXCEPT ![c] = [st |-> "completed", disc |-> Shares(w)]])
    BY <1>c DEF Settle, PayOrders, ledgerVars
  <1>4. Took(c) /\ job[w].disc = charge[c].disc /\ job[w].disc \in BOOLEAN
    BY <1>0, <1>c DEF JobTrue, KnowsAmount, Paying, Job
  <1>5. CASE orders' = orders
    <2>1. TypeOK'
      BY <1>0, <1>2, <1>5 DEF IInv, TypeOK
    <2> QED BY <1>0, <1>1, <1>2, <1>5, <2>1, Untouched
  <1>6. CASE orders' = [orders EXCEPT ![c] = [st |-> "completed", disc |-> charge[c].disc]]
    <2>1. PICK m : m = [st |-> "completed", disc |-> charge[c].disc]
      OBVIOUS
    <2>2. /\ m \in Money({"unpaid", "completed", "refunded"}) /\ m.st = "completed"
          /\ m.disc = charge[c].disc /\ orders' = [orders EXCEPT ![c] = m]
          /\ orders \in [Checkouts -> Money({"unpaid", "completed", "refunded"})]
      BY <1>4, <1>6, <2>1 DEF Money, IInv, TypeOK
    <2>3. TypeOK'
      BY <1>0, <1>2, <2>2 DEF IInv, TypeOK
    <2>4. SharesMatchTheCharge'
      BY <1>0, <1>4, <2>2 DEF IInv, SharesMatchTheCharge, Took
    <2>5. UsesAreOfPaidCheckouts'
      BY <1>0 DEF IInv, UsesAreOfPaidCheckouts
    <2>6. StatusTrue'
      BY <1>0, <1>1, StatusKept DEF IInv
    <2> QED BY <1>2, <2>3, <2>4, <2>5, <2>6 DEF IInv
  <1> QED BY <1>3, <1>4, <1>5, <1>6

(* The redemption goes on; only the handler and the counts change.         *)
LEMMA RedeemKeeps ==
    ASSUME IInv, NEW w \in Workers, Load(w) \/ Look(w) \/ Slot(w) \/ Unslot(w) \/ CountPaid(w)
    PROVE  IInv'
  <1>c. PICK c \in Checkouts : c = job[w].c
    BY NotRefused DEF IInv, Load, Look, Slot, Unslot, CountPaid, At
  <1>0. /\ job[w] \in Job /\ JobTrue(job[w]) /\ job[w].at \in Paying \ {"settle"}
        /\ ~job[w].refused /\ job[w].at # "idle"
        /\ UNCHANGED <<usage, countReleased, kv, db, idle, unmoved, behind, row, orders,
                       audited, charge, asked, strayed>>
    BY NotRefused DEF IInv, TypeOK, JobsTrue, Load, Look, Slot, Unslot, CountPaid, At, Paying,
       voucherVars, sessionVars, ledgerVars, boundVars
  <1>1. ChargeGrows
    BY <1>0, StillGrows
  <1>2. job' \in [Workers -> Job] /\ JobsTrue'
    <2>1. CASE Finish(w)
      BY <1>1, <2>1, FinishJob DEF IInv
    <2>2. ASSUME NEW l \in Paying \ {"settle"}, Goto(w, l) PROVE job' \in [Workers -> Job] /\ JobsTrue'
      BY <1>0, <1>1, <2>2, PaidGo, GotoJob DEF IInv
    <2>3. CASE Load(w)
      <3>1. PICK v \in {"none", "reserved", "released"} :
               Finish(w) \/ job' = [job EXCEPT ![w].at = "flip", ![w].sess.voucher = v]
        BY <1>c, <2>3 DEF Load, IInv, TypeOK, Session
      <3>2. PICK k : k = [job[w] EXCEPT !.at = "flip",
                                        !.sess = [job[w].sess EXCEPT !.voucher = v]]
        OBVIOUS
      <3>3. /\ k \in Job /\ k.at = "flip" /\ k.c = c /\ k.sess.pay = job[w].sess.pay
            /\ k.status = job[w].status /\ ~k.refused
        BY <1>0, <1>c, <3>2 DEF Job, Labels, Session
      <3>4. JobTrue(k)
        BY <1>0, <1>c, <3>3 DEF JobTrue, KnowsAmount, Paying, Refunding
      <3>5. CASE job' = [job EXCEPT ![w].at = "flip", ![w].sess.voucher = v]
        <4>1. job' = [job EXCEPT ![w] = k]
          BY <3>2, <3>5
        <4> QED BY <1>0, <3>3, <3>4, <4>1, BeginJob
      <3> QED BY <2>1, <3>1, <3>5
    <2>4. CASE Look(w)
      <3>1. CASE Live(c) = Parts
        BY <1>c, <2>1, <2>2, <2>4, <3>1 DEF Look, Then, Last, Paying
      <3>2. CASE Live(c) # Parts
        <4>1. PICK claimed \in BOOLEAN :
                 job' = [job EXCEPT ![w].at = IF claimed THEN "slot" ELSE "insert",
                                    ![w].todo = Parts \ Live(c), ![w].claimed = claimed]
          BY <1>c, <2>4, <3>2 DEF Look
        <4>2. PICK k : k = [job[w] EXCEPT !.at = IF claimed THEN "slot" ELSE "insert",
                                          !.todo = Parts \ Live(c), !.claimed = claimed]
          OBVIOUS
        <4>3. /\ k \in Job /\ k.at \in {"slot", "insert"} /\ k.c = c /\ k.sess = job[w].sess
              /\ k.status = job[w].status /\ ~k.refused
          BY <1>0, <1>c, <4>2 DEF Job, Labels
        <4>4. JobTrue(k)
          BY <1>0, <1>c, <4>3 DEF JobTrue, KnowsAmount, Paying, Refunding
        <4>5. job' = [job EXCEPT ![w] = k]
          BY <4>1, <4>2
        <4> QED BY <1>0, <4>3, <4>4, <4>5, BeginJob
      <3> QED BY <3>1, <3>2
    <2>5. CASE Slot(w)
      BY <2>1, <2>2, <2>5 DEF Slot, Paying
    <2>6. CASE Unslot(w)
      BY <2>1, <2>2, <2>6 DEF Unslot, Then, Last, Paying
    <2>7. CASE CountPaid(w)
      BY <2>1, <2>7 DEF CountPaid
    <2> QED BY <2>3, <2>4, <2>5, <2>6, <2>7
  <1>3. used' \in Nat /\ reserved' \in Nat
    <2>1. used \in Nat /\ reserved \in Nat
      BY DEF IInv, TypeOK
    <2>2. CASE Load(w) \/ Look(w)
      BY <2>1, <2>2 DEF Load, Look, voucherVars
    <2>3. CASE Slot(w)
      BY <2>1, <2>3 DEF Slot
    <2>4. CASE Unslot(w)
      BY <2>1, <2>4 DEF Unslot, Less
    <2>5. CASE CountPaid(w)
      BY <2>1, <2>5 DEF CountPaid, Less
    <2> QED BY <2>2, <2>3, <2>4, <2>5
  <1>4. TypeOK'
    BY <1>0, <1>2, <1>3 DEF IInv, TypeOK
  <1> QED BY <1>0, <1>1, <1>2, <1>4, Untouched

(* A hold becomes a use after the money came.                              *)
LEMMA FlipKeeps ==
    ASSUME IInv, NEW w \in Workers, Flip(w)
    PROVE  IInv'
  <1>c. PICK c \in Checkouts : c = job[w].c
    BY NotRefused DEF IInv, Flip, At
  <1>0. /\ job[w] \in Job /\ JobTrue(job[w]) /\ job[w].at = "flip" /\ ~job[w].refused
        /\ usage[c] \in [Parts -> {"none", "reserved", "active", "refunded"}]
        /\ UNCHANGED <<used, reserved, countReleased, kv, db, idle, unmoved, behind, row,
                       orders, audited, charge, asked, strayed>>
    BY NotRefused DEF IInv, TypeOK, JobsTrue, Flip, At, sessionVars, ledgerVars, boundVars
  <1>1. ChargeGrows
    BY <1>0, StillGrows
  <1>2. job' \in [Workers -> Job] /\ JobsTrue'
    <2>1. PICK b \in BOOLEAN : b = (\E p \in Parts : usage[c][p] = "reserved")
      OBVIOUS
    <2>2. PICK k : k = [job[w] EXCEPT !.at = "look", !.won = b]
      OBVIOUS
    <2>3. /\ k \in Job /\ k.at = "look" /\ k.c = c /\ k.sess = job[w].sess
          /\ k.status = job[w].status /\ ~k.refused
      BY <1>0, <1>c, <2>2 DEF Job, Labels
    <2>4. JobTrue(k)
      BY <1>0, <1>c, <2>3 DEF JobTrue, KnowsAmount, Paying, Refunding
    <2>5. job' = [job EXCEPT ![w] = k]
      BY <1>c, <2>1, <2>2 DEF Flip
    <2> QED BY <1>0, <2>3, <2>4, <2>5, BeginJob
  <1>3. PICK r : r = [p \in Parts |-> IF usage[c][p] = "reserved" THEN "active" ELSE usage[c][p]]
    OBVIOUS
  <1>4. usage' = [usage EXCEPT ![c] = r]
    BY <1>c, <1>3 DEF Flip
  <1>5. /\ r \in [Parts -> {"none", "reserved", "active", "refunded"}]
        /\ \A p \in Parts : /\ r[p] = "active" => Took(c)
                            /\ r[p] = "refunded" => charge[c].st = "refunded"
    BY <1>0, <1>3, <1>c DEF JobTrue, Paying, IInv, UsesAreOfPaidCheckouts
  <1>6. /\ usage' \in [Checkouts -> [Parts -> {"none", "reserved", "active", "refunded"}]]
        /\ SharesMatchTheCharge' /\ UsesAreOfPaidCheckouts'
    BY <1>0, <1>4, <1>5, UseWritten
  <1>7. TypeOK'
    BY <1>0, <1>2, <1>6 DEF IInv, TypeOK
  <1>8. StatusTrue'
    BY <1>0, <1>1, StatusKept DEF IInv
  <1> QED BY <1>2, <1>6, <1>7, <1>8 DEF IInv

(* So does an order's row that had none.                                   *)
LEMMA InsertKeeps ==
    ASSUME IInv, NEW w \in Workers, Insert(w)
    PROVE  IInv'
  <1>c. PICK c \in Checkouts : c = job[w].c
    BY NotRefused DEF IInv, Insert, At
  <1>0. /\ job[w] \in Job /\ JobTrue(job[w]) /\ job[w].at = "insert" /\ ~job[w].refused
        /\ usage[c] \in [Parts -> {"none", "reserved", "active", "refunded"}]
        /\ UNCHANGED <<used, reserved, countReleased, kv, db, idle, unmoved, behind, row,
                       orders, audited, charge, asked>>
    BY NotRefused DEF IInv, TypeOK, JobsTrue, Insert, At, sessionVars, ledgerVars
  <1>1. ChargeGrows
    BY <1>0, StillGrows
  <1>2. PICK p \in job[w].todo, added \in BOOLEAN, last \in BOOLEAN, claim \in BOOLEAN,
             won \in BOOLEAN, l \in {"unslot", "count", "insert"} :
          /\ usage' = IF added THEN [usage EXCEPT ![c][p] = "active"] ELSE usage
          /\ \/ Finish(w)
             \/ job' = [job EXCEPT ![w].at = l, ![w].todo = @ \ {p}, ![w].won = won,
                                   ![w].inserted = @ \/ claim]
          /\ strayed' \in {strayed, strayed \cup {"claimLost"}}
    <2>1. PICK p \in job[w].todo :
         LET added == /\ usage[job[w].c][p] = "none"
                      /\ p = ClaimPart /\ PerUser => HasClaimLeft(job[w].c)
             claim == added /\ p = ClaimPart
             won   == job[w].won \/ claim
             last  == job[w].todo = {p}
             next  == IF job[w].claimed /\ ~(job[w].inserted \/ claim) THEN "unslot"
                      ELSE Last(w, won)
         IN /\ usage' = IF added THEN [usage EXCEPT ![job[w].c][p] = "active"] ELSE usage
            /\ IF last /\ next = "idle" THEN Finish(w)
               ELSE job' = [job EXCEPT ![w].at = IF last THEN next ELSE "insert",
                                       ![w].todo = @ \ {p}, ![w].won = won,
                                       ![w].inserted = @ \/ claim]
            /\ strayed' = IF p = ClaimPart /\ ~added /\ usage[job[w].c][p] = "none"
                          THEN strayed \cup {"claimLost"} ELSE strayed
      <3>1. NextOrders(w) \subseteq job[w].todo
        BY DEF NextOrders
      <3> QED BY <3>1 DEF Insert
    <2>2. PICK added \in BOOLEAN : added = (/\ usage[c][p] = "none"
                                            /\ p = ClaimPart /\ PerUser => HasClaimLeft(c))
      OBVIOUS
    <2>3. PICK claim \in BOOLEAN : claim = (added /\ p = ClaimPart)
      OBVIOUS
    <2>4. PICK won \in BOOLEAN : won = (job[w].won \/ claim)
      BY <1>0 DEF Job
    <2>5. PICK next \in {"unslot", "count", "idle"} :
              next = IF job[w].claimed /\ ~(job[w].inserted \/ claim) THEN "unslot"
                     ELSE Last(w, won)
      BY DEF Last
    <2>6. PICK l : l = IF job[w].todo = {p} THEN next ELSE "insert"
      OBVIOUS
    <2>7. /\ usage' = IF added THEN [usage EXCEPT ![c][p] = "active"] ELSE usage
          /\ IF job[w].todo = {p} /\ next = "idle" THEN Finish(w)
             ELSE job' = [job EXCEPT ![w].at = l, ![w].todo = @ \ {p}, ![w].won = won,
                                     ![w].inserted = @ \/ claim]
          /\ strayed' \in {strayed, strayed \cup {"claimLost"}}
      BY <1>c, <2>1, <2>2, <2>3, <2>4, <2>5, <2>6
    <2>8. CASE job[w].todo = {p} /\ next = "idle"
      BY <2>7, <2>8
    <2>9. CASE ~(job[w].todo = {p} /\ next = "idle")
      BY ZenonT(60), <2>5, <2>6, <2>7, <2>9
    <2> QED BY <2>8, <2>9
  <1>3. job' \in [Workers -> Job] /\ JobsTrue'
    <2>1. CASE Finish(w)
      BY <1>1, <2>1, FinishJob DEF IInv
    <2>2. CASE job' = [job EXCEPT ![w].at = l, ![w].todo = @ \ {p}, ![w].won = won,
                                  ![w].inserted = @ \/ claim]
      <3>1. PICK k : k = [job[w] EXCEPT !.at = l, !.todo = @ \ {p}, !.won = won,
                                        !.inserted = @ \/ claim]
        OBVIOUS
      <3>2. /\ k \in Job /\ k.at = l /\ k.c = c /\ k.sess = job[w].sess
            /\ k.status = job[w].status /\ ~k.refused
        BY ZenonT(60), <1>0, <1>c, <3>1 DEF Job, Labels
      <3>3. JobTrue(k)
        BY <1>0, <1>c, <3>2 DEF JobTrue, KnowsAmount, Paying, Refunding
      <3>4. job' = [job EXCEPT ![w] = k]
        BY <2>2, <3>1
      <3> QED BY <1>0, <3>2, <3>3, <3>4, BeginJob
    <2> QED BY <1>2, <2>1, <2>2
  <1>4. PICK r : r = IF added THEN [usage[c] EXCEPT ![p] = "active"] ELSE usage[c]
    OBVIOUS
  <1>5. usage' = [usage EXCEPT ![c] = r]
    BY <1>2, <1>4 DEF IInv, TypeOK
  <1>6. /\ r \in [Parts -> {"none", "reserved", "active", "refunded"}]
        /\ \A q \in Parts : /\ r[q] = "active" => Took(c)
                            /\ r[q] = "refunded" => charge[c].st = "refunded"
    BY <1>0, <1>4, <1>c DEF JobTrue, Paying, IInv, UsesAreOfPaidCheckouts
  <1>7. /\ usage' \in [Checkouts -> [Parts -> {"none", "reserved", "active", "refunded"}]]
        /\ SharesMatchTheCharge' /\ UsesAreOfPaidCheckouts'
    BY <1>0, <1>5, <1>6, UseWritten
  <1>8. strayed' \subseteq Strays
    BY <1>2 DEF IInv, TypeOK, Strays
  <1>9. TypeOK'
    BY <1>0, <1>3, <1>7, <1>8 DEF IInv, TypeOK
  <1>10. StatusTrue'
    BY <1>0, <1>1, StatusKept DEF IInv
  <1> QED BY <1>3, <1>7, <1>9, <1>10 DEF IInv

-----------------------------------------------------------------------------
(* The refund of the charge is told by the handler that asked for it.      *)
LEMMA CallRefundKeeps ==
    ASSUME IInv, NEW w \in Workers, CallRefund(w)
    PROVE  IInv'
  <1>c. PICK c \in Checkouts : c = job[w].c
    BY NotRefused DEF IInv, CallRefund, At
  <1>0. /\ job[w] \in Job /\ JobTrue(job[w]) /\ job[w].at = "callRefund" /\ ~job[w].refused
        /\ UNCHANGED <<used, reserved, usage, countReleased, kv, db, idle, unmoved, behind,
                       row, orders, audited, asked, strayed>>
    BY NotRefused DEF IInv, TypeOK, JobsTrue, CallRefund, At, voucherVars, sessionVars, boundVars
  <1>1. CASE UNCHANGED charge /\ Finish(w)
    <2>1. ChargeGrows
      BY <1>1, StillGrows
    <2>2. job' \in [Workers -> Job] /\ JobsTrue'
      BY <1>1, <2>1, FinishJob DEF IInv
    <2>3. TypeOK'
      BY <1>0, <1>1, <2>2 DEF IInv, TypeOK
    <2> QED BY <1>0, <2>1, <2>2, <2>3, Untouched
  <1>2. CASE /\ charge[c].st \in {"paid", "refunded"}
             /\ charge' = [charge EXCEPT ![c].st = "refunded"]
             /\ job' = [job EXCEPT ![w].at = "put", ![w].sess.pay = "refunded"]
    <2>1. /\ \A d \in Checkouts : charge'[d].disc = charge[d].disc
          /\ \A d \in Checkouts \ {c} : charge'[d] = charge[d]
          /\ charge'[c].st = "refunded"
          /\ charge' \in [Checkouts -> [st : {"none", "pending", "paid", "failed", "refunded"},
                                        disc : BOOLEAN, failed : BOOLEAN]]
      BY <1>2 DEF IInv, TypeOK
    <2>2. ChargeGrows
      <3> SUFFICES ASSUME NEW d \in Checkouts
                   PROVE  /\ Took(d) => Took(d)' /\ charge'[d].disc = charge[d].disc
                          /\ charge[d].st = "refunded" => charge'[d].st = "refunded"
        BY DEF ChargeGrows
      <3>1. CASE d = c
        BY <2>1, <3>1 DEF Took
      <3>2. CASE d # c
        BY <2>1, <3>2 DEF Took
      <3> QED BY <3>1, <3>2
    <2>3. PICK k : k = [job[w] EXCEPT !.at = "put",
                                      !.sess = [job[w].sess EXCEPT !.pay = "refunded"]]
      OBVIOUS
    <2>4. /\ k \in Job /\ k.at = "put" /\ k.c = c /\ k.sess.pay = "refunded"
          /\ k.status = job[w].status /\ ~k.refused
      BY <1>0, <1>c, <2>3 DEF Job, Labels, Session
    <2>5. Tells(c, k.status)'
      BY <1>0, <1>c, <2>2, <2>4, TellsStays DEF JobTrue
    <2>6. JobTrue(k)'
      BY <2>1, <2>4, <2>5 DEF JobTrue, KnowsAmount, Tells, Took, Paying, Refunding
    <2>7. job' = [job EXCEPT ![w] = k]
      BY <1>2, <2>3
    <2>8. job' \in [Workers -> Job] /\ JobsTrue'
      BY <2>2, <2>4, <2>6, <2>7, OneJob DEF IInv
    <2>9. TypeOK'
      BY <1>0, <2>1, <2>8 DEF IInv, TypeOK
    <2> QED BY <1>0, <2>2, <2>8, <2>9, Untouched
  <1> QED BY <1>c, <1>1, <1>2 DEF CallRefund

(* The stalls' orders are refunded after the charge.                       *)
LEMMA SettleRefundKeeps ==
    ASSUME IInv, NEW w \in Workers, SettleRefund(w)
    PROVE  IInv'
  <1>c. PICK c \in Checkouts : c = job[w].c
    BY NotRefused DEF IInv, SettleRefund, At
  <1>0. /\ job[w] \in Job /\ JobTrue(job[w]) /\ job[w].at = "settleRefund"
        /\ orders[c] \in Money({"unpaid", "completed", "refunded"})
        /\ UNCHANGED <<used, reserved, usage, countReleased, kv, db, idle, unmoved, behind, row,
                       audited, charge, asked, strayed>>
    BY DEF IInv, TypeOK, JobsTrue, SettleRefund, At, voucherVars, sessionVars, boundVars
  <1>1. ChargeGrows
    BY <1>0, StillGrows
  <1>2. job' \in [Workers -> Job] /\ JobsTrue'
    <2>1. CASE Finish(w)
      BY <1>1, <2>1, FinishJob DEF IInv
    <2>2. CASE Goto(w, "mark")
      BY <1>0, <1>1, <2>2, RefundGo, GotoJob DEF IInv, Refunding
    <2> QED BY <2>1, <2>2 DEF SettleRefund
  <1>3. charge[c].st = "refunded"
    BY <1>0, <1>c DEF JobTrue, Refunding
  <1>4. CASE orders' = orders
    <2>1. TypeOK'
      BY <1>0, <1>2, <1>4 DEF IInv, TypeOK
    <2> QED BY <1>0, <1>1, <1>2, <1>4, <2>1, Untouched
  <1>5. CASE orders[c].st = "completed" /\ orders' = [orders EXCEPT ![c].st = "refunded"]
    <2>1. PICK m : m = [orders[c] EXCEPT !.st = "refunded"]
      OBVIOUS
    <2>2. /\ m \in Money({"unpaid", "completed", "refunded"}) /\ m.st = "refunded"
          /\ m.disc = orders[c].disc /\ orders' = [orders EXCEPT ![c] = m]
          /\ orders \in [Checkouts -> Money({"unpaid", "completed", "refunded"})]
      BY <1>0, <1>5, <2>1 DEF Money, IInv, TypeOK
    <2>3. TypeOK'
      BY <1>0, <1>2, <2>2 DEF IInv, TypeOK
    <2>4. m.disc = charge[c].disc
      BY <1>5, <2>2 DEF IInv, SharesMatchTheCharge
    <2>5. SharesMatchTheCharge'
      BY <1>0, <1>3, <2>2, <2>4 DEF IInv, SharesMatchTheCharge
    <2>6. UsesAreOfPaidCheckouts'
      BY <1>0 DEF IInv, UsesAreOfPaidCheckouts
    <2>7. StatusTrue'
      BY <1>0, <1>1, StatusKept DEF IInv
    <2> QED BY <1>2, <2>3, <2>5, <2>6, <2>7 DEF IInv
  <1> QED BY <1>c, <1>4, <1>5 DEF SettleRefund

(* A use is refunded after the charge ...                                  *)
LEMMA MarkKeeps ==
    ASSUME IInv, NEW w \in Workers, Mark(w)
    PROVE  IInv'
  <1>c. PICK c \in Checkouts : c = job[w].c
    BY NotRefused DEF IInv, Mark, At
  <1>0. /\ job[w] \in Job /\ JobTrue(job[w]) /\ job[w].at = "mark"
        /\ usage[c] \in [Parts -> {"none", "reserved", "active", "refunded"}]
        /\ Goto(w, "fully")
        /\ UNCHANGED <<used, reserved, countReleased, kv, db, idle, unmoved, behind, row,
                       orders, audited, charge, asked, strayed>>
    BY DEF IInv, TypeOK, JobsTrue, Mark, At, sessionVars, ledgerVars, boundVars
  <1>1. ChargeGrows
    BY <1>0, StillGrows
  <1>2. job' \in [Workers -> Job] /\ JobsTrue'
    BY <1>0, <1>1, RefundGo, GotoJob DEF IInv, Refunding
  <1>3. PICK r : r = [p \in Parts |-> IF usage[c][p] = "active" THEN "refunded" ELSE usage[c][p]]
    OBVIOUS
  <1>4. usage' = [usage EXCEPT ![c] = r]
    BY <1>c, <1>3 DEF Mark
  <1>5. /\ r \in [Parts -> {"none", "reserved", "active", "refunded"}]
        /\ \A p \in Parts : /\ r[p] = "active" => Took(c)
                            /\ r[p] = "refunded" => charge[c].st = "refunded"
    BY <1>0, <1>3, <1>c DEF JobTrue, Refunding, IInv, UsesAreOfPaidCheckouts
  <1>6. /\ usage' \in [Checkouts -> [Parts -> {"none", "reserved", "active", "refunded"}]]
        /\ SharesMatchTheCharge' /\ UsesAreOfPaidCheckouts'
    BY <1>0, <1>4, <1>5, UseWritten
  <1>7. TypeOK'
    BY <1>0, <1>2, <1>6 DEF IInv, TypeOK
  <1>8. StatusTrue'
    BY <1>0, <1>1, StatusKept DEF IInv
  <1> QED BY <1>2, <1>6, <1>7, <1>8 DEF IInv

(* ... and counted; neither touches the money.                             *)
LEMMA UncountKeeps ==
    ASSUME IInv, NEW w \in Workers, Fully(w) \/ Uncount(w)
    PROVE  IInv'
  <1>c. PICK c \in Checkouts : c = job[w].c
    BY NotRefused DEF IInv, Fully, Uncount, At
  <1>0. /\ job[w].at \in Refunding
        /\ UNCHANGED <<reserved, usage, kv, db, idle, unmoved, behind, row, orders, audited,
                       charge, asked, strayed>>
    BY DEF Fully, Uncount, At, Refunding, sessionVars, ledgerVars, boundVars
  <1>1. ChargeGrows
    BY <1>0, StillGrows
  <1>2. job' \in [Workers -> Job] /\ JobsTrue'
    <2>1. CASE Finish(w)
      BY <1>1, <2>1, FinishJob DEF IInv
    <2>2. CASE Goto(w, "uncount")
      BY <1>0, <1>1, <2>2, RefundGo, GotoJob DEF IInv, Refunding
    <2> QED BY <2>1, <2>2 DEF Fully, Uncount
  <1>3. used' \in Nat /\ countReleased' \subseteq Checkouts \X Parts
    <2>1. CASE Fully(w)
      <3>1. countReleased \subseteq Checkouts \X Parts /\ used \in Nat
        BY DEF IInv, TypeOK
      <3>2. used' = used
        BY <2>1 DEF Fully
      <3>3. \A p \in Live(c) : p \in Parts
        BY DEF Live
      <3>4. CASE countReleased' = countReleased
        BY <3>1, <3>2, <3>4
      <3>5. ASSUME NEW p \in Live(c), countReleased' = countReleased \cup {<<c, p>>}
            PROVE  countReleased' \subseteq Checkouts \X Parts
        BY <3>1, <3>3, <3>5
      <3>6. \/ countReleased' = countReleased
            \/ \E p \in Live(c) : countReleased' = countReleased \cup {<<c, p>>}
        BY <1>c, <2>1 DEF Fully
      <3> QED BY <3>1, <3>2, <3>4, <3>5, <3>6
    <2>2. CASE Uncount(w)
      BY <2>2 DEF Uncount, Less, IInv, TypeOK
    <2> QED BY <2>1, <2>2
  <1>4. TypeOK'
    BY <1>0, <1>2, <1>3 DEF IInv, TypeOK
  <1> QED BY <1>0, <1>1, <1>2, <1>4, Untouched

(* A day takes the KV copy away.                                           *)
LEMMA DayKeeps ==
    ASSUME IInv, NEW c \in Checkouts, DayPasses(c)
    PROVE  IInv'
  <1>0. /\ idle' \subseteq Checkouts /\ kv' = [kv EXCEPT ![c] = NONE]
        /\ UNCHANGED <<used, reserved, usage, countReleased, db, unmoved, behind, row, orders,
                       audited, charge, job, asked>>
        /\ strayed' \subseteq Strays
    BY CheckoutAssumption DEF DayPasses, Stray, voucherVars, ledgerVars, IInv, TypeOK
  <1>1. ChargeGrows
    BY <1>0, StillGrows
  <1>2. kv' \in [Checkouts -> Session \cup {NONE}]
    BY <1>0 DEF IInv, TypeOK
  <1>3. TypeOK'
    BY <1>0, <1>2 DEF IInv, TypeOK
  <1>4. StatusTrue'
    BY <1>0, <1>1, KvWritten DEF IInv
  <1>5. JobsTrue'
    <2> SUFFICES ASSUME NEW w \in Workers PROVE JobTrue(job[w])'
      BY DEF JobsTrue
    <2>1. PICK k : k = job[w]
      OBVIOUS
    <2>2. JobTrue(k)'
      BY <1>1, <2>1, JobStaysTrue DEF IInv, JobsTrue
    <2> QED BY <1>0, <2>1, <2>2 DEF JobTrue, KnowsAmount, Tells, Took
  <1>6. SharesMatchTheCharge' /\ UsesAreOfPaidCheckouts'
    BY <1>0, <1>1, MoneyKept DEF IInv
  <1> QED BY <1>3, <1>4, <1>5, <1>6 DEF IInv

(* A place in the workers' lists is nothing to the handlers.               *)
LEMMA PlaceKeeps ==
    ASSUME IInv, NEW c \in Checkouts, FallsBehind(c) \/ CatchesUp(c)
    PROVE  IInv'
  <1>1. /\ UNCHANGED <<used, reserved, usage, countReleased, kv, db, idle, unmoved, row, orders,
                       audited, charge, job, asked, strayed>>
        /\ behind' \subseteq Checkouts
    BY DEF FallsBehind, CatchesUp, voucherVars, ledgerVars, boundVars, IInv, TypeOK
  <1>2. TypeOK'
    BY <1>1 DEF IInv, TypeOK
  <1>3. JobsTrue'
    <2> SUFFICES ASSUME NEW w \in Workers PROVE JobTrue(job[w])'
      BY DEF JobsTrue
    <2> QED BY <1>1 DEF IInv, JobsTrue, JobTrue, KnowsAmount, Tells, Took
  <1> QED BY <1>1, <1>2, <1>3, StillGrows, Untouched

(* The sweep writes the voucher of the D1 row alone.                       *)
LEMMA SweepKeeps ==
    ASSUME IInv, NEW w \in Workers, CompareAndSet(w)
    PROVE  IInv'
  <1>c. PICK c \in Checkouts : c = job[w].c
    BY NotRefused DEF IInv, CompareAndSet, At
  <1>0. /\ job[w] \in Job /\ JobTrue(job[w]) /\ job[w].at = "cas" /\ ~job[w].refused
        /\ UNCHANGED <<used, reserved, usage, countReleased, kv, row, orders, audited,
                       charge, asked, strayed>>
    BY NotRefused DEF IInv, TypeOK, JobsTrue, CompareAndSet, At, voucherVars, ledgerVars,
       boundVars
  <1>1. ChargeGrows
    BY <1>0, StillGrows
  <1>2. job' \in [Workers -> Job] /\ JobsTrue'
    <2>1. CASE Finish(w)
      BY <1>1, <2>1, FinishJob DEF IInv
    <2>2. CASE Goto(w, "release")
      BY <1>0, <1>1, <2>2, PlainGo, GotoJob DEF IInv, Plain
    <2> QED BY <2>1, <2>2 DEF CompareAndSet
  <1>3. CASE UNCHANGED <<db, idle, unmoved, behind>>
    <2>1. TypeOK'
      BY <1>0, <1>2, <1>3 DEF IInv, TypeOK
    <2> QED BY <1>0, <1>1, <1>2, <1>3, <2>1, Untouched
  <1>4. CASE Update(c, [db[c] EXCEPT !.voucher = "released"])
    <2>1. PICK s : s = [db[c] EXCEPT !.voucher = "released"]
      OBVIOUS
    <2>2. s \in Session /\ s.pay = db[c].pay
      BY SMTT(30), <2>1 DEF IInv, TypeOK, Session
    <2>3. /\ db' = [db EXCEPT ![c] = s]
          /\ idle' \subseteq idle /\ unmoved' \subseteq unmoved /\ behind' \subseteq behind
      BY <1>4, <2>1 DEF Update
    <2>4. StatusTrue'
      BY <1>0, <1>1, <2>2, <2>3, DbWritten DEF IInv, StatusTrue
    <2>5. TypeOK'
      BY <1>0, <1>2, <2>2, <2>3 DEF IInv, TypeOK
    <2>6. SharesMatchTheCharge' /\ UsesAreOfPaidCheckouts'
      BY <1>0, <1>1, MoneyKept DEF IInv
    <2> QED BY <1>2, <2>4, <2>5, <2>6 DEF IInv
  <1> QED BY <1>c, <1>3, <1>4 DEF CompareAndSet

-----------------------------------------------------------------------------
(* Nothing happens.                                                        *)
LEMMA StutterKeeps == IInv /\ UNCHANGED vars => IInv'
  <1> SUFFICES ASSUME IInv, UNCHANGED vars PROVE IInv'
    OBVIOUS
  <1>1. UNCHANGED <<used, reserved, usage, countReleased, kv, db, idle, unmoved, behind, row,
                    orders, audited, charge, job, asked, strayed>>
    BY DEF vars, voucherVars, sessionVars, ledgerVars, boundVars
  <1>2. TypeOK'
    BY <1>1 DEF IInv, TypeOK
  <1>3. JobsTrue'
    <2> SUFFICES ASSUME NEW w \in Workers PROVE JobTrue(job[w])'
      BY DEF JobsTrue
    <2> QED BY <1>1 DEF IInv, JobsTrue, JobTrue, KnowsAmount, Tells, Took
  <1> QED BY <1>1, <1>2, <1>3, StillGrows, Untouched

(* Every step of a handler keeps the invariant, ...                        *)
LEMMA StepKeeps ==
    ASSUME IInv, NEW w \in Workers, Step(w)
    PROVE  IInv'
  BY ClaimKeeps, HoldKeeps, GiveBackKeeps, CacheKeeps, ReleaseKeeps, ChargeKeeps, PutKeeps,
     UpsertKeeps, FindKeeps, WriteKeeps, SettleKeeps, RedeemKeeps, FlipKeeps, InsertKeeps,
     CallRefundKeeps, SettleRefundKeeps, MarkKeeps, UncountKeeps, SweepKeeps
     DEF Step

(* ... and so does every step of the system.                               *)
LEMMA NextIInv == IInv /\ [Next]_vars => IInv'
  <1> SUFFICES ASSUME IInv, [Next]_vars PROVE IInv'
    OBVIOUS
  <1>1. CASE UNCHANGED vars
    BY <1>1, StutterKeeps
  <1>2. ASSUME NEW w \in Workers, NEW c \in Checkouts,
               Apply(w, c) \/ Remove(w, c) \/ Pay(w, c)
        PROVE  IInv'
    BY <1>2, AskKeeps
  <1>3. ASSUME NEW w \in Workers, NEW c \in Checkouts,
               \/ Reconcile(w, c) \/ Refund(w, c) \/ Sweep(w, c)
               \/ \E e \in Events : Hook(w, c, e)
        PROVE  IInv'
    BY <1>3, BackKeeps
  <1>4. ASSUME NEW w \in Workers, Step(w) \/ StoreFails(w) \/ Stop(w)
        PROVE  IInv'
    BY <1>4, StepKeeps, GiveBackKeeps, StopKeeps
  <1>5. ASSUME NEW c \in Checkouts, Decide(c) \/ DayPasses(c) \/ FallsBehind(c) \/ CatchesUp(c)
        PROVE  IInv'
    BY <1>5, DecideKeeps, DayKeeps, PlaceKeeps
  <1> QED BY <1>1, <1>2, <1>3, <1>4, <1>5 DEF Next

(* The invariant holds in every behaviour.                                 *)
LEMMA AlwaysIInv == Spec => []IInv
  BY InitIInv, NextIInv, PTL DEF Spec

(* The variables keep their types.                                         *)
THEOREM TypeCorrect == Spec => []TypeOK
  <1>1. IInv => TypeOK
    BY DEF IInv
  <1> QED BY <1>1, AlwaysIInv, PTL

(* The shares written to the stalls' orders add up to the charge.          *)
THEOREM SharesFollowTheCharge == Spec => []SharesMatchTheCharge
  <1>1. IInv => SharesMatchTheCharge
    BY DEF IInv
  <1> QED BY <1>1, AlwaysIInv, PTL

(* A use of the voucher follows the money.                                 *)
THEOREM UsesFollowTheMoney == Spec => []UsesAreOfPaidCheckouts
  <1>1. IInv => UsesAreOfPaidCheckouts
    BY DEF IInv
  <1> QED BY <1>1, AlwaysIInv, PTL
=============================================================================
