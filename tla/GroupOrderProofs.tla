-------------------------- MODULE GroupOrderProofs --------------------------
(***************************************************************************)
(* A group never reopens once its order is recorded.  While finalizers end *)
(* within FINALIZING_STALE_MS, and until a lost answer makes one of them   *)
(* free the claim of another, a claim is exclusive, a snapshot is complete *)
(* and an answer of success is true.  For every number of members, dishes, *)
(* callers and sweeps.                                                     *)
(***************************************************************************)
EXTENDS GroupOrder, TLAPS

(* A call that goes on changes its own stage only. *)
LEMMA GoToType ==
    ASSUME TypeOK, NEW p \in Procs, NEW s \in Stages, GoTo(p, s)
    PROVE  /\ stage' \in [Procs -> Stages]
           /\ stage'[p] = s
           /\ \A q \in Procs \ {p} : stage'[q] = stage[q]
  BY DEF TypeOK, StageOK, GoTo

(* A stage of p's kind keeps the calls apart. *)
LEMMA StagesKept ==
    ASSUME TypeOK, NEW p \in Procs, NEW s \in Stages, GoTo(p, s),
           p \in Finalizers => s \in FinalizeStages \cup {"idle", "ok", "over"},
           p \in Sweeps => s \in FinalizeStages \cup SweepStages,
           p \in Recoveries => s \in RecoveryStages,
           p \in Cleaners \cup Settings => s \in OtherStages
    PROVE  StageOK'
  <1>1. /\ stage' \in [Procs -> Stages]
        /\ stage'[p] = s
        /\ \A q \in Procs \ {p} : stage'[q] = stage[q]
    BY GoToType
  <1> QED BY <1>1 DEF TypeOK, StageOK, Procs

(* The end of a finalizer, and of a sweep's finalization. *)
LEMMA EndGoes ==
    ASSUME NEW p \in Finalizers \cup Sweeps, NEW result \in {"ok", "over", "empty"},
           End(p, result)
    PROVE  \E s \in {"ok", "over", "cancel", "reset"} :
              /\ GoTo(p, s)
              /\ p \in Sweeps => s \in {"cancel", "reset"}
              /\ p \in Finalizers => s \in {"ok", "over"}
              /\ s = "ok" => result = "ok"
  BY GroupAssumption DEF End

(* The initial cart and the initial read are typed.                         *)
LEMMA CartTypes == Nothing \in Carts /\ NothingRead \in [cart : Carts, failure : BOOLEAN, lock : Procs \cup {"none"}]
  BY GroupAssumption DEF Nothing, NothingRead, Carts, Quantities

(* The initial state has the right types ... *)
LEMMA InitType == Init => TypeOK
  <1> SUFFICES ASSUME Init PROVE TypeOK
    OBVIOUS
  <1>1. stage \in [Procs -> Stages] /\ \A p \in Procs : stage[p] = "idle"
    BY DEF Init, Stages, SweepStages
  <1>2. cart \in Carts /\ billed \in Carts /\ local \in [Procs -> [cart : Carts, failure : BOOLEAN, lock : Procs \cup {"none"}]]
    BY CartTypes DEF Init
  <1>3. orders \in Seq(Carts) /\ master \in 0 .. Len(orders)
    BY DEF Init
  <1> QED BY <1>1, <1>2, <1>3 DEF Init, TypeOK, StageOK, Statuses, Procs, SweepStages, RecoveryStages, OtherStages

(* A finalizer or a sweep goes on ... *)
LEMMA FinalizerGoes ==
    ASSUME TypeOK, NEW p \in Finalizers \cup Sweeps, NEW s \in FinalizeStages, GoTo(p, s)
    PROVE  StageOK'
  BY StagesKept, GroupAssumption DEF Procs, Stages

(* ... or ends. *)
LEMMA EndKept ==
    ASSUME TypeOK, NEW p \in Finalizers \cup Sweeps, NEW result \in {"ok", "over", "empty"},
           End(p, result)
    PROVE  StageOK'
  <1>1. PICK s \in {"ok", "over", "cancel", "reset"} :
              /\ GoTo(p, s)
              /\ p \in Sweeps => s \in {"cancel", "reset"}
              /\ p \in Finalizers => s \in {"ok", "over"}
    BY EndGoes
  <1> QED BY <1>1, StagesKept, GroupAssumption DEF Procs, Stages, SweepStages, RecoveryStages

(* The local variables of a call that is over. *)
LEMMA ForgetType ==
    ASSUME TypeOK, NEW p \in Procs, Forget(p)
    PROVE  /\ local' \in [Procs -> [cart : Carts, failure : BOOLEAN,
                                    lock : Procs \cup {"none"}]]
           /\ \A q \in Procs \ {p} : local'[q] = local[q]
  BY CartTypes DEF TypeOK, Forget

(* A fault keeps the count of faults a number.                              *)
LEMMA FaultType == ASSUME TypeOK, Fault PROVE faults' \in Nat
  BY DEF TypeOK, Fault

(* What is charged for a cart is typed.                                     *)
LEMMA ChargedType ==
    ASSUME NEW quantities \in Carts, NEW own PROVE Charged(quantities, own) \in Carts
  BY GroupAssumption DEF Carts, Quantities, Charged

(* The unique index lets one order in. *)
LEMMA PlaceOnceType ==
    ASSUME TypeOK, NEW p \in Procs, PlaceOnce(p)
    PROVE  /\ orders' \in Seq(Carts) /\ orders' # <<>>
           /\ master \in 0 .. Len(orders')
           /\ Len(orders) <= 1 => Len(orders') <= 1
  <1>1. CASE orders = <<>>
    <2>1. local[p].cart \in Carts
      BY DEF TypeOK
    <2>2. orders' = <<local[p].cart>> /\ Len(orders) = 0
      BY <1>1 DEF PlaceOnce
    <2> QED BY <2>1, <2>2 DEF TypeOK
  <1>2. CASE orders # <<>>
    BY <1>2 DEF PlaceOnce, TypeOK
  <1> QED BY <1>1, <1>2

(* A diner's step. *)
LEMMA DinerType ==
    ASSUME TypeOK, DinerStep
    PROVE  TypeOK'
  <1>1. ASSUME NEW i \in Items, AskToAdd(i) PROVE TypeOK'
    BY <1>1 DEF AskToAdd, TypeOK, StageOK, rowVars, others
  <1>2. ASSUME NEW i \in Items, Publish(i) PROVE TypeOK'
    <2>1. cart' \in Carts
      BY <1>2, GroupAssumption DEF Publish, TypeOK, Carts, Quantities
    <2> QED BY <2>1, <1>2 DEF Publish, TypeOK, StageOK, rowVars, others
  <1>3. ASSUME NEW i \in Items, NEW quantity \in Quantities, ChangeItem(i, quantity)
        PROVE TypeOK'
    <2>1. cart' \in Carts
      BY <1>3 DEF ChangeItem, TypeOK, Carts
    <2> QED BY <2>1, <1>3 DEF ChangeItem, TypeOK, StageOK, rowVars, others
  <1>4. ASSUME NEW m \in Members, AskToLeave(m) \/ Leave(m) PROVE TypeOK'
    BY <1>4 DEF AskToLeave, Leave, TypeOK, StageOK, rowVars, others
  <1>5. ASSUME NEW m \in Members, ClearItems(m) PROVE TypeOK'
    <2>1. cart' \in Carts
      BY <1>5, GroupAssumption DEF ClearItems, TypeOK, Carts, Quantities
    <2> QED BY <2>1, <1>5 DEF ClearItems, TypeOK, StageOK, rowVars, others
  <1> QED BY <1>1, <1>2, <1>3, <1>4, <1>5 DEF DinerStep

(* A step of finalizeGroupOrder, called by a client or by the sweep. *)
LEMMA FinalizeType ==
    ASSUME TypeOK, NEW p \in Finalizers \cup Sweeps, ReadGroup(p) \/ FinalizeStep(p)
    PROVE  TypeOK'
  <1>p. p \in Procs
    BY DEF Procs
  <1>1. ASSUME ReadGroup(p) PROVE TypeOK'
    <2>1. StageOK'
      BY <1>1, FinalizerGoes, EndKept DEF ReadGroup, Standing, FinalizeStages
    <2> QED BY <2>1, <1>1 DEF ReadGroup, TypeOK, rowVars, others, cartVars
  <1>2. ASSUME Claim(p) PROVE TypeOK'
    <2>1. StageOK'
      BY <1>2, FinalizerGoes DEF Claim, FinalizeStages
    <2> QED BY <2>1, <1>2, <1>p DEF Claim, TypeOK, Statuses, others, cartVars
  <1>3. ASSUME Reread(p) PROVE TypeOK'
    <2>1. StageOK'
      BY <1>3, EndKept DEF Reread, Standing
    <2> QED BY <2>1, <1>3 DEF Reread, TypeOK, rowVars, others, cartVars
  <1>4. ASSUME TakeSnapshot(p) PROVE TypeOK'
    <2>1. StageOK'
      BY <1>4, FinalizerGoes DEF TakeSnapshot, FinalizeStages
    <2>2. local' \in [Procs -> [cart : Carts, failure : BOOLEAN,
                                lock : Procs \cup {"none"}]]
      BY <1>4 DEF TakeSnapshot, TypeOK
    <2> QED BY <2>1, <2>2, <1>4 DEF TakeSnapshot, TypeOK, rowVars, others, cartVars
  <1>5. ASSUME Release(p) PROVE TypeOK'
    <2>1. StageOK'
      BY <1>5, EndKept DEF Release
    <2> QED BY <2>1, <1>5 DEF Release, GiveBack, TypeOK, Statuses, others, cartVars
  <1>6. ASSUME PlaceOrder(p) PROVE TypeOK'
    <2>1. StageOK'
      BY <1>6, FinalizerGoes DEF PlaceOrder, FinalizeStages
    <2>2. orders' \in Seq(Carts) /\ master' \in 0 .. Len(orders')
      BY <1>6, <1>p, PlaceOnceType DEF PlaceOrder, rowVars, others
    <2> QED BY <2>1, <2>2, <1>6 DEF PlaceOrder, TypeOK, rowVars, others, cartVars
  <1>7. ASSUME RecordOrder(p) PROVE TypeOK'
    <2>1. StageOK'
      BY <1>7, FinalizerGoes DEF RecordOrder, FinalizeStages
    <2>2. master' \in 0 .. Len(orders')
      BY <1>7 DEF RecordOrder, TypeOK
    <2> QED BY <2>1, <2>2, <1>7 DEF RecordOrder, TypeOK, Statuses, others, cartVars
  <1>8. ASSUME Split(p) PROVE TypeOK'
    <2>1. /\ GoTo(p, "complete") \/ GoTo(p, "fail")
          /\ billed' = billed \/ \E own \in BOOLEAN : billed' = Charged(local[p].cart, own)
      BY <1>8, GroupAssumption DEF Split, SplitBill
    <2>2. StageOK'
      BY <2>1, FinalizerGoes DEF FinalizeStages
    <2>3. billed' \in Carts
      BY <2>1, <1>p, ChargedType DEF TypeOK
    <2> QED BY <2>2, <2>3, <1>8 DEF Split, TypeOK, rowVars, others, cartVars
  <1>9. ASSUME Complete(p) PROVE TypeOK'
    <2>1. StageOK'
      BY <1>9, EndKept DEF Complete
    <2> QED BY <2>1, <1>9, <1>p, ForgetType DEF Complete, TypeOK, Statuses, others, cartVars
  <1>10. ASSUME MarkFailed(p) PROVE TypeOK'
    <2>1. StageOK'
      BY <1>10, EndKept DEF MarkFailed
    <2> QED BY <2>1, <1>10, <1>p, ForgetType DEF MarkFailed, TypeOK, Statuses, others, cartVars
  <1>11. ASSUME Reopen(p) PROVE TypeOK'
    <2>1. StageOK'
      BY <1>11, EndKept DEF Reopen
    <2> QED BY <2>1, <1>11, <1>p, ForgetType DEF Reopen, TypeOK, Statuses, others, cartVars
  <1>12. ASSUME OrderRefused(p) PROVE TypeOK'
    <2>1. StageOK'
      BY <1>12, FinalizerGoes DEF OrderRefused, FinalizeStages
    <2> QED BY <2>1, <1>12 DEF OrderRefused, TypeOK, rowVars, others, cartVars
  <1> QED BY <1>1, <1>2, <1>3, <1>4, <1>5, <1>6, <1>7, <1>8, <1>9, <1>10, <1>11, <1>12
          DEF FinalizeStep

(* A step of recoverFinalization. *)
LEMMA RecoverType ==
    ASSUME TypeOK, OrderBeforeUse, NEW r \in Recoveries, ReadFailed(r) \/ RecoverStep(r)
    PROVE  TypeOK'
  <1>p. r \in Procs
    BY DEF Procs
  <1>s. ASSUME NEW s \in RecoveryStages, GoTo(r, s) PROVE StageOK'
    BY <1>s, <1>p, StagesKept, GroupAssumption DEF Stages
  <1>1. ASSUME ReadFailed(r) PROVE TypeOK'
    <2>1. StageOK'
      BY <1>1, <1>s DEF ReadFailed, RecoveryStages
    <2> QED BY <2>1, <1>1 DEF ReadFailed, TypeOK, rowVars, others, cartVars
  <1>2. ASSUME ClaimRecovery(r) PROVE TypeOK'
    <2>1. StageOK'
      BY <1>2, <1>s DEF ClaimRecovery, RecoveryStages
    <2> QED BY <2>1, <1>2, <1>p DEF ClaimRecovery, TypeOK, Statuses, others, cartVars
  <1>3. ASSUME Split(r) PROVE TypeOK'
    <2>1. /\ GoTo(r, "settle") \/ GoTo(r, "fail")
          /\ billed' = billed \/ \E own \in BOOLEAN : billed' = Charged(cart, own)
      BY <1>3 DEF Split, SplitBill
    <2>2. StageOK'
      BY <2>1, <1>s DEF RecoveryStages
    <2>3. billed' \in Carts
      BY <2>1, ChargedType DEF TypeOK
    <2> QED BY <2>2, <2>3, <1>3 DEF Split, TypeOK, rowVars, others, cartVars
  <1>4. ASSUME SplitOnBearer(r) PROVE TypeOK'
    <2>1. StageOK'
      BY <1>4, <1>s DEF SplitOnBearer, RecoveryStages
    <2>2. billed' \in Carts
      BY <1>4, <1>p DEF SplitOnBearer, OrderBeforeUse, TypeOK
    <2> QED BY <2>1, <2>2, <1>4 DEF SplitOnBearer, TypeOK, rowVars, others, cartVars
  <1>5. ASSUME Settle(r) PROVE TypeOK'
    <2>1. StageOK'
      BY <1>5, <1>s DEF Settle, Outcome, RecoveryStages
    <2> QED BY <2>1, <1>5, <1>p DEF Settle, TypeOK, Statuses, others, cartVars
  <1>6. ASSUME FailAgain(r) PROVE TypeOK'
    <2>1. StageOK'
      BY <1>6, <1>s DEF FailAgain, RecoveryStages
    <2> QED BY <2>1, <1>6 DEF FailAgain, TypeOK, Statuses, others, cartVars
  <1> QED BY <1>1, <1>2, <1>3, <1>4, <1>5, <1>6 DEF RecoverStep

(* A step of the sweep outside its call of finalizeGroupOrder. *)
LEMMA SweepType ==
    ASSUME TypeOK, NEW s \in Sweeps,
           SweepStart(s) \/ CancelExpired(s) \/ FreeAbandoned(s) \/ FindStranded(s)
              \/ DemoteStranded(s)
    PROVE  TypeOK'
  <1>p. s \in Procs
    BY DEF Procs
  <1>s. ASSUME NEW t \in SweepStages, GoTo(s, t) PROVE StageOK'
    BY <1>s, <1>p, StagesKept, GroupAssumption DEF Stages
  <1>1. ASSUME SweepStart(s) PROVE TypeOK'
    <2>1. StageOK'
      BY <1>1, <1>s DEF SweepStart, SweepStages
    <2> QED BY <2>1, <1>1 DEF SweepStart, TypeOK, rowVars, others, cartVars
  <1>2. ASSUME CancelExpired(s) PROVE TypeOK'
    <2>1. StageOK'
      BY <1>2, <1>s DEF CancelExpired, SweepStages
    <2> QED BY <2>1, <1>2 DEF CancelExpired, TypeOK, Statuses, others, cartVars
  <1>3. ASSUME FreeAbandoned(s) PROVE TypeOK'
    <2>1. StageOK'
      BY <1>3, <1>s DEF FreeAbandoned, SweepStages
    <2> QED BY <2>1, <1>3 DEF FreeAbandoned, TypeOK, Statuses, others, cartVars
  <1>4. ASSUME FindStranded(s) PROVE TypeOK'
    <2>1. StageOK'
      BY <1>4, <1>s DEF FindStranded, SweepStages
    <2>2. local' \in [Procs -> [cart : Carts, failure : BOOLEAN,
                                lock : Procs \cup {"none"}]]
      BY <1>4 DEF FindStranded, TypeOK
    <2> QED BY <2>1, <2>2, <1>4 DEF FindStranded, TypeOK, rowVars, others, cartVars
  <1>5. ASSUME DemoteStranded(s) PROVE TypeOK'
    <2>1. StageOK'
      BY <1>5, <1>s DEF DemoteStranded, SweepStages
    <2> QED BY <2>1, <1>5, <1>p, ForgetType DEF DemoteStranded, Demote, TypeOK, Statuses, others, cartVars
  <1> QED BY <1>1, <1>2, <1>3, <1>4, <1>5

(* A failed call or an evicted isolate. *)
LEMMA FaultStepType ==
    ASSUME TypeOK, NEW p \in Finalizers \cup Sweeps \cup Recoveries,
           SplitFails(p) \/ Evicted(p)
              \/ (p \in Finalizers \cup Sweeps /\ (OrderFails(p) \/ CallFails(p) \/ ReleaseLost(p)))
    PROVE  TypeOK'
  <1>p. p \in Procs
    BY DEF Procs
  <1>s. ASSUME GoTo(p, "fail") PROVE StageOK'
    BY <1>s, <1>p, StagesKept, GroupAssumption
       DEF Stages, FinalizeStages, RecoveryStages
  <1>1. ASSUME OrderFails(p), p \in Finalizers \cup Sweeps PROVE TypeOK'
    <2>1. StageOK'
      BY <1>1, FinalizerGoes DEF OrderFails, FinalizeStages
    <2>2. orders' \in Seq(Carts) /\ master' \in 0 .. Len(orders')
      BY <1>1, <1>p, PlaceOnceType DEF OrderFails, TypeOK, rowVars, others
    <2> QED BY <2>1, <2>2, <1>1, FaultType DEF OrderFails, TypeOK, rowVars, others, cartVars
  <1>2. ASSUME CallFails(p), p \in Finalizers \cup Sweeps PROVE TypeOK'
    <2>1. StageOK'
      BY <1>2, FinalizerGoes DEF CallFails, FinalizeStages
    <2> QED BY <2>1, <1>2, FaultType DEF CallFails, TypeOK, rowVars, others, cartVars
  <1>3. ASSUME SplitFails(p) PROVE TypeOK'
    <2>1. StageOK'
      BY <1>3, <1>s DEF SplitFails
    <2> QED BY <2>1, <1>3, FaultType DEF SplitFails, TypeOK, rowVars, others, cartVars
  <1>4. ASSUME Evicted(p) PROVE TypeOK'
    <2>1. StageOK'
      BY <1>4, <1>p, StagesKept, GroupAssumption
         DEF Evicted, Stages, SweepStages, RecoveryStages
    <2> QED BY <2>1, <1>4, <1>p, FaultType, ForgetType DEF Evicted, TypeOK, rowVars, others, cartVars
  <1>5. ASSUME ReleaseLost(p), p \in Finalizers \cup Sweeps PROVE TypeOK'
    <2>1. StageOK'
      BY <1>5, FinalizerGoes DEF ReleaseLost, FinalizeStages
    <2> QED BY <2>1, <1>5, FaultType DEF ReleaseLost, GiveBack, TypeOK, Statuses, others, cartVars
  <1> QED BY <1>1, <1>2, <1>3, <1>4, <1>5

(* A step of the clean-up, of a change of the settings, or of time. *)
LEMMA OtherType ==
    ASSUME TypeOK,
           \/ \E c \in Cleaners : FindExpired(c) \/ CancelFound(c)
           \/ \E p \in Settings : ReadSettings(p) \/ RewriteSettings(p)
           \/ ClaimAges
           \/ Expire
           \/ RulesChange
    PROVE  TypeOK'
  <1>s. ASSUME NEW p \in Cleaners \cup Settings, NEW t \in OtherStages, GoTo(p, t)
        PROVE  StageOK'
    BY <1>s, StagesKept, GroupAssumption DEF Stages, Procs
  <1>1. ASSUME NEW c \in Cleaners, FindExpired(c) PROVE TypeOK'
    <2>1. StageOK'
      BY <1>1, <1>s DEF FindExpired, OtherStages
    <2> QED BY <2>1, <1>1 DEF FindExpired, TypeOK, rowVars, others, cartVars
  <1>2. ASSUME NEW c \in Cleaners, CancelFound(c) PROVE TypeOK'
    <2>1. StageOK'
      BY <1>2, <1>s DEF CancelFound, OtherStages
    <2> QED BY <2>1, <1>2 DEF CancelFound, TypeOK, Statuses, others, cartVars
  <1>3. ASSUME NEW p \in Settings, ReadSettings(p) PROVE TypeOK'
    <2>1. StageOK'
      BY <1>3, <1>s DEF ReadSettings, OtherStages
    <2>2. local' \in [Procs -> [cart : Carts, failure : BOOLEAN,
                                lock : Procs \cup {"none"}]]
      BY <1>3 DEF ReadSettings, TypeOK
    <2> QED BY <2>1, <2>2, <1>3 DEF ReadSettings, TypeOK, rowVars, others, cartVars
  <1>4. ASSUME NEW p \in Settings, RewriteSettings(p) PROVE TypeOK'
    <2>1. StageOK'
      BY <1>4, <1>s DEF RewriteSettings, OtherStages
    <2>2. p \in Procs /\ failure' \in BOOLEAN
      BY <1>4 DEF RewriteSettings, TypeOK, Procs
    <2> QED BY <2>1, <2>2, <1>4, ForgetType DEF RewriteSettings, TypeOK, others, cartVars
  <1>5. ASSUME ClaimAges \/ Expire \/ RulesChange PROVE TypeOK'
    BY <1>5 DEF ClaimAges, Expire, RulesChange, TypeOK, StageOK, rowVars, others, cartVars
  <1> QED BY <1>1, <1>2, <1>3, <1>4, <1>5

(* ... and every step keeps them; SplitOnBearer reads an order that is there. *)
LEMMA NextType == TypeOK /\ OrderBeforeUse /\ [Next]_vars => TypeOK'
  <1> SUFFICES ASSUME TypeOK, OrderBeforeUse, [Next]_vars PROVE TypeOK'
    OBVIOUS
  <1>1. CASE DinerStep
    BY <1>1, DinerType
  <1>2. CASE \E p \in Finalizers : ReadGroup(p) \/ FinalizeStep(p)
    BY <1>2, FinalizeType
  <1>3. CASE \E p \in Finalizers \cup Sweeps : OrderFails(p) \/ CallFails(p) \/ ReleaseLost(p)
    BY <1>3, FaultStepType
  <1>4. CASE \E p \in Finalizers \cup Sweeps \cup Recoveries : SplitFails(p) \/ Evicted(p)
    BY <1>4, FaultStepType
  <1>5. CASE \E r \in Recoveries : ReadFailed(r) \/ RecoverStep(r)
    BY <1>5, RecoverType
  <1>6. CASE \E s \in Sweeps : SweepStep(s)
    BY <1>6, FinalizeType, SweepType DEF SweepStep
  <1>7. CASE \/ \E c \in Cleaners : FindExpired(c) \/ CancelFound(c)
             \/ \E p \in Settings : ReadSettings(p) \/ RewriteSettings(p)
             \/ ClaimAges
             \/ Expire
             \/ RulesChange
    BY <1>7, OtherType
  <1>8. CASE UNCHANGED vars
    BY <1>8 DEF vars, TypeOK, StageOK
  <1> QED BY <1>1, <1>2, <1>3, <1>4, <1>5, <1>6, <1>7, <1>8 DEF Next

(* A call that goes on and leaves the orders and masterOrderId alone. *)
LEMMA CoreKept ==
    ASSUME CoreInv, NEW p \in Procs, NEW s \in Stages, GoTo(p, s),
           UNCHANGED <<master, orders>>,
           master # 0 => status' # "active",
           status' \in {"finalizing_failed", "completed", "checkout"} => master # 0,
           s = "record" => orders # <<>>,
           s \in {"split", "complete", "settle", "fail"} => master # 0
    PROVE  OneOrder' /\ RecordedOrderCloses' /\ OrderBeforeUse'
  <1>1. /\ stage'[p] = s
        /\ \A q \in Procs \ {p} : stage'[q] = stage[q]
    BY GoToType DEF CoreInv
  <1> QED BY <1>1 DEF CoreInv, OneOrder, RecordedOrderCloses, OrderBeforeUse

(* ... and the status too. *)
LEMMA CoreQuiet ==
    ASSUME CoreInv, NEW p \in Procs, NEW s \in Stages, GoTo(p, s),
           UNCHANGED <<master, orders, status>>,
           s # "record",
           s \in {"split", "complete", "settle", "fail"} => master # 0
    PROVE  OneOrder' /\ RecordedOrderCloses' /\ OrderBeforeUse'
  BY CoreKept DEF CoreInv, RecordedOrderCloses, OrderBeforeUse

(* finalizeGroupOrder keeps the order's invariants ... *)
LEMMA FinalizeCore ==
    ASSUME CoreInv, NEW p \in Finalizers \cup Sweeps, ReadGroup(p) \/ FinalizeStep(p)
    PROVE  OneOrder' /\ RecordedOrderCloses' /\ OrderBeforeUse'
  <1> DEFINE Kept == OneOrder' /\ RecordedOrderCloses' /\ OrderBeforeUse'
  <1>p. /\ p \in Procs /\ p \in Finalizers \cup Sweeps \cup Recoveries
        /\ FinalizeStages \subseteq Stages /\ {"ok", "over", "cancel", "reset"} \subseteq Stages
    BY DEF Procs, Stages, SweepStages, RecoveryStages
  <1>i. TypeOK /\ OneOrder /\ RecordedOrderCloses /\ OrderBeforeUse
    BY DEF CoreInv
  <1>e. ASSUME NEW result \in {"ok", "over", "empty"}, End(p, result)
        PROVE  \E s \in {"ok", "over", "cancel", "reset"} : GoTo(p, s)
    BY <1>e, EndGoes
  <1>1. ASSUME ReadGroup(p) PROVE Kept
    <2>1. \E s \in {"claim", "ok", "over", "cancel", "reset"} : GoTo(p, s)
      BY <1>1, <1>e DEF ReadGroup, Standing
    <2> QED BY <2>1, <1>1, <1>p, CoreQuiet DEF ReadGroup, rowVars, FinalizeStages
  <1>2. ASSUME Claim(p) PROVE Kept
    <2>1. /\ \E s \in {"snapshot", "reread"} : GoTo(p, s)
          /\ master # 0 => status' = status
          /\ status' \in {status, "finalizing"}
          /\ UNCHANGED <<master, orders>>
      BY <1>2 DEF Claim, Claimable
    <2> QED BY <2>1, <1>p, <1>i, CoreKept DEF FinalizeStages, OrderBeforeUse, RecordedOrderCloses
  <1>3. ASSUME Reread(p) PROVE Kept
    <2>1. \E s \in {"ok", "over", "cancel", "reset"} : GoTo(p, s)
      BY <1>3, <1>e DEF Reread, Standing
    <2> QED BY <2>1, <1>3, <1>p, CoreQuiet DEF Reread, rowVars
  <1>4. ASSUME TakeSnapshot(p) PROVE Kept
    <2>1. \E s \in {"release", "order"} : GoTo(p, s)
      BY <1>4 DEF TakeSnapshot
    <2> QED BY <2>1, <1>4, <1>p, CoreQuiet DEF TakeSnapshot, rowVars, FinalizeStages
  <1>5. ASSUME Release(p) PROVE Kept
    <2>1. /\ \E s \in {"ok", "over", "cancel", "reset"} : GoTo(p, s)
          /\ master # 0 => status' = status
          /\ status' \in {status, "active"}
          /\ UNCHANGED <<master, orders>>
      BY <1>5, <1>e DEF Release, GiveBack, Unordered
    <2> QED BY <2>1, <1>p, <1>i, CoreKept DEF OrderBeforeUse, RecordedOrderCloses
  <1>6. ASSUME PlaceOrder(p) PROVE Kept
    <2>1. /\ stage'[p] = "record"
          /\ \A q \in Procs \ {p} : stage'[q] = stage[q]
      BY <1>6, <1>p, <1>i, GoToType DEF PlaceOrder, FinalizeStages
    <2>2. orders' # <<>> /\ Len(orders') <= 1 /\ UNCHANGED <<master, status>>
      BY <1>6, <1>p, <1>i, PlaceOnceType DEF PlaceOrder, rowVars, OneOrder
    <2> QED BY <2>1, <2>2, <1>i DEF OneOrder, RecordedOrderCloses, OrderBeforeUse
  <1>7. ASSUME RecordOrder(p) PROVE Kept
    <2>1. /\ stage'[p] = "split"
          /\ \A q \in Procs \ {p} : stage'[q] = stage[q]
      BY <1>7, <1>p, <1>i, GoToType DEF RecordOrder, FinalizeStages
    <2>2. orders # <<>> /\ orders \in Seq(Carts)
      BY <1>7, <1>p, <1>i DEF RecordOrder, OrderBeforeUse, TypeOK
    <2>3. master' # 0 /\ status' = "finalizing" /\ orders' = orders
      BY <2>2, <1>7 DEF RecordOrder
    <2> QED BY <2>1, <2>3, <1>i DEF OneOrder, RecordedOrderCloses, OrderBeforeUse
  <1>8. ASSUME Split(p) PROVE Kept
    <2>1. \E s \in {"complete", "fail"} : GoTo(p, s)
      BY <1>8, GroupAssumption DEF Split, SplitBill
    <2>2. master # 0
      BY <1>8, <1>p, <1>i DEF Split, OrderBeforeUse
    <2> QED BY <2>1, <2>2, <1>8, <1>p, CoreQuiet DEF Split, rowVars, FinalizeStages
  <1>9. ASSUME Complete(p) PROVE Kept
    <2>1. \E s \in {"ok", "over", "cancel", "reset"} : GoTo(p, s)
      BY <1>9, <1>e DEF Complete
    <2>2. master # 0
      BY <1>9, <1>p, <1>i DEF Complete, OrderBeforeUse
    <2> QED BY <2>1, <2>2, <1>9, <1>p, CoreKept DEF Complete
  <1>10. ASSUME MarkFailed(p) PROVE Kept
    <2>1. \E s \in {"ok", "over", "cancel", "reset"} : GoTo(p, s)
      BY <1>10, <1>e DEF MarkFailed
    <2>2. master # 0
      BY <1>10, <1>p, <1>i DEF MarkFailed, OrderBeforeUse
    <2> QED BY <2>1, <2>2, <1>10, <1>p, CoreKept DEF MarkFailed
  <1>11. ASSUME Reopen(p) PROVE Kept
    <2>1. /\ \E s \in {"ok", "over", "cancel", "reset"} : GoTo(p, s)
          /\ master # 0 => status' = status
          /\ status' \in {status, "active"}
          /\ UNCHANGED <<master, orders>>
      BY <1>11, <1>e DEF Reopen, Reopenable
    <2> QED BY <2>1, <1>p, <1>i, CoreKept DEF OrderBeforeUse, RecordedOrderCloses
  <1>12. ASSUME OrderRefused(p) PROVE Kept
    <2>1. GoTo(p, "reopen")
      BY <1>12 DEF OrderRefused
    <2> QED BY <2>1, <1>12, <1>p, CoreQuiet DEF OrderRefused, rowVars, FinalizeStages
  <1> QED BY <1>1, <1>2, <1>3, <1>4, <1>5, <1>6, <1>7, <1>8, <1>9, <1>10, <1>11, <1>12
          DEF FinalizeStep

(* ... as do the recovery ... *)
LEMMA RecoverCore ==
    ASSUME CoreInv, NEW r \in Recoveries, ReadFailed(r) \/ RecoverStep(r)
    PROVE  OneOrder' /\ RecordedOrderCloses' /\ OrderBeforeUse'
  <1> DEFINE Kept == OneOrder' /\ RecordedOrderCloses' /\ OrderBeforeUse'
  <1>p. r \in Procs /\ RecoveryStages \subseteq Stages
    BY DEF Procs, Stages
  <1>i. TypeOK /\ OneOrder /\ RecordedOrderCloses /\ OrderBeforeUse
    BY DEF CoreInv
  <1>1. ASSUME ReadFailed(r) PROVE Kept
    <2>1. \E s \in {"claim", "over"} : GoTo(r, s)
      BY <1>1 DEF ReadFailed
    <2> QED BY <2>1, <1>1, <1>p, CoreQuiet DEF ReadFailed, rowVars, RecoveryStages
  <1>2. ASSUME ClaimRecovery(r) PROVE Kept
    <2>1. /\ \/ GoTo(r, "split") /\ master # 0 /\ status' = "finalizing"
             \/ GoTo(r, "over") /\ status' = status
          /\ UNCHANGED <<master, orders>>
      BY <1>2 DEF ClaimRecovery
    <2> QED BY <2>1, <1>p, <1>i, CoreKept
            DEF RecoveryStages, OrderBeforeUse, RecordedOrderCloses
  <1>3. ASSUME Split(r) \/ SplitOnBearer(r) PROVE Kept
    <2>1. \E s \in {"settle", "fail"} : GoTo(r, s)
      BY <1>3 DEF Split, SplitBill, SplitOnBearer
    <2>2. master # 0 /\ UNCHANGED <<master, orders, status>>
      BY <1>3, <1>p, <1>i DEF Split, SplitOnBearer, OrderBeforeUse, rowVars
    <2> QED BY <2>1, <2>2, <1>p, CoreQuiet DEF RecoveryStages
  <1>4. ASSUME Settle(r) PROVE Kept
    <2>1. /\ \E s \in {"ok", "over"} : GoTo(r, s)
          /\ master # 0 /\ status' \in {status, "checkout"}
          /\ UNCHANGED <<master, orders>>
      BY <1>4, <1>p, <1>i DEF Settle, Outcome, OrderBeforeUse
    <2> QED BY <2>1, <1>p, <1>i, CoreKept
            DEF RecoveryStages, OrderBeforeUse, RecordedOrderCloses
  <1>5. ASSUME FailAgain(r) PROVE Kept
    <2>1. /\ GoTo(r, "over")
          /\ master # 0 /\ status' \in {status, "finalizing_failed"}
          /\ UNCHANGED <<master, orders>>
      BY <1>5, <1>p, <1>i DEF FailAgain, OrderBeforeUse
    <2> QED BY <2>1, <1>p, <1>i, CoreKept
            DEF RecoveryStages, OrderBeforeUse, RecordedOrderCloses
  <1> QED BY <1>1, <1>2, <1>3, <1>4, <1>5 DEF RecoverStep

(* ... the sweep ... *)
LEMMA SweepCore ==
    ASSUME CoreInv, NEW s \in Sweeps,
           SweepStart(s) \/ CancelExpired(s) \/ FreeAbandoned(s) \/ FindStranded(s)
              \/ DemoteStranded(s)
    PROVE  OneOrder' /\ RecordedOrderCloses' /\ OrderBeforeUse'
  <1>p. s \in Procs /\ SweepStages \subseteq Stages
    BY DEF Procs, Stages
  <1>i. RecordedOrderCloses /\ OrderBeforeUse
    BY DEF CoreInv
  <1>1. /\ \E t \in SweepStages : GoTo(s, t)
        /\ UNCHANGED <<master, orders>>
    BY DEF SweepStart, CancelExpired, FreeAbandoned, FindStranded, DemoteStranded,
           SweepStages, rowVars
  <1>2. \/ status' = status
        \/ status' \in {"active", "cancelled"} /\ (status' = "active" => master = 0)
        \/ status' = "finalizing_failed" /\ master # 0
    BY DEF SweepStart, CancelExpired, FreeAbandoned, FindStranded, DemoteStranded,
           Demote, Abandoned, Unordered, rowVars
  <1> QED BY <1>1, <1>2, <1>p, <1>i, CoreKept
          DEF SweepStages, OrderBeforeUse, RecordedOrderCloses

(* ... failures ... *)
LEMMA FaultCore ==
    ASSUME CoreInv, NEW p \in Finalizers \cup Sweeps \cup Recoveries,
           SplitFails(p) \/ Evicted(p) \/ OrderFails(p) \/ CallFails(p) \/ ReleaseLost(p)
    PROVE  OneOrder' /\ RecordedOrderCloses' /\ OrderBeforeUse'
  <1> DEFINE Kept == OneOrder' /\ RecordedOrderCloses' /\ OrderBeforeUse'
  <1>p. p \in Procs /\ {"fail", "reopen", "reopenFreed", "idle", "over"} \subseteq Stages
    BY DEF Procs, Stages, FinalizeStages, RecoveryStages
  <1>i. TypeOK /\ OneOrder /\ RecordedOrderCloses /\ OrderBeforeUse
    BY DEF CoreInv
  <1>1. ASSUME SplitFails(p) PROVE Kept
    <2>1. GoTo(p, "fail") /\ master # 0 /\ UNCHANGED <<master, orders, status>>
      BY <1>1, <1>p, <1>i DEF SplitFails, OrderBeforeUse, rowVars
    <2> QED BY <2>1, <1>p, CoreQuiet
  <1>2. ASSUME Evicted(p) \/ CallFails(p) PROVE Kept
    <2>1. /\ \E s \in {"reopen", "idle", "over"} : GoTo(p, s)
          /\ UNCHANGED <<master, orders, status>>
      BY <1>2 DEF Evicted, CallFails, rowVars
    <2> QED BY <2>1, <1>p, CoreQuiet
  <1>3. ASSUME OrderFails(p) PROVE Kept
    <2>1. /\ stage'[p] = "reopen"
          /\ \A q \in Procs \ {p} : stage'[q] = stage[q]
      BY <1>3, <1>p, <1>i, GoToType DEF OrderFails
    <2>2. orders' = orders \/ (orders' # <<>> /\ Len(orders') <= 1)
      BY <1>3, <1>p, <1>i, PlaceOnceType DEF OrderFails, OneOrder
    <2>3. UNCHANGED <<master, status>>
      BY <1>3 DEF OrderFails, rowVars
    <2> QED BY <2>1, <2>2, <2>3, <1>i DEF OneOrder, RecordedOrderCloses, OrderBeforeUse
  <1>4. ASSUME ReleaseLost(p) PROVE Kept
    <2>1. /\ GoTo(p, "reopenFreed")
          /\ master # 0 => status' = status
          /\ status' \in {status, "active"}
          /\ UNCHANGED <<master, orders>>
      BY <1>4 DEF ReleaseLost, GiveBack, Unordered
    <2> QED BY <2>1, <1>p, <1>i, CoreKept DEF OrderBeforeUse, RecordedOrderCloses
  <1> QED BY <1>1, <1>2, <1>3, <1>4

(* ... and everything else. *)
LEMMA OtherCore ==
    ASSUME CoreInv,
           \/ \E c \in Cleaners : FindExpired(c) \/ CancelFound(c)
           \/ \E p \in Settings : ReadSettings(p) \/ RewriteSettings(p)
    PROVE  OneOrder' /\ RecordedOrderCloses' /\ OrderBeforeUse'
  <1>1. PICK p \in Procs : \/ FindExpired(p) \/ CancelFound(p)
                           \/ ReadSettings(p) \/ RewriteSettings(p)
    BY DEF Procs
  <1>2. /\ \E s \in {"clean", "ok", "write"} : GoTo(p, s)
        /\ UNCHANGED <<master, orders>>
        /\ status' \in {status, "cancelled"}
    BY <1>1 DEF FindExpired, CancelFound, ReadSettings, RewriteSettings, rowVars
  <1>3. {"clean", "ok", "write"} \subseteq Stages
    BY DEF Stages, OtherStages
  <1> QED BY <1>2, <1>3, CoreKept DEF CoreInv, OrderBeforeUse, RecordedOrderCloses

(* The core invariant holds initially.                                      *)
LEMMA InitCore == Init => CoreInv
  BY InitType DEF Init, CoreInv, OneOrder, RecordedOrderCloses, OrderBeforeUse

(* Every step keeps the core invariant.                                     *)
LEMMA NextCore == CoreInv /\ [Next]_vars => CoreInv'
  <1> SUFFICES ASSUME CoreInv, [Next]_vars PROVE CoreInv'
    OBVIOUS
  <1>t. TypeOK'
    BY NextType DEF CoreInv
  <1> DEFINE Kept == OneOrder' /\ RecordedOrderCloses' /\ OrderBeforeUse'
  <1>1. CASE DinerStep \/ ClaimAges \/ Expire \/ RulesChange \/ UNCHANGED vars
    <2>1. UNCHANGED <<master, orders, status, stage>>
      BY <1>1 DEF DinerStep, AskToAdd, Publish, ChangeItem, AskToLeave, Leave, ClearItems,
                  ClaimAges, Expire, RulesChange, vars, rowVars
    <2> QED BY <2>1, <1>t DEF CoreInv, OneOrder, RecordedOrderCloses, OrderBeforeUse
  <1>2. CASE \E p \in Finalizers : ReadGroup(p) \/ FinalizeStep(p)
    BY <1>2, <1>t, FinalizeCore DEF CoreInv
  <1>3. CASE \E p \in Finalizers \cup Sweeps : OrderFails(p) \/ CallFails(p) \/ ReleaseLost(p)
    BY <1>3, <1>t, FaultCore DEF CoreInv
  <1>4. CASE \E p \in Finalizers \cup Sweeps \cup Recoveries : SplitFails(p) \/ Evicted(p)
    BY <1>4, <1>t, FaultCore DEF CoreInv
  <1>5. CASE \E r \in Recoveries : ReadFailed(r) \/ RecoverStep(r)
    BY <1>5, <1>t, RecoverCore DEF CoreInv
  <1>6. CASE \E s \in Sweeps : SweepStep(s)
    BY <1>6, <1>t, FinalizeCore, SweepCore DEF SweepStep, CoreInv
  <1>7. CASE \/ \E c \in Cleaners : FindExpired(c) \/ CancelFound(c)
             \/ \E p \in Settings : ReadSettings(p) \/ RewriteSettings(p)
    BY <1>7, <1>t, OtherCore DEF CoreInv
  <1> QED BY <1>1, <1>2, <1>3, <1>4, <1>5, <1>6, <1>7 DEF Next

(* The core invariant holds in every behaviour.                             *)
LEMMA CoreInductive == Spec => []CoreInv
  BY InitCore, NextCore, PTL DEF Spec

(* Type correctness of every reachable state. *)
THEOREM TypeCorrect == Spec => []TypeOK
  <1>1. CoreInv => TypeOK
    BY DEF CoreInv
  <1> QED BY <1>1, CoreInductive, PTL

(* A group whose order is recorded is never handed back to its members. *)
THEOREM NeverReopened == Spec => []RecordedOrderCloses
  <1>1. CoreInv => RecordedOrderCloses
    BY DEF CoreInv
  <1> QED BY <1>1, CoreInductive, PTL

(* What a call may do that goes on to stage s. *)
LEMMA PromptKept ==
    ASSUME CoreInv, PromptInv, ~ousted, NEW p \in Procs, NEW s \in Stages, GoTo(p, s),
           cart' = cart,
           master # 0 => master' # 0,
           \A q \in (Finalizers \cup Sweeps) \ {p} : Holding(q) =>
               /\ status' \in {"finalizing", "cancelled"}
               /\ lockedAt' = q /\ ~stale',
           p \in Finalizers \cup Sweeps /\ s \in HoldStages =>
               /\ status' \in {"finalizing", "cancelled"}
               /\ lockedAt' = p /\ ~stale'
               /\ \A r \in Recoveries : ~Holding(r)
               /\ Holding(p) \/ master = 0,
           p \in Recoveries /\ s \in HoldStages =>
               \A q \in Finalizers \cup Sweeps : ~Holding(q),
           s \in {"demote", "ok"} /\ p \notin Cleaners \cup Settings =>
               master' # 0 /\ \A q \in (Finalizers \cup Sweeps) \ {p} : ~Holding(q),
           s = "ok" /\ p \notin Cleaners \cup Settings =>
               status' \in {"completed", "checkout", "cancelled"},
           \A q \in Finalizers \cup Recoveries : stage[q] = "ok" =>
               status' \in {"completed", "checkout", "cancelled"},
           \A q \in Procs \ {p} : local'[q] = local[q],
           p \in Finalizers \cup Sweeps /\ s \in {"order", "record", "split"} =>
               \A i \in Items : cart[i] <= local'[p].cart[i]
    PROVE  PromptInv'
  <1>1. /\ stage'[p] = s
        /\ \A q \in Procs \ {p} : stage'[q] = stage[q]
    BY GoToType DEF CoreInv
  <1>2. /\ Finalizers \cup Sweeps \cup Recoveries \subseteq Procs
        /\ {"demote", "ok"} \cap HoldStages = {}
    BY DEF Procs, HoldStages
  <1>3. HolderOwnsGroup'
    BY <1>1, <1>2, GroupAssumption DEF PromptInv, HolderOwnsGroup, Holding
  <1>4. ASSUME Over, s \in HoldStages => p \notin Finalizers \cup Sweeps PROVE Over'
    BY <1>1, <1>2, <1>4 DEF Over, Holding
  <1>5. ASSUME Over, s \in HoldStages, p \in Finalizers \cup Sweeps PROVE FALSE
    BY <1>5 DEF Over
  <1>6. ASSUME s \in {"demote", "ok"}, p \notin Cleaners \cup Settings PROVE Over'
    BY <1>1, <1>2, <1>6 DEF Over, Holding
  <1>7. \A q \in Sweeps : stage'[q] = "demote" => Over'
    BY <1>1, <1>2, <1>4, <1>5, <1>6, GroupAssumption DEF PromptInv
  <1>8. \A q \in Finalizers \cup Recoveries : stage'[q] = "ok" => Over'
    BY <1>1, <1>2, <1>4, <1>5, <1>6, GroupAssumption DEF PromptInv
  <1>9. SettledIsTrue'
    BY <1>1, <1>2, GroupAssumption DEF PromptInv, SettledIsTrue
  <1>10. SnapshotIsWhole'
    BY <1>1, <1>2 DEF PromptInv, SnapshotIsWhole
  <1> QED BY <1>3, <1>7, <1>8, <1>9, <1>10 DEF PromptInv

(* A call that reads, or changes nothing the invariant is about. *)
LEMMA PromptQuiet ==
    ASSUME CoreInv, PromptInv, ~ousted, NEW p \in Procs, NEW s \in Stages \ {"demote", "ok"},
           GoTo(p, s), UNCHANGED <<status, lockedAt, stale, master, cart>>,
           s \in HoldStages => Holding(p),
           \A q \in Procs \ {p} : local'[q] = local[q],
           p \in Finalizers \cup Sweeps /\ s \in {"order", "record", "split"} =>
               /\ stage[p] \in {"order", "record", "split"}
               /\ local'[p] = local[p]
    PROVE  PromptInv'
  <1>1. /\ HolderOwnsGroup /\ SettledIsTrue /\ SnapshotIsWhole
        /\ Finalizers \cup Sweeps \cup Recoveries \subseteq Procs
    BY DEF PromptInv, Procs
  <1>2. \A q \in Finalizers \cup Sweeps : Holding(q) =>
            /\ status' \in {"finalizing", "cancelled"}
            /\ lockedAt' = q /\ ~stale'
            /\ \A r \in Recoveries : ~Holding(r)
    BY <1>1 DEF HolderOwnsGroup
  <1>3. p \in Recoveries /\ s \in HoldStages => \A q \in Finalizers \cup Sweeps : ~Holding(q)
    BY <1>1 DEF HolderOwnsGroup
  <1>4. \A q \in Finalizers \cup Recoveries : stage[q] = "ok" =>
            status' \in {"completed", "checkout", "cancelled"}
    BY <1>1 DEF SettledIsTrue
  <1>5. p \in Finalizers \cup Sweeps /\ s \in {"order", "record", "split"} =>
            \A i \in Items : cart[i] <= local'[p].cart[i]
    BY <1>1 DEF SnapshotIsWhole
  <1> QED BY <1>2, <1>3, <1>4, <1>5, PromptKept

(* finalizeGroupOrder keeps the claim its own ... *)
LEMMA FinalizePrompt ==
    ASSUME CoreInv, PromptInv, ~ousted, ~ousted', NEW p \in Finalizers \cup Sweeps,
           ReadGroup(p) \/ FinalizeStep(p)
    PROVE  PromptInv'
  <1>p. /\ p \in Procs /\ p \notin Recoveries \cup Cleaners \cup Settings
        /\ Finalizers \cup Sweeps \cup Recoveries \subseteq Procs
        /\ FinalizeStages \subseteq Stages /\ {"ok", "over", "cancel", "reset"} \subseteq Stages
        /\ {"claim", "reread", "ok", "over", "cancel", "reset"} \cap HoldStages = {}
    BY GroupAssumption DEF Procs, Stages, SweepStages, RecoveryStages, FinalizeStages, HoldStages
  <1>i. TypeOK /\ OrderBeforeUse /\ HolderOwnsGroup /\ SettledIsTrue /\ SnapshotIsWhole
    BY DEF CoreInv, PromptInv
  <1>l. ASSUME UNCHANGED local PROVE \A q \in Procs : local'[q] = local[q]
    BY <1>l
  <1>f. ASSUME Forget(p) PROVE \A q \in Procs \ {p} : local'[q] = local[q]
    BY <1>f, <1>p, <1>i, ForgetType
  <1>h. ASSUME Holding(p)
        PROVE  /\ status \in {"finalizing", "cancelled"}
               /\ lockedAt = p /\ ~stale
               /\ \A r \in Recoveries : ~Holding(r)
               /\ \A q \in (Finalizers \cup Sweeps) \ {p} : ~Holding(q)
               /\ \A q \in Finalizers \cup Recoveries : stage[q] # "ok"
    BY <1>h, <1>i DEF HolderOwnsGroup, PromptInv, Over
  <1>o. ASSUME status = "completed"
        PROVE  master # 0 /\ \A q \in Finalizers \cup Sweeps : ~Holding(q)
    BY <1>o, <1>i DEF HolderOwnsGroup, OrderBeforeUse
  <1>e. ASSUME NEW result \in {"ok", "over", "empty"}, End(p, result)
        PROVE  \E s \in {"ok", "over", "cancel", "reset"} :
                  GoTo(p, s) /\ (s = "ok" => result = "ok")
    BY <1>e, EndGoes
  <1>q. ASSUME UNCHANGED <<status, lockedAt, stale, master, cart, local>>,
               NEW s \in {"claim", "ok", "over", "cancel", "reset"}, GoTo(p, s),
               s = "ok" => status = "completed"
        PROVE  PromptInv'
    <2>1. CASE s = "ok"
      <3>1. master' # 0 /\ \A q \in Finalizers \cup Sweeps : ~Holding(q)
        BY <2>1, <1>q, <1>o
      <3>2. \A q \in Procs : local'[q] = local[q]
        BY <1>q, <1>l
      <3> QED BY <2>1, <3>1, <3>2, <1>q, <1>p, PromptKept
    <2>2. CASE s # "ok"
      <3>1. \A q \in Procs : local'[q] = local[q]
        BY <1>q, <1>l
      <3> QED BY <2>2, <3>1, <1>q, <1>p, PromptQuiet DEF FinalizeStages
    <2> QED BY <2>1, <2>2
  <1>1. ASSUME ReadGroup(p) PROVE PromptInv'
    <2>1. \E s \in {"claim", "ok", "over", "cancel", "reset"} :
              GoTo(p, s) /\ (s = "ok" => status = "completed")
      BY <1>1, <1>e DEF ReadGroup, Standing
    <2> QED BY <2>1, <1>1, <1>q DEF ReadGroup, rowVars, cartVars
  <1>2. ASSUME Reread(p) PROVE PromptInv'
    <2>1. \E s \in {"claim", "ok", "over", "cancel", "reset"} :
              GoTo(p, s) /\ (s = "ok" => status = "completed")
      BY <1>2, <1>e DEF Reread, Standing
    <2> QED BY <2>1, <1>2, <1>q DEF Reread, rowVars, cartVars
  <1>3. ASSUME Claim(p) PROVE PromptInv'
    <2>1. CASE Claimable
      <3>1. /\ GoTo(p, "snapshot") /\ status' = "finalizing" /\ lockedAt' = p /\ ~stale'
            /\ UNCHANGED <<master, cart, local>>
        BY <1>3, <2>1 DEF Claim, cartVars
      <3>2. \A q \in Finalizers \cup Sweeps : ~Holding(q)
        BY <2>1, <1>i DEF Claimable, HolderOwnsGroup
      <3>3. \A r \in Recoveries : ~Holding(r)
        <4>1. \A r \in Recoveries : stage[r] \notin {"split", "settle", "fail"}
          BY <2>1, <1>p, <1>i DEF Claimable, OrderBeforeUse
        <4> QED BY <4>1, <1>i DEF Holding, HoldStages, TypeOK, StageOK, RecoveryStages
      <3>4. \A q \in Finalizers \cup Recoveries : stage[q] # "ok"
        BY <2>1, <1>i DEF Claimable, SettledIsTrue
      <3> QED BY <2>1, <3>1, <3>2, <3>3, <3>4, <1>l, <1>p, PromptKept
              DEF Claimable, FinalizeStages
    <2>2. CASE ~Claimable
      <3>1. /\ GoTo(p, "reread")
            /\ UNCHANGED <<status, lockedAt, stale, master, cart, local>>
        BY <1>3, <2>2 DEF Claim, cartVars
      <3> QED BY <3>1, <1>l, <1>p, PromptQuiet DEF FinalizeStages
    <2> QED BY <2>1, <2>2
  <1>4. ASSUME TakeSnapshot(p) PROVE PromptInv'
    <2>1. /\ \E s \in {"release", "order"} : GoTo(p, s)
          /\ UNCHANGED <<status, lockedAt, stale, master, cart>>
          /\ local' = [local EXCEPT ![p].cart = cart]
          /\ Holding(p)
      BY <1>4 DEF TakeSnapshot, rowVars, cartVars, Holding, HoldStages
    <2>2. /\ \A q \in Procs \ {p} : local'[q] = local[q]
          /\ local'[p].cart = cart
      BY <2>1, <1>p, <1>i DEF TypeOK
    <2>3. \A i \in Items : cart[i] <= local'[p].cart[i]
      BY <2>2, <1>i, GroupAssumption DEF TypeOK, Carts, Quantities
    <2> QED BY <2>1, <2>2, <2>3, <1>h, <1>p, PromptKept DEF FinalizeStages
  <1>5. ASSUME Release(p) PROVE PromptInv'
    <2>1. Holding(p)
      BY <1>5 DEF Release, Holding, HoldStages
    <2>2. /\ \E s \in {"over", "cancel", "reset"} : GoTo(p, s)
          /\ UNCHANGED <<master, cart, local>>
      BY <1>5, <1>e DEF Release, cartVars
    <2> QED BY <2>1, <2>2, <1>h, <1>l, <1>p, PromptKept
  <1>6. ASSUME PlaceOrder(p) PROVE PromptInv'
    <2>1. /\ GoTo(p, "record") /\ stage[p] = "order" /\ Holding(p)
          /\ UNCHANGED <<status, lockedAt, stale, master, cart, local>>
      BY <1>6 DEF PlaceOrder, rowVars, cartVars, Holding, HoldStages
    <2> QED BY <2>1, <1>l, <1>p, PromptQuiet DEF FinalizeStages
  <1>7. ASSUME RecordOrder(p) PROVE PromptInv'
    <2>1. /\ GoTo(p, "split") /\ stage[p] = "record" /\ Holding(p)
          /\ status' = "finalizing" /\ UNCHANGED <<lockedAt, stale, cart, local>>
      BY <1>7 DEF RecordOrder, cartVars, Holding, HoldStages
    <2>2. master' # 0
      <3>1. orders # <<>> /\ orders \in Seq(Carts)
        BY <2>1, <1>p, <1>i DEF OrderBeforeUse, TypeOK
      <3> QED BY <3>1, <1>7 DEF RecordOrder
    <2>3. \A i \in Items : cart[i] <= local'[p].cart[i]
      BY <2>1, <1>i DEF SnapshotIsWhole
    <2> QED BY <2>1, <2>2, <2>3, <1>h, <1>l, <1>p, PromptKept DEF FinalizeStages
  <1>8. ASSUME Split(p) PROVE PromptInv'
    <2>1. /\ \E s \in {"complete", "fail"} : GoTo(p, s)
          /\ Holding(p)
          /\ UNCHANGED <<status, lockedAt, stale, master, cart, local>>
      BY <1>8, <1>p DEF Split, SplitBill, rowVars, cartVars, Holding, HoldStages
    <2> QED BY <2>1, <1>l, <1>p, PromptQuiet DEF FinalizeStages
  <1>9. ASSUME Complete(p) PROVE PromptInv'
    <2>1. /\ \E s \in {"ok", "over", "cancel", "reset"} : GoTo(p, s)
          /\ Holding(p) /\ status' = "completed"
          /\ UNCHANGED <<lockedAt, stale, master, cart>>
      BY <1>9, <1>e DEF Complete, cartVars, Holding, HoldStages
    <2>2. master # 0 /\ \A q \in Procs \ {p} : local'[q] = local[q]
      BY <1>9, <1>p, <1>i, <1>f DEF Complete, OrderBeforeUse
    <2> QED BY <2>1, <2>2, <1>h, <1>p, PromptKept
  <1>10. ASSUME MarkFailed(p) PROVE PromptInv'
    <2>1. /\ \E s \in {"over", "cancel", "reset"} : GoTo(p, s)
          /\ Holding(p) /\ UNCHANGED <<lockedAt, stale, master, cart>>
      BY <1>10, <1>e DEF MarkFailed, cartVars, Holding, HoldStages
    <2>2. \A q \in Procs \ {p} : local'[q] = local[q]
      BY <1>10, <1>f DEF MarkFailed
    <2> QED BY <2>1, <2>2, <1>h, <1>p, PromptKept
  <1>11. ASSUME Reopen(p) PROVE PromptInv'
    <2>1. /\ \E s \in {"over", "cancel", "reset"} : GoTo(p, s)
          /\ UNCHANGED <<lockedAt, stale, master, cart>>
      BY <1>11, <1>e DEF Reopen, cartVars
    <2>2. \A q \in Procs \ {p} : local'[q] = local[q]
      BY <1>11, <1>f DEF Reopen
    <2>3. CASE stage[p] = "reopen"
      <3>1. Holding(p)
        BY <2>3 DEF Holding, HoldStages
      <3> QED BY <2>1, <2>2, <3>1, <1>h, <1>p, PromptKept
    <2>4. CASE stage[p] = "reopenFreed"
      <3>1. status' = status
        BY <2>4, <1>11 DEF Reopen
      <3> QED BY <2>1, <2>2, <3>1, <1>p, PromptQuiet
    <2> QED BY <2>3, <2>4, <1>11 DEF Reopen
  <1>12. ASSUME OrderRefused(p) PROVE PromptInv'
    <2>1. /\ GoTo(p, "reopen") /\ Holding(p)
          /\ UNCHANGED <<status, lockedAt, stale, master, cart, local>>
      BY <1>12 DEF OrderRefused, rowVars, cartVars, Holding, HoldStages
    <2> QED BY <2>1, <1>l, <1>p, PromptQuiet DEF FinalizeStages
  <1> QED BY <1>1, <1>2, <1>3, <1>4, <1>5, <1>6, <1>7, <1>8, <1>9, <1>10, <1>11, <1>12
          DEF FinalizeStep

(* ... recoverFinalization works on a group nobody finalizes ... *)
LEMMA RecoverPrompt ==
    ASSUME CoreInv, PromptInv, ~ousted, NEW r \in Recoveries, ReadFailed(r) \/ RecoverStep(r)
    PROVE  PromptInv'
  <1>p. /\ r \in Procs /\ r \notin Finalizers \cup Sweeps \cup Cleaners \cup Settings
        /\ Finalizers \cup Sweeps \cup Recoveries \subseteq Procs
        /\ RecoveryStages \subseteq Stages
        /\ {"claim", "ok", "over"} \cap HoldStages = {}
    BY GroupAssumption DEF Procs, Stages, HoldStages
  <1>i. TypeOK /\ OrderBeforeUse /\ HolderOwnsGroup /\ SettledIsTrue
    BY DEF CoreInv, PromptInv
  <1>l. ASSUME UNCHANGED local PROVE \A q \in Procs : local'[q] = local[q]
    BY <1>l
  <1>h. ASSUME Holding(r) PROVE \A q \in Finalizers \cup Sweeps : ~Holding(q)
    BY <1>h, <1>i DEF HolderOwnsGroup
  <1>k. \A q \in Finalizers \cup Recoveries : stage[q] = "ok" =>
            status \in {"completed", "checkout", "cancelled"}
    BY <1>i DEF SettledIsTrue
  <1>1. ASSUME ReadFailed(r) PROVE PromptInv'
    <2>1. /\ \E s \in {"claim", "over"} : GoTo(r, s)
          /\ UNCHANGED <<status, lockedAt, stale, master, cart, local>>
      BY <1>1 DEF ReadFailed, rowVars, cartVars
    <2> QED BY <2>1, <1>l, <1>p, PromptQuiet DEF RecoveryStages
  <1>2. ASSUME ClaimRecovery(r) PROVE PromptInv'
    <2>1. CASE status = "finalizing_failed" /\ master # 0
      <3>1. GoTo(r, "split") /\ UNCHANGED <<master, cart, local>>
        BY <1>2, <2>1 DEF ClaimRecovery, cartVars
      <3>2. /\ \A q \in Finalizers \cup Sweeps : ~Holding(q)
            /\ \A q \in Finalizers \cup Recoveries : stage[q] # "ok"
        BY <2>1, <1>i DEF HolderOwnsGroup, SettledIsTrue
      <3> QED BY <3>1, <3>2, <1>l, <1>p, PromptKept DEF RecoveryStages
    <2>2. CASE ~(status = "finalizing_failed" /\ master # 0)
      <3>1. /\ GoTo(r, "over")
            /\ UNCHANGED <<status, lockedAt, stale, master, cart, local>>
        BY <1>2, <2>2 DEF ClaimRecovery, cartVars
      <3> QED BY <3>1, <1>l, <1>p, PromptQuiet DEF RecoveryStages
    <2> QED BY <2>1, <2>2
  <1>3. ASSUME Split(r) \/ SplitOnBearer(r) PROVE PromptInv'
    <2>1. /\ \E s \in {"settle", "fail"} : GoTo(r, s)
          /\ Holding(r)
          /\ UNCHANGED <<status, lockedAt, stale, master, cart, local>>
      BY <1>3 DEF Split, SplitBill, SplitOnBearer, rowVars, cartVars, Holding, HoldStages
    <2> QED BY <2>1, <1>l, <1>p, PromptQuiet DEF RecoveryStages
  <1>4. ASSUME Settle(r) PROVE PromptInv'
    <2>1. Holding(r)
      BY <1>4 DEF Settle, Holding, HoldStages
    <2>2. CASE StillClaimed
      <3>1. /\ GoTo(r, "ok") /\ status' = "checkout" /\ master # 0
            /\ UNCHANGED <<master, cart, local>>
        BY <1>4, <2>2 DEF Settle, Outcome, StillClaimed, cartVars
      <3> QED BY <2>1, <3>1, <1>h, <1>l, <1>p, PromptKept DEF RecoveryStages
    <2>3. CASE ~StillClaimed
      <3>1. /\ GoTo(r, "over")
            /\ UNCHANGED <<status, lockedAt, stale, master, cart, local>>
        BY <1>4, <2>3 DEF Settle, Outcome, cartVars
      <3> QED BY <3>1, <1>l, <1>p, PromptQuiet DEF RecoveryStages
    <2> QED BY <2>2, <2>3
  <1>5. ASSUME FailAgain(r) PROVE PromptInv'
    <2>1. Holding(r) /\ GoTo(r, "over") /\ UNCHANGED <<lockedAt, stale, master, cart, local>>
      BY <1>5 DEF FailAgain, cartVars, Holding, HoldStages
    <2>2. status' = status \/ status = "finalizing"
      BY <1>5 DEF FailAgain, StillClaimed
    <2>3. \A q \in Finalizers \cup Recoveries : stage[q] = "ok" => status # "finalizing"
      BY <1>k
    <2> QED BY <2>1, <2>2, <2>3, <1>h, <1>k, <1>l, <1>p, PromptKept DEF RecoveryStages
  <1> QED BY <1>1, <1>2, <1>3, <1>4, <1>5 DEF RecoverStep

(* ... the sweep touches old claims only ... *)
LEMMA SweepPrompt ==
    ASSUME CoreInv, PromptInv, ~ousted, NEW s \in Sweeps,
           SweepStart(s) \/ CancelExpired(s) \/ FreeAbandoned(s) \/ FindStranded(s)
              \/ DemoteStranded(s)
    PROVE  PromptInv'
  <1>p. /\ s \in Procs /\ s \notin Finalizers \cup Recoveries \cup Cleaners \cup Settings
        /\ SweepStages \subseteq Stages /\ SweepStages \cap HoldStages = {}
        /\ Finalizers \cup Sweeps \cup Recoveries \subseteq Procs
    BY GroupAssumption DEF Procs, Stages, SweepStages, HoldStages
  <1>i. TypeOK /\ HolderOwnsGroup /\ SettledIsTrue
    BY DEF CoreInv, PromptInv
  <1>l. ASSUME UNCHANGED local PROVE \A q \in Procs : local'[q] = local[q]
    BY <1>l
  <1>h. \A q \in Finalizers \cup Sweeps : Holding(q) =>
            status \in {"finalizing", "cancelled"} /\ lockedAt = q /\ ~stale
    BY <1>i DEF HolderOwnsGroup
  <1>k. \A q \in Finalizers \cup Recoveries : stage[q] = "ok" =>
            status \in {"completed", "checkout", "cancelled"}
    BY <1>i DEF SettledIsTrue
  <1>1. ASSUME SweepStart(s) PROVE PromptInv'
    <2>1. /\ \E t \in {"read", "cancel", "reset"} : GoTo(s, t)
          /\ UNCHANGED <<status, lockedAt, stale, master, cart, local>>
      BY <1>1 DEF SweepStart, rowVars, cartVars
    <2> QED BY <2>1, <1>l, <1>p, PromptQuiet DEF SweepStages
  <1>2. ASSUME CancelExpired(s) PROVE PromptInv'
    <2>1. /\ GoTo(s, "reset") /\ status' \in {status, "cancelled"}
          /\ UNCHANGED <<lockedAt, stale, master, cart, local>>
      BY <1>2 DEF CancelExpired, cartVars
    <2> QED BY <2>1, <1>h, <1>k, <1>l, <1>p, PromptKept DEF SweepStages
  <1>3. ASSUME FreeAbandoned(s) PROVE PromptInv'
    <2>1. CASE Abandoned
      <3>1. GoTo(s, "scan") /\ UNCHANGED <<stale, master, cart, local>>
        BY <1>3, <2>1 DEF FreeAbandoned, cartVars
      <3>2. /\ \A q \in Finalizers \cup Sweeps : ~Holding(q)
            /\ \A q \in Finalizers \cup Recoveries : stage[q] # "ok"
        BY <2>1, <1>h, <1>k DEF Abandoned, Unordered
      <3> QED BY <3>1, <3>2, <1>l, <1>p, PromptKept DEF SweepStages
    <2>2. CASE ~Abandoned
      <3>1. /\ GoTo(s, "scan")
            /\ UNCHANGED <<status, lockedAt, stale, master, cart, local>>
        BY <1>3, <2>2 DEF FreeAbandoned, cartVars
      <3> QED BY <3>1, <1>l, <1>p, PromptQuiet DEF SweepStages
    <2> QED BY <2>1, <2>2
  <1>4. ASSUME FindStranded(s) PROVE PromptInv'
    <2>1. CASE Stranded
      <3>1. /\ GoTo(s, "demote") /\ UNCHANGED <<status, lockedAt, stale, master, cart>>
            /\ \A q \in Procs \ {s} : local'[q] = local[q]
        BY <1>4, <2>1, <1>p, <1>i DEF FindStranded, rowVars, cartVars, TypeOK
      <3>2. master # 0 /\ \A q \in Finalizers \cup Sweeps : ~Holding(q)
        BY <2>1, <1>h DEF Stranded
      <3> QED BY <3>1, <3>2, <1>k, <1>p, PromptKept DEF SweepStages
    <2>2. CASE ~Stranded
      <3>1. /\ GoTo(s, "idle")
            /\ UNCHANGED <<status, lockedAt, stale, master, cart, local>>
        BY <1>4, <2>2 DEF FindStranded, rowVars, cartVars
      <3> QED BY <3>1, <1>l, <1>p, PromptQuiet DEF SweepStages
    <2> QED BY <2>1, <2>2
  <1>5. ASSUME DemoteStranded(s) PROVE PromptInv'
    <2>1. /\ GoTo(s, "idle") /\ UNCHANGED <<lockedAt, stale, master, cart>>
          /\ status' = status \/ status = "finalizing"
          /\ \A q \in Procs \ {s} : local'[q] = local[q]
      BY <1>5, <1>p, <1>i, ForgetType DEF DemoteStranded, Demote, cartVars
    <2>2. \A q \in Finalizers \cup Sweeps : ~Holding(q)
      BY <1>5 DEF DemoteStranded, PromptInv, Over
    <2>3. \A q \in Finalizers \cup Recoveries : stage[q] = "ok" => status # "finalizing"
      BY <1>k
    <2> QED BY <2>1, <2>2, <2>3, <1>k, <1>p, PromptKept DEF SweepStages
  <1> QED BY <1>1, <1>2, <1>3, <1>4, <1>5

(* ... a failure leaves the group as it is ... *)
LEMMA FaultPrompt ==
    ASSUME CoreInv, PromptInv, ~ousted, NEW p \in Finalizers \cup Sweeps \cup Recoveries,
           SplitFails(p) \/ Evicted(p) \/ OrderFails(p) \/ CallFails(p) \/ ReleaseLost(p)
    PROVE  PromptInv'
  <1>p. /\ p \in Procs
        /\ {"fail", "reopen", "reopenFreed", "idle", "over"} \subseteq Stages
        /\ {"reopenFreed", "idle", "over"} \cap HoldStages = {}
    BY DEF Procs, Stages, FinalizeStages, SweepStages, RecoveryStages, HoldStages
  <1>1. ASSUME SplitFails(p) \/ OrderFails(p) \/ CallFails(p) PROVE PromptInv'
    <2>1. /\ \E s \in {"fail", "reopen"} : GoTo(p, s)
          /\ Holding(p)
          /\ UNCHANGED <<status, lockedAt, stale, master, cart, local>>
      BY <1>1 DEF SplitFails, OrderFails, CallFails, rowVars, cartVars, Holding, HoldStages
    <2>2. \A q \in Procs : local'[q] = local[q]
      BY <2>1
    <2> QED BY <2>1, <2>2, <1>p, PromptQuiet
  <1>2. ASSUME Evicted(p) PROVE PromptInv'
    <2>1. /\ \E s \in {"idle", "over"} : GoTo(p, s)
          /\ UNCHANGED <<status, lockedAt, stale, master, cart>>
      BY <1>2 DEF Evicted, rowVars, cartVars
    <2>2. \A q \in Procs \ {p} : local'[q] = local[q]
      BY <1>2, <1>p, ForgetType DEF Evicted, CoreInv
    <2> QED BY <2>1, <2>2, <1>p, PromptQuiet
  <1>3. ASSUME ReleaseLost(p) PROVE PromptInv'
    <2>1. stage[p] = "release" /\ Holding(p)
      BY <1>3 DEF ReleaseLost, Holding, HoldStages
    <2>2. p \in Finalizers \cup Sweeps
      BY <2>1, <1>p DEF CoreInv, TypeOK, StageOK, RecoveryStages
    <2>3. /\ \A q \in (Finalizers \cup Sweeps) \ {p} : ~Holding(q)
          /\ \A q \in Finalizers \cup Recoveries : stage[q] # "ok"
      BY <2>1, <2>2 DEF PromptInv, HolderOwnsGroup, Over
    <2>4. GoTo(p, "reopenFreed") /\ UNCHANGED <<stale, master, cart, local>>
      BY <1>3 DEF ReleaseLost, cartVars
    <2>5. \A q \in Procs : local'[q] = local[q]
      BY <2>4
    <2> QED BY <2>3, <2>4, <2>5, <1>p, PromptKept
  <1> QED BY <1>1, <1>2, <1>3

(* ... and the clean-up may cancel it, but moves no claim. *)
LEMMA OtherPrompt ==
    ASSUME CoreInv, PromptInv, ~ousted,
           \/ \E c \in Cleaners : FindExpired(c) \/ CancelFound(c)
           \/ \E p \in Settings : ReadSettings(p) \/ RewriteSettings(p)
    PROVE  PromptInv'
  <1>1. PICK p \in Cleaners \cup Settings :
            \/ FindExpired(p) \/ CancelFound(p)
            \/ ReadSettings(p) \/ RewriteSettings(p)
    OBVIOUS
  <1>p. /\ p \in Procs /\ p \notin Finalizers \cup Sweeps \cup Recoveries
        /\ {"clean", "ok", "write"} \subseteq Stages
        /\ {"clean", "ok", "write"} \cap HoldStages = {}
    BY GroupAssumption DEF Procs, Stages, OtherStages, HoldStages
  <1>2. /\ \E s \in {"clean", "ok", "write"} : GoTo(p, s)
        /\ UNCHANGED <<lockedAt, stale, master, cart>>
        /\ status' \in {status, "cancelled"}
    BY <1>1 DEF FindExpired, CancelFound, ReadSettings, RewriteSettings, rowVars, cartVars
  <1>3. \A q \in Procs \ {p} : local'[q] = local[q]
    BY <1>1, <1>p, ForgetType
       DEF FindExpired, CancelFound, ReadSettings, RewriteSettings, CoreInv, TypeOK
  <1>4. /\ \A q \in Finalizers \cup Sweeps : Holding(q) =>
               status \in {"finalizing", "cancelled"} /\ lockedAt = q /\ ~stale
        /\ \A q \in Finalizers \cup Recoveries : stage[q] = "ok" =>
               status \in {"completed", "checkout", "cancelled"}
    BY DEF PromptInv, HolderOwnsGroup, SettledIsTrue
  <1> QED BY <1>2, <1>3, <1>4, <1>p, PromptKept

(* Diners and time change no call; a claimed cart gains no dish. *)
LEMMA DinerPrompt ==
    ASSUME CoreInv, PromptInv, ~ousted, DinerStep
    PROVE  PromptInv'
  <1>1. UNCHANGED <<status, master, lockedAt, stale, stage, local>>
    BY DEF DinerStep, AskToAdd, Publish, ChangeItem, AskToLeave, Leave, ClearItems, rowVars
  <1>2. cart \in Carts /\ (status # "active" => \A i \in Items : cart'[i] <= cart[i])
    <2>1. cart \in Carts
      BY DEF CoreInv, TypeOK
    <2>2. ASSUME NEW i \in Items, AskToAdd(i) PROVE cart' = cart
      BY <2>2 DEF AskToAdd
    <2>3. ASSUME NEW i \in Items, Publish(i), status # "active" PROVE cart' = cart
      BY <2>3 DEF Publish, AcceptsChanges
    <2>4. ASSUME NEW i \in Items, NEW quantity \in Quantities, ChangeItem(i, quantity)
          PROVE  status = "active"
      BY <2>4 DEF ChangeItem, AcceptsChanges
    <2>5. ASSUME NEW m \in Members, AskToLeave(m) \/ Leave(m) PROVE cart' = cart
      BY <2>5 DEF AskToLeave, Leave
    <2>6. ASSUME NEW m \in Members, ClearItems(m) PROVE \A i \in Items : cart'[i] <= cart[i]
      BY <2>6, <2>1, GroupAssumption DEF ClearItems, Carts, Quantities
    <2>7. \A i \in Items : cart[i] <= cart[i]
      BY <2>1, GroupAssumption DEF Carts, Quantities
    <2> QED BY <2>1, <2>2, <2>3, <2>4, <2>5, <2>6, <2>7 DEF DinerStep
  <1>3. SnapshotIsWhole'
    <2> SUFFICES ASSUME NEW p \in Finalizers \cup Sweeps,
                        stage[p] \in {"order", "record", "split"},
                        NEW i \in Items
                 PROVE  cart'[i] <= local[p].cart[i]
      BY <1>1 DEF SnapshotIsWhole
    <2>1. status # "active" /\ cart[i] <= local[p].cart[i]
      BY DEF PromptInv, HolderOwnsGroup, Holding, HoldStages, SnapshotIsWhole
    <2>2. cart'[i] <= cart[i] /\ cart[i] \in Int /\ local[p].cart[i] \in Int
          /\ cart'[i] \in Int
      <3>1. cart' \in Carts
        BY DinerType DEF CoreInv, TypeOK
      <3>2. local[p].cart \in Carts
        BY DEF CoreInv, TypeOK, Procs
      <3> QED BY <2>1, <1>2, <3>1, <3>2, GroupAssumption DEF Carts, Quantities
    <2> QED BY <2>1, <2>2
  <1> QED BY <1>1, <1>3
          DEF PromptInv, HolderOwnsGroup, Over, SettledIsTrue, Holding

(* What holds of prompt requests holds initially.                           *)
LEMMA InitPrompt == Init => UntilOusted
  BY DEF Init, UntilOusted, PromptInv, HolderOwnsGroup, SettledIsTrue, SnapshotIsWhole, Holding,
         HoldStages, Procs

(* That a claim was freed is not forgotten. *)
LEMMA OustedStays == ASSUME [Next]_vars, ousted PROVE ousted'
  <1>1. CASE DinerStep
    BY <1>1 DEF DinerStep, AskToAdd, Publish, ChangeItem, AskToLeave, Leave, ClearItems, others
  <1>2. ASSUME NEW p \in Procs, ReadGroup(p) \/ FinalizeStep(p) PROVE ousted'
    BY <1>2 DEF ReadGroup, FinalizeStep, Claim, Reread, TakeSnapshot, Release, PlaceOrder,
                OrderRefused, RecordOrder, Split, Complete, MarkFailed, Reopen, others
  <1>3. ASSUME NEW p \in Procs,
               OrderFails(p) \/ CallFails(p) \/ ReleaseLost(p) \/ SplitFails(p) \/ Evicted(p)
        PROVE  ousted'
    BY <1>3 DEF OrderFails, CallFails, ReleaseLost, SplitFails, Evicted, others
  <1>4. ASSUME NEW r \in Recoveries, ReadFailed(r) \/ RecoverStep(r) PROVE ousted'
    BY <1>4 DEF ReadFailed, RecoverStep, ClaimRecovery, Split, SplitOnBearer, Settle,
                FailAgain, others
  <1>5. ASSUME NEW s \in Sweeps, SweepStep(s) PROVE ousted'
    BY <1>5, <1>2 DEF SweepStep, SweepStart, CancelExpired, FreeAbandoned, FindStranded,
                      DemoteStranded, others, Procs
  <1>6. CASE \/ \E c \in Cleaners : FindExpired(c) \/ CancelFound(c)
             \/ \E p \in Settings : ReadSettings(p) \/ RewriteSettings(p)
             \/ ClaimAges \/ Expire \/ RulesChange
    BY <1>6 DEF FindExpired, CancelFound, ReadSettings, RewriteSettings, ClaimAges, Expire,
                RulesChange, others
  <1>7. CASE UNCHANGED vars
    BY <1>7 DEF vars
  <1> QED BY <1>1, <1>2, <1>3, <1>4, <1>5, <1>6, <1>7 DEF Next, Procs

(* Every step keeps it.                                                     *)
LEMMA NextPrompt ==
    ASSUME FinalizersArePrompt
    PROVE  CoreInv /\ UntilOusted /\ [Next]_vars => UntilOusted'
  <1> SUFFICES ASSUME CoreInv, UntilOusted, [Next]_vars, ~ousted' PROVE PromptInv'
    BY DEF UntilOusted
  <1>0. ~ousted
    BY OustedStays
  <1>i. PromptInv
    BY <1>0 DEF UntilOusted
  <1>1. CASE DinerStep
    BY <1>0, <1>i, <1>1, DinerPrompt
  <1>2. CASE ClaimAges
    <2>1. /\ UNCHANGED <<status, master, lockedAt, stage, local, cart>>
          /\ \A p \in Finalizers \cup Sweeps : ~Holding(p)
      BY <1>2 DEF ClaimAges, FinalizersArePrompt, cartVars
    <2> QED BY <2>1, <1>0, <1>i
            DEF PromptInv, HolderOwnsGroup, Over, SettledIsTrue, SnapshotIsWhole, Holding
  <1>3. CASE Expire \/ RulesChange \/ UNCHANGED vars
    BY <1>0, <1>i, <1>3 DEF Expire, RulesChange, vars, rowVars, cartVars, PromptInv, HolderOwnsGroup, Over,
                SettledIsTrue, SnapshotIsWhole, Holding
  <1>4. CASE \E p \in Finalizers : ReadGroup(p) \/ FinalizeStep(p)
    BY <1>0, <1>i, <1>4, FinalizePrompt
  <1>5. CASE \E p \in Finalizers \cup Sweeps : OrderFails(p) \/ CallFails(p) \/ ReleaseLost(p)
    BY <1>0, <1>i, <1>5, FaultPrompt
  <1>6. CASE \E p \in Finalizers \cup Sweeps \cup Recoveries : SplitFails(p) \/ Evicted(p)
    BY <1>0, <1>i, <1>6, FaultPrompt
  <1>7. CASE \E r \in Recoveries : ReadFailed(r) \/ RecoverStep(r)
    BY <1>0, <1>i, <1>7, RecoverPrompt
  <1>8. CASE \E s \in Sweeps : SweepStep(s)
    BY <1>0, <1>i, <1>8, FinalizePrompt, SweepPrompt DEF SweepStep
  <1>9. CASE \/ \E c \in Cleaners : FindExpired(c) \/ CancelFound(c)
             \/ \E p \in Settings : ReadSettings(p) \/ RewriteSettings(p)
    BY <1>0, <1>i, <1>9, OtherPrompt
  <1> QED BY <1>1, <1>2, <1>3, <1>4, <1>5, <1>6, <1>7, <1>8, <1>9 DEF Next

(* It holds in every behaviour.                                             *)
LEMMA PromptInductive ==
    ASSUME FinalizersArePrompt PROVE Spec => [](CoreInv /\ UntilOusted)
  BY InitCore, NextCore, InitPrompt, NextPrompt, PTL DEF Spec

(* While finalizers end within FINALIZING_STALE_MS, a claim is exclusive    *)
(* until a call frees one that is not its own.                              *)
THEOREM ClaimExcludes ==
    ASSUME FinalizersArePrompt PROVE Spec => []ClaimIsExclusive
  <1>1. ASSUME CoreInv, UntilOusted PROVE ClaimIsExclusive
    <2> SUFFICES ASSUME ~ousted, NEW p \in Finalizers \cup Sweeps, NEW q \in Procs,
                        Holding(p), Holding(q)
                 PROVE  p = q
      BY DEF ClaimIsExclusive
    <2>1. q \notin Recoveries /\ lockedAt = p
      BY <1>1 DEF UntilOusted, PromptInv, HolderOwnsGroup
    <2>2. q \notin Cleaners \cup Settings
      BY <1>1 DEF CoreInv, TypeOK, StageOK, OtherStages, Holding, HoldStages
    <2>3. q \in Finalizers \cup Sweeps
      BY <2>1, <2>2 DEF Procs
    <2> QED BY <2>1, <2>3, <1>1 DEF UntilOusted, PromptInv, HolderOwnsGroup
  <1> QED BY <1>1, PromptInductive, PTL

(* Under the same conditions, a finalizer or a recovery that reports success *)
(* is believed rightly.                                                     *)
THEOREM SuccessIsTrue ==
    ASSUME FinalizersArePrompt PROVE Spec => []SettledIsTrue
  <1>1. UntilOusted => SettledIsTrue
    BY DEF UntilOusted, PromptInv, SettledIsTrue
  <1> QED BY <1>1, PromptInductive, PTL

(* The snapshot behind an order misses no dish that is in the cart. *)
THEOREM SnapshotsAreWhole ==
    ASSUME FinalizersArePrompt PROVE Spec => []SnapshotIsWhole
  <1>1. UntilOusted => SnapshotIsWhole
    BY DEF UntilOusted, PromptInv, SnapshotIsWhole
  <1> QED BY <1>1, PromptInductive, PTL
=============================================================================
