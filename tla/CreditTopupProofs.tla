------------------------- MODULE CreditTopupProofs -------------------------
(***************************************************************************)
(* Only charges that were collected to the cent are credited, and an       *)
(* intent that is marked paid has been, for every number of intents,       *)
(* accounts and concurrent webhook deliveries.                             *)
(***************************************************************************)
EXTENDS CreditTopup, FiniteSetTheorems, TLAPS

(* A step of the ledger: the book keeps its type, and the keys it uses are *)
(* the old ones and, at most, that of the intent.                          *)
LEMMA TopupType ==
    ASSUME TypeOK, NEW d \in Deliveries, Target(d) \in Intents, Topup(d)
    PROVE  /\ bal' \in [Accounts -> Nat]
           /\ used' = used \cup {Target(d)}
           /\ acked' \subseteq used'
  <1>1. CASE LedgerKey(d) \notin used /\ Ledger!Move(AccountOf[Target(d)])
             /\ used' = used \cup {LedgerKey(d)}
    <2>1. /\ bal' \in [Accounts -> Nat]
          /\ \E k \in used' \ used :
               used' = used \cup {k} /\ acked' \in {acked, acked \cup {k}}
      BY <1>1 DEF Ledger!Move
    <2> QED BY <1>1, <2>1 DEF TypeOK, LedgerKey
  <1>2. CASE LedgerKey(d) \in used /\ UNCHANGED <<bal, used>>
             /\ acked' = acked \cup {LedgerKey(d)}
    BY <1>2 DEF TypeOK, LedgerKey
  <1> QED BY <1>1, <1>2 DEF Topup

(* A busy delivery handles an event the provider reported. *)
LEMMA TargetType ==
    ASSUME TypeOK, NEW d \in Deliveries, delivery[d].call # "idle"
    PROVE  /\ delivery[d].hook \in hooks /\ delivery[d].hook \in Hook
           /\ Target(d) \in Intents
  BY DEF TypeOK, Target, Hook

(* What an answer and an error do to the deliveries and the answers. *)
LEMMA EndType ==
    ASSUME TypeOK, NEW d \in Deliveries, delivery[d].call # "idle",
           GiveUp(d) \/ \E kind \in Answers : Answer(d, kind)
    PROVE  /\ delivery' \in [Deliveries -> [call : Calls, hook : Hook \cup {NoHook}]]
           /\ \A e \in Deliveries : delivery'[e] = IF e = d THEN Idle ELSE delivery[e]
           /\ answered' \subseteq [hook : Hook, kind : Answers]
  <1>1. Idle \in [call : Calls, hook : Hook \cup {NoHook}]
    BY DEF Idle, Calls
  <1>2. delivery' = [delivery EXCEPT ![d] = Idle]
    BY DEF GiveUp, Answer
  <1>3. answered' \subseteq [hook : Hook, kind : Answers]
    BY TargetType DEF GiveUp, Answer, TypeOK
  <1> QED BY <1>1, <1>2, <1>3 DEF TypeOK

(* What going on to the next call does to the deliveries. *)
LEMMA ContinueType ==
    ASSUME TypeOK, NEW d \in Deliveries, NEW call \in Calls \ {"idle"},
           delivery[d].call # "idle", Continue(d, call)
    PROVE  /\ delivery' \in [Deliveries -> [call : Calls, hook : Hook \cup {NoHook}]]
           /\ \A e \in Deliveries \ {d} : delivery'[e] = delivery[e]
           /\ delivery'[d].call = call /\ delivery'[d].hook = delivery[d].hook
  BY DEF Continue, TypeOK

-----------------------------------------------------------------------------
(* The inductive invariant holds initially ... *)
LEMMA InitIInv == Init => IInv
  <1> SUFFICES ASSUME Init PROVE IInv
    OBVIOUS
  <1>1. Idle \in [call : Calls, hook : Hook \cup {NoHook}] /\ Idle.call = "idle"
    BY DEF Idle, Calls
  <1>2. TypeOK
    BY <1>1 DEF Init, TypeOK, Statuses, CreateStages, Charges, Ledger!BookInit
  <1>3. HooksAreTrue /\ ChargeAfterInsert /\ CreditedIsCollected /\ PaidIsCredited
        /\ HeldIsAudited
    BY DEF Init, HooksAreTrue, ChargeAfterInsert, CreditedIsCollected, PaidIsCredited,
           HeldIsAudited, Ledger!BookInit
  <1>4. CallsFitHooks
    BY <1>1 DEF Init, CallsFitHooks
  <1> QED BY <1>2, <1>3, <1>4 DEF IInv

(* ... and every step keeps it. *)
LEMMA NextIInv == IInv /\ [Next]_vars => IInv'
  <1> SUFFICES ASSUME IInv, [Next]_vars PROVE IInv'
    OBVIOUS
  <1>i. /\ TypeOK /\ HooksAreTrue /\ CallsFitHooks /\ ChargeAfterInsert
        /\ CreditedIsCollected /\ PaidIsCredited /\ HeldIsAudited
    BY DEF IInv
  <1>f. ASSUME Fault PROVE faults' \in Nat
    BY <1>f, <1>i DEF Fault, TypeOK
  <1>1. ASSUME NEW i \in Intents, InsertIntent(i) PROVE IInv'
    <2>1. TypeOK'
      BY <1>1, <1>i DEF InsertIntent, GoOn, TypeOK, Statuses, CreateStages
    <2>2. HooksAreTrue' /\ CallsFitHooks' /\ CreditedIsCollected' /\ HeldIsAudited'
      BY <1>1, <1>i DEF InsertIntent, HooksAreTrue, CallsFitHooks, CreditedIsCollected,
         HeldIsAudited
    <2>3. ChargeAfterInsert' /\ PaidIsCredited'
      BY <1>1, <1>i DEF InsertIntent, GoOn, ChargeAfterInsert, PaidIsCredited, TypeOK
    <2> QED BY <2>1, <2>2, <2>3 DEF IInv
  <1>2. ASSUME NEW i \in Intents, ChargeAccepted(i) \/ ChargeThrows(i) PROVE IInv'
    <2>1. /\ create[i] = "charge" /\ charge[i] = "none"
          /\ create' \in [Intents -> CreateStages]
          /\ create'[i] \in {"save", "fail"}
          /\ \A j \in Intents \ {i} : create'[j] = create[j]
          /\ charge' \in {charge, [charge EXCEPT ![i] = "open"]}
          /\ UNCHANGED <<rowVars, hooks, answered, delivery, bookVars>>
      BY <1>2, <1>i DEF ChargeAccepted, ChargeThrows, GoOn, TypeOK, CreateStages,
         ChargeAfterInsert
    <2>2. faults' \in Nat
      BY <1>2, <1>i, <1>f DEF ChargeAccepted, ChargeThrows, TypeOK
    <2>3. /\ charge' \in [Intents -> Charges]
          /\ \A j \in Intents : charge[j] # "none" => charge'[j] = charge[j]
          /\ \A j \in Intents \ {i} : charge'[j] = charge[j]
      BY <2>1, <1>i DEF TypeOK, Charges
    <2>4. TypeOK'
      BY <2>1, <2>2, <2>3, <1>i DEF TypeOK, rowVars, bookVars
    <2>5. CallsFitHooks' /\ HeldIsAudited' /\ PaidIsCredited'
      BY <2>1, <1>i DEF CallsFitHooks, HeldIsAudited, PaidIsCredited, rowVars, bookVars
    <2>6. HooksAreTrue' /\ CreditedIsCollected'
      BY <2>1, <2>3, <1>i DEF HooksAreTrue, CreditedIsCollected, rowVars, bookVars,
         TypeOK, Hook
    <2>7. ChargeAfterInsert'
      BY <2>1, <2>3, <1>i DEF ChargeAfterInsert
    <2> QED BY <2>4, <2>5, <2>6, <2>7 DEF IInv
  <1>3. ASSUME NEW i \in Intents, SaveTransaction(i) \/ CreateLost(i) PROVE IInv'
    <2>1. /\ create' \in [Intents -> CreateStages]
          /\ create'[i] = "done" /\ faults' \in Nat
          /\ \A j \in Intents \ {i} : create'[j] = create[j]
          /\ txn' \subseteq Intents
          /\ UNCHANGED <<status, held, audited, charge, hooks, answered,
                         delivery, bal, used, acked>>
      BY <1>3, <1>i, <1>f DEF SaveTransaction, CreateLost, GoOn, TypeOK, CreateStages,
         rowVars, bookVars
    <2>2. TypeOK'
      BY <2>1, <1>i DEF TypeOK
    <2>3. ChargeAfterInsert'
      BY <2>1, <1>i DEF ChargeAfterInsert
    <2>4. HooksAreTrue' /\ CallsFitHooks' /\ CreditedIsCollected' /\ PaidIsCredited'
          /\ HeldIsAudited'
      BY <2>1, <1>i DEF HooksAreTrue, CallsFitHooks, CreditedIsCollected, PaidIsCredited,
         HeldIsAudited
    <2> QED BY <2>2, <2>3, <2>4 DEF IInv
  <1>4. ASSUME NEW i \in Intents, FailCreated(i) PROVE IInv'
    <2>1. TypeOK'
      BY <1>4, <1>i DEF FailCreated, GoOn, TypeOK, Statuses, CreateStages, bookVars
    <2>2. HooksAreTrue' /\ CallsFitHooks' /\ CreditedIsCollected' /\ HeldIsAudited'
      BY <1>4, <1>i DEF FailCreated, HooksAreTrue, CallsFitHooks, CreditedIsCollected,
         HeldIsAudited, bookVars
    <2>3. ChargeAfterInsert' /\ PaidIsCredited'
      BY <1>4, <1>i DEF FailCreated, GoOn, ChargeAfterInsert, PaidIsCredited, TypeOK,
         bookVars
    <2> QED BY <2>1, <2>2, <2>3 DEF IInv
  <1>5. ASSUME NEW i \in Intents, NEW full \in BOOLEAN, Collect(i, full) PROVE IInv'
    <2>1. /\ charge[i] = "open" /\ charge' \in [Intents -> Charges]
          /\ full => charge'[i] = "full"
          /\ charge'[i] # "none"
          /\ \A j \in Intents \ {i} : charge'[j] = charge[j]
          /\ hooks' = hooks \cup {[intent |-> i, status |-> "paid", full |-> full]}
          /\ UNCHANGED <<status, txn, held, audited, create, answered,
                         delivery, bal, used, acked, faults>>
      BY <1>5, <1>i DEF Collect, Report, TypeOK, Charges, rowVars, bookVars
    <2>2. TypeOK'
      BY <2>1, <1>i DEF TypeOK, Hook
    <2>3. HooksAreTrue'
      BY <2>1, <1>i DEF HooksAreTrue, TypeOK, Hook
    <2>4. CreditedIsCollected' /\ ChargeAfterInsert'
      BY <2>1, <1>i DEF CreditedIsCollected, ChargeAfterInsert, TypeOK
    <2>5. CallsFitHooks' /\ PaidIsCredited' /\ HeldIsAudited'
      BY <2>1, <1>i DEF CallsFitHooks, PaidIsCredited, HeldIsAudited
    <2> QED BY <2>2, <2>3, <2>4, <2>5 DEF IInv
  <1>6. ASSUME NEW i \in Intents, AttemptFails(i) PROVE IInv'
    <2>1. /\ hooks' = hooks \cup {[intent |-> i, status |-> "failed", full |-> FALSE]}
          /\ UNCHANGED <<status, txn, held, audited, create, charge, answered,
                         delivery, bal, used, acked, faults>>
      BY <1>6 DEF AttemptFails, Report, rowVars, bookVars
    <2>2. TypeOK'
      <3>1. [intent |-> i, status |-> "failed", full |-> FALSE] \in Hook
        BY DEF Hook
      <3>2. hooks' \subseteq Hook /\ hooks \subseteq hooks'
        BY <2>1, <3>1, <1>i DEF TypeOK
      <3>3. \A d \in Deliveries : delivery'[d].call # "idle" => delivery'[d].hook \in hooks'
        BY <2>1, <3>2, <1>i DEF TypeOK
      <3> QED BY <2>1, <3>2, <3>3, <1>i DEF TypeOK
    <2>3. HooksAreTrue'
      BY <2>1, <1>i DEF HooksAreTrue
    <2>4. CallsFitHooks' /\ PaidIsCredited' /\ HeldIsAudited' /\ CreditedIsCollected'
          /\ ChargeAfterInsert'
      BY <2>1, <1>i DEF CallsFitHooks, PaidIsCredited, HeldIsAudited,
         CreditedIsCollected, ChargeAfterInsert
    <2> QED BY <2>2, <2>3, <2>4 DEF IInv
  <1>7. ASSUME NEW d \in Deliveries, NEW h \in hooks, Receive(d, h) PROVE IInv'
    <2>1. /\ faults' \in Nat
          /\ delivery' = [delivery EXCEPT ![d] = [call |-> "find", hook |-> h]]
          /\ UNCHANGED <<status, txn, held, audited, create, charge, hooks,
                         answered, bal, used, acked>>
      BY <1>7, <1>i, <1>f DEF Receive, TypeOK, rowVars, bookVars
    <2>2. /\ delivery' \in [Deliveries -> [call : Calls, hook : Hook \cup {NoHook}]]
          /\ delivery'[d] = [call |-> "find", hook |-> h]
          /\ \A e \in Deliveries \ {d} : delivery'[e] = delivery[e]
      BY <2>1, <1>i DEF TypeOK, Calls
    <2>3. TypeOK'
      BY <2>1, <2>2, <1>i DEF TypeOK
    <2>4. CallsFitHooks'
      BY <2>1, <2>2, <1>i DEF CallsFitHooks
    <2>5. HooksAreTrue' /\ ChargeAfterInsert' /\ CreditedIsCollected' /\ PaidIsCredited'
          /\ HeldIsAudited'
      BY <2>1, <1>i DEF HooksAreTrue, ChargeAfterInsert, CreditedIsCollected,
         PaidIsCredited, HeldIsAudited
    <2> QED BY <2>3, <2>4, <2>5 DEF IInv
  <1>8. ASSUME NEW d \in Deliveries, delivery[d].call # "idle",
               GiveUp(d) \/ \E kind \in Answers : Answer(d, kind),
               faults' \in Nat,
               UNCHANGED <<txn, create, charge, hooks>>
        PROVE  /\ /\ status' \in [Intents -> Statuses] /\ held' \subseteq Intents
                  /\ audited' = audited /\ bal' \in [Accounts -> Nat]
                  /\ used' \subseteq Intents /\ acked' \subseteq used'
                  => TypeOK'
               /\ HooksAreTrue' /\ ChargeAfterInsert'
               /\ used \subseteq used' /\ audited \subseteq audited' => CallsFitHooks'
    <2>1. /\ delivery' \in [Deliveries -> [call : Calls, hook : Hook \cup {NoHook}]]
          /\ \A e \in Deliveries : delivery'[e] = IF e = d THEN Idle ELSE delivery[e]
          /\ answered' \subseteq [hook : Hook, kind : Answers]
      BY <1>8, <1>i, EndType
    <2>2. Idle.call = "idle"
      BY DEF Idle
    <2>3. \A e \in Deliveries : delivery'[e].call # "idle" => delivery'[e].hook \in hooks'
      BY <2>1, <2>2, <1>8, <1>i DEF TypeOK
    <2>4. ASSUME status' \in [Intents -> Statuses], held' \subseteq Intents,
                 audited' = audited, bal' \in [Accounts -> Nat],
                 used' \subseteq Intents, acked' \subseteq used'
          PROVE  TypeOK'
      BY <2>1, <2>3, <2>4, <1>8, <1>i DEF TypeOK
    <2>5. HooksAreTrue' /\ ChargeAfterInsert'
      BY <1>8, <1>i DEF HooksAreTrue, ChargeAfterInsert
    <2>6. ASSUME used \subseteq used', audited \subseteq audited' PROVE CallsFitHooks'
      BY <2>1, <2>2, <2>6, <1>i DEF CallsFitHooks
    <2> QED BY <2>4, <2>5, <2>6
  <1>9. ASSUME NEW d \in Deliveries, NEW call \in Calls \ {"idle"},
               delivery[d].call # "idle", Continue(d, call),
               UNCHANGED <<status, txn, held, create, charge, hooks, answered,
                           faults>>
        PROVE  /\ /\ audited' \subseteq Intents /\ bal' \in [Accounts -> Nat]
                  /\ used' \subseteq Intents /\ acked' \subseteq used'
                  => TypeOK'
               /\ HooksAreTrue' /\ ChargeAfterInsert'
    <2>1. /\ delivery' \in [Deliveries -> [call : Calls, hook : Hook \cup {NoHook}]]
          /\ \A e \in Deliveries \ {d} : delivery'[e] = delivery[e]
          /\ delivery'[d].call = call /\ delivery'[d].hook = delivery[d].hook
      BY <1>9, <1>i, ContinueType
    <2>2. \A e \in Deliveries : delivery'[e].call # "idle" => delivery'[e].hook \in hooks'
      BY <2>1, <1>9, <1>i DEF TypeOK
    <2>3. ASSUME audited' \subseteq Intents, bal' \in [Accounts -> Nat],
                 used' \subseteq Intents, acked' \subseteq used'
          PROVE  TypeOK'
      BY <2>1, <2>2, <2>3, <1>9, <1>i DEF TypeOK
    <2>4. HooksAreTrue' /\ ChargeAfterInsert'
      BY <1>9, <1>i DEF HooksAreTrue, ChargeAfterInsert
    <2> QED BY <2>3, <2>4
  <1>10. ASSUME NEW d \in Deliveries, Find(d) PROVE IInv'
    <2>1. /\ delivery[d].call = "find" /\ delivery[d].hook \in hooks
          /\ UNCHANGED <<status, txn, held, audited, create, charge, hooks,
                         bal, used, acked, faults>>
      BY <1>10, <1>i, TargetType DEF Find, Busy, rowVars, bookVars
    <2>2. CreditedIsCollected' /\ PaidIsCredited' /\ HeldIsAudited'
      BY <2>1, <1>i DEF CreditedIsCollected, PaidIsCredited, HeldIsAudited
    <2>3. CASE GiveUp(d) \/ \E kind \in Answers : Answer(d, kind)
      <3>1. /\ faults' \in Nat /\ status' \in [Intents -> Statuses] /\ held' \subseteq Intents
            /\ bal' \in [Accounts -> Nat] /\ used' \subseteq Intents /\ acked' \subseteq used'
        BY <2>1, <1>i DEF TypeOK
      <3>2. TypeOK' /\ HooksAreTrue' /\ ChargeAfterInsert' /\ CallsFitHooks'
        BY <2>1, <2>3, <3>1, <1>8
      <3> QED BY <2>2, <3>2 DEF IInv
    <2>4. CASE Continue(d, CallFor(delivery[d].hook)) /\ UNCHANGED answered
      <3>1. CallFor(delivery[d].hook) \in {"fail", "credit", "audit"}
        BY DEF CallFor
      <3>2. TypeOK' /\ HooksAreTrue' /\ ChargeAfterInsert'
        <4>1. CallFor(delivery[d].hook) \in Calls \ {"idle"}
          BY <3>1 DEF Calls
        <4>2. /\ audited' \subseteq Intents /\ bal' \in [Accounts -> Nat]
              /\ used' \subseteq Intents /\ acked' \subseteq used'
          BY <2>1, <1>i DEF TypeOK
        <4> QED BY <2>1, <2>4, <4>1, <4>2, <1>9
      <3>3. CallsFitHooks'
        <4>1. CallFor(delivery[d].hook) = "credit" =>
                delivery[d].hook.status = "paid" /\ delivery[d].hook.full
          BY <2>1, <1>i DEF CallFor, TypeOK, Hook
        <4>2. /\ \A e \in Deliveries \ {d} : delivery'[e] = delivery[e]
              /\ delivery'[d].call = CallFor(delivery[d].hook)
              /\ delivery'[d].hook = delivery[d].hook
          BY <2>1, <2>4, <3>1, <1>i, ContinueType DEF Calls
        <4> QED BY <2>1, <3>1, <4>1, <4>2, <1>i DEF CallsFitHooks
      <3> QED BY <2>2, <3>2, <3>3 DEF IInv
    <2> QED BY <1>10, <2>3, <2>4 DEF Find, AnswerSettled, Answers
  <1>11. ASSUME NEW d \in Deliveries, MarkFailed(d) \/ MarkPaid(d) PROVE IInv'
    <2>1. /\ delivery[d].call \in {"fail", "mark"} /\ Target(d) \in Intents
          /\ delivery[d].call = "mark" => Target(d) \in used
          /\ status' = [status EXCEPT ![Target(d)] =
                          IF delivery[d].call = "mark" THEN "paid" ELSE "failed"]
          /\ \E kind \in Answers : Answer(d, kind)
          /\ UNCHANGED <<txn, held, audited, create, charge, hooks, bal, used,
                         acked, faults>>
      <3>1. CASE MarkFailed(d)
        BY <3>1, <1>i, TargetType DEF MarkFailed, Busy, Answers, bookVars
      <3>2. CASE MarkPaid(d)
        BY <3>2, <1>i, TargetType DEF MarkPaid, Busy, Answers, bookVars, CallsFitHooks, Target
      <3> QED BY <3>1, <3>2, <1>11
    <2>2. /\ faults' \in Nat /\ status' \in [Intents -> Statuses] /\ held' \subseteq Intents
          /\ bal' \in [Accounts -> Nat] /\ used' \subseteq Intents /\ acked' \subseteq used'
      BY <2>1, <1>i DEF TypeOK, Statuses
    <2>3. TypeOK' /\ HooksAreTrue' /\ ChargeAfterInsert' /\ CallsFitHooks'
      BY <2>1, <2>2, <1>8
    <2>4. CreditedIsCollected' /\ HeldIsAudited'
      BY <2>1, <1>i DEF CreditedIsCollected, HeldIsAudited
    <2>5. PaidIsCredited'
      BY <2>1, <1>i DEF PaidIsCredited, TypeOK
    <2> QED BY <2>3, <2>4, <2>5 DEF IInv
  <1>12. ASSUME NEW d \in Deliveries, Audit(d) PROVE IInv'
    <2>1. /\ delivery[d].call = "audit" /\ Target(d) \in Intents
          /\ audited' = audited \cup {Target(d)}
          /\ Continue(d, "hold")
          /\ UNCHANGED <<status, txn, held, create, charge, hooks, answered,
                         bal, used, acked, faults>>
      BY <1>12, <1>i, TargetType DEF Audit, Busy, bookVars
    <2>2. TypeOK' /\ HooksAreTrue' /\ ChargeAfterInsert'
      <3>1. /\ audited' \subseteq Intents /\ bal' \in [Accounts -> Nat]
            /\ used' \subseteq Intents /\ acked' \subseteq used'
        BY <2>1, <1>i DEF TypeOK
      <3>2. "hold" \in Calls \ {"idle"}
        BY DEF Calls
      <3> QED BY <2>1, <3>1, <3>2, <1>9
    <2>3. CallsFitHooks'
      <3>1. /\ \A e \in Deliveries \ {d} : delivery'[e] = delivery[e]
            /\ delivery'[d].call = "hold" /\ delivery'[d].hook = delivery[d].hook
        BY <2>1, <1>i, ContinueType DEF Calls
      <3> QED BY <2>1, <3>1, <1>i DEF CallsFitHooks, Target
    <2>4. CreditedIsCollected' /\ PaidIsCredited' /\ HeldIsAudited'
      BY <2>1, <1>i DEF CreditedIsCollected, PaidIsCredited, HeldIsAudited
    <2> QED BY <2>2, <2>3, <2>4 DEF IInv
  <1>13. ASSUME NEW d \in Deliveries, Hold(d) PROVE IInv'
    <2>1. /\ delivery[d].call = "hold" /\ Target(d) \in Intents /\ Target(d) \in audited
          /\ held' = held \cup {Target(d)}
          /\ \E kind \in Answers : Answer(d, kind)
          /\ UNCHANGED <<status, txn, audited, create, charge, hooks, bal, used,
                         acked, faults>>
      BY <1>13, <1>i, TargetType DEF Hold, Busy, Answers, bookVars, CallsFitHooks, Target
    <2>2. /\ faults' \in Nat /\ status' \in [Intents -> Statuses] /\ held' \subseteq Intents
          /\ bal' \in [Accounts -> Nat] /\ used' \subseteq Intents /\ acked' \subseteq used'
      BY <2>1, <1>i DEF TypeOK
    <2>3. TypeOK' /\ HooksAreTrue' /\ ChargeAfterInsert' /\ CallsFitHooks'
      BY <2>1, <2>2, <1>8
    <2>4. CreditedIsCollected' /\ HeldIsAudited' /\ PaidIsCredited'
      BY <2>1, <1>i DEF CreditedIsCollected, HeldIsAudited, PaidIsCredited
    <2> QED BY <2>3, <2>4 DEF IInv
  <1>14. ASSUME NEW d \in Deliveries, Busy(d, "credit"), Topup(d),
                UNCHANGED <<status, held, audited, charge>>
         PROVE  /\ CreditedIsCollected' /\ PaidIsCredited' /\ HeldIsAudited'
                /\ bal' \in [Accounts -> Nat] /\ used' \subseteq Intents
                /\ acked' \subseteq used' /\ used' = used \cup {Target(d)}
    <2>1. Target(d) \in Intents /\ charge[Target(d)] = "full"
      BY <1>14, <1>i, TargetType DEF Busy, CallsFitHooks, HooksAreTrue, Target
    <2>2. /\ bal' \in [Accounts -> Nat] /\ acked' \subseteq used'
          /\ used' = used \cup {Target(d)}
      BY <2>1, <1>14, <1>i, TopupType
    <2>3. used' \subseteq Intents
      BY <2>1, <2>2, <1>i DEF TypeOK
    <2>4. CreditedIsCollected' /\ PaidIsCredited' /\ HeldIsAudited'
      BY <2>1, <2>2, <1>14, <1>i DEF CreditedIsCollected, PaidIsCredited, HeldIsAudited
    <2> QED BY <2>2, <2>3, <2>4
  <1>15. ASSUME NEW d \in Deliveries, Credit(d) PROVE IInv'
    <2>1. /\ delivery[d].call = "credit" /\ Busy(d, "credit") /\ Topup(d)
          /\ Continue(d, "mark")
          /\ UNCHANGED <<status, txn, held, audited, create, charge, hooks,
                         answered, faults>>
      BY <1>15 DEF Credit, Busy, rowVars
    <2>2. /\ CreditedIsCollected' /\ PaidIsCredited' /\ HeldIsAudited'
          /\ bal' \in [Accounts -> Nat] /\ used' \subseteq Intents
          /\ acked' \subseteq used' /\ used' = used \cup {Target(d)}
      BY <2>1, <1>14
    <2>3. TypeOK' /\ HooksAreTrue' /\ ChargeAfterInsert'
      <3>1. audited' \subseteq Intents
        BY <2>1, <1>i DEF TypeOK
      <3>2. "mark" \in Calls \ {"idle"}
        BY DEF Calls
      <3> QED BY <2>1, <2>2, <3>1, <3>2, <1>9
    <2>4. CallsFitHooks'
      <3>1. /\ \A e \in Deliveries \ {d} : delivery'[e] = delivery[e]
            /\ delivery'[d].call = "mark" /\ delivery'[d].hook = delivery[d].hook
        BY <2>1, <1>i, ContinueType DEF Calls
      <3> QED BY <2>1, <2>2, <3>1, <1>i DEF CallsFitHooks, Target
    <2> QED BY <2>2, <2>3, <2>4 DEF IInv
  <1>16. ASSUME NEW d \in Deliveries, CreditFails(d) \/ DeliveryLost(d) PROVE IInv'
    <2>1. /\ delivery[d].call # "idle" /\ faults' \in Nat /\ GiveUp(d)
          /\ UNCHANGED <<status, txn, held, audited, create, charge, hooks>>
      <3>1. CASE CreditFails(d)
        <4>1. Fault /\ delivery[d].call = "credit" /\ GiveUp(d)
          BY <3>1 DEF CreditFails, Busy
        <4> QED BY <4>1, <3>1, <1>f DEF CreditFails, rowVars
      <3>2. CASE DeliveryLost(d)
        <4>1. Fault /\ delivery[d].call # "idle" /\ GiveUp(d)
          BY <3>2 DEF DeliveryLost, Busy
        <4> QED BY <4>1, <3>2, <1>f DEF DeliveryLost, rowVars
      <3> QED BY <3>1, <3>2, <1>16
    <2>2. (Busy(d, "credit") /\ Topup(d)) \/ UNCHANGED <<bal, used, acked>>
      BY <1>16 DEF CreditFails, DeliveryLost, bookVars
    <2>3. /\ CreditedIsCollected' /\ PaidIsCredited' /\ HeldIsAudited'
          /\ bal' \in [Accounts -> Nat] /\ used' \subseteq Intents
          /\ acked' \subseteq used' /\ used \subseteq used'
      <3>1. CASE Busy(d, "credit") /\ Topup(d)
        BY <2>1, <3>1, <1>14
      <3>2. CASE UNCHANGED <<bal, used, acked>>
        BY <2>1, <3>2, <1>i DEF TypeOK, CreditedIsCollected, PaidIsCredited, HeldIsAudited
      <3> QED BY <2>2, <3>1, <3>2
    <2>4. status' \in [Intents -> Statuses] /\ held' \subseteq Intents
      BY <2>1, <1>i DEF TypeOK
    <2>5. TypeOK' /\ HooksAreTrue' /\ ChargeAfterInsert' /\ CallsFitHooks'
      BY <2>1, <2>3, <2>4, <1>8
    <2> QED BY <2>3, <2>5 DEF IInv
  <1>17. CASE UNCHANGED vars
    <2>1. TypeOK'
      BY <1>17, <1>i DEF vars, TypeOK
    <2>2. HooksAreTrue' /\ CallsFitHooks' /\ ChargeAfterInsert'
      BY <1>17, <1>i DEF vars, HooksAreTrue, CallsFitHooks, ChargeAfterInsert
    <2>3. CreditedIsCollected' /\ PaidIsCredited' /\ HeldIsAudited'
      BY <1>17, <1>i DEF vars, CreditedIsCollected, PaidIsCredited, HeldIsAudited
    <2> QED BY <2>1, <2>2, <2>3 DEF IInv
  <1> QED
    BY <1>1, <1>2, <1>3, <1>4, <1>5, <1>6, <1>7, <1>10, <1>11, <1>12, <1>13, <1>15, <1>16,
       <1>17 DEF Next, CreateStep, HookStep
-----------------------------------------------------------------------------
(* The inductive invariant holds in every reachable state. *)
LEMMA Inductive == Spec => []IInv
  BY InitIInv, NextIInv, PTL DEF Spec

(* Every variable keeps its type; in particular an acknowledged intent has  *)
(* been credited.                                                          *)
THEOREM TypeCorrect == Spec => []TypeOK
  <1>1. IInv => TypeOK
    BY DEF IInv
  <1> QED BY Inductive, <1>1, PTL

(* A balance is credited only for intents whose charge the provider        *)
(* collected to the cent: confirmIntent credits nothing on the word of the *)
(* client, of a failed event or of one with another amount, however many   *)
(* webhooks come, in whatever order.                                       *)
THEOREM OnlyCollectedIsCredited == Spec => []CreditedIsCollected
  <1>1. IInv => CreditedIsCollected
    BY DEF IInv
  <1> QED BY Inductive, <1>1, PTL

(* An intent marked paid has its credit in the ledger, whatever failure     *)
(* comes between the two writes of confirmIntent.                           *)
THEOREM PaidWasCredited == Spec => []PaidIsCredited
  <1>1. IInv => PaidIsCredited
    BY DEF IInv
  <1> QED BY Inductive, <1>1, PTL

-----------------------------------------------------------------------------
(* What the balances add up to. *)

(* The cents of one more intent join those of its account.                  *)
LEMMA CentsOfMore ==
    ASSUME NEW I, NEW i, NEW a
    PROVE  /\ AccountOf[i] = a =>
                CentsOf(a, I \cup {i}) = CentsOf(a, I) \cup ({i} \X (1 .. AmountOf[i]))
           /\ AccountOf[i] # a => CentsOf(a, I \cup {i}) = CentsOf(a, I)
  <1> DEFINE Of(j) == {j} \X (1 .. AmountOf[j])
             Mine(J) == {j \in J : AccountOf[j] = a}
  <1>1. \A J : CentsOf(a, J) = UNION {Of(j) : j \in Mine(J)}
    BY DEF CentsOf
  <1>2. AccountOf[i] = a => Mine(I \cup {i}) = Mine(I) \cup {i}
    OBVIOUS
  <1>3. AccountOf[i] # a => Mine(I \cup {i}) = Mine(I)
    OBVIOUS
  <1> HIDE DEF Of, Mine
  <1>4. UNION {Of(j) : j \in Mine(I) \cup {i}} = (UNION {Of(j) : j \in Mine(I)}) \cup Of(i)
    OBVIOUS
  <1>5. /\ AccountOf[i] = a => CentsOf(a, I \cup {i}) = CentsOf(a, I) \cup Of(i)
        /\ AccountOf[i] # a => CentsOf(a, I \cup {i}) = CentsOf(a, I)
    <2>1. /\ CentsOf(a, I) = UNION {Of(j) : j \in Mine(I)}
          /\ CentsOf(a, I \cup {i}) = UNION {Of(j) : j \in Mine(I \cup {i})}
      BY <1>1
    <2>2. CASE AccountOf[i] = a
      <3>1. Mine(I \cup {i}) = Mine(I) \cup {i}
        BY <1>2, <2>2
      <3> QED BY <2>1, <2>2, <3>1, <1>4, Zenon
    <2>3. CASE AccountOf[i] # a
      <3>1. Mine(I \cup {i}) = Mine(I)
        BY <1>3, <2>3
      <3> QED BY <2>1, <2>3, <3>1, Zenon
    <2> QED BY <2>2, <2>3
  <1> QED BY <1>5 DEF Of

(* One more intent brings its cents to its own account, and to no other.    *)
LEMMA AddCents ==
    ASSUME NEW I \in SUBSET Intents, NEW i \in Intents \ I, NEW a \in Accounts,
           IsFiniteSet(CentsOf(a, I))
    PROVE  /\ IsFiniteSet(CentsOf(a, I \cup {i}))
           /\ Cardinality(CentsOf(a, I \cup {i})) =
                Cardinality(CentsOf(a, I)) + (IF AccountOf[i] = a THEN AmountOf[i] ELSE 0)
           /\ Cardinality(CentsOf(a, I)) \in Nat
  <1> DEFINE C == CentsOf(a, I)
             D == {i} \X (1 .. AmountOf[i])
  <1>1. AmountOf[i] \in Nat \ {0}
    BY TopupAssumption
  <1>2. IsFiniteSet(1 .. AmountOf[i]) /\ Cardinality(1 .. AmountOf[i]) = AmountOf[i]
    BY <1>1, FS_Interval
  <1>3. IsFiniteSet({i}) /\ Cardinality({i}) = 1
    BY FS_Singleton
  <1>4. IsFiniteSet(D) /\ Cardinality(D) = AmountOf[i]
    <2>1. IsFiniteSet(D) /\ Cardinality(D) = Cardinality({i}) * Cardinality(1 .. AmountOf[i])
      BY <1>2, <1>3, FS_Product
    <2>2. \A n \in Nat : 1 * n = n
      OBVIOUS
    <2> QED BY <1>1, <1>2, <1>3, <2>1, <2>2
  <1>5. C \cap D = {}
    BY DEF CentsOf
  <1>d. Cardinality(C \cap D) = 0
    BY <1>5, FS_EmptySet
  <1>6. Cardinality(C) \in Nat
    BY FS_CardinalityType
  <1>7. CASE AccountOf[i] = a
    <2>1. CentsOf(a, I \cup {i}) = C \cup D
      BY <1>7, CentsOfMore
    <2>2. /\ IsFiniteSet(C \cup D)
          /\ Cardinality(C \cup D) = Cardinality(C) + Cardinality(D) - Cardinality(C \cap D)
      BY <1>4, FS_Union
    <2> HIDE DEF C, D
    <2>3. Cardinality(C \cup D) = Cardinality(C) + AmountOf[i]
      BY <2>2, <1>1, <1>4, <1>d, <1>6
    <2>4. IsFiniteSet(CentsOf(a, I \cup {i})) /\ Cardinality(CentsOf(a, I \cup {i})) =
            Cardinality(C) + AmountOf[i]
      BY <2>1, <2>2, <2>3
    <2> QED BY <2>4, <1>6, <1>7 DEF C
  <1>8. CASE AccountOf[i] # a
    <2>1. CentsOf(a, I \cup {i}) = C
      BY <1>8, CentsOfMore
    <2> QED BY <2>1, <1>6, <1>8
  <1> QED BY <1>7, <1>8

(* A charge that is collected in full is one collected intent more.          *)
LEMMA CollectKeepsBalance ==
    ASSUME IInv, BalanceIsCredited, NEW i \in Intents, NEW full \in BOOLEAN,
           Collect(i, full)
    PROVE  BalanceIsCredited'
  <1>1. /\ bal' = bal /\ used' = used
        /\ CollectedIntents' \in {CollectedIntents, CollectedIntents \cup {i}}
        /\ i \notin CollectedIntents /\ CollectedIntents \subseteq Intents
    BY DEF Collect, CollectedIntents, IInv, TypeOK, bookVars
  <1> SUFFICES ASSUME NEW a \in Accounts
               PROVE  IsFiniteSet(CentsOf(a, CollectedIntents'))
    BY <1>1 DEF BalanceIsCredited, CentsOf
  <1>2. IsFiniteSet(CentsOf(a, CollectedIntents))
    BY DEF BalanceIsCredited
  <1> QED BY <1>1, <1>2, AddCents

(* A top-up moves the amount of its intent the first time, and nothing later. *)
LEMMA TopupKeepsBalance ==
    ASSUME IInv, BalanceIsCredited, NEW d \in Deliveries, Busy(d, "credit"), Topup(d),
           charge' = charge
    PROVE  BalanceIsCredited'
  <1>i. TypeOK /\ CreditedIsCollected
    BY DEF IInv
  <1>1. Target(d) \in Intents
    BY <1>i, TargetType DEF Busy
  <1>2. CollectedIntents' = CollectedIntents /\ used \subseteq CollectedIntents
        /\ used \subseteq Intents
    BY <1>i DEF CollectedIntents, CreditedIsCollected, TypeOK
  <1>3. CASE LedgerKey(d) \in used /\ UNCHANGED <<bal, used>>
    BY <1>2, <1>3 DEF BalanceIsCredited, CentsOf
  <1>4. CASE /\ LedgerKey(d) \notin used
             /\ bal' = [bal EXCEPT ![AccountOf[Target(d)]] = @ + AmountOf[Target(d)]]
             /\ used' = used \cup {LedgerKey(d)}
    <2> SUFFICES ASSUME NEW a \in Accounts
                 PROVE  bal'[a] = Cardinality(CentsOf(a, used'))
      BY <1>2 DEF BalanceIsCredited, CentsOf
    <2>1. Target(d) \in Intents \ used /\ used' = used \cup {Target(d)}
      BY <1>1, <1>4 DEF LedgerKey
    <2>2. CentsOf(a, used) \subseteq CentsOf(a, CollectedIntents)
      BY <1>2 DEF CentsOf
    <2>3. IsFiniteSet(CentsOf(a, used))
      BY <2>2, FS_Subset DEF BalanceIsCredited
    <2>4. Cardinality(CentsOf(a, used')) = Cardinality(CentsOf(a, used))
             + (IF AccountOf[Target(d)] = a THEN AmountOf[Target(d)] ELSE 0)
          /\ Cardinality(CentsOf(a, used)) \in Nat
      BY <1>2, <2>1, <2>3, AddCents
    <2>5. bal[a] = Cardinality(CentsOf(a, used))
      BY DEF BalanceIsCredited
    <2>6. bal'[a] = bal[a] + (IF AccountOf[Target(d)] = a THEN AmountOf[Target(d)] ELSE 0)
      BY <1>4, <1>i, <2>4, <2>5 DEF TypeOK
    <2> QED BY <2>4, <2>5, <2>6
  <1> QED BY <1>3, <1>4 DEF Topup

(* The balance stays the sum of what was credited.                          *)
LEMMA BalanceStep ==
    ASSUME IInv, BalanceIsCredited, [Next]_vars
    PROVE  BalanceIsCredited'
  <1>1. CASE UNCHANGED <<bal, used>> /\ CollectedIntents' = CollectedIntents
    BY <1>1 DEF BalanceIsCredited, CentsOf
  <1>2. ASSUME NEW i \in Intents, ChargeAccepted(i) \/ ChargeThrows(i)
        PROVE  BalanceIsCredited'
    <2>1. charge[i] = "none" /\ charge' \in {charge, [charge EXCEPT ![i] = "open"]}
          /\ UNCHANGED <<bal, used>>
      BY <1>2 DEF ChargeAccepted, ChargeThrows, IInv, ChargeAfterInsert, bookVars
    <2>2. CollectedIntents' = CollectedIntents
      BY <2>1 DEF CollectedIntents, IInv, TypeOK
    <2> QED BY <2>1, <2>2, <1>1
  <1>3. ASSUME NEW i \in Intents,
               InsertIntent(i) \/ SaveTransaction(i) \/ FailCreated(i) \/ CreateLost(i)
                 \/ AttemptFails(i)
        PROVE  BalanceIsCredited'
    BY <1>3, <1>1 DEF InsertIntent, SaveTransaction, FailCreated, CreateLost, AttemptFails,
       CollectedIntents, bookVars
  <1>4. ASSUME NEW d \in Deliveries, NEW h \in hooks, Receive(d, h)
        PROVE  BalanceIsCredited'
    BY <1>4, <1>1 DEF Receive, CollectedIntents, bookVars
  <1>5. ASSUME NEW d \in Deliveries,
               HookStep(d) \/ CreditFails(d) \/ DeliveryLost(d)
        PROVE  BalanceIsCredited'
    <2>1. charge' = charge /\ ((Busy(d, "credit") /\ Topup(d)) \/ UNCHANGED <<bal, used>>)
      BY <1>5 DEF HookStep, Find, MarkFailed, Audit, Hold, Credit, MarkPaid, CreditFails,
         DeliveryLost, bookVars
    <2> QED BY <2>1, <1>1, TopupKeepsBalance DEF CollectedIntents
  <1>6. CASE UNCHANGED vars
    BY <1>6, <1>1 DEF vars, CollectedIntents
  <1> QED BY <1>2, <1>3, <1>4, <1>5, <1>6, CollectKeepsBalance DEF Next, CreateStep

(* The inductive invariant and the balances hold throughout.                *)
LEMMA BalanceInductive == Spec => [](IInv /\ BalanceIsCredited)
  <1>1. Init => BalanceIsCredited
    <2> SUFFICES ASSUME Init, NEW a \in Accounts
                 PROVE  /\ bal[a] = Cardinality(CentsOf(a, used))
                        /\ IsFiniteSet(CentsOf(a, CollectedIntents))
      BY DEF BalanceIsCredited
    <2>1. used = {} /\ CollectedIntents = {} /\ bal[a] = 0
      BY DEF Init, Ledger!BookInit, CollectedIntents
    <2>2. CentsOf(a, {}) = {}
      BY DEF CentsOf
    <2> QED BY <2>1, <2>2, FS_EmptySet
  <1>2. IInv /\ BalanceIsCredited /\ [Next]_vars => BalanceIsCredited'
    BY BalanceStep
  <1> QED BY <1>1, <1>2, Inductive, PTL DEF Spec

(* No account ever holds more than the provider collected for it, to the    *)
(* cent, however often and however concurrently webhooks are delivered and  *)
(* whatever fails between the credit and the mark.                          *)
THEOREM CreditNeverExceedsCollection == Spec => []NeverMoreThanCollected
  <1>1. IInv /\ BalanceIsCredited => NeverMoreThanCollected
    <2> SUFFICES ASSUME IInv, BalanceIsCredited, NEW a \in Accounts
                 PROVE  bal[a] <= Collected(a)
      BY DEF NeverMoreThanCollected
    <2>1. used \subseteq CollectedIntents
      BY DEF IInv, TypeOK, CreditedIsCollected, CollectedIntents
    <2>2. CentsOf(a, used) \subseteq CentsOf(a, CollectedIntents)
      BY <2>1 DEF CentsOf
    <2> QED BY <2>2, FS_Subset DEF BalanceIsCredited, Collected
  <1> QED BY <1>1, BalanceInductive, PTL

(* holdForReview leaves no review reason without its row in the audit log. *)
THEOREM ReviewIsAudited == Spec => []HeldIsAudited
  <1>1. IInv => HeldIsAudited
    BY DEF IInv
  <1> QED BY Inductive, <1>1, PTL
=============================================================================
