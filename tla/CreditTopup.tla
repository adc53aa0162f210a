---------------------------- MODULE CreditTopup ----------------------------
(***************************************************************************)
(* Online top-ups: CreditTopupService (createIntent, confirmIntent) and    *)
(* CreditTopupWebhookService of apps/api/src/features/credits.  A customer *)
(* starts an intent, the provider is asked for a charge, and the provider's *)
(* signed webhooks confirm it; only then is the balance credited.          *)
(*                                                                         *)
(* The stored-value ledger is the book it implements (CreditBook): a       *)
(* top-up is one Move under the key of the intent, or an acknowledgement   *)
(* of an earlier one.  The provider is external: it may accept a charge    *)
(* without its answer arriving, report a failed attempt before a           *)
(* successful one, collect a wrong amount, and deliver webhooks in any     *)
(* order and more than once.  Signatures, limits and currencies are taken  *)
(* as checked: a webhook here is a verified one.                           *)
(***************************************************************************)
EXTENDS Integers, FiniteSets

CONSTANTS
    Intents,        \* top-ups customers start
    Accounts,
    AccountOf,      \* AccountOf[i]: the account of the card of intent i
    AmountOf,       \* AmountOf[i]: amountCents
    ByTransaction,  \* intents the provider names by its transaction id only
    Deliveries,     \* webhook deliveries handled at one time
    MaxFaults       \* bound of the model: evictions, failures, redeliveries

ASSUME TopupAssumption ==
    /\ AccountOf \in [Intents -> Accounts]
    /\ AmountOf \in [Intents -> Nat \ {0}]
    /\ ByTransaction \subseteq Intents
    /\ MaxFaults \in Nat

VARIABLES
    status,     \* status[i] of credit_topup_intents; "none": no row
    txn,        \* intents whose provider_transaction_id is stored
    held,       \* intents with a review reason in error_code
    audited,    \* intents with a failure row in payment_audit_log
    create,     \* create[i]: the call createIntent is about to make
    charge,     \* charge[i]: the charge at the provider
    hooks,      \* the events the provider reports
    answered,   \* hooks[h]: how the events answered with 2xx were answered
    delivery,   \* delivery[d]: the call a webhook delivery is about to make
    bal, used, acked,   \* the book of the ledger
    faults

providerVars == <<charge, hooks>>
bookVars == <<bal, used, acked>>
rowVars == <<status, txn, held, audited>>
vars == <<status, txn, held, audited, create, charge, hooks, answered,
          delivery, bal, used, acked, faults>>

Ledger == INSTANCE CreditBook

Statuses == {"none", "pending", "paid", "failed"}
CreateStages == {"new", "charge", "save", "fail", "done"}
Charges == {"none", "open", "full", "short"}
Hook == [intent : Intents, status : {"paid", "failed"}, full : BOOLEAN]
Calls == {"idle", "find", "fail", "audit", "hold", "credit", "mark"}
Answers == {"duplicate", "failed", "review", "credited"}

NoHook == [intent |-> "none", status |-> "none", full |-> FALSE]
Idle == [call |-> "idle", hook |-> NoHook]

Init ==
    /\ status = [i \in Intents |-> "none"]
    /\ txn = {}
    /\ held = {}
    /\ audited = {}
    /\ create = [i \in Intents |-> "new"]
    /\ charge = [i \in Intents |-> "none"]
    /\ hooks = {}
    /\ answered = {}
    /\ delivery = [d \in Deliveries |-> Idle]
    /\ Ledger!BookInit
    /\ faults = 0

Fault == faults < MaxFaults /\ faults' = faults + 1
-----------------------------------------------------------------------------
(* createIntent *)

GoOn(i, stage) == create' = [create EXCEPT ![i] = stage]

InsertIntent(i) ==
    /\ create[i] = "new"
    /\ status' = [status EXCEPT ![i] = "pending"]
    /\ GoOn(i, "charge")
    /\ UNCHANGED <<txn, held, audited, charge, hooks, answered, delivery,
                   bal, used, acked, faults>>

(* The provider accepts the charge and says so. *)
ChargeAccepted(i) ==
    /\ create[i] = "charge"
    /\ charge' = [charge EXCEPT ![i] = "open"]
    /\ GoOn(i, "save")
    /\ UNCHANGED <<rowVars, hooks, answered, delivery, bookVars, faults>>

(* createCharge throws: the provider refused, or it accepted and its answer *)
(* was lost or not understood.                                              *)
ChargeThrows(i) ==
    /\ create[i] = "charge"
    /\ Fault
    /\ \/ charge' = [charge EXCEPT ![i] = "open"]
       \/ UNCHANGED charge
    /\ GoOn(i, "fail")
    /\ UNCHANGED <<rowVars, hooks, answered, delivery, bookVars>>

SaveTransaction(i) ==
    /\ create[i] = "save"
    /\ txn' = txn \cup {i}
    /\ GoOn(i, "done")
    /\ UNCHANGED <<status, held, audited, charge, hooks, answered,
                   delivery, bookVars, faults>>

FailCreated(i) ==
    /\ create[i] = "fail"
    /\ status' = [status EXCEPT ![i] = "failed"]
    /\ GoOn(i, "done")
    /\ UNCHANGED <<txn, held, audited, charge, hooks, answered, delivery,
                   bookVars, faults>>

(* The isolate is evicted, or the database fails. *)
CreateLost(i) ==
    /\ create[i] \in {"charge", "save", "fail"}
    /\ Fault
    /\ GoOn(i, "done")
    /\ UNCHANGED <<rowVars, charge, hooks, answered, delivery, bookVars>>
-----------------------------------------------------------------------------
(* The provider. *)

Report(i, outcome, full) ==
    hooks' = hooks \cup {[intent |-> i, status |-> outcome, full |-> full]}

(* The customer pays the charge, in full or not. *)
Collect(i, full) ==
    /\ charge[i] = "open"
    /\ charge' = [charge EXCEPT ![i] = IF full THEN "full" ELSE "short"]
    /\ Report(i, "paid", full)
    /\ UNCHANGED <<rowVars, create, answered, delivery, bookVars, faults>>

(* An attempt to pay fails; the customer may try again. *)
AttemptFails(i) ==
    /\ charge[i] = "open"
    /\ Report(i, "failed", FALSE)
    /\ UNCHANGED <<rowVars, create, charge, answered, delivery, bookVars,
                   faults>>

-----------------------------------------------------------------------------
(* CreditTopupWebhookService.handle and confirmIntent *)

Busy(d, call) == delivery[d].call = call
Target(d) == delivery[d].hook.intent

Continue(d, call) ==
    delivery' = [delivery EXCEPT ![d] = [call |-> call, hook |-> @.hook]]

(* The delivery is answered with 2xx: the provider stops sending the event. *)
Answer(d, kind) ==
    /\ delivery' = [delivery EXCEPT ![d] = Idle]
    /\ answered' = answered \cup {[hook |-> delivery[d].hook, kind |-> kind]}

(* ... with an error, or not at all: the provider sends it again. *)
GiveUp(d) ==
    /\ delivery' = [delivery EXCEPT ![d] = Idle]
    /\ UNCHANGED answered

Acked(h) == \E a \in answered : a.hook = h

(* The provider delivers an event, again if it was not answered or if its   *)
(* record of the answer was lost.                                           *)
Receive(d, h) ==
    /\ delivery[d] = Idle
    /\ h \in hooks
    /\ IF Acked(h) THEN Fault ELSE UNCHANGED faults
    /\ delivery' = [delivery EXCEPT ![d] = [call |-> "find", hook |-> h]]
    /\ UNCHANGED <<rowVars, create, charge, hooks, answered, bookVars>>

(* findIntent *)
Known(i) == status[i] # "none" /\ (i \in ByTransaction => i \in txn)

(* Mutant: the amount the provider collected is not compared. *)
CallUnverified(h) == IF h.status = "failed" THEN "fail" ELSE "credit"

(* Mutant: the intent is marked before the balance is credited. *)
MarkFirst(h) ==
    IF h.status = "failed" THEN "fail" ELSE IF h.full THEN "mark" ELSE "audit"

(* What a pending intent calls for. *)
CallFor(h) ==
    IF h.status = "failed" THEN "fail" ELSE IF h.full THEN "credit" ELSE "audit"

AnswerSettled(d) == Answer(d, "duplicate")

Find(d) ==
    LET i == Target(d)
    IN  /\ Busy(d, "find")
        /\ \/ ~Known(i) /\ GiveUp(d)
           \/ Known(i) /\ status[i] # "pending" /\ AnswerSettled(d)
           \/ /\ Known(i) /\ status[i] = "pending"
              /\ Continue(d, CallFor(delivery[d].hook))
              /\ UNCHANGED answered
        /\ UNCHANGED <<rowVars, create, charge, hooks, bookVars, faults>>

MarkFailed(d) ==
    /\ Busy(d, "fail")
    /\ status' = [status EXCEPT ![Target(d)] = "failed"]
    /\ Answer(d, "failed")
    /\ UNCHANGED <<txn, held, audited, create, charge, hooks, bookVars,
                   faults>>

(* holdForReview: the audit row first, then the reason. *)
Audit(d) ==
    /\ Busy(d, "audit")
    /\ audited' = audited \cup {Target(d)}
    /\ Continue(d, "hold")
    /\ UNCHANGED <<status, txn, held, create, charge, hooks, answered,
                   bookVars, faults>>

Hold(d) ==
    /\ Busy(d, "hold")
    /\ held' = held \cup {Target(d)}
    /\ Answer(d, "review")
    /\ UNCHANGED <<status, txn, audited, create, charge, hooks, bookVars,
                   faults>>

(* Mutant: the ledger key names the delivery. *)
KeyOfDelivery(d) == d

(* ledgerKey *)
LedgerKey(d) == Target(d)

(* Mutant: the ledger refuses a used key. *)
FreshTopup(d) ==
    LET a == AccountOf[Target(d)]
    IN  /\ LedgerKey(d) \notin used
        /\ bal' = [bal EXCEPT ![a] = @ + AmountOf[Target(d)]]
        /\ used' = used \cup {LedgerKey(d)}
        /\ Ledger!Move(a)

(* The ledger moves the money of a fresh key, and acknowledges a used one. *)
Topup(d) ==
    LET a == AccountOf[Target(d)]
    IN  \/ /\ LedgerKey(d) \notin used
           /\ bal' = [bal EXCEPT ![a] = @ + AmountOf[Target(d)]]
           /\ used' = used \cup {LedgerKey(d)}
           /\ Ledger!Move(a)
        \/ /\ LedgerKey(d) \in used
           /\ UNCHANGED <<bal, used>>
           /\ acked' = acked \cup {LedgerKey(d)}

Credit(d) ==
    /\ Busy(d, "credit")
    /\ Topup(d)
    /\ LedgerKey(d) \in acked'
    /\ Continue(d, "mark")
    /\ UNCHANGED <<rowVars, create, charge, hooks, answered, faults>>

(* The top-up fails, whether or not it moved the money. *)
CreditFails(d) ==
    /\ Busy(d, "credit")
    /\ Fault
    /\ \/ Topup(d)
       \/ UNCHANGED bookVars
    /\ GiveUp(d)
    /\ UNCHANGED <<rowVars, create, charge, hooks>>

MarkPaid(d) ==
    /\ Busy(d, "mark")
    /\ status' = [status EXCEPT ![Target(d)] = "paid"]
    /\ Answer(d, "credited")
    /\ UNCHANGED <<txn, held, audited, create, charge, hooks, bookVars,
                   faults>>

DeliveryLost(d) ==
    /\ ~Busy(d, "idle")
    /\ Fault
    /\ GiveUp(d)
    /\ UNCHANGED <<rowVars, create, charge, hooks, bookVars>>

CreateStep(i) ==
    InsertIntent(i) \/ ChargeAccepted(i) \/ SaveTransaction(i) \/ FailCreated(i)

HookStep(d) ==
    Find(d) \/ MarkFailed(d) \/ Audit(d) \/ Hold(d) \/ Credit(d) \/ MarkPaid(d)

Next ==
    \/ \E i \in Intents :
         \/ CreateStep(i) \/ ChargeThrows(i) \/ CreateLost(i)
         \/ \E full \in BOOLEAN : Collect(i, full)
         \/ AttemptFails(i)
    \/ \E d \in Deliveries :
         \/ \E h \in hooks : Receive(d, h)
         \/ HookStep(d) \/ CreditFails(d) \/ DeliveryLost(d)

Spec == Init /\ [][Next]_vars

(* Requests run on; the provider redelivers what was not answered. *)
Fairness ==
    /\ \A i \in Intents : WF_vars(CreateStep(i))
    /\ \A d \in Deliveries : WF_vars(HookStep(d))
    /\ \A h \in Hook : SF_vars(\E d \in Deliveries : ~Acked(h) /\ Receive(d, h))

FairSpec == Spec /\ Fairness
-----------------------------------------------------------------------------
(* Every variable has its type. *)
TypeOK ==
    /\ status \in [Intents -> Statuses]
    /\ txn \subseteq Intents
    /\ held \subseteq Intents
    /\ audited \subseteq Intents
    /\ create \in [Intents -> CreateStages]
    /\ charge \in [Intents -> Charges]
    /\ hooks \subseteq Hook
    /\ answered \subseteq [hook : Hook, kind : Answers]
    /\ delivery \in [Deliveries -> [call : Calls, hook : Hook \cup {NoHook}]]
    /\ \A d \in Deliveries : delivery[d].call # "idle" => delivery[d].hook \in hooks
    /\ bal \in [Accounts -> Nat]
    /\ used \subseteq Intents
    /\ acked \subseteq used
    /\ faults \in Nat

(* "The client is never trusted": a balance is credited only for an intent  *)
(* whose charge the provider collected to the cent, however webhooks are    *)
(* repeated, reordered or handled at the same time.                         *)
CreditedIsCollected == \A i \in used : charge[i] = "full"

CollectedIntents == {i \in Intents : charge[i] = "full"}

(* The cents of the intents I of account a, one by one. *)
CentsOf(a, I) ==
    UNION {{i} \X (1 .. AmountOf[i]) : i \in {j \in I : AccountOf[j] = a}}

Collected(a) == Cardinality(CentsOf(a, CollectedIntents))

(* "Duplicate webhooks never double-credit": no account ever holds more     *)
(* than was collected for it.                                               *)
NeverMoreThanCollected == \A a \in Accounts : bal[a] <= Collected(a)

(* An intent the customer sees paid has its credit in the ledger, also when *)
(* the handler dies between the two.                                        *)
PaidIsCredited == \A i \in Intents : status[i] = "paid" => i \in used

(* What is held for review is in the audit log: a review reason without its *)
(* failure row would leave the reviewer without the provider's payload.     *)
HeldIsAudited == held \subseteq audited

(* A credit does not stay behind an intent shown as pending: if the handler *)
(* dies after crediting, a redelivery finds the key used and settles it.    *)
CreditIsRecorded ==
    \A i \in Intents : i \in used ~> status[i] # "pending"

(* "A re-delivered webhook for an already-paid intent returns `duplicate`": *)
(* a payment that is answered so was credited before.                       *)
DuplicateWasCredited ==
    \A a \in answered :
        a.kind = "duplicate" /\ a.hook.status = "paid" => a.hook.intent \in used
-----------------------------------------------------------------------------
(* What makes CreditedIsCollected and PaidIsCredited inductive.             *)

HooksAreTrue ==
    \A h \in hooks : h.status = "paid" /\ h.full => charge[h.intent] = "full"

CallsFitHooks ==
    \A d \in Deliveries :
        /\ delivery[d].call \in {"credit", "mark"} =>
             delivery[d].hook.status = "paid" /\ delivery[d].hook.full
        /\ delivery[d].call = "mark" => delivery[d].hook.intent \in used
        /\ delivery[d].call = "hold" => delivery[d].hook.intent \in audited

ChargeAfterInsert == \A i \in Intents : create[i] \in {"new", "charge"} => charge[i] = "none"

(* The balance is the sum of what was credited, and only finitely many      *)
(* intents have been paid so far.                                           *)
BalanceIsCredited ==
    \A a \in Accounts :
        /\ bal[a] = Cardinality(CentsOf(a, used))
        /\ IsFiniteSet(CentsOf(a, CollectedIntents))

IInv ==
    /\ TypeOK
    /\ HooksAreTrue
    /\ CallsFitHooks
    /\ ChargeAfterInsert
    /\ CreditedIsCollected
    /\ PaidIsCredited
    /\ HeldIsAudited
=============================================================================
