---------------------------- MODULE CreditLedger ----------------------------
(***************************************************************************)
(* The stored-value ("credits") ledger of                                  *)
(* apps/api/src/features/credits/services/CreditService.ts.                *)
(*                                                                         *)
(* Every database call of the service is awaited, and D1 has no            *)
(* transaction that spans two of them, so each call is an action here and  *)
(* other requests run in between.  D1 executes one batch atomically:       *)
(* applyLedgerMovement and one account of the expiry sweep are one action  *)
(* each.                                                                   *)
(*                                                                         *)
(* A card is issued together with its own account and no code re-issues    *)
(* one, so a card is named by its account.  credit_accounts.status is      *)
(* always 'active' (no code writes it) and is left out, and so are the     *)
(* checks of an amount's alignment and upper limit: `Inputs' holds bodies  *)
(* that pass them.                                                         *)
(***************************************************************************)
EXTENDS Integers, Sequences, FiniteSets

CONSTANTS
    Accounts,       \* accounts (and their cards)
    Reqs,           \* calls of spend, topup, refund, refundByOriginalSpend
    Keys,           \* idempotency keys chosen by callers
    Sources,        \* (sourceType, sourceId) pairs
    Currencies,
    CurrencyOf,     \* the currency an account is issued in, fixed for life
    Inputs,         \* the request bodies to consider, a subset of InputType
    Openings,       \* opening balances an admin may issue a card with
    Managed,        \* bound of the model: cards an admin changes later
    NewStatuses,    \* bound of the model: statuses an admin gives them
    Sweepers,       \* runs of the daily expiry worker
    SweepLimit,     \* accounts one scan returns at most
    PinThreshold,   \* a larger spend needs the PIN
    MaxPinRetries,
    PinLock,        \* PIN_LOCK_MS, in ticks
    Period,         \* CREDIT_ROLLING_EXPIRY_MS, in ticks
    MaxLatency,     \* ticks a call can take after its clock was read
    MaxTime,        \* bound of the model: the clock stops here
    MaxFaults       \* bound of the model: database calls that fail

Ops == {"spend", "topup", "refund", "refundSpend"}
Pins == {"right", "wrong", "absent"}

(* spendKey is read by refundByOriginalSpend only, and pin by spend only.  *)
InputType ==
    [op : Ops, acct : Accounts, amount : Nat \ {0}, currency : Currencies,
     key : Keys, source : Sources, pin : Pins, spendKey : Keys]

CardStatuses == {"active", "frozen", "lost", "replaced"}

ASSUME ParameterAssumption ==
    /\ CurrencyOf \in [Accounts -> Currencies]
    /\ Inputs \subseteq InputType
    /\ Openings \subseteq Nat
    /\ Managed \subseteq Accounts
    /\ NewStatuses \subseteq CardStatuses
    /\ {SweepLimit, PinThreshold, MaxPinRetries, PinLock, Period,
        MaxLatency, MaxTime, MaxFaults} \subseteq Nat
    /\ MaxLatency <= Period
    /\ "system" \notin Reqs

(* The three shapes of idempotency_key. *)
ClientKey(k) == <<"client", k>>
IssueKey(a) == <<"issue", a>>
ExpireKey(a, t) == <<"expire", a, t>>

Stages == {"new", "spend", "card", "key", "pinFail", "pinReset", "commit",
           "lookup", "done"}
Refusals == {"NOT_FOUND", "KEY_REUSED", "CURRENCY_MISMATCH", "CARD_INACTIVE",
             "PIN_NOT_SET", "CARD_LOCKED", "PIN_REQUIRED", "PIN_INVALID",
             "INSUFFICIENT_BALANCE", "SPEND_NOT_FOUND",
             "SPEND_NOT_REFUNDABLE", "DB_ERROR", "LOOKUP_ERROR"}

VARIABLES
    now,        \* Date.now()
    acct,       \* credit_accounts
    card,       \* credit_cards
    ledger,     \* credit_ledger_entries, in commit order
    input,      \* input[r]: the body of request r
    stage,      \* stage[r]: the database call r is about to make
    target,     \* target[r]: the account r moves money on
    seen,       \* seen[r]: the card row r has read
    at,         \* at[r]: the clock r last read, between two calls
    answer,     \* answer[r]: what r was told
    sweep,      \* the local state of the expiry workers
    faults      \* database calls that have failed so far

reqVars == <<input, stage, target, seen, at, answer>>
vars == <<now, acct, card, ledger, input, stage, target, seen, at, answer,
          sweep, faults>>

NoCard == [status |-> "active", hasPin |-> FALSE, retry |-> 0, locked |-> 0]
Pending == [kind |-> "pending", entry |-> 0]

FirstStage(op) ==
    CASE op = "spend" -> "card"
      [] op = "refundSpend" -> "spend"
      [] OTHER -> "key"

Init ==
    /\ now = 0
    /\ acct = [a \in Accounts |->
                 [issued |-> FALSE, balance |-> 0, version |-> 0, expires |-> 0]]
    /\ card = [a \in Accounts |-> NoCard]
    /\ ledger = <<>>
    /\ input \in [Reqs -> Inputs]
    /\ stage = [r \in Reqs |-> "new"]
    /\ target = [r \in Reqs |-> input[r].acct]
    /\ seen = [r \in Reqs |-> NoCard]
    /\ at = [r \in Reqs |-> 0]
    /\ answer = [r \in Reqs |-> Pending]
    /\ sweep = [s \in Sweepers |->
                  [stage |-> "idle", found |-> {}, full |-> FALSE, expired |-> FALSE]]
    /\ faults = 0
-----------------------------------------------------------------------------
Entries == 1 .. Len(ledger)

(* findLedgerByIdempotencyKey finds a row. *)
KeyUsed(k) == \E i \in Entries : ledger[i].key = k

(* The strict insert of a ledger row would violate UNIQUE(idempotency_key). *)
KeyTaken(k) == \E i \in Entries : ledger[i].key = k

EntryTypeOf(op) == IF op = "refundSpend" THEN "refund" ELSE op
Signed(in) == IF in.op = "spend" THEN -in.amount ELSE in.amount

(* The row answers the operation request r asks for (replayOrConflict). *)
SameOperation(r, e) ==
    /\ e.type = EntryTypeOf(input[r].op)
    /\ e.acct = target[r]
    /\ e.amount = Signed(input[r])
    /\ e.source = input[r].source

Insert(key, type, a, amount, after, source, t, by) ==
    ledger' = Append(ledger,
        [key |-> key, type |-> type, acct |-> a, amount |-> amount,
         after |-> after, source |-> source, at |-> t, by |-> by])

(* The next call of r is s; r reads the clock now, when the last one ended. *)
GoTo(r, s) ==
    /\ stage' = [stage EXCEPT ![r] = s]
    /\ at' = [at EXCEPT ![r] = now]
    /\ UNCHANGED answer

Tell(r, kind, i) ==
    /\ stage' = [stage EXCEPT ![r] = "done"]
    /\ answer' = [answer EXCEPT ![r] = [kind |-> kind, entry |-> i]]
    /\ UNCHANGED at

Proceed(r, verdict) ==
    IF verdict \in Refusals THEN Tell(r, verdict, 0) ELSE GoTo(r, verdict)

Fault == faults < MaxFaults /\ faults' = faults + 1
-----------------------------------------------------------------------------
(* The balance a card is issued with is in the ledger too; a card issued    *)
(* empty has no entry.  One D1 batch.                                       *)
(* Mutant: the opening balance is not audited. *)
OpenUnaudited(a, amount) == UNCHANGED ledger

RecordOpening(a, amount) ==
    IF amount > 0
    THEN Insert(IssueKey(a), "adjust", a, amount, amount, "system", now, "system")
    ELSE UNCHANGED ledger

IssueCard(a, amount, hasPin) ==
    /\ ~acct[a].issued
    /\ acct' = [acct EXCEPT ![a] =
                  [issued |-> TRUE, balance |-> amount, version |-> 0,
                   expires |-> now + Period]]
    /\ card' = [card EXCEPT ![a] = [NoCard EXCEPT !.hasPin = hasPin]]
    /\ RecordOpening(a, amount)
    /\ UNCHANGED <<now, reqVars, sweep, faults>>

SetPin(a) ==
    /\ acct[a].issued
    /\ card' = [card EXCEPT ![a] =
         [status |-> @.status, hasPin |-> TRUE, retry |-> 0, locked |-> 0]]
    /\ UNCHANGED <<now, acct, ledger, reqVars, sweep, faults>>

SetCardStatus(a, status) ==
    /\ acct[a].issued
    /\ card' = [card EXCEPT ![a].status = status]
    /\ UNCHANGED <<now, acct, ledger, reqVars, sweep, faults>>
-----------------------------------------------------------------------------
Arrive(r) ==
    /\ stage[r] = "new"
    /\ GoTo(r, FirstStage(input[r].op))
    /\ UNCHANGED <<now, acct, card, ledger, input, target, seen, sweep, faults>>

Refundable(r, e) == e.type = "spend" /\ input[r].amount <= -e.amount

(* refundByOriginalSpend: find the spend, then behave like refund. *)
FindSpend(r) ==
    /\ stage[r] = "spend"
    /\ \/ /\ ~KeyUsed(ClientKey(input[r].spendKey))
          /\ Tell(r, "SPEND_NOT_FOUND", 0)
          /\ UNCHANGED target
       \/ \E i \in Entries :
            /\ ledger[i].key = ClientKey(input[r].spendKey)
            /\ IF Refundable(r, ledger[i])
               THEN /\ target' = [target EXCEPT ![r] = ledger[i].acct]
                    /\ GoTo(r, "key")
               ELSE /\ Tell(r, "SPEND_NOT_REFUNDABLE", 0)
                    /\ UNCHANGED target
    /\ UNCHANGED <<now, acct, card, ledger, input, seen, sweep, faults>>

(* loadCardAndAccount of a spend.  What it reads of the account (existence *)
(* and currency) never changes, so one action stands for both reads.       *)
LoadCard(r) ==
    /\ stage[r] = "card"
    /\ IF acct[target[r]].issued
       THEN seen' = [seen EXCEPT ![r] = card[target[r]]] /\ GoTo(r, "key")
       ELSE UNCHANGED seen /\ Tell(r, "NOT_FOUND", 0)
    /\ UNCHANGED <<now, acct, card, ledger, input, target, sweep, faults>>

(* assertPinIfRequired, on the card row as it was read. *)
PinVerdict(r) ==
    LET c == seen[r] IN
    IF c.status # "active" THEN "CARD_INACTIVE"
    ELSE IF input[r].amount <= PinThreshold THEN "commit"
    ELSE IF ~c.hasPin THEN "PIN_NOT_SET"
    ELSE IF c.locked > now THEN "CARD_LOCKED"
    ELSE IF input[r].pin = "absent" THEN "PIN_REQUIRED"
    ELSE IF input[r].pin = "wrong" THEN "pinFail"
    ELSE IF c.retry > 0 \/ c.locked # 0 THEN "pinReset"
    ELSE "commit"

(* The checks of a request whose key is new to it. *)
Admission(r) ==
    IF ~acct[target[r]].issued THEN "NOT_FOUND"
    ELSE IF CurrencyOf[target[r]] # input[r].currency THEN "CURRENCY_MISMATCH"
    ELSE IF input[r].op = "spend" THEN PinVerdict(r)
    ELSE "commit"

(* topup loads the card before it compares a replayed row; refund does not. *)
UnknownCard(r) == input[r].op = "topup" /\ ~acct[target[r]].issued

FindKey(r) ==
    /\ stage[r] = "key"
    /\ \/ /\ UnknownCard(r) \/ ~KeyUsed(ClientKey(input[r].key))
          /\ Proceed(r, Admission(r))
       \/ /\ ~UnknownCard(r)
          /\ \E i \in Entries :
               /\ ledger[i].key = ClientKey(input[r].key)
               /\ IF SameOperation(r, ledger[i])
                  THEN Tell(r, "ok", i)
                  ELSE Tell(r, "KEY_REUSED", 0)
    /\ UNCHANGED <<now, acct, card, ledger, input, target, seen, sweep, faults>>

WithTries(c, count, locked) ==
    [status |-> c.status, hasPin |-> c.hasPin, retry |-> count, locked |-> locked]

(* The retry count written is one more than the count read, which another   *)
(* attempt may have changed since.                                          *)
CountTry(r) ==
    LET count == seen[r].retry + 1
    IN  /\ stage[r] = "pinFail"
        /\ card' = [card EXCEPT ![target[r]] =
             WithTries(@, count, IF count >= MaxPinRetries THEN at[r] + PinLock
                                                           ELSE seen[r].locked)]

ClearTries(r) ==
    /\ stage[r] = "pinReset"
    /\ card' = [card EXCEPT ![target[r]] = WithTries(@, 0, 0)]

PinFail(r) ==
    /\ CountTry(r)
    /\ Tell(r, "PIN_INVALID", 0)
    /\ UNCHANGED <<now, acct, ledger, input, target, seen, sweep, faults>>

PinReset(r) ==
    /\ ClearTries(r)
    /\ GoTo(r, "commit")
    /\ UNCHANGED <<now, acct, ledger, input, target, seen, sweep, faults>>

(* A call before the movement fails, and nothing catches the error; the     *)
(* write of a PIN count may have happened.                                  *)
CallThrows(r) ==
    /\ stage[r] \in {"spend", "card", "key", "pinFail", "pinReset"}
    /\ Fault
    /\ UNCHANGED card \/ CountTry(r) \/ ClearTries(r)
    /\ Tell(r, "DB_ERROR", 0)
    /\ UNCHANGED <<now, acct, ledger, input, target, seen, sweep>>
-----------------------------------------------------------------------------
(* Mutant: the UPDATE of a spend loses `balance_cents >= ?'. *)
AnyBalance(r) == TRUE

(* The UPDATE of the movement batch matches its row. *)
Funded(r) == input[r].op = "spend" => acct[target[r]].balance >= input[r].amount

(* The batch of applyLedgerMovement takes effect: the balance moves, and    *)
(* the ledger row records it with the balance after.                        *)
ApplyMovement(r) ==
    LET a == target[r]
        after == acct[a].balance + Signed(input[r])
    IN  /\ stage[r] = "commit"
        /\ Funded(r)
        /\ ~KeyTaken(ClientKey(input[r].key))
        /\ acct' = [acct EXCEPT ![a] =
             [issued |-> @.issued, balance |-> after, version |-> @.version + 1,
              expires |-> at[r] + Period]]
        /\ Insert(ClientKey(input[r].key), EntryTypeOf(input[r].op), a,
                  Signed(input[r]), after, input[r].source, at[r], r)

CommitAnswered(r) ==
    /\ ApplyMovement(r)
    /\ Tell(r, "ok", Len(ledger) + 1)
    /\ UNCHANGED <<now, card, input, target, seen, sweep, faults>>

AfterError(r) == "lookup"

(* The batch commits, but the call fails: the catch block looks the key up. *)
CommitUnanswered(r) ==
    /\ ApplyMovement(r)
    /\ Fault
    /\ GoTo(r, AfterError(r))
    /\ UNCHANGED <<now, card, input, target, seen, sweep>>

(* The duplicate key aborts the batch.  It is reached only by a batch whose *)
(* UPDATE matched: otherwise the INSERT selects no row.                     *)
CommitDuplicate(r) ==
    /\ stage[r] = "commit"
    /\ Funded(r)
    /\ KeyTaken(ClientKey(input[r].key))
    /\ GoTo(r, AfterError(r))
    /\ UNCHANGED <<now, acct, card, ledger, input, target, seen, sweep, faults>>

CommitFailed(r) ==
    /\ stage[r] = "commit"
    /\ Fault
    /\ GoTo(r, AfterError(r))
    /\ UNCHANGED <<now, acct, card, ledger, input, target, seen, sweep>>

CommitUnfunded(r) ==
    /\ stage[r] = "commit"
    /\ ~Funded(r)
    /\ Tell(r, "INSUFFICIENT_BALANCE", 0)
    /\ UNCHANGED <<now, acct, card, ledger, input, target, seen, sweep, faults>>

(* Mutant: the catch block rethrows without looking for the row. *)
Rethrow(r) == Tell(r, "DB_ERROR", 0)

(* Mutant: the catch block takes any error for a duplicate that succeeded. *)
AnswerUnseen(r) == Tell(r, "ok", 0)

(* The catch block answers with the canonical row of the key, if any. *)
AnswerCanonical(r) ==
    \/ /\ ~KeyUsed(ClientKey(input[r].key))
       /\ Tell(r, "DB_ERROR", 0)
    \/ \E i \in Entries :
         /\ ledger[i].key = ClientKey(input[r].key)
         /\ Tell(r, "ok", i)

Lookup(r) ==
    /\ stage[r] = "lookup"
    /\ AnswerCanonical(r)
    /\ UNCHANGED <<now, acct, card, ledger, input, target, seen, sweep, faults>>

(* The look-up is a database call too, and nothing catches its error: the   *)
(* caller cannot know whether the batch committed.                          *)
LookupFails(r) ==
    /\ stage[r] = "lookup"
    /\ Fault
    /\ Tell(r, "LOOKUP_ERROR", 0)
    /\ UNCHANGED <<now, acct, card, ledger, input, target, seen, sweep>>

RequestStep(r) ==
    \/ FindSpend(r) \/ LoadCard(r) \/ FindKey(r) \/ PinFail(r) \/ PinReset(r)
    \/ CommitAnswered(r) \/ CommitUnanswered(r) \/ CommitDuplicate(r)
    \/ CommitFailed(r) \/ CommitUnfunded(r) \/ Lookup(r)
    \/ CallThrows(r) \/ LookupFails(r)
-----------------------------------------------------------------------------
(* Mutant: a balance of one unit is not worth expiring. *)
LapsedAboveOne(a) == acct[a].balance > 1 /\ acct[a].expires < now

(* The account is a candidate of the expiry scan. *)
Lapsed(a) == acct[a].balance > 0 /\ acct[a].expires < now

Candidate(a) ==
    [acct |-> a, balance |-> acct[a].balance, version |-> acct[a].version,
     expires |-> acct[a].expires]

SweepStart(s) ==
    /\ sweep[s].stage = "idle"
    /\ sweep' = [sweep EXCEPT ![s].stage = "scan"]
    /\ UNCHANGED <<now, acct, card, ledger, reqVars, faults>>

(* expireStaleAccounts reads up to `limit' candidates, in no given order. *)
SweepScan(s) ==
    /\ sweep[s].stage = "scan"
    /\ \E C \in SUBSET {a \in Accounts : Lapsed(a)} :
         /\ Cardinality(C) <= SweepLimit
         /\ Cardinality(C) < SweepLimit => C = {a \in Accounts : Lapsed(a)}
         /\ sweep' = [sweep EXCEPT ![s] =
              [stage |-> "zero", found |-> {Candidate(a) : a \in C},
               full |-> Cardinality(C) = SweepLimit, expired |-> FALSE]]
    /\ UNCHANGED <<now, acct, card, ledger, reqVars, faults>>

(* Mutant: the UPDATE that zeroes a balance loses `version = ?'. *)
StillFunded(c) == acct[c.acct].balance > 0

(* The account is as the scan saw it. *)
Untouched(c) == acct[c.acct].version = c.version /\ acct[c.acct].balance > 0

(* Mutant: the key of an expiry names the account only. *)
KeyOfAccount(c) == ExpireKey(c.acct, 0)

KeyOfExpiry(c) == ExpireKey(c.acct, c.expires)

(* The batch that zeroes one candidate and records what it took; a         *)
(* duplicate key would abort it.                                           *)
Zero(c) ==
    /\ Untouched(c)
    /\ ~KeyTaken(KeyOfExpiry(c))
    /\ acct' = [acct EXCEPT ![c.acct].balance = 0, ![c.acct].version = @ + 1]
    /\ Insert(KeyOfExpiry(c), "expire", c.acct, -c.balance, 0,
              "system", now, "system")

SweepDrop(s, c, won) ==
    sweep' = [sweep EXCEPT ![s].found = @ \ {c}, ![s].expired = @ \/ won]

SweepZero(s, c) ==
    /\ Zero(c)
    /\ SweepDrop(s, c, TRUE)
    /\ UNCHANGED <<now, card, reqVars, faults>>

(* Concurrent activity won, or the key is a duplicate. *)
SweepSkip(s, c) ==
    /\ ~Untouched(c) \/ KeyTaken(KeyOfExpiry(c))
    /\ SweepDrop(s, c, FALSE)
    /\ UNCHANGED <<now, acct, card, ledger, reqVars, faults>>

(* A failing account is isolated; its batch may have committed or not. *)
SweepFailed(s, c) ==
    /\ Fault
    /\ Zero(c) \/ UNCHANGED <<acct, ledger>>
    /\ SweepDrop(s, c, FALSE)
    /\ UNCHANGED <<now, card, reqVars>>

(* expireStaleCredits scans again after a full batch that made progress,   *)
(* until its cap of batches.                                               *)
SweepEnd(s) ==
    /\ sweep[s].stage = "zero" /\ sweep[s].found = {}
    /\ \E next \in {"idle", "scan"} :
         /\ next = "scan" => sweep[s].full /\ sweep[s].expired
         /\ sweep' = [sweep EXCEPT ![s].stage = next]
    /\ UNCHANGED <<now, acct, card, ledger, reqVars, faults>>

SweepStep(s) ==
    \/ SweepStart(s) \/ SweepScan(s) \/ SweepEnd(s)
    \/ \E c \in sweep[s].found : SweepZero(s, c) \/ SweepSkip(s, c) \/ SweepFailed(s, c)

(* A movement commits within MaxLatency of the clock it writes: minutes    *)
(* against a Period of a year.                                              *)
Tick ==
    /\ now < MaxTime
    /\ \A r \in Reqs : stage[r] = "commit" => now < at[r] + MaxLatency
    /\ now' = now + 1
    /\ UNCHANGED <<acct, card, ledger, reqVars, sweep, faults>>

Admin ==
    \E a \in Accounts :
        \/ \E amount \in Openings, hasPin \in BOOLEAN : IssueCard(a, amount, hasPin)
        \/ a \in Managed /\ SetPin(a)
        \/ a \in Managed /\ \E status \in NewStatuses : SetCardStatus(a, status)

Next ==
    \/ Tick
    \/ Admin
    \/ \E r \in Reqs : Arrive(r) \/ RequestStep(r)
    \/ \E s \in Sweepers : SweepStep(s)

Spec == Init /\ [][Next]_vars

(* A request that has arrived runs to its answer, and the worker is started *)
(* every day and runs to its end.                                           *)
Fairness ==
    /\ \A r \in Reqs : WF_vars(RequestStep(r))
    /\ \A s \in Sweepers : WF_vars(SweepStep(s))

FairSpec == Spec /\ Fairness
-----------------------------------------------------------------------------
AllKeys == ({"client"} \X Keys) \cup ({"issue"} \X Accounts)
             \cup ({"expire"} \X Accounts \X Nat)

EntryType ==
    [key : AllKeys, type : {"adjust", "spend", "topup", "refund", "expire"},
     acct : Accounts, amount : Int, after : Int, source : Sources \cup {"system"},
     at : Nat, by : Reqs \cup {"system"}]

CardType ==
    [status : CardStatuses, hasPin : BOOLEAN, retry : Nat, locked : Nat]

CandidateType == [acct : Accounts, balance : Int, version : Nat, expires : Nat]

(* Every variable holds what its column or local variable can hold; only a  *)
(* success names a ledger entry, and it names one that exists.              *)
TypeOK ==
    /\ now \in Nat
    /\ acct \in [Accounts ->
         [issued : BOOLEAN, balance : Int, version : Nat, expires : Nat]]
    /\ card \in [Accounts -> CardType]
    /\ ledger \in Seq(EntryType)
    /\ input \in [Reqs -> Inputs]
    /\ stage \in [Reqs -> Stages]
    /\ target \in [Reqs -> Accounts]
    /\ seen \in [Reqs -> CardType]
    /\ at \in [Reqs -> Nat]
    /\ answer \in [Reqs ->
         [kind : Refusals \cup {"pending", "ok"}, entry : Nat]]
    /\ \A r \in Reqs :
         answer[r].entry \in IF answer[r].kind = "ok" THEN Entries ELSE {0}
    /\ sweep \in [Sweepers ->
         [stage : {"idle", "scan", "zero"}, found : SUBSET CandidateType,
          full : BOOLEAN, expired : BOOLEAN]]
    /\ faults \in Nat

(* "Concurrent spends on the same balance cannot overspend": no balance is  *)
(* ever negative, now or after any entry of the ledger.                     *)
NeverOverspent ==
    /\ \A a \in Accounts : acct[a].balance >= 0
    /\ \A i \in Entries : ledger[i].after >= 0

LastEntryOf(a, i) ==
    /\ ledger[i].acct = a
    /\ \A j \in Entries : j > i => ledger[j].acct # a

(* Entry i directly precedes entry j in the history of their account. *)
Precedes(i, j) ==
    /\ i < j
    /\ ledger[i].acct = ledger[j].acct
    /\ \A k \in Entries : i < k /\ k < j => ledger[k].acct # ledger[j].acct

(* The ledger is the complete source of truth (issueCard): replayed entry   *)
(* by entry from an empty account it gives each balance_after, and the last *)
(* one is the balance.  This is balance = sum(ledger), entry by entry.      *)
LedgerExplainsBalance ==
    /\ \A a \in Accounts :
         \/ \E i \in Entries : LastEntryOf(a, i) /\ ledger[i].after = acct[a].balance
         \/ acct[a].balance = 0 /\ \A i \in Entries : ledger[i].acct # a
    /\ \A j \in Entries :
         \/ \E i \in Entries :
              Precedes(i, j) /\ ledger[j].after = ledger[i].after + ledger[j].amount
         \/ /\ \A i \in Entries : i < j => ledger[i].acct # ledger[j].acct
            /\ ledger[j].after = ledger[j].amount

(* "A concurrent spend/topup wins via the version guard (it also extends    *)
(* expiry)": the sweep takes a balance only when the account's latest       *)
(* movement is more than a whole period old.                                *)
ExpiryTakesOnlyIdleMoney ==
    \A i, j \in Entries :
        Precedes(i, j) /\ ledger[j].type = "expire"
            => ledger[j].at > ledger[i].at + Period

(* The key of the next expiry is always fresh: an account topped up after an *)
(* expiry is not stuck behind the key of that expiry.                        *)
ExpiryKeyIsFresh ==
    \A a \in Accounts :
        Lapsed(a) => ~KeyTaken(KeyOfExpiry(Candidate(a)))

(* A request that was told an error moved no money, even when the batch     *)
(* committed and its answer was lost; only the error of the catch block's   *)
(* own look-up leaves it open.                                              *)
FailureMovedNothing ==
    \A r \in Reqs :
        answer[r].kind \in Refusals \ {"LOOKUP_ERROR"} =>
            \A i \in Entries : ledger[i].by # r

(* A refund by original spend goes to the account that spent, and no single *)
(* one exceeds the spend.                                                   *)
RefundWithinSpend ==
    \A i \in Entries :
        (ledger[i].by \in Reqs /\ input[ledger[i].by].op = "refundSpend") =>
            \E j \in Entries :
                /\ j < i
                /\ ledger[j].key = ClientKey(input[ledger[i].by].spendKey)
                /\ ledger[j].type = "spend"
                /\ ledger[j].acct = ledger[i].acct
                /\ ledger[i].amount <= -ledger[j].amount

-----------------------------------------------------------------------------
(* The parts that make the safety properties inductive.                    *)

(* UNIQUE(idempotency_key). *)
KeyAppliedOnce ==
    \A i, j \in Entries : ledger[i].key = ledger[j].key => i = j

(* Money is recorded for issued accounts only, and an account that is not  *)
(* issued yet is empty.                                                    *)
OnlyIssuedAccountsMove ==
    /\ \A i \in Entries : acct[ledger[i].acct].issued
    /\ \A a \in Accounts : ~acct[a].issued => acct[a].balance = 0

(* An opening or expiry key belongs to one account, and only an account's   *)
(* expiry uses the latter.                                                  *)
KeyNamesAccount ==
    \A i \in Entries, a \in Accounts :
        ledger[i].key = IssueKey(a) => ledger[i].acct = a

(* The version read by a scan identifies the balance and expiry read with it. *)
CandidatesAreVersioned ==
    \A s \in Sweepers : \A c \in sweep[s].found :
        /\ acct[c.acct].issued
        /\ c.expires < now
        /\ c.version <= acct[c.acct].version
        /\ c.version = acct[c.acct].version
             => c.balance = acct[c.acct].balance /\ c.expires = acct[c.acct].expires

(* A movement in flight was given its clock at most MaxLatency ago. *)
CommitsAreTimely ==
    \A r \in Reqs :
        stage[r] = "commit" => at[r] <= now /\ now <= at[r] + MaxLatency

(* The key of an expiry that has happened names a past moment, and an       *)
(* account that is funded again expires after it.                           *)
ExpiryKeysAreSpent ==
    \A i \in Entries, a \in Accounts, t \in Nat :
        ledger[i].key = ExpireKey(a, t) =>
            /\ acct[a].issued
            /\ t < now
            /\ acct[a].balance > 0 => t < acct[a].expires

(* The expiry of a funded account is set by its latest movement. *)
ExpiryTracksLatest ==
    \A a \in Accounts, i \in Entries :
        LastEntryOf(a, i) =>
            IF ledger[i].type = "expire"
            THEN acct[a].balance = 0
            ELSE acct[a].expires = ledger[i].at + Period

(* Before its batch a request has written nothing; afterwards it has        *)
(* written under its own key.                                               *)
RequestWritesOwnKey ==
    /\ \A r \in Reqs :
         /\ stage[r] \in {"commit", "pinReset", "pinFail"} => acct[target[r]].issued
         /\ stage[r] \in {"card", "pinReset", "pinFail"} => input[r].op = "spend"
         /\ answer[r].kind # "pending" => stage[r] = "done"
    /\ \A i \in Entries : ledger[i].by \in Reqs =>
         /\ ledger[i].key = ClientKey(input[ledger[i].by].key)
         /\ ledger[i].acct = target[ledger[i].by]
         /\ ledger[i].amount = Signed(input[ledger[i].by])
         /\ stage[ledger[i].by] \in {"lookup", "done"}

(* Past its first call, a refund by original spend has its spend in the ledger. *)
RefundHasSpend ==
    \A r \in Reqs :
        input[r].op = "refundSpend" /\ stage[r] \in {"key", "commit", "lookup"} =>
            \E j \in Entries :
                /\ ledger[j].key = ClientKey(input[r].spendKey)
                /\ ledger[j].type = "spend"
                /\ ledger[j].acct = target[r]
                /\ input[r].amount <= -ledger[j].amount

BookInv ==
    /\ NeverOverspent
    /\ KeyAppliedOnce
    /\ LedgerExplainsBalance
    /\ OnlyIssuedAccountsMove
    /\ KeyNamesAccount
    /\ CandidatesAreVersioned
    /\ ExpiryTracksLatest
    /\ ExpiryTakesOnlyIdleMoney

RequestInv == RequestWritesOwnKey /\ FailureMovedNothing /\ RefundHasSpend /\ RefundWithinSpend

IInv == TypeOK /\ BookInv /\ RequestInv

ExpiryInv == CommitsAreTimely /\ ExpiryKeysAreSpent
-----------------------------------------------------------------------------
Balances == [a \in Accounts |-> acct[a].balance]
UsedKeys == {ledger[i].key : i \in Entries}
AckedKeys == {ClientKey(input[r].key) : r \in {q \in Reqs : answer[q].kind = "ok"}}

(* The promise to callers, without the cards, sweeps and failures. *)
Book == INSTANCE CreditBook
          WITH bal <- Balances, used <- UsedKeys, acked <- AckedKeys

(* Every step of the ledger is a step of the book: a movement is one atomic *)
(* change of one balance under a fresh key, and only keys in the book are   *)
(* acknowledged.                                                            *)
ImplementsBook == Book!BookSpec

(* The daily worker, run often enough, clears every lapsed balance that     *)
(* sees no more activity, although one account's failure only skips it.     *)
LapsedBalanceIsCleared ==
    \A a \in Accounts :
        acct[a].balance > 0 /\ acct[a].expires < now
            ~> ~(acct[a].balance > 0 /\ acct[a].expires < now)

(* "Same key + same operation replays; same key + different operation is a  *)
(* client bug": success always names an entry of the operation asked for.   *)
SuccessIsOwnOperation ==
    \A r \in Reqs :
        answer[r].kind = "ok" => SameOperation(r, ledger[answer[r].entry])

(* "UNIQUE makes every movement replay-safe": a retry is not told that the  *)
(* balance is insufficient when its own movement is in the ledger already.  *)
RetryIsNotRefused ==
    [][\A r \in Reqs :
         answer'[r].kind = "INSUFFICIENT_BALANCE" /\ answer[r].kind = "pending"
           => ~\E i \in Entries : /\ ledger[i].key = ClientKey(input[r].key)
                                  /\ SameOperation(r, ledger[i])]_vars
=============================================================================
