------------------------- MODULE CreditLedgerProofs -------------------------
(***************************************************************************)
(* The safety properties of CreditLedger hold for every set of accounts,   *)
(* requests and keys and every bound, and it implements CreditBook.        *)
(*                                                                         *)
(* The inductive invariant is IInv.  Its parts about accounts and ledger   *)
(* (BookInv) change in three ways only: a movement, an opening and an      *)
(* expiry, which all append one entry that explains the new balance.       *)
(***************************************************************************)
EXTENDS CreditLedger, TLAPS

-----------------------------------------------------------------------------
(* What an insert does to the ledger. *)
LEMMA AppendEntry ==
    ASSUME ledger \in Seq(EntryType), NEW e \in EntryType,
           ledger' = Append(ledger, e)
    PROVE  /\ ledger' \in Seq(EntryType)
           /\ Len(ledger') = Len(ledger) + 1
           /\ Len(ledger) \in Nat
           /\ Entries' = Entries \cup {Len(ledger) + 1}
           /\ \A i \in Entries : ledger'[i] = ledger[i]
           /\ ledger'[Len(ledger) + 1] = e
  BY DEF Entries

(* A verdict sends the request to a next call or to its answer. *)
LEMMA VerdictType ==
    ASSUME TypeOK, NEW r \in Reqs
    PROVE  Admission(r) \in Refusals \cup {"commit", "pinFail", "pinReset"}
  BY DEF Admission, PinVerdict, Refusals

(* The types of what GoTo and Tell write. *)
ProgressType ==
    /\ stage \in [Reqs -> Stages]
    /\ at \in [Reqs -> Nat]
    /\ answer \in [Reqs -> [kind : Refusals \cup {"pending", "ok"}, entry : Nat]]
    /\ \A r \in Reqs :
         answer[r].entry \in IF answer[r].kind = "ok" THEN Entries ELSE {0}

(* GoTo and Tell keep the request variables in their types. *)
LEMMA GoToType ==
    ASSUME TypeOK, NEW r \in Reqs, NEW s \in Stages, GoTo(r, s), Len(ledger') \in Nat,
           Len(ledger) <= Len(ledger'), Len(ledger) \in Nat
    PROVE  ProgressType'
  BY DEF TypeOK, GoTo, Entries, ProgressType

(* An answer that is recorded is a member of the answers.                   *)
LEMMA TellType ==
    ASSUME TypeOK, NEW r \in Reqs,
           NEW k \in Refusals \cup {"ok"},
           NEW i \in IF k = "ok" THEN Entries' ELSE {0},
           Tell(r, k, i),
           Len(ledger') \in Nat, Len(ledger) \in Nat, Len(ledger) <= Len(ledger')
    PROVE  ProgressType'
  <1>1. i \in Nat /\ "done" \in Stages
    BY DEF Entries, Stages
  <1>2. \A q \in Reqs : answer[q].entry \in IF answer[q].kind = "ok" THEN Entries' ELSE {0}
    BY DEF TypeOK, Entries
  <1> QED BY <1>1, <1>2 DEF TypeOK, Tell, ProgressType

(* The initial values are typed.                                            *)
LEMMA InitType == Init => TypeOK
  <1> SUFFICES ASSUME Init PROVE TypeOK
    OBVIOUS
  <1>1. NoCard \in CardType
    BY DEF NoCard, CardType, CardStatuses
  <1>2. \A r \in Reqs : input[r] \in InputType
    BY ParameterAssumption DEF Init
  <1> QED
    BY <1>1, <1>2 DEF Init, TypeOK, Pending, Stages, InputType, Entries, Refusals

(* The entries the batches insert are ledger entries. *)
LEMMA InsertType ==
    ASSUME TypeOK, NEW a \in Accounts, NEW k \in AllKeys,
           NEW type \in {"adjust", "spend", "topup", "refund", "expire"},
           NEW amount \in Int, NEW after \in Int,
           NEW source \in Sources \cup {"system"}, NEW t \in Nat,
           NEW by \in Reqs \cup {"system"},
           Insert(k, type, a, amount, after, source, t, by)
    PROVE  /\ [key |-> k, type |-> type, acct |-> a, amount |-> amount, after |-> after,
                source |-> source, at |-> t, by |-> by] \in EntryType
           /\ ledger' \in Seq(EntryType)
           /\ Len(ledger') = Len(ledger) + 1
           /\ Len(ledger) \in Nat
           /\ Len(ledger') \in Nat
  <1> DEFINE e == [key |-> k, type |-> type, acct |-> a, amount |-> amount,
                   after |-> after, source |-> source, at |-> t, by |-> by]
  <1>1. e \in EntryType
    BY DEF EntryType
  <1>2. ledger \in Seq(EntryType) /\ ledger' = Append(ledger, e)
    BY DEF TypeOK, Insert
  <1> HIDE DEF e
  <1>3. /\ ledger' \in Seq(EntryType) /\ Len(ledger') = Len(ledger) + 1
        /\ Len(ledger) \in Nat
    BY <1>1, <1>2, AppendEntry
  <1> QED BY <1>1, <1>3 DEF e

(* A movement keeps accounts and ledger in their types. *)
LEMMA MovementType ==
    ASSUME TypeOK, NEW r \in Reqs, ApplyMovement(r)
    PROVE  /\ acct' \in [Accounts ->
                 [issued : BOOLEAN, balance : Int, version : Nat, expires : Nat]]
           /\ ledger' \in Seq(EntryType)
           /\ Len(ledger') = Len(ledger) + 1
           /\ Len(ledger) \in Nat
           /\ Len(ledger') \in Nat
  <1> DEFINE a == target[r]
             amount == Signed(input[r])
             after == acct[a].balance + amount
  <1>1. a \in Accounts /\ input[r] \in InputType /\ at[r] \in Nat
    BY ParameterAssumption DEF TypeOK
  <1>2. amount \in Int /\ after \in Int
    BY <1>1 DEF TypeOK, Signed, InputType
  <1>3. /\ ClientKey(input[r].key) \in AllKeys
        /\ EntryTypeOf(input[r].op) \in {"adjust", "spend", "topup", "refund", "expire"}
        /\ input[r].source \in Sources \cup {"system"}
    BY <1>1 DEF ClientKey, AllKeys, EntryTypeOf, InputType, Ops
  <1>4. /\ Insert(ClientKey(input[r].key), EntryTypeOf(input[r].op), a, amount, after,
                  input[r].source, at[r], r)
        /\ acct' = [acct EXCEPT ![a] =
             [issued |-> @.issued, balance |-> after, version |-> @.version + 1,
              expires |-> at[r] + Period]]
    BY DEF ApplyMovement
  <1> HIDE DEF a, amount, after
  <1>5. at[r] + Period \in Nat
    BY <1>1, ParameterAssumption
  <1>6. /\ ledger' \in Seq(EntryType) /\ Len(ledger') = Len(ledger) + 1
        /\ Len(ledger) \in Nat /\ Len(ledger') \in Nat
    <2> DEFINE e == [key |-> ClientKey(input[r].key), type |-> EntryTypeOf(input[r].op),
                     acct |-> a, amount |-> amount, after |-> after,
                     source |-> input[r].source, at |-> at[r], by |-> r]
    <2>1. e \in EntryType
      BY <1>1, <1>2, <1>3 DEF EntryType
    <2>2. ledger' = Append(ledger, e)
      BY <1>4 DEF Insert
    <2> HIDE DEF e
    <2>3. \E f \in EntryType : ledger' = Append(ledger, f)
      BY <2>1, <2>2
    <2> QED BY <2>3, AppendEntry DEF TypeOK
  <1>7. acct' \in [Accounts ->
                 [issued : BOOLEAN, balance : Int, version : Nat, expires : Nat]]
    BY SMTT(30), <1>1, <1>2, <1>4, <1>5 DEF TypeOK
  <1> QED BY <1>6, <1>7

(* So does an expiry of a candidate. *)
LEMMA ZeroType ==
    ASSUME TypeOK, NEW c \in CandidateType, Zero(c)
    PROVE  /\ acct' \in [Accounts ->
                 [issued : BOOLEAN, balance : Int, version : Nat, expires : Nat]]
           /\ ledger' \in Seq(EntryType)
           /\ Len(ledger') = Len(ledger) + 1
           /\ Len(ledger) \in Nat
           /\ Len(ledger') \in Nat
  <1>1. KeyOfExpiry(c) \in AllKeys /\ -c.balance \in Int /\ c.acct \in Accounts
    BY DEF KeyOfExpiry, ExpireKey, AllKeys, CandidateType
  <1>2. /\ Insert(KeyOfExpiry(c), "expire", c.acct, -c.balance, 0, "system", now, "system")
        /\ acct' = [acct EXCEPT ![c.acct].balance = 0, ![c.acct].version = @ + 1]
    BY DEF Zero
  <1>3. now \in Nat
    BY DEF TypeOK
  <1>4. /\ ledger' \in Seq(EntryType) /\ Len(ledger') = Len(ledger) + 1
        /\ Len(ledger) \in Nat /\ Len(ledger') \in Nat
    <2>1. "expire" \in {"adjust", "spend", "topup", "refund", "expire"} /\ 0 \in Int
          /\ "system" \in Sources \cup {"system"} /\ "system" \in Reqs \cup {"system"}
      OBVIOUS
    <2> QED BY <1>1, <1>2, <1>3, <2>1, InsertType, Zenon
  <1>5. acct' \in [Accounts ->
                 [issued : BOOLEAN, balance : Int, version : Nat, expires : Nat]]
    BY <1>1, <1>2 DEF TypeOK
  <1> QED BY <1>4, <1>5

(* So does the issue of a card. *)
LEMMA IssueType ==
    ASSUME TypeOK, NEW a \in Accounts, NEW amount \in Openings, NEW hasPin \in BOOLEAN,
           IssueCard(a, amount, hasPin)
    PROVE  TypeOK'
  <1>1. amount \in Nat /\ amount \in Int /\ Period \in Nat /\ now \in Nat
    BY ParameterAssumption DEF TypeOK
  <1>2. acct' \in [Accounts ->
                 [issued : BOOLEAN, balance : Int, version : Nat, expires : Nat]]
    BY <1>1 DEF TypeOK, IssueCard
  <1>3. card' \in [Accounts -> CardType]
    BY DEF TypeOK, IssueCard, NoCard, CardType, CardStatuses
  <1>4. /\ ledger' \in Seq(EntryType) /\ Len(ledger) <= Len(ledger')
        /\ Len(ledger) \in Nat /\ Len(ledger') \in Nat
    <2>1. CASE amount > 0
      <3>1. Insert(IssueKey(a), "adjust", a, amount, amount, "system", now, "system")
        BY <2>1 DEF IssueCard, RecordOpening
      <3>2. IssueKey(a) \in AllKeys
        BY DEF IssueKey, AllKeys
      <3>3. /\ "adjust" \in {"adjust", "spend", "topup", "refund", "expire"}
            /\ "system" \in Sources \cup {"system"} /\ "system" \in Reqs \cup {"system"}
        OBVIOUS
      <3>4. /\ ledger' \in Seq(EntryType) /\ Len(ledger') = Len(ledger) + 1
            /\ Len(ledger) \in Nat /\ Len(ledger') \in Nat
        BY <1>1, <3>1, <3>2, <3>3, InsertType, Zenon
      <3> QED BY <3>4
    <2>2. CASE ~(amount > 0)
      BY <2>2 DEF IssueCard, RecordOpening, TypeOK
    <2> QED BY <2>1, <2>2
  <1>5. \A q \in Reqs :
           answer'[q].entry \in IF answer'[q].kind = "ok" THEN Entries' ELSE {0}
    BY <1>4 DEF TypeOK, IssueCard, Entries, reqVars
  <1> QED BY <1>2, <1>3, <1>4, <1>5 DEF TypeOK, IssueCard, reqVars

(* Every action keeps every variable in its type. *)
LEMMA NextType == TypeOK /\ [Next]_vars => TypeOK'
  <1> SUFFICES ASSUME TypeOK, [Next]_vars PROVE TypeOK'
    OBVIOUS
  <1> USE DEF Fault
  <1>len. Len(ledger) \in Nat /\ ledger \in Seq(EntryType)
    BY DEF TypeOK
  <1>accts. \A i \in Entries : ledger[i].acct \in Accounts
    <2>1. \A i \in Entries : ledger[i] \in EntryType
      BY <1>len DEF Entries
    <2> QED BY <2>1 DEF EntryType
  <1>in. /\ \A r \in Reqs : input[r] \in InputType
         /\ MaxFaults \in Nat /\ PinLock \in Nat
    BY ParameterAssumption DEF TypeOK
  <1>1. CASE Tick
    BY <1>1 DEF Tick, TypeOK, reqVars, Entries
  <1>2. ASSUME NEW a \in Accounts, NEW amount \in Openings, NEW hasPin \in BOOLEAN,
               IssueCard(a, amount, hasPin)
        PROVE  TypeOK'
    BY <1>2, IssueType
  <1>3. ASSUME NEW a \in Accounts, SetPin(a) PROVE TypeOK'
    BY <1>3 DEF SetPin, TypeOK, CardType, reqVars, Entries
  <1>4. ASSUME NEW a \in Accounts, NEW status \in NewStatuses, SetCardStatus(a, status)
        PROVE  TypeOK'
    BY ZenonT(60), <1>4, ParameterAssumption DEF SetCardStatus, TypeOK, CardType, reqVars, Entries
  <1>5. ASSUME NEW r \in Reqs, Arrive(r) PROVE TypeOK'
    <2>1. FirstStage(input[r].op) \in Stages
      BY <1>in DEF FirstStage, Stages
    <2>2. GoTo(r, FirstStage(input[r].op)) /\ ledger' = ledger
      BY <1>5 DEF Arrive
    <2> QED BY SMTT(30), <1>5, <2>1, <2>2, <1>len, GoToType DEF Arrive, TypeOK, ProgressType
  <1>6. ASSUME NEW r \in Reqs, FindSpend(r) PROVE TypeOK'
    <2>1. ledger' = ledger /\ "key" \in Stages /\ 0 \in {0}
          /\ {"SPEND_NOT_FOUND", "SPEND_NOT_REFUNDABLE"} \subseteq Refusals \ {"ok"}
      BY <1>6 DEF FindSpend, Stages, Refusals
    <2>2. target' \in [Reqs -> Accounts]
      BY <1>6, <1>accts DEF FindSpend, TypeOK
    <2>3. \/ Tell(r, "SPEND_NOT_FOUND", 0) \/ Tell(r, "SPEND_NOT_REFUNDABLE", 0)
          \/ GoTo(r, "key")
      BY <1>6 DEF FindSpend
    <2>4. ProgressType'
      BY <2>1, <2>3, <1>len, GoToType, TellType
    <2> QED BY <1>6, <2>2, <2>4 DEF FindSpend, TypeOK, ProgressType
  <1>7. ASSUME NEW r \in Reqs, LoadCard(r) PROVE TypeOK'
    <2>1. ledger' = ledger /\ "key" \in Stages /\ "NOT_FOUND" \in Refusals \ {"ok"}
      BY <1>7 DEF LoadCard, Stages, Refusals
    <2>2. seen' \in [Reqs -> CardType]
      BY ZenonT(60), <1>7 DEF LoadCard, TypeOK
    <2>3. Tell(r, "NOT_FOUND", 0) \/ GoTo(r, "key")
      BY <1>7 DEF LoadCard
    <2>4. ProgressType'
      BY <2>1, <2>3, <1>len, GoToType, TellType
    <2> QED BY <1>7, <2>2, <2>4 DEF LoadCard, TypeOK, ProgressType
  <1>8. ASSUME NEW r \in Reqs, FindKey(r) PROVE TypeOK'
    <2>1. ledger' = ledger /\ Entries' = Entries
      BY <1>8 DEF FindKey, Entries
    <2>2. ProgressType'
      <3>1. CASE Proceed(r, Admission(r))
        <4>1. PICK v \in Refusals \cup {"commit", "pinFail", "pinReset"} : v = Admission(r)
          BY VerdictType
        <4>2. \/ v \in Refusals \ {"ok"} /\ Tell(r, v, 0)
              \/ v \in Stages /\ GoTo(r, v)
          BY <3>1, <4>1 DEF Proceed, Refusals, Stages
        <4> QED BY <4>2, <2>1, <1>len, GoToType, TellType
      <3>2. CASE \E i \in Entries : Tell(r, "ok", i)
        BY <3>2, <2>1, <1>len, TellType
      <3>3. CASE Tell(r, "KEY_REUSED", 0)
        <4>1. "KEY_REUSED" \in Refusals \ {"ok"}
          BY DEF Refusals
        <4> QED BY <3>3, <4>1, <2>1, <1>len, TellType
      <3> QED BY <1>8, <3>1, <3>2, <3>3 DEF FindKey
    <2> QED BY <1>8, <2>2 DEF FindKey, TypeOK, ProgressType
  <1>9. ASSUME NEW r \in Reqs, PinFail(r) PROVE TypeOK'
    <2>1. ledger' = ledger /\ "PIN_INVALID" \in Refusals \ {"ok"} /\ Tell(r, "PIN_INVALID", 0)
      BY <1>9 DEF PinFail, Refusals
    <2>2. card' \in [Accounts -> CardType]
      BY SMTT(30), <1>9, <1>in DEF PinFail, CountTry, TypeOK, CardType, WithTries
    <2>3. ProgressType'
      BY <2>1, <1>len, TellType
    <2> QED BY <1>9, <2>2, <2>3 DEF PinFail, TypeOK, ProgressType
  <1>10. ASSUME NEW r \in Reqs, PinReset(r) PROVE TypeOK'
    <2>1. ledger' = ledger /\ "commit" \in Stages /\ GoTo(r, "commit")
      BY <1>10 DEF PinReset, Stages
    <2>2. card' \in [Accounts -> CardType]
      BY <1>10 DEF PinReset, ClearTries, TypeOK, CardType, WithTries
    <2>3. ProgressType'
      BY <1>len, <2>1, GoToType
    <2> QED BY <1>10, <2>2, <2>3 DEF PinReset, TypeOK, ProgressType
  <1>11. ASSUME NEW r \in Reqs, CommitAnswered(r) PROVE TypeOK'
    <2>1. ApplyMovement(r) /\ Tell(r, "ok", Len(ledger) + 1)
      BY <1>11 DEF CommitAnswered
    <2>2. /\ acct' \in [Accounts ->
                [issued : BOOLEAN, balance : Int, version : Nat, expires : Nat]]
          /\ ledger' \in Seq(EntryType) /\ Len(ledger') = Len(ledger) + 1
          /\ Len(ledger') \in Nat
      BY <2>1, MovementType
    <2>3. PICK i \in Entries' : i = Len(ledger) + 1
      BY <2>2, <1>len DEF Entries
    <2>4. ProgressType'
      <3>1. Tell(r, "ok", i)
        BY <2>1, <2>3
      <3>2. i \in IF "ok" = "ok" THEN Entries' ELSE {0}
        OBVIOUS
      <3>3. Len(ledger) <= Len(ledger')
        BY <2>2, <1>len
      <3> QED BY <2>2, <3>1, <3>2, <3>3, <1>len, TellType
    <2> QED BY <1>11, <2>2, <2>4 DEF CommitAnswered, TypeOK, ProgressType
  <1>12. ASSUME NEW r \in Reqs, CommitUnanswered(r) PROVE TypeOK'
    <2>1. ApplyMovement(r) /\ GoTo(r, "lookup") /\ "lookup" \in Stages
      BY <1>12 DEF CommitUnanswered, AfterError, Stages
    <2>2. /\ acct' \in [Accounts ->
                [issued : BOOLEAN, balance : Int, version : Nat, expires : Nat]]
          /\ ledger' \in Seq(EntryType) /\ Len(ledger') = Len(ledger) + 1
          /\ Len(ledger') \in Nat
      BY <2>1, MovementType
    <2>3. ProgressType'
      BY <2>1, <2>2, <1>len, GoToType
    <2> QED BY SMTT(30), <1>12, <2>2, <2>3 DEF CommitUnanswered, TypeOK, ProgressType
  <1>13. ASSUME NEW r \in Reqs, CommitDuplicate(r) \/ CommitFailed(r) PROVE TypeOK'
    <2>1. ledger' = ledger /\ "lookup" \in Stages /\ GoTo(r, "lookup")
      BY <1>13 DEF CommitDuplicate, CommitFailed, AfterError, Stages
    <2>2. ProgressType'
      BY <1>len, <2>1, GoToType
    <2>3. /\ faults' \in Nat
          /\ UNCHANGED <<now, acct, card, ledger, input, target, seen, sweep>>
      <3>1. CASE CommitDuplicate(r)
        BY <3>1 DEF CommitDuplicate, TypeOK
      <3>2. CASE CommitFailed(r)
        BY <3>2 DEF CommitFailed, TypeOK
      <3> QED BY <1>13, <3>1, <3>2
    <2> QED BY <2>2, <2>3 DEF TypeOK, ProgressType
  <1>14. ASSUME NEW r \in Reqs, CommitUnfunded(r) PROVE TypeOK'
    <2>1. /\ ledger' = ledger /\ "INSUFFICIENT_BALANCE" \in Refusals \ {"ok"}
          /\ Tell(r, "INSUFFICIENT_BALANCE", 0)
      BY <1>14 DEF CommitUnfunded, Refusals
    <2>2. ProgressType'
      BY <1>len, <2>1, TellType
    <2> QED BY <1>14, <2>1, <2>2 DEF CommitUnfunded, TypeOK, ProgressType
  <1>15. ASSUME NEW r \in Reqs, Lookup(r) PROVE TypeOK'
    <2>1. ledger' = ledger /\ "DB_ERROR" \in Refusals \ {"ok"} /\ Entries' = Entries
      BY <1>15 DEF Lookup, Refusals, Entries
    <2>2. Tell(r, "DB_ERROR", 0) \/ \E i \in Entries : Tell(r, "ok", i)
      BY <1>15 DEF Lookup, AnswerCanonical
    <2>3. ProgressType'
      BY <2>1, <2>2, <1>len, TellType
    <2> QED BY <1>15, <2>3 DEF Lookup, TypeOK, ProgressType
  <1>20. ASSUME NEW r \in Reqs, CallThrows(r) PROVE TypeOK'
    <2>1. ledger' = ledger /\ "DB_ERROR" \in Refusals \ {"ok"} /\ Tell(r, "DB_ERROR", 0)
      BY <1>20 DEF CallThrows, Refusals
    <2>2. card' \in [Accounts -> CardType]
      <3>1. CASE UNCHANGED card
        BY <3>1 DEF TypeOK
      <3>2. CASE CountTry(r)
        BY SMTT(30), <3>2, <1>in DEF CountTry, TypeOK, CardType, WithTries
      <3>3. CASE ClearTries(r)
        BY <3>3 DEF ClearTries, TypeOK, CardType, WithTries
      <3> QED BY <1>20, <3>1, <3>2, <3>3 DEF CallThrows
    <2>3. ProgressType'
      BY <1>len, <2>1, TellType
    <2>4. faults' \in Nat
      BY <1>20 DEF CallThrows, Fault, TypeOK
    <2> QED BY <1>20, <2>2, <2>3, <2>4 DEF CallThrows, TypeOK, ProgressType
  <1>21. ASSUME NEW r \in Reqs, LookupFails(r) PROVE TypeOK'
    <2>1. /\ ledger' = ledger /\ "LOOKUP_ERROR" \in Refusals \ {"ok"}
          /\ Tell(r, "LOOKUP_ERROR", 0)
      BY <1>21 DEF LookupFails, Refusals
    <2>2. ProgressType'
      BY <1>len, <2>1, TellType
    <2>3. faults' \in Nat
      BY <1>21 DEF LookupFails, Fault, TypeOK
    <2> QED BY <1>21, <2>2, <2>3 DEF LookupFails, TypeOK, ProgressType
  <1>16. ASSUME NEW s \in Sweepers, SweepStart(s) \/ SweepEnd(s) PROVE TypeOK'
    <2>1. PICK next \in {"idle", "scan"} : sweep' = [sweep EXCEPT ![s].stage = next]
      BY <1>16 DEF SweepStart, SweepEnd
    <2>2. sweep' \in [Sweepers ->
             [stage : {"idle", "scan", "zero"}, found : SUBSET CandidateType,
              full : BOOLEAN, expired : BOOLEAN]]
      BY <2>1 DEF TypeOK
    <2>3. UNCHANGED <<now, acct, card, ledger, reqVars, faults>>
      BY <1>16 DEF SweepStart, SweepEnd
    <2> QED BY <2>2, <2>3 DEF TypeOK, reqVars, Entries
  <1>17. ASSUME NEW s \in Sweepers, SweepScan(s) PROVE TypeOK'
    <2>1. \A a \in Accounts : Candidate(a) \in CandidateType
      BY DEF Candidate, CandidateType, TypeOK
    <2>2. PICK C \in SUBSET {a \in Accounts : Lapsed(a)} :
            sweep' = [sweep EXCEPT ![s] =
              [stage |-> "zero", found |-> {Candidate(a) : a \in C},
               full |-> Cardinality(C) = SweepLimit, expired |-> FALSE]]
      BY <1>17 DEF SweepScan
    <2>3. {Candidate(a) : a \in C} \in SUBSET CandidateType
      BY <2>1
    <2>4. (Cardinality(C) = SweepLimit) \in BOOLEAN
      OBVIOUS
    <2>5. sweep' \in [Sweepers ->
             [stage : {"idle", "scan", "zero"}, found : SUBSET CandidateType,
              full : BOOLEAN, expired : BOOLEAN]]
      BY <2>2, <2>3, <2>4 DEF TypeOK
    <2> QED BY <1>17, <2>5 DEF SweepScan, TypeOK, reqVars, Entries
  <1>18. ASSUME NEW s \in Sweepers, NEW c \in sweep[s].found,
                SweepZero(s, c) \/ SweepSkip(s, c) \/ SweepFailed(s, c)
         PROVE  TypeOK'
    <2>1. c \in CandidateType
      BY DEF TypeOK
    <2>2. sweep' \in [Sweepers ->
             [stage : {"idle", "scan", "zero"}, found : SUBSET CandidateType,
              full : BOOLEAN, expired : BOOLEAN]]
      <3>1. PICK won \in BOOLEAN : SweepDrop(s, c, won)
        BY <1>18 DEF SweepZero, SweepSkip, SweepFailed
      <3> QED BY ZenonT(60), <3>1 DEF SweepDrop, TypeOK
    <2>3. /\ acct' \in [Accounts ->
                [issued : BOOLEAN, balance : Int, version : Nat, expires : Nat]]
          /\ ledger' \in Seq(EntryType)
          /\ Len(ledger) <= Len(ledger') /\ Len(ledger') \in Nat
      <3>1. CASE Zero(c)
        BY <2>1, <3>1, ZeroType
      <3>2. CASE UNCHANGED <<acct, ledger>>
        BY <3>2, <1>len DEF TypeOK
      <3> QED BY <1>18, <3>1, <3>2 DEF SweepZero, SweepSkip, SweepFailed
    <2>4. faults' \in Nat /\ UNCHANGED <<now, card, reqVars>>
      <3>1. CASE SweepZero(s, c) \/ SweepSkip(s, c)
        BY <3>1 DEF SweepZero, SweepSkip, TypeOK
      <3>2. CASE SweepFailed(s, c)
        BY <3>2 DEF SweepFailed, TypeOK
      <3> QED BY <1>18, <3>1, <3>2
    <2> QED BY SMTT(30), <1>len, <2>2, <2>3, <2>4 DEF TypeOK, reqVars, Entries
  <1>19. CASE UNCHANGED vars
    BY <1>19 DEF vars, TypeOK, Entries
  <1> QED
    BY <1>1, <1>2, <1>3, <1>4, <1>5, <1>6, <1>7, <1>8, <1>9, <1>10, <1>11, <1>12,
       <1>13, <1>14, <1>15, <1>16, <1>17, <1>18, <1>19, <1>20, <1>21
    DEF Next, Admin, RequestStep, SweepStep

(* The types of all variables hold in every reachable state, for every set  *)
(* of accounts, requests and keys.                                          *)
THEOREM TypeCorrect == Spec => []TypeOK
  BY InitType, NextType, PTL DEF Spec

-----------------------------------------------------------------------------
(* The three ways money moves have one shape: an entry under a fresh key    *)
(* explains the new balance of its account.                                 *)
Appends(a, e) ==
    /\ ledger' = Append(ledger, e)
    /\ ~KeyTaken(e.key)
    /\ e.acct = a
    /\ e.after = acct[a].balance + e.amount
    /\ acct'[a].balance = e.after
    /\ e.after >= 0
    /\ \A b \in Accounts \ {a} : acct'[b] = acct[b]

(* The new entry comes last in its account, behind the entry that was last, *)
(* and the order of all others is as it was.                                *)
LEMMA AppendOrder ==
    ASSUME ledger \in Seq(EntryType), NEW a, NEW e \in EntryType,
           ledger' = Append(ledger, e), e.acct = a,
           NEW n \in Nat, n = Len(ledger) + 1
    PROVE  /\ \A i, j \in Entries : Precedes(i, j)' <=> Precedes(i, j)
           /\ \A i \in Entries : Precedes(i, n)' <=> LastEntryOf(a, i)
           /\ \A i \in Entries : ~LastEntryOf(a, i)'
           /\ LastEntryOf(a, n)'
           /\ \A b, i : b # a /\ i \in Entries => (LastEntryOf(b, i)' <=> LastEntryOf(b, i))
           /\ \A b : b # a => ~LastEntryOf(b, n)'
           /\ \A i \in Entries : ~Precedes(n, i)'
           /\ ~Precedes(n, n)'
  <1>1. /\ Len(ledger) \in Nat
        /\ Entries' = Entries \cup {n}
        /\ \A i \in Entries : ledger'[i] = ledger[i]
        /\ ledger'[n] = e
        /\ \A i \in Entries : i \in Nat /\ i < n
    BY AppendEntry DEF Entries
  <1>2. \A i, j \in Entries : Precedes(i, j)' <=> Precedes(i, j)
    <2> TAKE i, j \in Entries
    <2>1. ~(n < j)
      BY <1>1
    <2> QED BY <1>1, <2>1 DEF Precedes
  <1>3. \A i \in Entries : Precedes(i, n)' <=> LastEntryOf(a, i)
    <2> TAKE i \in Entries
    <2>1. ledger'[i] = ledger[i] /\ i < n /\ ledger'[n].acct = a
      BY <1>1
    <2>2. Precedes(i, n)' <=>
            ledger[i].acct = a /\ \A k \in Entries : i < k /\ k < n => ledger[k].acct # a
      BY <1>1, <2>1 DEF Precedes
    <2>3. LastEntryOf(a, i) <=>
            ledger[i].acct = a /\ \A k \in Entries : i < k => ledger[k].acct # a
      BY <1>1 DEF LastEntryOf
    <2> QED BY <1>1, <2>2, <2>3
  <1>4. /\ \A i \in Entries : ~LastEntryOf(a, i)'
        /\ LastEntryOf(a, n)'
    BY <1>1 DEF LastEntryOf
  <1>5. /\ \A b, i : b # a /\ i \in Entries => (LastEntryOf(b, i)' <=> LastEntryOf(b, i))
        /\ \A b : b # a => ~LastEntryOf(b, n)'
    BY <1>1 DEF LastEntryOf
  <1>6. /\ \A i \in Entries : ~Precedes(n, i)'
        /\ ~Precedes(n, n)'
    BY <1>1 DEF Precedes
  <1> QED BY <1>2, <1>3, <1>4, <1>5, <1>6

(* Appending an entry under a new key keeps the book in order.              *)
LEMMA AppendKeepsBook ==
    ASSUME TypeOK, NeverOverspent, KeyAppliedOnce, LedgerExplainsBalance,
           NEW a \in Accounts, NEW e \in EntryType, Appends(a, e)
    PROVE  NeverOverspent' /\ KeyAppliedOnce' /\ LedgerExplainsBalance'
  <1>n. PICK n \in Nat : n = Len(ledger) + 1
    BY AppendEntry DEF TypeOK, Appends
  <1>1. ledger \in Seq(EntryType) /\ ledger' = Append(ledger, e) /\ e.acct = a
    BY DEF TypeOK, Appends
  <1>2. /\ Len(ledger) \in Nat
        /\ Entries' = Entries \cup {n} /\ n \notin Entries
        /\ \A i \in Entries : ledger'[i] = ledger[i]
        /\ ledger'[n] = e
        /\ \A i \in Entries : i < n
    BY <1>n, <1>1, AppendEntry DEF Entries
  <1>3. /\ \A i, j \in Entries : Precedes(i, j)' <=> Precedes(i, j)
        /\ \A i \in Entries : Precedes(i, n)' <=> LastEntryOf(a, i)
        /\ LastEntryOf(a, n)'
        /\ \A b, i : b # a /\ i \in Entries => (LastEntryOf(b, i)' <=> LastEntryOf(b, i))
    BY <1>n, <1>1, AppendOrder
  <1>4. NeverOverspent'
    BY <1>2 DEF NeverOverspent, Appends
  <1>5. KeyAppliedOnce'
    <2>1. \A i \in Entries : ledger'[i].key # ledger'[n].key
      BY <1>2 DEF Appends, KeyTaken
    <2> QED BY <1>2, <2>1 DEF KeyAppliedOnce
  <1>6. ASSUME NEW b \in Accounts
        PROVE  \/ \E i \in Entries' : LastEntryOf(b, i)' /\ ledger'[i].after = acct'[b].balance
               \/ acct'[b].balance = 0 /\ \A i \in Entries' : ledger'[i].acct # b
    <2>1. CASE b = a
      BY <2>1, <1>2, <1>3 DEF Appends
    <2>2. CASE b # a
      <3>1. acct'[b] = acct[b]
        BY <2>2 DEF Appends
      <3>2. CASE \E i \in Entries : LastEntryOf(b, i) /\ ledger[i].after = acct[b].balance
        BY <3>1, <3>2, <2>2, <1>2, <1>3
      <3>3. CASE acct[b].balance = 0 /\ \A i \in Entries : ledger[i].acct # b
        BY <3>1, <3>3, <2>2, <1>1, <1>2
      <3> QED BY <3>2, <3>3 DEF LedgerExplainsBalance
    <2> QED BY <2>1, <2>2
  <1>7. ASSUME NEW j \in Entries'
        PROVE  \/ \E i \in Entries' : Precedes(i, j)'
                     /\ ledger'[j].after = ledger'[i].after + ledger'[j].amount
               \/ /\ \A i \in Entries' : i < j => ledger'[i].acct # ledger'[j].acct
                  /\ ledger'[j].after = ledger'[j].amount
    <2>1. CASE j \in Entries
      <3>1. ~(n < j)
        BY <2>1, <1>2 DEF Entries
      <3>2. CASE \E i \in Entries : Precedes(i, j)
                     /\ ledger[j].after = ledger[i].after + ledger[j].amount
        BY <3>2, <2>1, <1>2, <1>3
      <3>3. CASE /\ \A i \in Entries : i < j => ledger[i].acct # ledger[j].acct
                 /\ ledger[j].after = ledger[j].amount
        BY <3>1, <3>3, <2>1, <1>2
      <3> QED BY <2>1, <3>2, <3>3 DEF LedgerExplainsBalance
    <2>2. CASE j = n
      <3>1. ledger'[j].after = acct[a].balance + ledger'[j].amount /\ ledger'[j].acct = a
        BY <2>2, <1>2 DEF Appends
      <3>2. CASE \E i \in Entries : LastEntryOf(a, i) /\ ledger[i].after = acct[a].balance
        BY <3>1, <3>2, <2>2, <1>2, <1>3
      <3>3. CASE acct[a].balance = 0 /\ \A i \in Entries : ledger[i].acct # a
        <4>1. \A i \in Entries' : i < j => ledger'[i].acct # ledger'[j].acct
          BY <3>1, <3>3, <2>2, <1>2
        <4>2. ledger'[j].after = ledger'[j].amount
          BY <3>1, <3>3, <2>2, <1>2 DEF EntryType
        <4> QED BY <4>1, <4>2
      <3> QED BY <3>2, <3>3 DEF LedgerExplainsBalance
    <2> QED BY <2>1, <2>2, <1>2
  <1>8. LedgerExplainsBalance'
    BY <1>6, <1>7 DEF LedgerExplainsBalance
  <1> QED BY <1>4, <1>5, <1>8

(* A step that appends an entry keeps the book, provided the entry sets the *)
(* account's expiry or is the expiry of idle money.                         *)
LEMMA AppendKeepsBookInv ==
    ASSUME TypeOK, TypeOK', BookInv, NEW a \in Accounts, NEW e \in EntryType, Appends(a, e),
           acct'[a].issued,
           acct[a].issued => acct'[a].version > acct[a].version,
           \A b \in Accounts : e.key = IssueKey(b) => a = b,
           IF e.type = "expire"
           THEN /\ e.after = 0
                /\ \A i \in Entries : LastEntryOf(a, i) => e.at > ledger[i].at + Period
           ELSE acct'[a].expires = e.at + Period,
           now' = now,
           \A s \in Sweepers : sweep'[s].found \subseteq sweep[s].found
    PROVE  BookInv'
  <1>n. PICK n \in Nat : n = Len(ledger) + 1
    BY AppendEntry DEF TypeOK, Appends
  <1>1. ledger \in Seq(EntryType) /\ ledger' = Append(ledger, e) /\ e.acct = a
    BY DEF TypeOK, Appends
  <1>2. /\ Entries' = Entries \cup {n} /\ n \notin Entries
        /\ \A i \in Entries : ledger'[i] = ledger[i]
        /\ ledger'[n] = e
    BY <1>n, <1>1, AppendEntry DEF Entries
  <1>3. /\ \A i, j \in Entries : Precedes(i, j)' <=> Precedes(i, j)
        /\ \A i \in Entries : Precedes(i, n)' <=> LastEntryOf(a, i)
        /\ \A i \in Entries : ~LastEntryOf(a, i)'
        /\ \A b, i : b # a /\ i \in Entries => (LastEntryOf(b, i)' <=> LastEntryOf(b, i))
        /\ \A b : b # a => ~LastEntryOf(b, n)'
        /\ \A i \in Entries : ~Precedes(n, i)'
        /\ ~Precedes(n, n)'
    BY <1>n, <1>1, AppendOrder
  <1>4. \A b \in Accounts : b # a => acct'[b] = acct[b]
    BY DEF Appends
  <1>5. NeverOverspent' /\ KeyAppliedOnce' /\ LedgerExplainsBalance'
    BY AppendKeepsBook DEF BookInv
  <1>6. OnlyIssuedAccountsMove'
    <2>1. \A i \in Entries' : acct'[ledger'[i].acct].issued
      <3> TAKE i \in Entries'
      <3>1. CASE i = n
        BY <3>1, <1>1, <1>2
      <3>2. CASE i \in Entries /\ ledger[i].acct = a
        BY <3>2, <1>2
      <3>3. CASE i \in Entries /\ ledger[i].acct # a
        <4>1. ledger[i].acct \in Accounts
          <5>1. ledger[i] \in EntryType
            BY <3>3, <1>1 DEF Entries
          <5> QED BY <5>1 DEF EntryType
        <4> QED BY <4>1, <3>3, <1>2, <1>4 DEF BookInv, OnlyIssuedAccountsMove
      <3> QED BY <3>1, <3>2, <3>3, <1>2
    <2>2. \A b \in Accounts : ~acct'[b].issued => acct'[b].balance = 0
      BY <1>4 DEF BookInv, OnlyIssuedAccountsMove
    <2> QED BY <2>1, <2>2 DEF OnlyIssuedAccountsMove
  <1>7. KeyNamesAccount'
    <2> SUFFICES ASSUME NEW i \in Entries', NEW b \in Accounts, ledger'[i].key = IssueKey(b)
                 PROVE  ledger'[i].acct = b
      BY DEF KeyNamesAccount, IssueKey
    <2>1. CASE i = n
      BY <2>1, <1>1, <1>2
    <2>2. CASE i \in Entries
      BY <2>2, <1>2 DEF BookInv, KeyNamesAccount
    <2> QED BY <2>1, <2>2, <1>2
  <1>8. CandidatesAreVersioned'
    <2> SUFFICES ASSUME NEW s \in Sweepers, NEW c \in sweep'[s].found
                 PROVE  /\ acct'[c.acct].issued
                        /\ c.expires < now'
                        /\ c.version <= acct'[c.acct].version
                        /\ c.version = acct'[c.acct].version
                             => /\ c.balance = acct'[c.acct].balance
                                /\ c.expires = acct'[c.acct].expires
      BY DEF CandidatesAreVersioned
    <2>1. c \in sweep[s].found /\ c \in CandidateType
      BY DEF TypeOK
    <2>2. /\ acct[c.acct].issued
          /\ c.expires < now
          /\ c.version <= acct[c.acct].version
          /\ c.version = acct[c.acct].version
               => c.balance = acct[c.acct].balance /\ c.expires = acct[c.acct].expires
      BY <2>1 DEF BookInv, CandidatesAreVersioned
    <2>3. CASE c.acct = a
      <3>1. /\ c.version \in Nat /\ acct[a].version \in Nat /\ acct'[a].version \in Nat
            /\ acct'[a].version > acct[a].version
        BY <2>1, <2>2, <2>3 DEF TypeOK, CandidateType
      <3> QED BY <2>2, <2>3, <3>1
    <2>4. CASE c.acct # a
      <3>1. c.acct \in Accounts
        BY <2>1 DEF CandidateType
      <3> QED BY <2>2, <2>4, <3>1, <1>4
    <2> QED BY <2>3, <2>4
  <1>9. ExpiryTracksLatest'
    <2> SUFFICES ASSUME NEW b \in Accounts, NEW i \in Entries', LastEntryOf(b, i)'
                 PROVE  IF ledger'[i].type = "expire"
                        THEN acct'[b].balance = 0
                        ELSE acct'[b].expires = ledger'[i].at + Period
      BY DEF ExpiryTracksLatest
    <2>1. CASE b = a
      <3>1. i = n
        BY <2>1, <1>2, <1>3
      <3> QED BY <2>1, <3>1, <1>2 DEF Appends
    <2>2. CASE b # a
      BY <2>2, <1>2, <1>3, <1>4 DEF BookInv, ExpiryTracksLatest
    <2> QED BY <2>1, <2>2
  <1>10. ExpiryTakesOnlyIdleMoney'
    <2> SUFFICES ASSUME NEW i \in Entries', NEW j \in Entries',
                        Precedes(i, j)', ledger'[j].type = "expire"
                 PROVE  ledger'[j].at > ledger'[i].at + Period
      BY DEF ExpiryTakesOnlyIdleMoney
    <2>1. i \in Entries
      BY <1>2, <1>3
    <2>2. CASE j = n
      BY <2>1, <2>2, <1>2, <1>3
    <2>3. CASE j \in Entries
      BY <2>1, <2>3, <1>2, <1>3 DEF BookInv, ExpiryTakesOnlyIdleMoney
    <2> QED BY <2>2, <2>3, <1>2
  <1> QED BY <1>5, <1>6, <1>7, <1>8, <1>9, <1>10 DEF BookInv

(* A movement appends its entry to the book. *)
LEMMA MovementAppends ==
    ASSUME TypeOK, NeverOverspent, NEW r \in Reqs, ApplyMovement(r)
    PROVE  \E e \in EntryType :
             /\ Appends(target[r], e)
             /\ e.type # "expire" /\ e.type = EntryTypeOf(input[r].op)
             /\ e.key = ClientKey(input[r].key)
             /\ e.at = at[r] /\ e.by = r
             /\ e.amount = Signed(input[r])
             /\ acct'[target[r]].expires = e.at + Period
             /\ acct'[target[r]].version = acct[target[r]].version + 1
             /\ acct'[target[r]].issued = acct[target[r]].issued
  <1> DEFINE a == target[r]
             amount == Signed(input[r])
             after == acct[a].balance + amount
             e == [key |-> ClientKey(input[r].key), type |-> EntryTypeOf(input[r].op),
                   acct |-> a, amount |-> amount, after |-> after,
                   source |-> input[r].source, at |-> at[r], by |-> r]
  <1>1. a \in Accounts /\ input[r] \in InputType /\ at[r] \in Nat
    BY ParameterAssumption DEF TypeOK
  <1>2. amount \in Int /\ after \in Int /\ after >= 0
    BY SMTT(30), <1>1 DEF TypeOK, Signed, InputType, Ops, NeverOverspent, ApplyMovement, Funded
  <1>3. /\ ClientKey(input[r].key) \in AllKeys
        /\ EntryTypeOf(input[r].op) \in {"adjust", "spend", "topup", "refund", "expire"}
        /\ EntryTypeOf(input[r].op) # "expire"
        /\ input[r].source \in Sources \cup {"system"}
    BY <1>1 DEF ClientKey, AllKeys, EntryTypeOf, InputType, Ops
  <1>4. /\ ledger' = Append(ledger, e)
        /\ ~KeyTaken(ClientKey(input[r].key))
        /\ acct' = [acct EXCEPT ![a] =
             [issued |-> @.issued, balance |-> after, version |-> @.version + 1,
              expires |-> at[r] + Period]]
    BY DEF ApplyMovement, Insert
  <1>5. e \in EntryType
    BY <1>1, <1>2, <1>3 DEF EntryType
  <1>6. Appends(a, e)
    <2>1. acct'[a].balance = after /\ \A b \in Accounts \ {a} : acct'[b] = acct[b]
      BY <1>1, <1>4 DEF TypeOK
    <2>2. e.acct = a /\ e.after = after /\ e.amount = amount
          /\ e.key = ClientKey(input[r].key)
      OBVIOUS
    <2> QED BY <1>2, <1>4, <2>1, <2>2 DEF Appends
  <1>7. /\ acct'[a].expires = at[r] + Period
        /\ acct'[a].version = acct[a].version + 1
        /\ acct'[a].issued = acct[a].issued
    BY <1>1, <1>4 DEF TypeOK
  <1> QED BY <1>3, <1>5, <1>6, <1>7

(* The expiry of an untouched candidate appends its entry, which takes all  *)
(* of a balance that has been idle for longer than a period.                *)
LEMMA ZeroAppends ==
    ASSUME TypeOK, BookInv, NEW s \in Sweepers, NEW c \in sweep[s].found, Zero(c)
    PROVE  \E e \in EntryType :
             /\ Appends(c.acct, e)
             /\ e.type = "expire" /\ e.key = KeyOfExpiry(c) /\ e.after = 0
             /\ e.at = now /\ e.by = "system"
             /\ \A i \in Entries : LastEntryOf(c.acct, i) => e.at > ledger[i].at + Period
             /\ acct'[c.acct].version = acct[c.acct].version + 1
             /\ acct'[c.acct].issued
             /\ acct[c.acct].balance > 0
  <1> DEFINE e == [key |-> KeyOfExpiry(c), type |-> "expire", acct |-> c.acct,
                   amount |-> -c.balance, after |-> 0, source |-> "system",
                   at |-> now, by |-> "system"]
  <1>1. c \in CandidateType
    BY DEF TypeOK
  <1>2. /\ c.balance = acct[c.acct].balance /\ c.expires = acct[c.acct].expires
        /\ acct[c.acct].issued /\ c.expires < now /\ acct[c.acct].balance > 0
    BY DEF BookInv, CandidatesAreVersioned, Zero, Untouched
  <1>3. /\ KeyOfExpiry(c) \in AllKeys /\ c.acct \in Accounts /\ now \in Nat
        /\ c.balance \in Int /\ -c.balance \in Int /\ 0 = c.balance + (-c.balance)
    BY <1>1 DEF KeyOfExpiry, ExpireKey, AllKeys, CandidateType, TypeOK
  <1>4. /\ ledger' = Append(ledger, e)
        /\ ~KeyTaken(KeyOfExpiry(c))
        /\ acct' = [acct EXCEPT ![c.acct].balance = 0, ![c.acct].version = @ + 1]
    BY DEF Zero, Insert
  <1>5. e \in EntryType
    BY <1>3 DEF EntryType
  <1>6. /\ acct'[c.acct].balance = 0
        /\ acct'[c.acct].version = acct[c.acct].version + 1
        /\ acct'[c.acct].issued = acct[c.acct].issued
        /\ \A b \in Accounts \ {c.acct} : acct'[b] = acct[b]
    BY <1>3, <1>4 DEF TypeOK
  <1>7. Appends(c.acct, e)
    <2>1. /\ e.acct = c.acct /\ e.key = KeyOfExpiry(c) /\ e.after = 0
          /\ e.amount = -c.balance
      OBVIOUS
    <2>2. e.after = acct[c.acct].balance + e.amount /\ e.after >= 0
      BY <2>1, <1>2, <1>3
    <2> HIDE DEF e
    <2> QED BY <2>1, <2>2, <1>4, <1>6 DEF Appends
  <1>8. \A i \in Entries : LastEntryOf(c.acct, i) => now > ledger[i].at + Period
    <2> TAKE i \in Entries
    <2> HAVE LastEntryOf(c.acct, i)
    <2>1. IF ledger[i].type = "expire"
          THEN acct[c.acct].balance = 0
          ELSE acct[c.acct].expires = ledger[i].at + Period
      BY <1>3 DEF BookInv, ExpiryTracksLatest
    <2> QED BY <1>2, <2>1
  <1> QED BY <1>2, <1>5, <1>6, <1>7, <1>8

(* An opening balance appends its entry too. *)
LEMMA OpeningAppends ==
    ASSUME TypeOK, BookInv, NEW a \in Accounts, NEW amount \in Openings,
           NEW hasPin \in BOOLEAN, IssueCard(a, amount, hasPin), amount > 0
    PROVE  \E e \in EntryType :
             /\ Appends(a, e)
             /\ e.type = "adjust" /\ e.key = IssueKey(a) /\ e.after = amount
             /\ e.at = now /\ e.by = "system"
             /\ acct'[a].expires = e.at + Period
             /\ acct'[a].issued /\ acct'[a].balance # acct[a].balance
  <1> DEFINE e == [key |-> IssueKey(a), type |-> "adjust", acct |-> a,
                   amount |-> amount, after |-> amount, source |-> "system",
                   at |-> now, by |-> "system"]
  <1>1. amount \in Nat /\ amount \in Int /\ now \in Nat /\ IssueKey(a) \in AllKeys
    BY ParameterAssumption DEF TypeOK, IssueKey, AllKeys
  <1>2. ~acct[a].issued /\ acct[a].balance = 0
    BY DEF IssueCard, BookInv, OnlyIssuedAccountsMove
  <1>3. ledger' = Append(ledger, e)
    BY DEF IssueCard, RecordOpening, Insert
  <1>4. e \in EntryType
    BY <1>1 DEF EntryType
  <1>5. ~KeyTaken(IssueKey(a))
    BY <1>2 DEF KeyTaken, BookInv, KeyNamesAccount, OnlyIssuedAccountsMove
  <1>6. /\ acct'[a].balance = amount /\ acct'[a].issued
        /\ acct'[a].expires = now + Period
        /\ \A b \in Accounts \ {a} : acct'[b] = acct[b]
    BY DEF IssueCard, TypeOK
  <1>7. Appends(a, e)
    BY <1>1, <1>2, <1>3, <1>5, <1>6 DEF Appends
  <1> QED BY <1>1, <1>2, <1>4, <1>6, <1>7

-----------------------------------------------------------------------------
(* The book is in order initially.                                          *)
LEMMA InitBook == Init => BookInv
  <1> SUFFICES ASSUME Init PROVE BookInv
    OBVIOUS
  <1>1. Entries = {} /\ Len(ledger) = 0
    BY DEF Init, Entries
  <1> QED
    BY <1>1 DEF Init, BookInv, NeverOverspent, KeyAppliedOnce, LedgerExplainsBalance,
       OnlyIssuedAccountsMove, KeyNamesAccount, CandidatesAreVersioned,
       ExpiryTracksLatest, ExpiryTakesOnlyIdleMoney

(* A step that moves no money keeps the book. *)
LEMMA QuietKeepsBook ==
    ASSUME TypeOK, BookInv, UNCHANGED <<acct, ledger>>, now' \in Nat, now <= now',
           \A s \in Sweepers : \A c \in sweep'[s].found :
               \/ c \in sweep[s].found
               \/ \E a \in Accounts : c = Candidate(a) /\ Lapsed(a)
    PROVE  BookInv'
  <1>1. CandidatesAreVersioned'
    <2> SUFFICES ASSUME NEW s \in Sweepers, NEW c \in sweep'[s].found
                 PROVE  /\ acct[c.acct].issued
                        /\ c.expires < now'
                        /\ c.version <= acct[c.acct].version
                        /\ c.version = acct[c.acct].version
                             => /\ c.balance = acct[c.acct].balance
                                /\ c.expires = acct[c.acct].expires
      BY DEF CandidatesAreVersioned
    <2>1. CASE c \in sweep[s].found
      <3>1. c \in CandidateType
        BY <2>1 DEF TypeOK
      <3> QED BY <2>1, <3>1 DEF BookInv, CandidatesAreVersioned, CandidateType, TypeOK
    <2>2. ASSUME NEW a \in Accounts, c = Candidate(a), Lapsed(a)
          PROVE  /\ acct[c.acct].issued
                 /\ c.expires < now'
                 /\ c.version <= acct[c.acct].version
                 /\ c.version = acct[c.acct].version
                      => /\ c.balance = acct[c.acct].balance
                         /\ c.expires = acct[c.acct].expires
      <3>1. /\ c.acct = a /\ c.expires = acct[a].expires /\ c.version = acct[a].version
            /\ c.balance = acct[a].balance
        BY <2>2 DEF Candidate
      <3>2. acct[a].expires < now' /\ acct[a].version <= acct[a].version
        BY <2>2 DEF Lapsed, TypeOK
      <3>3. acct[a].issued
        BY <2>2 DEF Lapsed, BookInv, OnlyIssuedAccountsMove
      <3> QED BY <3>1, <3>2, <3>3
    <2> QED BY <2>1, <2>2
  <1>2. /\ NeverOverspent' /\ KeyAppliedOnce' /\ LedgerExplainsBalance'
        /\ OnlyIssuedAccountsMove' /\ KeyNamesAccount'
        /\ ExpiryTracksLatest' /\ ExpiryTakesOnlyIdleMoney'
    BY DEF BookInv, NeverOverspent, KeyAppliedOnce, LedgerExplainsBalance,
       OnlyIssuedAccountsMove, KeyNamesAccount, ExpiryTracksLatest,
       ExpiryTakesOnlyIdleMoney, Entries, LastEntryOf, Precedes
  <1> QED BY <1>1, <1>2 DEF BookInv

(* A card issued empty changes no other account and no entry. *)
LEMMA EmptyIssueKeepsBook ==
    ASSUME TypeOK, BookInv, NEW a \in Accounts, NEW amount \in Openings,
           NEW hasPin \in BOOLEAN, IssueCard(a, amount, hasPin), ~(amount > 0)
    PROVE  BookInv'
  <1>1. amount = 0
    BY ParameterAssumption
  <1>2. /\ ledger' = ledger /\ Entries' = Entries /\ sweep' = sweep /\ now' = now
        /\ ~acct[a].issued /\ acct[a].balance = 0
        /\ acct'[a].balance = 0 /\ acct'[a].issued
        /\ \A b \in Accounts \ {a} : acct'[b] = acct[b]
    BY <1>1 DEF IssueCard, RecordOpening, TypeOK, BookInv, OnlyIssuedAccountsMove, Entries
  <1>3. \A i \in Entries : ledger[i].acct \in Accounts \ {a}
    <2>1. \A i \in Entries : ledger[i] \in EntryType
      BY DEF TypeOK, Entries
    <2> QED BY <2>1, <1>2 DEF EntryType, BookInv, OnlyIssuedAccountsMove
  <1>4. NeverOverspent' /\ KeyAppliedOnce' /\ KeyNamesAccount' /\ OnlyIssuedAccountsMove'
    BY <1>2, <1>3 DEF BookInv, NeverOverspent, KeyAppliedOnce, KeyNamesAccount,
       OnlyIssuedAccountsMove
  <1>5. LedgerExplainsBalance'
    <2>1. ASSUME NEW b \in Accounts
          PROVE  \/ \E i \in Entries : LastEntryOf(b, i)' /\ ledger[i].after = acct'[b].balance
                 \/ acct'[b].balance = 0 /\ \A i \in Entries : ledger[i].acct # b
      <3>1. CASE b = a
        BY <3>1, <1>2, <1>3
      <3>2. CASE b # a
        BY <3>2, <1>2 DEF BookInv, LedgerExplainsBalance, LastEntryOf
      <3> QED BY <3>1, <3>2
    <2> QED BY <2>1, <1>2 DEF BookInv, LedgerExplainsBalance, Precedes
  <1>6. CandidatesAreVersioned'
    <2>1. \A s \in Sweepers : \A c \in sweep[s].found : c.acct \in Accounts \ {a}
      BY <1>2 DEF TypeOK, CandidateType, BookInv, CandidatesAreVersioned
    <2> QED BY <2>1, <1>2 DEF BookInv, CandidatesAreVersioned
  <1>7. ExpiryTracksLatest' /\ ExpiryTakesOnlyIdleMoney'
    BY <1>2, <1>3 DEF BookInv, ExpiryTracksLatest, ExpiryTakesOnlyIdleMoney,
       LastEntryOf, Precedes
  <1> QED BY <1>4, <1>5, <1>6, <1>7 DEF BookInv

(* Every step keeps the book. *)
LEMMA NextBook == TypeOK /\ TypeOK' /\ BookInv /\ RequestInv /\ [Next]_vars => BookInv'
  <1> SUFFICES ASSUME TypeOK, TypeOK', BookInv, RequestInv, [Next]_vars PROVE BookInv'
    OBVIOUS
  <1>now. now \in Nat /\ now <= now
    BY DEF TypeOK
  <1>1. CASE Tick
    BY <1>1, <1>now, QuietKeepsBook DEF Tick
  <1>2. ASSUME NEW a \in Accounts, NEW amount \in Openings, NEW hasPin \in BOOLEAN,
               IssueCard(a, amount, hasPin)
        PROVE  BookInv'
    <2>1. CASE amount > 0
      <3>1. PICK e \in EntryType :
               /\ Appends(a, e)
               /\ e.type = "adjust" /\ e.key = IssueKey(a) /\ e.after = amount
               /\ e.at = now /\ e.by = "system"
               /\ acct'[a].expires = e.at + Period
               /\ acct'[a].issued /\ acct'[a].balance # acct[a].balance
        BY <1>2, <2>1, OpeningAppends
      <3>2. /\ ~acct[a].issued /\ now' = now /\ sweep' = sweep
            /\ \A b \in Accounts : IssueKey(a) = IssueKey(b) => a = b
        BY <1>2 DEF IssueCard, IssueKey
      <3> QED BY <3>1, <3>2, AppendKeepsBookInv
    <2>2. CASE ~(amount > 0)
      BY <1>2, <2>2, EmptyIssueKeepsBook
    <2> QED BY <2>1, <2>2
  <1>3. ASSUME NEW r \in Reqs, ApplyMovement(r), now' = now, sweep' = sweep
        PROVE  BookInv'
    <2>1. PICK e \in EntryType :
             /\ Appends(target[r], e)
             /\ e.type # "expire"
             /\ e.key = ClientKey(input[r].key)
             /\ acct'[target[r]].expires = e.at + Period
             /\ acct'[target[r]].version = acct[target[r]].version + 1
             /\ acct'[target[r]].issued = acct[target[r]].issued
      BY <1>3, MovementAppends DEF BookInv
    <2>2. PICK a \in Accounts : a = target[r]
      BY DEF TypeOK
    <2>3. acct[a].issued
      BY <1>3, <2>2 DEF ApplyMovement, RequestInv, RequestWritesOwnKey
    <2>4. \A b \in Accounts : e.key # IssueKey(b)
      BY <2>1 DEF ClientKey, IssueKey
    <2>5. acct'[a].version > acct[a].version
      BY SMTT(30), <2>1, <2>2 DEF TypeOK
    <2> QED BY <1>3, <2>1, <2>2, <2>3, <2>4, <2>5, AppendKeepsBookInv
  <1>4. ASSUME NEW s \in Sweepers, NEW c \in sweep[s].found, Zero(c),
               NEW won \in BOOLEAN, SweepDrop(s, c, won), now' = now
        PROVE  BookInv'
    <2>1. PICK e \in EntryType :
             /\ Appends(c.acct, e)
             /\ e.type = "expire" /\ e.key = KeyOfExpiry(c) /\ e.after = 0
             /\ e.at = now /\ e.by = "system"
             /\ \A i \in Entries : LastEntryOf(c.acct, i) => e.at > ledger[i].at + Period
             /\ acct'[c.acct].version = acct[c.acct].version + 1
             /\ acct'[c.acct].issued
             /\ acct[c.acct].balance > 0
      BY <1>4, ZeroAppends
    <2>2. c.acct \in Accounts
      BY DEF TypeOK, CandidateType
    <2>3. \A b \in Accounts : e.key # IssueKey(b)
      BY <2>1 DEF KeyOfExpiry, ExpireKey, IssueKey
    <2>4. acct'[c.acct].version > acct[c.acct].version
      BY <2>1, <2>2 DEF TypeOK
    <2>5. \A q \in Sweepers : sweep'[q].found \subseteq sweep[q].found
      BY <1>4 DEF SweepDrop, TypeOK
    <2> QED BY <1>4, <2>1, <2>2, <2>3, <2>4, <2>5, AppendKeepsBookInv
  <1>5. ASSUME NEW s \in Sweepers, NEW c \in sweep[s].found, NEW won \in BOOLEAN,
               SweepDrop(s, c, won), now' = now, UNCHANGED <<acct, ledger>>
        PROVE  BookInv'
    <2>1. \A q \in Sweepers : sweep'[q].found \subseteq sweep[q].found
      BY <1>5 DEF SweepDrop, TypeOK
    <2> QED BY <1>5, <1>now, <2>1, QuietKeepsBook
  <1>6. ASSUME NEW s \in Sweepers, SweepStart(s) \/ SweepEnd(s) PROVE BookInv'
    <2>1. PICK next \in {"idle", "scan"} : sweep' = [sweep EXCEPT ![s].stage = next]
      BY <1>6 DEF SweepStart, SweepEnd
    <2>2. \A q \in Sweepers : sweep'[q].found \subseteq sweep[q].found
      BY <2>1 DEF TypeOK
    <2>3. now' = now /\ UNCHANGED <<acct, ledger>>
      BY <1>6 DEF SweepStart, SweepEnd
    <2> QED BY <1>now, <2>2, <2>3, QuietKeepsBook
  <1>7. ASSUME NEW s \in Sweepers, SweepScan(s) PROVE BookInv'
    <2>1. PICK C \in SUBSET {a \in Accounts : Lapsed(a)} :
            sweep' = [sweep EXCEPT ![s] =
              [stage |-> "zero", found |-> {Candidate(a) : a \in C},
               full |-> Cardinality(C) = SweepLimit, expired |-> FALSE]]
      BY <1>7 DEF SweepScan
    <2>2. \A q \in Sweepers : \A c \in sweep'[q].found :
             \/ c \in sweep[q].found
             \/ \E a \in Accounts : c = Candidate(a) /\ Lapsed(a)
      <3> TAKE q \in Sweepers
      <3>1. CASE q = s
        <4>1. sweep'[q].found = {Candidate(a) : a \in C}
          BY <3>1, <2>1 DEF TypeOK
        <4> QED BY <4>1
      <3>2. CASE q # s
        BY <3>2, <2>1 DEF TypeOK
      <3> QED BY <3>1, <3>2
    <2>3. now' = now /\ UNCHANGED <<acct, ledger>>
      BY <1>7 DEF SweepScan
    <2> QED BY <1>now, <2>2, <2>3, QuietKeepsBook
  <1>8. CASE UNCHANGED <<now, acct, ledger, sweep>>
    BY <1>8, <1>now, QuietKeepsBook
  <1>9. ASSUME NEW r \in Reqs, Arrive(r) \/ RequestStep(r) PROVE BookInv'
    <2>1. \/ ApplyMovement(r) /\ now' = now /\ sweep' = sweep
          \/ UNCHANGED <<now, acct, ledger, sweep>>
      BY <1>9 DEF Arrive, RequestStep, FindSpend, LoadCard, FindKey, PinFail, PinReset,
         CommitAnswered, CommitUnanswered, CommitDuplicate, CommitFailed, CommitUnfunded,
         Lookup, CallThrows, LookupFails
    <2> QED BY <2>1, <1>3, <1>8
  <1>10. ASSUME NEW s \in Sweepers, SweepStep(s) PROVE BookInv'
    <2>1. ASSUME NEW c \in sweep[s].found,
                 SweepZero(s, c) \/ SweepSkip(s, c) \/ SweepFailed(s, c)
          PROVE  BookInv'
      <3>1. PICK won \in BOOLEAN : SweepDrop(s, c, won)
        BY <2>1 DEF SweepZero, SweepSkip, SweepFailed
      <3>2. now' = now /\ (Zero(c) \/ UNCHANGED <<acct, ledger>>)
        BY <2>1 DEF SweepZero, SweepSkip, SweepFailed
      <3> QED BY <3>1, <3>2, <1>4, <1>5
    <2> QED BY <1>10, <2>1, <1>6, <1>7 DEF SweepStep
  <1>11. CASE Admin
    <2>1. ASSUME NEW a \in Accounts,
                 SetPin(a) \/ \E status \in NewStatuses : SetCardStatus(a, status)
          PROVE  BookInv'
      BY <2>1, <1>8 DEF SetPin, SetCardStatus
    <2> QED BY <1>11, <1>2, <2>1 DEF Admin
  <1>12. CASE UNCHANGED vars
    BY <1>12, <1>8 DEF vars
  <1> QED BY <1>1, <1>9, <1>10, <1>11, <1>12 DEF Next

-----------------------------------------------------------------------------
(* What is known of the requests holds initially.                           *)
LEMMA InitRequests == Init => RequestInv
  BY DEF Init, RequestInv, RequestWritesOwnKey, FailureMovedNothing, RefundHasSpend,
     RefundWithinSpend, Entries, Pending, Refusals

(* A call of request r that inserts nothing. *)
LEMMA QuietRequest ==
    ASSUME TypeOK, RequestInv, NEW r \in Reqs, UNCHANGED <<ledger, input>>,
           \A a \in Accounts : acct[a].issued => acct'[a].issued,
           \A q \in Reqs \ {r} : /\ stage'[q] = stage[q] /\ answer'[q] = answer[q]
                                 /\ target'[q] = target[q],
           stage'[r] \in {"commit", "pinReset", "pinFail"} => acct'[target'[r]].issued,
           stage'[r] \in {"card", "pinReset", "pinFail"} => input[r].op = "spend",
           answer'[r].kind # "pending" => stage'[r] = "done",
           stage[r] \in {"lookup", "done"} =>
               stage'[r] \in {"lookup", "done"} /\ target'[r] = target[r],
           answer'[r].kind \in Refusals \ {"LOOKUP_ERROR"} =>
               \A i \in Entries : ledger[i].by # r,
           input[r].op = "refundSpend" /\ stage'[r] \in {"key", "commit", "lookup"} =>
               \E j \in Entries :
                   /\ ledger[j].key = ClientKey(input[r].spendKey)
                   /\ ledger[j].type = "spend"
                   /\ ledger[j].acct = target'[r]
                   /\ input[r].amount <= -ledger[j].amount
    PROVE  RequestInv'
  <1>1. Entries' = Entries
    BY DEF Entries
  <1>2. \A q \in Reqs : target[q] \in Accounts
    BY DEF TypeOK
  <1>3. ASSUME NEW q \in Reqs
        PROVE  /\ stage'[q] \in {"commit", "pinReset", "pinFail"} => acct'[target'[q]].issued
               /\ stage'[q] \in {"card", "pinReset", "pinFail"} => input[q].op = "spend"
               /\ answer'[q].kind # "pending" => stage'[q] = "done"
    BY <1>2 DEF RequestInv, RequestWritesOwnKey
  <1>4. ASSUME NEW i \in Entries, ledger[i].by \in Reqs
        PROVE  /\ ledger[i].key = ClientKey(input[ledger[i].by].key)
               /\ ledger[i].acct = target'[ledger[i].by]
               /\ ledger[i].amount = Signed(input[ledger[i].by])
               /\ stage'[ledger[i].by] \in {"lookup", "done"}
    BY <1>4 DEF RequestInv, RequestWritesOwnKey
  <1>5. RequestWritesOwnKey'
    BY <1>1, <1>3, <1>4 DEF RequestWritesOwnKey, Signed
  <1>6. FailureMovedNothing'
    BY <1>1 DEF RequestInv, FailureMovedNothing
  <1>7. RefundHasSpend'
    <2> SUFFICES ASSUME NEW q \in Reqs, input[q].op = "refundSpend",
                        stage'[q] \in {"key", "commit", "lookup"}
                 PROVE  \E j \in Entries :
                            /\ ledger[j].key = ClientKey(input[q].spendKey)
                            /\ ledger[j].type = "spend"
                            /\ ledger[j].acct = target'[q]
                            /\ input[q].amount <= -ledger[j].amount
      BY <1>1 DEF RefundHasSpend
    <2> QED BY DEF RequestInv, RefundHasSpend
  <1>8. RefundWithinSpend'
    BY <1>1 DEF RequestInv, RefundWithinSpend
  <1> QED BY <1>5, <1>6, <1>7, <1>8 DEF RequestInv

(* Issuing and expiring insert entries that belong to no request. *)
LEMMA SystemAppendKeepsRequests ==
    ASSUME TypeOK, RequestInv, UNCHANGED reqVars,
           \A a \in Accounts : acct[a].issued => acct'[a].issued,
           NEW e \in EntryType, ledger' = Append(ledger, e), e.by = "system"
    PROVE  RequestInv'
  <1>n. PICK n \in Nat : n = Len(ledger) + 1
    BY AppendEntry DEF TypeOK
  <1>1. /\ Entries' = Entries \cup {n}
        /\ \A i \in Entries : ledger'[i] = ledger[i]
        /\ ledger'[n].by \notin Reqs
    BY <1>n, AppendEntry, ParameterAssumption DEF Entries, TypeOK
  <1>2. \A q \in Reqs : target[q] \in Accounts
    BY DEF TypeOK
  <1>3. UNCHANGED <<input, stage, target, seen, at, answer>>
    BY DEF reqVars
  <1>4. RequestWritesOwnKey'
    <2>1. ASSUME NEW q \in Reqs
          PROVE  /\ stage[q] \in {"commit", "pinReset", "pinFail"} => acct'[target[q]].issued
                 /\ stage[q] \in {"card", "pinReset", "pinFail"} => input[q].op = "spend"
                 /\ answer[q].kind # "pending" => stage[q] = "done"
      BY <1>2 DEF RequestInv, RequestWritesOwnKey
    <2>2. ASSUME NEW i \in Entries', ledger'[i].by \in Reqs
          PROVE  /\ ledger'[i].key = ClientKey(input[ledger'[i].by].key)
                 /\ ledger'[i].acct = target[ledger'[i].by]
                 /\ ledger'[i].amount = Signed(input[ledger'[i].by])
                 /\ stage[ledger'[i].by] \in {"lookup", "done"}
      BY ZenonT(60), <2>2, <1>1 DEF RequestInv, RequestWritesOwnKey
    <2> QED BY <2>1, <2>2, <1>3 DEF RequestWritesOwnKey
  <1>5. FailureMovedNothing'
    BY <1>1, <1>3 DEF RequestInv, FailureMovedNothing
  <1>6. RefundHasSpend'
    <2> SUFFICES ASSUME NEW q \in Reqs, input[q].op = "refundSpend",
                        stage[q] \in {"key", "commit", "lookup"}
                 PROVE  \E j \in Entries' :
                            /\ ledger'[j].key = ClientKey(input[q].spendKey)
                            /\ ledger'[j].type = "spend"
                            /\ ledger'[j].acct = target[q]
                            /\ input[q].amount <= -ledger'[j].amount
      BY <1>3 DEF RefundHasSpend
    <2>1. PICK j \in Entries :
              /\ ledger[j].key = ClientKey(input[q].spendKey)
              /\ ledger[j].type = "spend"
              /\ ledger[j].acct = target[q]
              /\ input[q].amount <= -ledger[j].amount
      BY DEF RequestInv, RefundHasSpend
    <2>2. j \in Entries' /\ ledger'[j] = ledger[j]
      BY <1>1
    <2> QED BY <2>1, <2>2
  <1>7. RefundWithinSpend'
    <2> SUFFICES ASSUME NEW i \in Entries', ledger'[i].by \in Reqs,
                        input[ledger'[i].by].op = "refundSpend"
                 PROVE  \E j \in Entries' :
                            /\ j < i
                            /\ ledger'[j].key = ClientKey(input[ledger'[i].by].spendKey)
                            /\ ledger'[j].type = "spend"
                            /\ ledger'[j].acct = ledger'[i].acct
                            /\ ledger'[i].amount <= -ledger'[j].amount
      BY <1>3 DEF RefundWithinSpend
    <2> QED BY ZenonT(60), <1>1 DEF RequestInv, RefundWithinSpend
  <1> QED BY <1>4, <1>5, <1>6, <1>7 DEF RequestInv

(* A movement inserts an entry of the request that makes it. *)
LEMMA MovementKeepsRequests ==
    ASSUME TypeOK, BookInv, RequestInv, NEW r \in Reqs, ApplyMovement(r),
           UNCHANGED <<input, target>>,
           \A q \in Reqs \ {r} : stage'[q] = stage[q] /\ answer'[q] = answer[q],
           stage'[r] \in {"lookup", "done"},
           answer'[r].kind \notin Refusals,
           answer'[r].kind # "pending" => stage'[r] = "done"
    PROVE  RequestInv'
  <1>e. PICK e \in EntryType :
             /\ Appends(target[r], e)
             /\ e.key = ClientKey(input[r].key)
             /\ e.by = r
             /\ e.amount = Signed(input[r])
             /\ acct'[target[r]].issued = acct[target[r]].issued
    BY MovementAppends DEF BookInv
  <1>n. PICK n \in Nat : n = Len(ledger) + 1
    BY AppendEntry DEF TypeOK
  <1>1. /\ Entries' = Entries \cup {n}
        /\ \A i \in Entries : ledger'[i] = ledger[i] /\ i < n
        /\ ledger'[n] = e /\ e.acct = target[r]
    BY <1>e, <1>n, AppendEntry DEF Entries, TypeOK, Appends
  <1>2. stage[r] = "commit" /\ answer[r].kind = "pending"
    BY DEF ApplyMovement, RequestInv, RequestWritesOwnKey
  <1>3. \A q \in Reqs : target[q] \in Accounts
    BY DEF TypeOK
  <1>4. \A a \in Accounts : acct[a].issued => acct'[a].issued
    BY <1>e DEF Appends
  <1>5. RequestWritesOwnKey'
    <2>1. ASSUME NEW q \in Reqs
          PROVE  /\ stage'[q] \in {"commit", "pinReset", "pinFail"} => acct'[target[q]].issued
                 /\ stage'[q] \in {"card", "pinReset", "pinFail"} => input[q].op = "spend"
                 /\ answer'[q].kind # "pending" => stage'[q] = "done"
      BY <1>3, <1>4 DEF RequestInv, RequestWritesOwnKey
    <2>2. ASSUME NEW i \in Entries', ledger'[i].by \in Reqs
          PROVE  /\ ledger'[i].key = ClientKey(input[ledger'[i].by].key)
                 /\ ledger'[i].acct = target[ledger'[i].by]
                 /\ ledger'[i].amount = Signed(input[ledger'[i].by])
                 /\ stage'[ledger'[i].by] \in {"lookup", "done"}
      <3>1. CASE i = n
        BY <3>1, <1>1, <1>e
      <3>2. CASE i \in Entries
        BY <2>2, <3>2, <1>1, <1>2 DEF RequestInv, RequestWritesOwnKey
      <3> QED BY <3>1, <3>2, <1>1
    <2> QED BY <2>1, <2>2 DEF RequestWritesOwnKey
  <1>6. FailureMovedNothing'
    <2> SUFFICES ASSUME NEW q \in Reqs, NEW i \in Entries',
                        answer'[q].kind \in Refusals \ {"LOOKUP_ERROR"}
                 PROVE  ledger'[i].by # q
      BY DEF FailureMovedNothing
    <2>1. q # r /\ answer[q].kind \in Refusals \ {"LOOKUP_ERROR"}
      OBVIOUS
    <2> QED BY <2>1, <1>1, <1>e DEF RequestInv, FailureMovedNothing
  <1>7. RefundHasSpend'
    <2> SUFFICES ASSUME NEW q \in Reqs, input[q].op = "refundSpend",
                        stage'[q] \in {"key", "commit", "lookup"}
                 PROVE  \E j \in Entries' :
                            /\ ledger'[j].key = ClientKey(input[q].spendKey)
                            /\ ledger'[j].type = "spend"
                            /\ ledger'[j].acct = target[q]
                            /\ input[q].amount <= -ledger'[j].amount
      BY DEF RefundHasSpend
    <2>1. stage[q] \in {"key", "commit", "lookup"}
      BY <1>2
    <2> QED BY <2>1, <1>1 DEF RequestInv, RefundHasSpend
  <1>8. RefundWithinSpend'
    <2> SUFFICES ASSUME NEW i \in Entries', ledger'[i].by \in Reqs,
                        input[ledger'[i].by].op = "refundSpend"
                 PROVE  \E j \in Entries' :
                            /\ j < i
                            /\ ledger'[j].key = ClientKey(input[ledger'[i].by].spendKey)
                            /\ ledger'[j].type = "spend"
                            /\ ledger'[j].acct = ledger'[i].acct
                            /\ ledger'[i].amount <= -ledger'[j].amount
      BY DEF RefundWithinSpend
    <2>1. CASE i \in Entries
      BY <2>1, <1>1 DEF RequestInv, RefundWithinSpend
    <2>2. CASE i = n
      <3>1. ledger'[i].by = r /\ ledger'[i].acct = target[r]
            /\ ledger'[i].amount = input[r].amount
        BY <2>2, <1>1, <1>e DEF Signed
      <3> QED BY <3>1, <2>2, <1>1, <1>2 DEF RequestInv, RefundHasSpend
    <2> QED BY <2>1, <2>2, <1>1
  <1> QED BY <1>5, <1>6, <1>7, <1>8 DEF RequestInv

(* Every step keeps what is known of the requests.                          *)
LEMMA NextRequests == TypeOK /\ TypeOK' /\ BookInv /\ RequestInv /\ [Next]_vars => RequestInv'
  <1> SUFFICES ASSUME TypeOK, TypeOK', BookInv, RequestInv, [Next]_vars PROVE RequestInv'
    OBVIOUS
  <1>t. /\ \A r \in Reqs : target[r] \in Accounts /\ input[r].op \in Ops
        /\ stage \in [Reqs -> Stages]
        /\ answer \in [Reqs -> [kind : Refusals \cup {"pending", "ok"}, entry : Nat]]
        /\ target \in [Reqs -> Accounts]
    BY ParameterAssumption DEF TypeOK, InputType
  <1>none. ASSUME NEW r \in Reqs, stage[r] \notin {"lookup", "done"}
           PROVE  /\ \A i \in Entries : ledger[i].by # r
                  /\ answer[r].kind = "pending"
    BY <1>none DEF RequestInv, RequestWritesOwnKey
  <1>ref. ASSUME NEW r \in Reqs, input[r].op = "refundSpend",
                 stage[r] \in {"key", "commit", "lookup"}
          PROVE  \E j \in Entries :
                   /\ ledger[j].key = ClientKey(input[r].spendKey)
                   /\ ledger[j].type = "spend"
                   /\ ledger[j].acct = target[r]
                   /\ input[r].amount <= -ledger[j].amount
    BY <1>ref DEF RequestInv, RefundHasSpend
  <1>1. ASSUME NEW r \in Reqs, Arrive(r) PROVE RequestInv'
    <2>1. /\ stage[r] = "new"
          /\ UNCHANGED <<ledger, input, acct, target, answer>>
          /\ stage' = [stage EXCEPT ![r] = FirstStage(input[r].op)]
      BY <1>1 DEF Arrive, GoTo
    <2>2. /\ FirstStage(input[r].op) \in {"card", "spend", "key"}
          /\ FirstStage(input[r].op) = "card" => input[r].op = "spend"
          /\ FirstStage(input[r].op) = "key" => input[r].op # "refundSpend"
      BY <1>t DEF FirstStage, Ops
    <2>3. answer[r].kind = "pending" /\ "pending" \notin Refusals
      BY <2>1, <1>none DEF Refusals
    <2>4. \A q \in Reqs \ {r} : stage'[q] = stage[q]
      BY <2>1, <1>t
    <2>5. stage'[r] = FirstStage(input[r].op)
      BY <2>1, <1>t
    <2> QED BY <2>1, <2>2, <2>3, <2>4, <2>5, QuietRequest
  <1>2. ASSUME NEW r \in Reqs, FindSpend(r) PROVE RequestInv'
    <2>1. stage[r] = "spend" /\ UNCHANGED <<ledger, input, acct>>
      BY <1>2 DEF FindSpend
    <2>2. CASE \E k \in Refusals : Tell(r, k, 0) /\ UNCHANGED target
      <3>1. /\ stage'[r] = "done"
            /\ \A q \in Reqs \ {r} : stage'[q] = stage[q] /\ answer'[q] = answer[q]
                                     /\ target'[q] = target[q]
        BY <2>2, <1>t DEF Tell
      <3> QED BY <2>1, <3>1, <1>none, QuietRequest
    <2>3. CASE \E i \in Entries :
                 /\ ledger[i].key = ClientKey(input[r].spendKey)
                 /\ Refundable(r, ledger[i])
                 /\ target' = [target EXCEPT ![r] = ledger[i].acct]
                 /\ GoTo(r, "key")
      <3>1. PICK i \in Entries :
                 /\ ledger[i].key = ClientKey(input[r].spendKey)
                 /\ Refundable(r, ledger[i])
                 /\ target' = [target EXCEPT ![r] = ledger[i].acct]
                 /\ GoTo(r, "key")
        BY <2>3
      <3>2. /\ stage'[r] = "key" /\ answer' = answer /\ target'[r] = ledger[i].acct
            /\ \A q \in Reqs \ {r} : stage'[q] = stage[q] /\ answer'[q] = answer[q]
                                     /\ target'[q] = target[q]
        BY <3>1, <1>t DEF GoTo
      <3>3. answer'[r].kind = "pending" /\ "pending" \notin Refusals
        BY <3>2, <2>1, <1>none DEF Refusals
      <3>4. ledger[i].type = "spend" /\ input[r].amount <= -ledger[i].amount
        BY <3>1 DEF Refundable
      <3> QED BY <2>1, <3>1, <3>2, <3>3, <3>4, QuietRequest
    <2>4. {"SPEND_NOT_FOUND", "SPEND_NOT_REFUNDABLE"} \subseteq Refusals
      BY DEF Refusals
    <2> QED BY <1>2, <2>2, <2>3, <2>4 DEF FindSpend
  <1>3. ASSUME NEW r \in Reqs, LoadCard(r) PROVE RequestInv'
    <2>1. stage[r] = "card" /\ UNCHANGED <<ledger, input, acct, target>>
      BY <1>3 DEF LoadCard
    <2>2. input[r].op = "spend" /\ answer[r].kind = "pending" /\ "pending" \notin Refusals
      BY <2>1, <1>none DEF RequestInv, RequestWritesOwnKey, Refusals
    <2>3. CASE GoTo(r, "key")
      <3>1. /\ stage'[r] = "key" /\ answer' = answer
            /\ \A q \in Reqs \ {r} : stage'[q] = stage[q]
        BY <2>3, <1>t DEF GoTo
      <3> QED BY <2>1, <2>2, <3>1, QuietRequest
    <2>4. CASE Tell(r, "NOT_FOUND", 0)
      <3>1. /\ stage'[r] = "done"
            /\ \A q \in Reqs \ {r} : stage'[q] = stage[q] /\ answer'[q] = answer[q]
        BY <2>4, <1>t DEF Tell
      <3> QED BY <2>1, <3>1, <1>none, QuietRequest
    <2> QED BY <1>3, <2>3, <2>4 DEF LoadCard
  <1>4. ASSUME NEW r \in Reqs, FindKey(r) PROVE RequestInv'
    <2>1. stage[r] = "key" /\ UNCHANGED <<ledger, input, acct, target>>
      BY <1>4 DEF FindKey
    <2>2. CASE \E k, i : Tell(r, k, i)
      <3>1. /\ stage'[r] = "done"
            /\ \A q \in Reqs \ {r} : stage'[q] = stage[q] /\ answer'[q] = answer[q]
        BY <2>2, <1>t DEF Tell
      <3> QED BY <2>1, <3>1, <1>none, QuietRequest
    <2>3. CASE /\ Admission(r) \notin Refusals
               /\ GoTo(r, Admission(r))
      <3>1. PICK v : v = Admission(r)
        OBVIOUS
      <3>2. /\ v \in {"commit", "pinFail", "pinReset"}
            /\ v \in {"pinFail", "pinReset"} => input[r].op = "spend"
            /\ acct[target[r]].issued
        BY <2>3, <3>1, VerdictType DEF Admission, Refusals
      <3>3. /\ stage'[r] = v /\ answer' = answer
            /\ \A q \in Reqs \ {r} : stage'[q] = stage[q]
        BY <2>3, <3>1, <1>t DEF GoTo
      <3>4. answer[r].kind = "pending" /\ "pending" \notin Refusals
        BY <2>1, <1>none DEF Refusals
      <3> QED BY <2>1, <3>2, <3>3, <3>4, <1>ref, QuietRequest
    <2> QED BY <1>4, <2>2, <2>3 DEF FindKey, Proceed
  <1>5. ASSUME NEW r \in Reqs, PinFail(r) PROVE RequestInv'
    <2>1. /\ stage[r] = "pinFail" /\ UNCHANGED <<ledger, input, acct, target>>
          /\ Tell(r, "PIN_INVALID", 0)
      BY <1>5 DEF PinFail, CountTry
    <2>2. /\ stage'[r] = "done"
          /\ \A q \in Reqs \ {r} : stage'[q] = stage[q] /\ answer'[q] = answer[q]
      BY <2>1, <1>t DEF Tell
    <2> QED BY <2>1, <2>2, <1>none, QuietRequest
  <1>6. ASSUME NEW r \in Reqs, PinReset(r) PROVE RequestInv'
    <2>1. /\ stage[r] = "pinReset" /\ UNCHANGED <<ledger, input, acct, target>>
          /\ GoTo(r, "commit")
      BY <1>6 DEF PinReset, ClearTries
    <2>2. /\ stage'[r] = "commit" /\ answer' = answer
          /\ \A q \in Reqs \ {r} : stage'[q] = stage[q]
      BY <2>1, <1>t DEF GoTo
    <2>3. /\ answer[r].kind = "pending" /\ "pending" \notin Refusals
          /\ input[r].op = "spend" /\ acct[target[r]].issued
      BY <2>1, <1>none DEF Refusals, RequestInv, RequestWritesOwnKey
    <2> QED BY <2>1, <2>2, <2>3, QuietRequest
  <1>7. ASSUME NEW r \in Reqs, CommitAnswered(r) \/ CommitUnanswered(r) PROVE RequestInv'
    <2>1. /\ ApplyMovement(r) /\ UNCHANGED <<input, target>>
          /\ stage[r] = "commit"
          /\ GoTo(r, "lookup") \/ Tell(r, "ok", Len(ledger) + 1)
      BY <1>7 DEF CommitAnswered, CommitUnanswered, AfterError, ApplyMovement
    <2>2. answer[r].kind = "pending" /\ "pending" \notin Refusals /\ "ok" \notin Refusals
      BY <2>1, <1>none DEF Refusals
    <2>3. /\ stage'[r] \in {"lookup", "done"}
          /\ \A q \in Reqs \ {r} : stage'[q] = stage[q] /\ answer'[q] = answer[q]
          /\ answer'[r].kind \in {"pending", "ok"}
          /\ answer'[r].kind # "pending" => stage'[r] = "done"
      BY <2>1, <2>2, <1>t DEF GoTo, Tell
    <2> QED BY <2>1, <2>2, <2>3, MovementKeepsRequests
  <1>8. ASSUME NEW r \in Reqs, CommitDuplicate(r) \/ CommitFailed(r) PROVE RequestInv'
    <2>1. /\ stage[r] = "commit" /\ UNCHANGED <<ledger, input, acct, target>>
          /\ GoTo(r, "lookup")
      BY <1>8 DEF CommitDuplicate, CommitFailed, AfterError
    <2>2. /\ stage'[r] = "lookup" /\ answer' = answer
          /\ \A q \in Reqs \ {r} : stage'[q] = stage[q]
      BY <2>1, <1>t DEF GoTo
    <2>3. answer[r].kind = "pending" /\ "pending" \notin Refusals
      BY <2>1, <1>none DEF Refusals
    <2> QED BY <2>1, <2>2, <2>3, <1>ref, QuietRequest
  <1>9. ASSUME NEW r \in Reqs, CommitUnfunded(r) PROVE RequestInv'
    <2>1. /\ stage[r] = "commit" /\ UNCHANGED <<ledger, input, acct, target>>
          /\ Tell(r, "INSUFFICIENT_BALANCE", 0)
      BY <1>9 DEF CommitUnfunded
    <2>2. /\ stage'[r] = "done"
          /\ \A q \in Reqs \ {r} : stage'[q] = stage[q] /\ answer'[q] = answer[q]
      BY <2>1, <1>t DEF Tell
    <2> QED BY <2>1, <2>2, <1>none, QuietRequest
  <1>10. ASSUME NEW r \in Reqs, Lookup(r) PROVE RequestInv'
    <2>1. stage[r] = "lookup" /\ UNCHANGED <<ledger, input, acct, target>>
      BY <1>10 DEF Lookup
    <2>2. \E k, i : Tell(r, k, i) /\ (k = "ok" \/ ~KeyUsed(ClientKey(input[r].key)))
      BY <1>10 DEF Lookup, AnswerCanonical
    <2>3. /\ stage'[r] = "done"
          /\ \A q \in Reqs \ {r} : stage'[q] = stage[q] /\ answer'[q] = answer[q]
          /\ answer'[r].kind = "ok" \/ ~KeyUsed(ClientKey(input[r].key))
      BY <2>2, <1>t DEF Tell
    <2>4. answer'[r].kind \in Refusals => \A i \in Entries : ledger[i].by # r
      BY <2>3 DEF KeyUsed, RequestInv, RequestWritesOwnKey, Refusals
    <2> QED BY <2>1, <2>3, <2>4, QuietRequest
  <1>17. ASSUME NEW r \in Reqs, CallThrows(r) PROVE RequestInv'
    <2>1. /\ stage[r] \in {"spend", "card", "key", "pinFail", "pinReset"}
          /\ UNCHANGED <<ledger, input, acct, target>>
          /\ Tell(r, "DB_ERROR", 0)
      BY <1>17 DEF CallThrows
    <2>2. /\ stage'[r] = "done"
          /\ \A q \in Reqs \ {r} : stage'[q] = stage[q] /\ answer'[q] = answer[q]
      BY <2>1, <1>t DEF Tell
    <2> QED BY <2>1, <2>2, <1>none, QuietRequest
  <1>18. ASSUME NEW r \in Reqs, LookupFails(r) PROVE RequestInv'
    <2>1. /\ stage[r] = "lookup" /\ UNCHANGED <<ledger, input, acct, target>>
          /\ Tell(r, "LOOKUP_ERROR", 0)
      BY <1>18 DEF LookupFails
    <2>2. /\ stage'[r] = "done" /\ answer'[r].kind = "LOOKUP_ERROR"
          /\ \A q \in Reqs \ {r} : stage'[q] = stage[q] /\ answer'[q] = answer[q]
      BY <2>1, <1>t DEF Tell
    <2> QED BY <2>1, <2>2, QuietRequest
  <1>11. ASSUME NEW a \in Accounts, NEW amount \in Openings, NEW hasPin \in BOOLEAN,
                IssueCard(a, amount, hasPin)
         PROVE  RequestInv'
    <2>1. /\ UNCHANGED reqVars
          /\ \A b \in Accounts : acct[b].issued => acct'[b].issued
      BY <1>11 DEF IssueCard, TypeOK
    <2>2. CASE amount > 0
      <3>1. PICK e \in EntryType : Appends(a, e) /\ e.by = "system"
        BY <1>11, <2>2, OpeningAppends
      <3> QED BY <2>1, <3>1, SystemAppendKeepsRequests DEF Appends
    <2>3. CASE ~(amount > 0)
      <3>1. ledger' = ledger /\ Entries' = Entries
        BY <1>11, <2>3 DEF IssueCard, RecordOpening, Entries
      <3>2. UNCHANGED <<input, stage, target, answer>>
        BY <2>1 DEF reqVars
      <3> QED BY <1>t, <2>1, <3>1, <3>2 DEF RequestInv, RequestWritesOwnKey,
             FailureMovedNothing, RefundHasSpend, RefundWithinSpend, Signed
    <2> QED BY <2>2, <2>3
  <1>12. ASSUME NEW s \in Sweepers, NEW c \in sweep[s].found, Zero(c), UNCHANGED reqVars
         PROVE  RequestInv'
    <2>1. PICK e \in EntryType : /\ Appends(c.acct, e) /\ e.by = "system"
                                 /\ acct'[c.acct].issued
      BY <1>12, ZeroAppends
    <2>2. \A b \in Accounts : acct[b].issued => acct'[b].issued
      BY <2>1 DEF Appends
    <2> QED BY <1>12, <2>1, <2>2, SystemAppendKeepsRequests DEF Appends
  <1>13. CASE UNCHANGED <<acct, ledger, reqVars>>
    BY <1>13 DEF RequestInv, RequestWritesOwnKey, FailureMovedNothing, RefundHasSpend,
       RefundWithinSpend, Signed, Entries, reqVars
  <1>14. ASSUME NEW s \in Sweepers, SweepStep(s) PROVE RequestInv'
    <2>1. ASSUME NEW c \in sweep[s].found,
                 SweepZero(s, c) \/ SweepSkip(s, c) \/ SweepFailed(s, c)
          PROVE  RequestInv'
      BY <2>1, <1>12, <1>13 DEF SweepZero, SweepSkip, SweepFailed
    <2> QED BY <1>14, <2>1, <1>13 DEF SweepStep, SweepStart, SweepScan, SweepEnd
  <1>15. CASE Tick \/ UNCHANGED vars
    BY <1>15, <1>13 DEF Tick, vars, reqVars
  <1>16. CASE Admin
    BY <1>16, <1>11, <1>13 DEF Admin, SetPin, SetCardStatus
  <1> QED
    BY <1>1, <1>2, <1>3, <1>4, <1>5, <1>6, <1>7, <1>8, <1>9, <1>10, <1>14, <1>15, <1>16,
       <1>17, <1>18
    DEF Next, RequestStep

(* IInv is inductive. *)
THEOREM Inductive == Spec => []IInv
  <1>1. Init => IInv
    BY InitType, InitBook, InitRequests DEF IInv
  <1>2. IInv /\ [Next]_vars => IInv'
    BY NextType, NextBook, NextRequests DEF IInv
  <1> QED BY <1>1, <1>2, PTL DEF Spec

(* Concurrent spends never overspend a balance. *)
THEOREM NoOverspending == Spec => []NeverOverspent
  <1>1. IInv => NeverOverspent
    BY DEF IInv, BookInv
  <1> QED BY <1>1, Inductive, PTL

(* The balance is what the ledger adds up to. *)
THEOREM BalanceIsExplained == Spec => []LedgerExplainsBalance
  <1>1. IInv => LedgerExplainsBalance
    BY DEF IInv, BookInv
  <1> QED BY <1>1, Inductive, PTL

(* The expiry worker never takes money that moved within a period. *)
THEOREM OnlyIdleMoneyExpires == Spec => []ExpiryTakesOnlyIdleMoney
  <1>1. IInv => ExpiryTakesOnlyIdleMoney
    BY DEF IInv, BookInv
  <1> QED BY <1>1, Inductive, PTL

(* A request that was told an error moved no money, unless the error is the *)
(* one of the catch block's own look-up.                                    *)
THEOREM FailuresAreClean == Spec => []FailureMovedNothing
  <1>1. IInv => FailureMovedNothing
    BY DEF IInv, RequestInv
  <1> QED BY <1>1, Inductive, PTL

(* Refunds go back to the spender, none above its spend. *)
THEOREM RefundsAreBounded == Spec => []RefundWithinSpend
  <1>1. IInv => RefundWithinSpend
    BY DEF IInv, RequestInv
  <1> QED BY <1>1, Inductive, PTL

-----------------------------------------------------------------------------
(* Why an expiry never meets the key of an earlier one: ExpiryInv, on top of *)
(* IInv.  Only Tick and a request's arrival at its batch touch the clocks.   *)

(* A step that leaves the calls in flight on their clock keeps them timely.  *)
LEMMA TimelyStep ==
    ASSUME TypeOK, CommitsAreTimely, [Next]_vars
    PROVE  CommitsAreTimely'
  <1>1. now \in Nat /\ MaxLatency \in Nat /\ \A r \in Reqs : at[r] \in Nat
    BY ParameterAssumption DEF TypeOK
  <1>2. CASE Tick
    BY <1>1, <1>2 DEF Tick, CommitsAreTimely, reqVars
  <1>3. CASE now' = now /\ UNCHANGED <<stage, at>>
    BY <1>3 DEF CommitsAreTimely
  <1>4. ASSUME NEW r \in Reqs, NEW s, now' = now, GoTo(r, s)
        PROVE  CommitsAreTimely'
    BY <1>1, <1>4 DEF CommitsAreTimely, GoTo, TypeOK
  <1>5. ASSUME NEW r \in Reqs, NEW k, NEW i, now' = now, Tell(r, k, i)
        PROVE  CommitsAreTimely'
    BY <1>1, <1>5 DEF CommitsAreTimely, Tell, TypeOK
  <1>6. ASSUME NEW r \in Reqs, Arrive(r) \/ RequestStep(r) PROVE CommitsAreTimely'
    <2>1. now' = now
      BY <1>6 DEF Arrive, RequestStep, FindSpend, LoadCard, FindKey, PinFail, PinReset,
         CommitAnswered, CommitUnanswered, CommitDuplicate, CommitFailed, CommitUnfunded,
         Lookup, CallThrows, LookupFails
    <2>2. (\E s : GoTo(r, s)) \/ (\E k, i : Tell(r, k, i))
      BY <1>6 DEF Arrive, RequestStep, FindSpend, LoadCard, FindKey, PinFail, PinReset,
         CommitAnswered, CommitUnanswered, CommitDuplicate, CommitFailed, CommitUnfunded,
         Lookup, CallThrows, LookupFails, AnswerCanonical, Proceed
    <2> QED BY <2>1, <2>2, <1>4, <1>5
  <1>7. ASSUME NEW s \in Sweepers, SweepStep(s) PROVE CommitsAreTimely'
    BY <1>7, <1>3 DEF SweepStep, SweepStart, SweepScan, SweepEnd, SweepZero, SweepSkip,
       SweepFailed, reqVars
  <1>8. CASE Admin \/ UNCHANGED vars
    BY <1>8, <1>3 DEF Admin, IssueCard, SetPin, SetCardStatus, vars, reqVars
  <1> QED BY <1>2, <1>6, <1>7, <1>8 DEF Next

(* A movement gives its account a later expiry than any that has happened.   *)
LEMMA MovementKeepsSpent ==
    ASSUME IInv, ExpiryInv, NEW r \in Reqs, ApplyMovement(r), now' = now
    PROVE  ExpiryKeysAreSpent'
  <1>i. TypeOK /\ NeverOverspent
    BY DEF IInv, BookInv
  <1>1. PICK e \in EntryType :
           /\ Appends(target[r], e)
           /\ e.key = ClientKey(input[r].key)
           /\ e.at = at[r]
           /\ acct'[target[r]].expires = e.at + Period
           /\ acct'[target[r]].issued = acct[target[r]].issued
    BY <1>i, MovementAppends
  <1>2. /\ Entries' = Entries \cup {Len(ledger) + 1}
        /\ \A i \in Entries : ledger'[i] = ledger[i]
        /\ ledger'[Len(ledger) + 1] = e
    BY <1>1, <1>i, AppendEntry DEF TypeOK, Appends
  <1>3. now <= acct'[target[r]].expires
    BY <1>1, <1>i, ParameterAssumption DEF ApplyMovement, ExpiryInv, CommitsAreTimely, TypeOK
  <1> SUFFICES ASSUME NEW i \in Entries', NEW a \in Accounts, NEW t \in Nat,
                      ledger'[i].key = ExpireKey(a, t)
               PROVE  /\ acct'[a].issued
                      /\ t < now'
                      /\ acct'[a].balance > 0 => t < acct'[a].expires
    BY DEF ExpiryKeysAreSpent
  <1>4. e.key # ExpireKey(a, t)
    BY <1>1 DEF ClientKey, ExpireKey
  <1>5. i \in Entries /\ ledger[i].key = ExpireKey(a, t)
    BY <1>2, <1>4
  <1>6. acct[a].issued /\ t < now /\ (acct[a].balance > 0 => t < acct[a].expires)
    BY <1>5 DEF ExpiryInv, ExpiryKeysAreSpent
  <1>7. CASE a = target[r]
    <2>1. acct'[a].expires \in Nat /\ now \in Nat
      BY <1>1, <1>7, <1>i, ParameterAssumption DEF TypeOK
    <2> QED BY <1>1, <1>3, <1>6, <1>7, <2>1
  <1>8. CASE a # target[r]
    BY <1>1, <1>6, <1>8 DEF Appends
  <1> QED BY <1>7, <1>8

(* An expiry uses the key of a moment that has passed, and empties its account. *)
LEMMA ZeroKeepsSpent ==
    ASSUME IInv, ExpiryInv, NEW s \in Sweepers, NEW c \in sweep[s].found, Zero(c),
           now' = now
    PROVE  ExpiryKeysAreSpent'
  <1>i. TypeOK /\ BookInv
    BY DEF IInv
  <1>1. PICK e \in EntryType :
           /\ Appends(c.acct, e)
           /\ e.key = KeyOfExpiry(c) /\ e.after = 0
           /\ acct'[c.acct].issued
    BY <1>i, ZeroAppends
  <1>2. /\ Entries' = Entries \cup {Len(ledger) + 1}
        /\ \A i \in Entries : ledger'[i] = ledger[i]
        /\ ledger'[Len(ledger) + 1] = e
    BY <1>1, <1>i, AppendEntry DEF TypeOK, Appends
  <1>3. c.expires < now
    BY <1>i DEF BookInv, CandidatesAreVersioned
  <1> SUFFICES ASSUME NEW i \in Entries', NEW a \in Accounts, NEW t \in Nat,
                      ledger'[i].key = ExpireKey(a, t)
               PROVE  /\ acct'[a].issued
                      /\ t < now'
                      /\ acct'[a].balance > 0 => t < acct'[a].expires
    BY DEF ExpiryKeysAreSpent
  <1>4. CASE i \in Entries
    <2>1. acct[a].issued /\ t < now /\ (acct[a].balance > 0 => t < acct[a].expires)
      BY <1>2, <1>4 DEF ExpiryInv, ExpiryKeysAreSpent
    <2>2. CASE a = c.acct
      BY <1>1, <2>1, <2>2 DEF Appends
    <2>3. CASE a # c.acct
      BY <1>1, <2>1, <2>3 DEF Appends
    <2> QED BY <2>2, <2>3
  <1>5. CASE i = Len(ledger) + 1
    <2>1. a = c.acct /\ t = c.expires
      BY <1>1, <1>2, <1>5 DEF KeyOfExpiry, ExpireKey
    <2> QED BY <1>1, <1>3, <2>1 DEF Appends
  <1> QED BY <1>2, <1>4, <1>5

(* Issuing a card touches an account that has never expired.                 *)
LEMMA IssueKeepsSpent ==
    ASSUME IInv, ExpiryInv, NEW a \in Accounts, NEW amount \in Openings,
           NEW hasPin \in BOOLEAN, IssueCard(a, amount, hasPin)
    PROVE  ExpiryKeysAreSpent'
  <1>i. TypeOK /\ BookInv
    BY DEF IInv
  <1>1. now' = now /\ ~acct[a].issued /\ \A b \in Accounts \ {a} : acct'[b] = acct[b]
    BY <1>i DEF IssueCard, TypeOK
  <1>2. \A i \in Entries', b \in Accounts, t \in Nat :
           ledger'[i].key = ExpireKey(b, t)
             => i \in Entries /\ ledger[i].key = ExpireKey(b, t)
    <2>1. CASE amount > 0
      <3>1. PICK e \in EntryType : Appends(a, e) /\ e.key = IssueKey(a)
        BY <1>i, <2>1, OpeningAppends
      <3>2. /\ Entries' = Entries \cup {Len(ledger) + 1}
            /\ \A i \in Entries : ledger'[i] = ledger[i]
            /\ ledger'[Len(ledger) + 1] = e
        BY <3>1, <1>i, AppendEntry DEF TypeOK, Appends
      <3> QED BY <3>1, <3>2 DEF IssueKey, ExpireKey
    <2>2. CASE ~(amount > 0)
      BY <2>2 DEF IssueCard, RecordOpening, Entries
    <2> QED BY <2>1, <2>2
  <1>3. \A i \in Entries, b \in Accounts, t \in Nat :
           ledger[i].key = ExpireKey(b, t) => b # a
    BY <1>1 DEF ExpiryInv, ExpiryKeysAreSpent
  <1> QED BY <1>1, <1>2, <1>3 DEF ExpiryInv, ExpiryKeysAreSpent

(* Every action keeps the spent expiry keys spent.                           *)
LEMMA SpentStep ==
    ASSUME IInv, ExpiryInv, [Next]_vars
    PROVE  ExpiryKeysAreSpent'
  <1>i. TypeOK
    BY DEF IInv
  <1>now. now \in Nat
    BY <1>i DEF TypeOK
  <1>1. CASE now <= now' /\ now' \in Nat /\ UNCHANGED <<acct, ledger>>
    BY <1>1, <1>now DEF ExpiryInv, ExpiryKeysAreSpent, Entries
  <1>2. CASE Tick
    BY <1>1, <1>2, <1>now DEF Tick
  <1>3. ASSUME NEW r \in Reqs, Arrive(r) \/ RequestStep(r) PROVE ExpiryKeysAreSpent'
    <2>1. now' = now /\ (ApplyMovement(r) \/ UNCHANGED <<acct, ledger>>)
      BY <1>3 DEF Arrive, RequestStep, FindSpend, LoadCard, FindKey, PinFail, PinReset,
         CommitAnswered, CommitUnanswered, CommitDuplicate, CommitFailed, CommitUnfunded,
         Lookup, CallThrows, LookupFails
    <2> QED BY <2>1, <1>1, <1>now, MovementKeepsSpent
  <1>4. ASSUME NEW s \in Sweepers, SweepStep(s) PROVE ExpiryKeysAreSpent'
    <2>1. now' = now
          /\ ((\E c \in sweep[s].found : Zero(c)) \/ UNCHANGED <<acct, ledger>>)
      BY <1>4 DEF SweepStep, SweepStart, SweepScan, SweepEnd, SweepZero, SweepSkip, SweepFailed
    <2> QED BY <2>1, <1>1, <1>now, ZeroKeepsSpent
  <1>5. CASE Admin
    <2>1. ASSUME NEW a \in Accounts,
                 SetPin(a) \/ \E status \in NewStatuses : SetCardStatus(a, status)
          PROVE  ExpiryKeysAreSpent'
      BY <2>1, <1>1, <1>now DEF SetPin, SetCardStatus
    <2> QED BY <1>5, <2>1, IssueKeepsSpent DEF Admin
  <1>6. CASE UNCHANGED vars
    BY <1>6, <1>1, <1>now DEF vars
  <1> QED BY <1>2, <1>3, <1>4, <1>5, <1>6 DEF Next

(* ExpiryInv holds throughout.                                               *)
LEMMA ExpiryInductive == Spec => [](IInv /\ ExpiryInv)
  <1>1. Init => ExpiryInv
    BY DEF Init, ExpiryInv, CommitsAreTimely, ExpiryKeysAreSpent, Entries
  <1>2. IInv /\ ExpiryInv /\ [Next]_vars => ExpiryInv'
    BY TimelyStep, SpentStep DEF IInv, ExpiryInv
  <1> QED BY <1>1, <1>2, Inductive, PTL DEF Spec

(* An account that is topped up after an expiry is not stuck behind the key *)
(* of that expiry: the key the worker will use for it is always fresh.      *)
THEOREM ExpiryIsNeverStuck == Spec => []ExpiryKeyIsFresh
  <1>1. IInv /\ ExpiryInv => ExpiryKeyIsFresh
    <2> SUFFICES ASSUME IInv, ExpiryInv, NEW a \in Accounts, Lapsed(a),
                        NEW i \in Entries,
                        ledger[i].key = KeyOfExpiry(Candidate(a))
                 PROVE  FALSE
      BY DEF ExpiryKeyIsFresh, KeyTaken
    <2>1. acct[a].expires \in Nat
      BY DEF IInv, TypeOK
    <2>2. ledger[i].key = ExpireKey(a, acct[a].expires) /\ acct[a].balance > 0
      BY DEF KeyOfExpiry, Candidate, Lapsed
    <2>3. acct[a].expires < acct[a].expires
      BY <2>1, <2>2 DEF ExpiryInv, ExpiryKeysAreSpent
    <2> QED BY <2>1, <2>3
  <1> QED BY <1>1, ExpiryInductive, PTL

-----------------------------------------------------------------------------
(* An entry that explains a new balance is a move of the book. *)
LEMMA AppendIsMove ==
    ASSUME TypeOK, NeverOverspent, NEW a \in Accounts, NEW e \in EntryType,
           Appends(a, e), acct'[a].balance # acct[a].balance,
           AckedKeys' \in {AckedKeys, AckedKeys \cup {e.key}}
    PROVE  Book!Move(a)
  <1>n. PICK n \in Nat : n = Len(ledger) + 1
    BY AppendEntry DEF TypeOK
  <1>1. /\ Entries' = Entries \cup {n}
        /\ \A i \in Entries : ledger'[i] = ledger[i]
        /\ ledger'[n] = e
    BY <1>n, AppendEntry DEF TypeOK, Appends
  <1>2. e.key \notin UsedKeys
    BY DEF Appends, KeyTaken, UsedKeys
  <1>3. UsedKeys' = UsedKeys \cup {e.key}
    BY <1>1 DEF UsedKeys
  <1>4. \A b \in Accounts : Balances[b] = acct[b].balance /\ Balances'[b] = acct'[b].balance
    BY DEF Balances
  <1>5. Balances' \in [Accounts -> Nat]
    <2>1. e.after \in Int /\ \A b \in Accounts : acct[b].balance \in Int
      BY DEF EntryType, TypeOK
    <2>2. \A b \in Accounts \ {a} : acct'[b].balance \in Nat
      BY <2>1 DEF Appends, NeverOverspent
    <2>3. acct'[a].balance \in Nat
      BY <2>1 DEF Appends
    <2> QED BY <2>2, <2>3 DEF Balances
  <1>6. \A b \in Accounts \ {a} : Balances'[b] = Balances[b]
    BY <1>4 DEF Appends
  <1> QED BY <1>2, <1>3, <1>4, <1>5, <1>6 DEF Book!Move

(* Whoever is told a success is told so once, with a key that is in the     *)
(* book; every other answer acknowledges nothing.                           *)
LEMMA AnswerAcknowledges ==
    ASSUME TypeOK, NEW r \in Reqs, input' = input, answer[r].kind = "pending",
           \A q \in Reqs \ {r} : answer'[q] = answer[q]
    PROVE  /\ answer'[r].kind = "ok"
                => AckedKeys' = AckedKeys \cup {ClientKey(input[r].key)}
           /\ answer'[r].kind # "ok" => AckedKeys' = AckedKeys
  BY DEF AckedKeys

(* A step of a request that moves no money is a stutter of the book, or an *)
(* acknowledgement of a key that has moved some.                           *)
LEMMA QuietIsBookStep ==
    ASSUME TypeOK, RequestInv, NEW r \in Reqs, stage[r] # "done",
           \A a \in Accounts : acct'[a].balance = acct[a].balance,
           UNCHANGED <<ledger, input>>,
           \/ \E s : GoTo(r, s)
           \/ \E k \in Refusals : Tell(r, k, 0)
           \/ KeyUsed(ClientKey(input[r].key)) /\ \E i : Tell(r, "ok", i)
    PROVE  [Book!BookNext]_(Book!bookVars)
  <1>1. Balances' = Balances
    BY DEF Balances
  <1>2. UsedKeys' = UsedKeys
    BY DEF UsedKeys, Entries
  <1>3. answer[r].kind = "pending"
    BY DEF RequestInv, RequestWritesOwnKey
  <1>4. answer \in [Reqs -> [kind : Refusals \cup {"pending", "ok"}, entry : Nat]]
    BY DEF TypeOK
  <1>5. CASE \E s : GoTo(r, s)
    <2>1. AckedKeys' = AckedKeys
      BY <1>5 DEF GoTo, AckedKeys
    <2> QED BY <1>1, <1>2, <2>1 DEF Book!bookVars
  <1>6. CASE \E k \in Refusals : Tell(r, k, 0)
    <2>1. answer'[r].kind # "ok" /\ \A q \in Reqs \ {r} : answer'[q] = answer[q]
      BY <1>4, <1>6 DEF Tell, Refusals
    <2>2. AckedKeys' = AckedKeys
      BY <2>1, <1>3, AnswerAcknowledges
    <2> QED BY <1>1, <1>2, <2>2 DEF Book!bookVars
  <1>7. CASE KeyUsed(ClientKey(input[r].key)) /\ \E i : Tell(r, "ok", i)
    <2>1. answer'[r].kind = "ok" /\ \A q \in Reqs \ {r} : answer'[q] = answer[q]
      BY <1>4, <1>7 DEF Tell
    <2>2. AckedKeys' = AckedKeys \cup {ClientKey(input[r].key)}
      BY <2>1, <1>3, AnswerAcknowledges
    <2>3. ClientKey(input[r].key) \in UsedKeys
      BY <1>7 DEF KeyUsed, UsedKeys
    <2> QED BY <1>1, <1>2, <2>2, <2>3 DEF Book!BookNext, Book!Acknowledge
  <1> QED BY <1>5, <1>6, <1>7

(* The initial states map to those of the abstract book.                    *)
LEMMA InitIsBookInit == Init => Book!BookInit
  <1> SUFFICES ASSUME Init PROVE Book!BookInit
    OBVIOUS
  <1>1. Entries = {} /\ \A r \in Reqs : answer[r].kind = "pending"
    BY DEF Init, Entries, Pending
  <1>2. UsedKeys = {} /\ AckedKeys = {}
    BY <1>1 DEF UsedKeys, AckedKeys
  <1>3. Balances = [a \in Accounts |-> 0]
    BY DEF Init, Balances
  <1> QED BY <1>2, <1>3 DEF Book!BookInit

(* Every step maps to a step of the abstract book or to a stutter.          *)
LEMMA NextIsBookNext == IInv /\ [Next]_vars => [Book!BookNext]_(Book!bookVars)
  <1> SUFFICES ASSUME IInv, [Next]_vars PROVE [Book!BookNext]_(Book!bookVars)
    OBVIOUS
  <1>i. TypeOK /\ BookInv /\ NeverOverspent /\ RequestInv
    BY DEF IInv, BookInv
  <1>t. answer \in [Reqs -> [kind : Refusals \cup {"pending", "ok"}, entry : Nat]]
    BY <1>i DEF TypeOK
  <1>1. ASSUME UNCHANGED <<acct, ledger, input, answer>>
        PROVE  [Book!BookNext]_(Book!bookVars)
    BY <1>1 DEF Balances, UsedKeys, AckedKeys, Entries, Book!bookVars
  <1>2. ASSUME NEW r \in Reqs, CommitAnswered(r) \/ CommitUnanswered(r)
        PROVE  [Book!BookNext]_(Book!bookVars)
    <2>1. PICK e \in EntryType :
              /\ Appends(target[r], e)
              /\ e.key = ClientKey(input[r].key)
              /\ e.amount = Signed(input[r])
      BY <1>2, <1>i, MovementAppends DEF CommitAnswered, CommitUnanswered
    <2>2. target[r] \in Accounts /\ input[r].amount \in Nat \ {0}
          /\ acct[target[r]].balance \in Int
      BY SMTT(30), <1>i, ParameterAssumption DEF TypeOK, InputType
    <2>3. acct'[target[r]].balance # acct[target[r]].balance
      BY <2>1, <2>2 DEF Appends, Signed
    <2>4. AckedKeys' \in {AckedKeys, AckedKeys \cup {e.key}}
      <3>1. answer[r].kind = "pending" /\ input' = input
        BY <1>2, <1>i DEF CommitAnswered, CommitUnanswered, ApplyMovement, RequestInv,
           RequestWritesOwnKey
      <3>2. \A q \in Reqs \ {r} : answer'[q] = answer[q]
        BY <1>2, <1>t DEF CommitAnswered, CommitUnanswered, GoTo, Tell
      <3> QED BY <1>i, <2>1, <3>1, <3>2, AnswerAcknowledges
    <2>5. Book!Move(target[r])
      BY <1>i, <2>1, <2>2, <2>3, <2>4, AppendIsMove
    <2> QED BY <2>2, <2>5 DEF Book!BookNext
  <1>3. ASSUME NEW r \in Reqs, FindSpend(r) \/ LoadCard(r) \/ PinFail(r) \/ PinReset(r)
                 \/ CommitDuplicate(r) \/ CommitFailed(r) \/ CommitUnfunded(r)
                 \/ CallThrows(r) \/ LookupFails(r)
        PROVE  [Book!BookNext]_(Book!bookVars)
    <2>1. stage[r] # "done" /\ UNCHANGED <<acct, ledger, input>>
      BY <1>3 DEF FindSpend, LoadCard, PinFail, CountTry, PinReset, ClearTries,
         CommitDuplicate, CommitFailed, CommitUnfunded, CallThrows, LookupFails
    <2>2. (\E s : GoTo(r, s)) \/ \E k \in Refusals : Tell(r, k, 0)
      BY <1>3 DEF FindSpend, LoadCard, PinFail, PinReset, CommitDuplicate, CommitFailed,
         CommitUnfunded, CallThrows, LookupFails, Refusals
    <2> QED BY <1>i, <2>1, <2>2, QuietIsBookStep
  <1>4. ASSUME NEW r \in Reqs, FindKey(r) \/ Lookup(r)
        PROVE  [Book!BookNext]_(Book!bookVars)
    <2>1. stage[r] # "done" /\ UNCHANGED <<acct, ledger, input>>
      BY <1>4 DEF FindKey, Lookup
    <2>2. \/ \E s : GoTo(r, s)
          \/ \E k \in Refusals : Tell(r, k, 0)
          \/ KeyUsed(ClientKey(input[r].key)) /\ \E i : Tell(r, "ok", i)
      BY <1>4 DEF FindKey, Lookup, AnswerCanonical, Proceed, KeyUsed, Refusals
    <2> QED BY <1>i, <2>1, <2>2, QuietIsBookStep
  <1>5. ASSUME NEW r \in Reqs, Arrive(r) PROVE [Book!BookNext]_(Book!bookVars)
    BY <1>5, <1>1 DEF Arrive, GoTo
  <1>6. ASSUME NEW s \in Sweepers, NEW c \in sweep[s].found, Zero(c), UNCHANGED reqVars
        PROVE  [Book!BookNext]_(Book!bookVars)
    <2>1. PICK e \in EntryType : Appends(c.acct, e) /\ e.after = 0
      BY <1>6, <1>i, ZeroAppends
    <2>2. c.acct \in Accounts /\ acct[c.acct].balance > 0
      BY <1>6, <1>i DEF TypeOK, CandidateType, Zero, Untouched
    <2>3. acct'[c.acct].balance # acct[c.acct].balance /\ AckedKeys' = AckedKeys
      BY <1>6, <2>1, <2>2 DEF Appends, reqVars, AckedKeys
    <2>4. Book!Move(c.acct)
      BY <1>i, <2>1, <2>2, <2>3, AppendIsMove
    <2> QED BY <2>2, <2>4 DEF Book!BookNext
  <1>7. ASSUME NEW s \in Sweepers, SweepStep(s) PROVE [Book!BookNext]_(Book!bookVars)
    <2>1. ASSUME NEW c \in sweep[s].found,
                 SweepZero(s, c) \/ SweepSkip(s, c) \/ SweepFailed(s, c)
          PROVE  [Book!BookNext]_(Book!bookVars)
      BY <2>1, <1>6, <1>1 DEF SweepZero, SweepSkip, SweepFailed, reqVars
    <2> QED BY <1>7, <2>1, <1>1 DEF SweepStep, SweepStart, SweepScan, SweepEnd, reqVars
  <1>8. ASSUME NEW a \in Accounts, NEW amount \in Openings, NEW hasPin \in BOOLEAN,
               IssueCard(a, amount, hasPin)
        PROVE  [Book!BookNext]_(Book!bookVars)
    <2>1. UNCHANGED <<input, answer>>
      BY <1>8 DEF IssueCard, reqVars
    <2>2. AckedKeys' = AckedKeys
      BY <2>1 DEF AckedKeys
    <2>3. CASE amount > 0
      <3>1. PICK e \in EntryType : Appends(a, e) /\ acct'[a].balance # acct[a].balance
        BY <1>8, <1>i, <2>3, OpeningAppends
      <3>2. Book!Move(a)
        BY <1>i, <2>2, <3>1, AppendIsMove
      <3> QED BY <3>2 DEF Book!BookNext
    <2>4. CASE ~(amount > 0)
      <3>1. ledger' = ledger /\ amount = 0
        BY <1>8, <2>4, ParameterAssumption DEF IssueCard, RecordOpening
      <3>2. \A b \in Accounts : acct'[b].balance = acct[b].balance
        BY <1>8, <1>i, <3>1 DEF IssueCard, TypeOK, BookInv, OnlyIssuedAccountsMove
      <3> QED BY <2>2, <3>1, <3>2 DEF Balances, UsedKeys, Entries, Book!bookVars
    <2> QED BY <2>3, <2>4
  <1>9. CASE Admin
    BY <1>9, <1>8, <1>1 DEF Admin, SetPin, SetCardStatus, reqVars
  <1>10. CASE Tick \/ UNCHANGED vars
    BY <1>10, <1>1 DEF Tick, vars, reqVars
  <1> QED BY <1>2, <1>3, <1>4, <1>5, <1>7, <1>9, <1>10 DEF Next, RequestStep

(* The ledger implements the book: whatever races or fails, callers see    *)
(* balances that move once per key and acknowledgements of such moves.     *)
THEOREM LedgerImplementsBook == Spec => ImplementsBook
  <1>1. IInv /\ [Next]_vars => [Book!BookNext]_(Book!bookVars)
    BY NextIsBookNext
  <1> QED BY <1>1, InitIsBookInit, Inductive, PTL DEF Spec, ImplementsBook, Book!BookSpec
=============================================================================
