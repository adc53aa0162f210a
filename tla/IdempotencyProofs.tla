------------------------- MODULE IdempotencyProofs -------------------------
(***************************************************************************)
(* A replay is always the response of a handler run of the same request.   *)
(* While handlers end within the lease (Prompt), a key has one handler at  *)
(* a time, and a run whose result a client knows is not repeated before    *)
(* its TTL is over.  For every number of clients, keys, routes and bodies. *)
(***************************************************************************)
EXTENDS IdempotencyKeys, TLAPS

(* The token of a delivery, and the row it writes, are well formed. *)
LEMMA ReservationType ==
    ASSUME TypeOK, NEW r \in Reqs
    PROVE  /\ Token(r) \in Tokens /\ Token(r).req = r /\ Token(r).at = at[r]
           /\ Reservation(r) \in RowType
           /\ Reservation(r).key = input[r].key
           /\ Reservation(r).scope = input[r].scope
           /\ Reservation(r).body = input[r].body
           /\ Reservation(r).owner = Token(r)
           /\ Reservation(r).created = at[r]
           /\ Reservation(r).expires = at[r] + TTL
           /\ Reservation(r).status = "none"
           /\ input[r] \in InputType
  <1>1. Token(r) \in Tokens /\ Token(r).req = r /\ Token(r).at = at[r]
    BY DEF Token, Tokens, TypeOK
  <1>2. input[r] \in InputType /\ at[r] \in Nat /\ at[r] + TTL \in Nat
    BY ParameterAssumption DEF TypeOK
  <1>3. input[r].key \in Keys /\ input[r].scope \in Scopes /\ input[r].body \in Bodies
    BY <1>2 DEF InputType
  <1> QED BY <1>1, <1>2, <1>3 DEF Reservation, RowType

(* The row of an answered reservation differs in its answer only. *)
LEMMA AnsweredType ==
    ASSUME TypeOK, NEW r \in Reqs, NEW row \in RowType
    PROVE  /\ Answered(r, row) \in RowType
           /\ Answered(r, row).key = row.key
           /\ Answered(r, row).scope = row.scope
           /\ Answered(r, row).body = row.body
           /\ Answered(r, row).owner = row.owner
           /\ Answered(r, row).created = row.created
           /\ Answered(r, row).expires = row.expires
           /\ Answered(r, row).status = outcome[r]
           /\ Answered(r, row).by = Token(r)
           /\ outcome[r] \in Outcomes /\ outcome[r] # "none"
  <1>1. outcome[r] \in Outcomes /\ outcome[r] # "none" /\ Token(r) \in Tokens
    BY ReservationType DEF TypeOK, Outcomes
  <1> QED BY <1>1 DEF Answered, RowType

(* Telling a client ends its delivery and no other. *)
LEMMA TellType ==
    ASSUME TypeOK, NEW r \in Reqs, NEW kind \in Kinds, NEW by \in Tokens,
           Tell(r, kind, by)
    PROVE  /\ stage' \in [Reqs -> Stages]
           /\ answer' \in [Reqs -> [kind : Kinds, by : Tokens]]
           /\ stage'[r] = "done"
           /\ answer'[r].kind = kind /\ answer'[r].by = by
           /\ \A q \in Reqs \ {r} : stage'[q] = stage[q] /\ answer'[q] = answer[q]
  BY DEF Tell, TypeOK, Stages

(* Going on changes the stage of one delivery only. *)
LEMMA GoToType ==
    ASSUME TypeOK, NEW r \in Reqs, NEW s \in Stages, GoTo(r, s)
    PROVE  /\ stage' \in [Reqs -> Stages]
           /\ answer' = answer
           /\ stage'[r] = s
           /\ \A q \in Reqs \ {r} : stage'[q] = stage[q]
  BY DEF GoTo, TypeOK

(* A response to a delivery that lost its key to another: a refusal, or a   *)
(* replay of the row found.                                                 *)
LEMMA RespondTells ==
    ASSUME TypeOK, NEW r \in Reqs, NEW found \in SUBSET table, Respond(r, found)
    PROVE  \E kind \in Refusals \cup {"replay"}, by \in Tokens :
             /\ Tell(r, kind, by)
             /\ kind \in Kinds
             /\ kind = "replay" => \E row \in found : /\ SameRequest(r, row)
                                                      /\ row.status # "none"
                                                      /\ by = row.by
  <1>1. Token(r) \in Tokens
    BY ReservationType
  <1>2. \A row \in found : row.by \in Tokens
    BY DEF TypeOK, RowType
  <1> QED BY <1>1, <1>2 DEF Respond, Refusals, Kinds

(* A reservation that is won adds a run of its token to the history. *)
LEMMA BeginRunType ==
    ASSUME TypeOK, NEW r \in Reqs, BeginRun(r)
    PROVE  \E run \in RunType :
             /\ run.by = Token(r) /\ run.key = input[r].key
             /\ run.scope = input[r].scope /\ run.body = input[r].body
             /\ run.began = now
             /\ runs' \in Seq(RunType)
             /\ Len(runs) \in Nat
             /\ Len(runs') = Len(runs) + 1
             /\ \A i \in 1 .. Len(runs) : runs'[i] = runs[i]
             /\ runs'[Len(runs) + 1] = run
             /\ GoTo(r, "handler")
  <1> DEFINE run == [by |-> Token(r), key |-> input[r].key, scope |-> input[r].scope,
                     body |-> input[r].body, began |-> now]
  <1>1. input[r].key \in Keys /\ input[r].scope \in Scopes /\ input[r].body \in Bodies
        /\ Token(r) \in Tokens
    BY ReservationType DEF InputType
  <1>2. run \in RunType
    BY <1>1 DEF RunType, TypeOK
  <1>3. runs' = Append(runs, run) /\ GoTo(r, "handler")
    BY DEF BeginRun
  <1>4. /\ run.by = Token(r) /\ run.key = input[r].key
        /\ run.scope = input[r].scope /\ run.body = input[r].body
        /\ run.began = now
    OBVIOUS
  <1> HIDE DEF run
  <1> QED BY <1>2, <1>3, <1>4 DEF TypeOK

-----------------------------------------------------------------------------
(* TypeOK is inductive: it holds initially ... *)
LEMMA InitType == Init => TypeOK
  BY ParameterAssumption DEF Init, TypeOK, Stages, Outcomes, Kinds, Refusals, Tokens

(* ... and every step keeps it. *)
LEMMA NextType == TypeOK /\ [Next]_vars => TypeOK'
  <1> SUFFICES ASSUME TypeOK, [Next]_vars PROVE TypeOK'
    OBVIOUS
  <1>1. ASSUME NEW r \in Reqs, Deliver(r) PROVE TypeOK'
    <2>1. GoTo(r, "read") /\ "read" \in Stages
      BY <1>1 DEF Deliver, Stages
    <2>2. stage' \in [Reqs -> Stages] /\ answer' = answer
      BY <2>1, GoToType
    <2> QED BY <1>1, <2>2 DEF Deliver, TypeOK
  <1>2. ASSUME NEW r \in Reqs, ReadExisting(r) PROVE TypeOK'
    <2>1. Rows(input[r].key) \in SUBSET table /\ Rows(input[r].key) \in SUBSET RowType
      BY DEF Rows, TypeOK
    <2>2. seen' \in [Reqs -> SUBSET RowType]
      BY <1>2, <2>1 DEF ReadExisting, TypeOK
    <2>3. \/ \E s \in Stages : GoTo(r, s)
          \/ \E kind \in Kinds, by \in Tokens : Tell(r, kind, by)
      <3>1. CASE Respond(r, Rows(input[r].key))
        BY <2>1, <3>1, RespondTells
      <3> QED BY <1>2, <3>1 DEF ReadExisting, Stages
    <2>4. /\ stage' \in [Reqs -> Stages]
          /\ answer' \in [Reqs -> [kind : Kinds, by : Tokens]]
      BY <2>3, GoToType, TellType DEF TypeOK
    <2> QED BY <1>2, <2>2, <2>4 DEF ReadExisting, TypeOK
  <1>3. ASSUME NEW r \in Reqs, ReserveKey(r) PROVE TypeOK'
    <2>1. CASE Rows(input[r].key) = {} /\ BeginRun(r)
               /\ table' = table \cup {Reservation(r)}
      <3>1. runs' \in Seq(RunType) /\ GoTo(r, "handler") /\ "handler" \in Stages
        BY <2>1, BeginRunType DEF Stages
      <3>2. stage' \in [Reqs -> Stages] /\ answer' = answer
        BY <3>1, GoToType
      <3>3. \A row1, row2 \in table' : row1.key = row2.key => row1 = row2
        BY <2>1, ReservationType DEF Rows, TypeOK
      <3>4. table' \subseteq RowType
        BY <2>1, ReservationType DEF TypeOK
      <3> QED BY <1>3, <3>1, <3>2, <3>3, <3>4 DEF ReserveKey, TypeOK
    <2>2. CASE GoTo(r, "reread") /\ UNCHANGED <<table, runs>>
      <3>1. stage' \in [Reqs -> Stages] /\ answer' = answer
        BY <2>2, GoToType DEF Stages
      <3> QED BY <1>3, <2>2, <3>1 DEF ReserveKey, TypeOK
    <2> QED BY <1>3, <2>1, <2>2 DEF ReserveKey
  <1>4. ASSUME NEW r \in Reqs, TakeOverKey(r) PROVE TypeOK'
    <2>0. seen' \in [Reqs -> SUBSET RowType]
      BY <1>4 DEF TakeOverKey, TypeOK
    <2>1. CASE BeginRun(r)
               /\ table' = (table \ Rows(input[r].key)) \cup {Reservation(r)}
      <3>1. runs' \in Seq(RunType) /\ GoTo(r, "handler") /\ "handler" \in Stages
        BY <2>1, BeginRunType DEF Stages
      <3>2. stage' \in [Reqs -> Stages] /\ answer' = answer
        BY <3>1, GoToType
      <3>3. \A row1, row2 \in table' : row1.key = row2.key => row1 = row2
        BY <2>1, ReservationType DEF Rows, TypeOK
      <3>4. table' \subseteq RowType
        BY <2>1, ReservationType DEF TypeOK
      <3> QED BY <1>4, <2>0, <3>1, <3>2, <3>3, <3>4 DEF TakeOverKey, TypeOK
    <2>2. CASE GoTo(r, "reread") /\ UNCHANGED <<table, runs>>
      <3>1. stage' \in [Reqs -> Stages] /\ answer' = answer
        BY <2>2, GoToType DEF Stages
      <3> QED BY <1>4, <2>0, <2>2, <3>1 DEF TakeOverKey, TypeOK
    <2> QED BY <1>4, <2>1, <2>2 DEF TakeOverKey
  <1>5. ASSUME NEW r \in Reqs, RereadRaced(r) PROVE TypeOK'
    <2>1. Rows(input[r].key) \in SUBSET table
      BY DEF Rows
    <2>2. \E kind \in Kinds, by \in Tokens : Tell(r, kind, by)
      BY <1>5, <2>1, RespondTells DEF RereadRaced
    <2>3. /\ stage' \in [Reqs -> Stages]
          /\ answer' \in [Reqs -> [kind : Kinds, by : Tokens]]
      BY <2>2, TellType
    <2> QED BY <1>5, <2>3 DEF RereadRaced, TypeOK
  <1>6. ASSUME NEW r \in Reqs, NEW status \in Outcomes, HandlerEnds(r, status)
        PROVE  TypeOK'
    <2>1. AfterHandler(r, status) \in Stages
      BY DEF AfterHandler, Stages
    <2>2. stage' \in [Reqs -> Stages] /\ answer' = answer
      BY <1>6, <2>1, GoToType DEF HandlerEnds
    <2>3. faults' \in Nat
      BY <1>6 DEF HandlerEnds, Fault, TypeOK
    <2>4. outcome' \in [Reqs -> Outcomes]
      BY <1>6 DEF HandlerEnds, TypeOK
    <2> QED BY <1>6, <2>2, <2>3, <2>4 DEF HandlerEnds, TypeOK
  <1>7. ASSUME NEW r \in Reqs, ReleaseKey(r) PROVE TypeOK'
    <2>1. "error" \in Kinds /\ Token(r) \in Tokens
      BY ReservationType DEF Kinds, Outcomes
    <2>2. /\ stage' \in [Reqs -> Stages]
          /\ answer' \in [Reqs -> [kind : Kinds, by : Tokens]]
      BY <1>7, <2>1, TellType DEF ReleaseKey
    <2> QED BY <1>7, <2>2 DEF ReleaseKey, TypeOK
  <1>8. ASSUME NEW r \in Reqs, StoreResponse(r) PROVE TypeOK'
    <2>1. outcome[r] \in Kinds /\ Token(r) \in Tokens
      BY ReservationType DEF Kinds, TypeOK
    <2>2. /\ stage' \in [Reqs -> Stages]
          /\ answer' \in [Reqs -> [kind : Kinds, by : Tokens]]
      BY <1>8, <2>1, TellType DEF StoreResponse
    <2>3. PICK open \in SUBSET table :
              table' = (table \ open) \cup {Answered(r, row) : row \in open}
      BY <1>8 DEF StoreResponse, OwnRows, Rows
    <2>4. \A row \in open : Answered(r, row) \in RowType /\ Answered(r, row).key = row.key
      BY AnsweredType DEF TypeOK
    <2>5. table' \subseteq RowType
      BY <2>3, <2>4 DEF TypeOK
    <2>6. \A row1, row2 \in table' : row1.key = row2.key => row1 = row2
      BY <2>3, <2>4 DEF TypeOK
    <2> QED BY <1>8, <2>2, <2>5, <2>6 DEF StoreResponse, TypeOK
  <1>9. ASSUME NEW r \in Reqs, Abandon(r) PROVE TypeOK'
    <2>1. "lost" \in Kinds /\ Token(r) \in Tokens
      BY ReservationType DEF Kinds
    <2>2. /\ stage' \in [Reqs -> Stages]
          /\ answer' \in [Reqs -> [kind : Kinds, by : Tokens]]
      BY <1>9, <2>1, TellType DEF Abandon
    <2> QED BY <1>9, <2>2 DEF Abandon, Fault, TypeOK
  <1>10. CASE CleanUp
    BY <1>10 DEF CleanUp, TypeOK
  <1>11. CASE Tick
    BY <1>11 DEF Tick, TypeOK
  <1>12. CASE UNCHANGED vars
    BY <1>12 DEF vars, TypeOK
  <1> QED
    BY <1>1, <1>2, <1>3, <1>4, <1>5, <1>6, <1>7, <1>8, <1>9, <1>10, <1>11, <1>12
    DEF Next, Step, Outcomes

(* Every variable keeps its type and `key' stays a primary key. *)
THEOREM TypeCorrect == Spec => []TypeOK
  BY InitType, NextType, PTL DEF Spec

-----------------------------------------------------------------------------
(* The delivery takes its key: the only step that begins a run. *)
Wins(r) ==
    /\ stage[r] \in {"reserve", "takeOver"}
    /\ table' = (table \ Rows(input[r].key)) \cup {Reservation(r)}
    /\ BeginRun(r)
    /\ UNCHANGED <<now, input, at, outcome>>

(* The steps of a delivery, as the invariants tell them apart. *)
LEMMA ReserveWins ==
    ASSUME TypeOK, NEW r \in Reqs, ReserveKey(r) \/ TakeOverKey(r)
    PROVE  \/ Wins(r) /\ stage[r] = "reserve" /\ Rows(input[r].key) = {}
           \/ Wins(r) /\ stage[r] = "takeOver" /\ Rows(input[r].key) = seen[r]
           \/ GoTo(r, "reread") /\ UNCHANGED <<table, runs, input, at, now>>
  BY DEF ReserveKey, TakeOverKey, Unchanged, Wins

(* Runs are only ever added at the end. *)
LEMMA RunsAreKept ==
    ASSUME TypeOK, NEW r \in Reqs, BeginRun(r),
           NEW token, NEW key, NEW scope, NEW body,
           RunOf(token, key, scope, body)
    PROVE  RunOf(token, key, scope, body)'
  <1>1. PICK i \in 1 .. Len(runs) :
            /\ runs[i].by = token /\ runs[i].key = key
            /\ runs[i].scope = scope /\ runs[i].body = body
    BY DEF RunOf
  <1>2. i \in 1 .. Len(runs') /\ runs'[i] = runs[i]
    BY BeginRunType
  <1> QED BY <1>1, <1>2 DEF RunOf

(* So are RowsOfRuns and ReplayIsOwnResponse: initially ... *)
LEMMA CoreInit == Init => CoreInv
  BY InitType DEF Init, CoreInv, RowsOfRuns, ReplayIsOwnResponse

(* ... and after every step. *)
LEMMA CoreNext == CoreInv /\ [Next]_vars => CoreInv'
  <1> SUFFICES ASSUME CoreInv, [Next]_vars PROVE RowsOfRuns' /\ ReplayIsOwnResponse'
    BY NextType DEF CoreInv
  <1>i. TypeOK /\ RowsOfRuns /\ ReplayIsOwnResponse
    BY DEF CoreInv
  <1>1. ASSUME NEW r \in Reqs, Wins(r) PROVE RowsOfRuns' /\ ReplayIsOwnResponse'
    <2>1. PICK run \in RunType :
             /\ run.by = Token(r) /\ run.key = input[r].key
             /\ run.scope = input[r].scope /\ run.body = input[r].body
             /\ Len(runs) \in Nat
             /\ Len(runs') = Len(runs) + 1
             /\ runs'[Len(runs) + 1] = run
             /\ GoTo(r, "handler")
      BY <1>1, <1>i, BeginRunType DEF Wins
    <2>3. \E i \in 1 .. Len(runs') :
            /\ runs'[i].by = Token(r) /\ runs'[i].key = input[r].key
            /\ runs'[i].scope = input[r].scope /\ runs'[i].body = input[r].body
      BY <2>1
    <2>4. ASSUME NEW token, NEW key, NEW scope, NEW body,
                 RunOf(token, key, scope, body)
          PROVE  \E i \in 1 .. Len(runs') :
                   /\ runs'[i].by = token /\ runs'[i].key = key
                   /\ runs'[i].scope = scope /\ runs'[i].body = body
      BY <1>1, <1>i, <2>4, RunsAreKept DEF Wins, RunOf
    <2>5. ASSUME NEW row \in table'
          PROVE  /\ \E i \in 1 .. Len(runs') :
                      /\ runs'[i].by = row.owner /\ runs'[i].key = row.key
                      /\ runs'[i].scope = row.scope /\ runs'[i].body = row.body
                 /\ row.created = row.owner.at
                 /\ row.expires = row.owner.at + TTL
                 /\ row.status # "none" => row.by = row.owner
      <3>1. CASE row = Reservation(r)
        BY <1>i, <3>1, <2>3, ReservationType
      <3>2. CASE row \in table
        BY <1>i, <3>2, <2>4 DEF RowsOfRuns
      <3> QED BY <1>1, <2>5, <3>1, <3>2 DEF Wins
    <2>6. RowsOfRuns'
      BY <2>5 DEF RowsOfRuns, RunOf
    <2>7. ReplayIsOwnResponse'
      BY SMTT(30), <1>1, <1>i, <2>1, <2>4 DEF ReplayIsOwnResponse, RunOf, GoTo, Wins
    <2> QED BY <2>6, <2>7
  <1>2. ASSUME UNCHANGED <<table, runs>> PROVE RowsOfRuns'
    BY <1>i, <1>2 DEF RowsOfRuns, RunOf
  <1>3. ASSUME UNCHANGED <<runs, input, answer>> PROVE ReplayIsOwnResponse'
    BY <1>i, <1>3 DEF ReplayIsOwnResponse, RunOf
  <1>4. ASSUME NEW r \in Reqs, NEW kind \in Kinds, NEW by \in Tokens, Tell(r, kind, by),
               kind = "replay" => RunOf(by, input[r].key, input[r].scope, input[r].body),
               UNCHANGED <<runs, input>>
        PROVE  ReplayIsOwnResponse'
    <2>1. /\ answer'[r].kind = kind /\ answer'[r].by = by
          /\ \A q \in Reqs \ {r} : answer'[q] = answer[q]
      BY <1>4, <1>i, TellType
    <2> QED BY <1>i, <1>4, <2>1 DEF ReplayIsOwnResponse, RunOf
  <1>5. ASSUME NEW r \in Reqs, Respond(r, Rows(input[r].key)), UNCHANGED <<runs, input>>
        PROVE  ReplayIsOwnResponse'
    <2>1. PICK kind \in Refusals \cup {"replay"}, by \in Tokens :
             /\ Tell(r, kind, by)
             /\ kind \in Kinds
             /\ kind = "replay" => \E row \in Rows(input[r].key) :
                                      /\ SameRequest(r, row)
                                      /\ row.status # "none"
                                      /\ by = row.by
      <3>1. Rows(input[r].key) \in SUBSET table
        BY DEF Rows
      <3> QED BY <3>1, <1>5, <1>i, RespondTells
    <2>2. kind = "replay" => RunOf(by, input[r].key, input[r].scope, input[r].body)
      BY <1>i, <2>1 DEF RowsOfRuns, Rows, SameRequest
    <2> QED BY <1>4, <1>5, <2>1, <2>2
  <1>6. ASSUME NEW r \in Reqs, Deliver(r) PROVE RowsOfRuns' /\ ReplayIsOwnResponse'
    BY <1>6, <1>2, <1>3 DEF Deliver, GoTo
  <1>7. ASSUME NEW r \in Reqs, ReadExisting(r) PROVE RowsOfRuns' /\ ReplayIsOwnResponse'
    BY <1>7, <1>2, <1>3, <1>5 DEF ReadExisting, GoTo
  <1>8. ASSUME NEW r \in Reqs, ReserveKey(r) \/ TakeOverKey(r)
        PROVE  RowsOfRuns' /\ ReplayIsOwnResponse'
    BY <1>8, <1>i, <1>1, <1>2, <1>3, ReserveWins DEF GoTo
  <1>9. ASSUME NEW r \in Reqs, RereadRaced(r) PROVE RowsOfRuns' /\ ReplayIsOwnResponse'
    BY <1>9, <1>2, <1>5 DEF RereadRaced
  <1>10. ASSUME NEW r \in Reqs, NEW status, HandlerEnds(r, status)
         PROVE  RowsOfRuns' /\ ReplayIsOwnResponse'
    BY <1>10, <1>2, <1>3 DEF HandlerEnds, GoTo
  <1>11. ASSUME NEW r \in Reqs, ReleaseKey(r) PROVE RowsOfRuns' /\ ReplayIsOwnResponse'
    <2>1. "error" \in Kinds /\ Token(r) \in Tokens
      BY <1>i, ReservationType DEF Kinds, Outcomes
    <2>2. RowsOfRuns'
      BY <1>11, <1>i DEF ReleaseKey, RowsOfRuns, RunOf
    <2> QED BY <1>11, <2>1, <2>2, <1>4 DEF ReleaseKey
  <1>12. ASSUME NEW r \in Reqs, StoreResponse(r) PROVE RowsOfRuns' /\ ReplayIsOwnResponse'
    <2>1. outcome[r] \in Kinds /\ outcome[r] # "replay" /\ Token(r) \in Tokens
      BY <1>i, ReservationType DEF Kinds, Outcomes, TypeOK
    <2>2. PICK open \in SUBSET table :
             /\ \A row \in open : row.owner = Token(r)
             /\ table' = (table \ open) \cup {Answered(r, row) : row \in open}
      BY <1>12 DEF StoreResponse, OwnRows, Rows
    <2>3. \A row \in open : /\ Answered(r, row).key = row.key
                            /\ Answered(r, row).scope = row.scope
                            /\ Answered(r, row).body = row.body
                            /\ Answered(r, row).owner = row.owner
                            /\ Answered(r, row).created = row.created
                            /\ Answered(r, row).expires = row.expires
                            /\ Answered(r, row).by = row.owner
      BY <1>i, <2>2, AnsweredType DEF TypeOK
    <2>4. RowsOfRuns'
      <3>1. runs' = runs
        BY <1>12 DEF StoreResponse
      <3>2. ASSUME NEW row \in table'
            PROVE  /\ RunOf(row.owner, row.key, row.scope, row.body)
                   /\ row.created = row.owner.at
                   /\ row.expires = row.owner.at + TTL
                   /\ row.status # "none" => row.by = row.owner
        BY <1>i, <2>2, <2>3 DEF RowsOfRuns
      <3> QED BY <3>1, <3>2 DEF RowsOfRuns, RunOf
    <2>5. ReplayIsOwnResponse'
      BY <1>12, <2>1, <1>4 DEF StoreResponse
    <2> QED BY <2>4, <2>5
  <1>13. ASSUME NEW r \in Reqs, Abandon(r) PROVE RowsOfRuns' /\ ReplayIsOwnResponse'
    <2>1. "lost" \in Kinds /\ Token(r) \in Tokens
      BY <1>i, ReservationType DEF Kinds
    <2> QED BY <1>13, <2>1, <1>2, <1>4 DEF Abandon
  <1>14. CASE CleanUp
    BY <1>14, <1>i, <1>3 DEF CleanUp, RowsOfRuns, RunOf
  <1>15. CASE Tick \/ UNCHANGED vars
    BY <1>15, <1>2, <1>3 DEF Tick, vars
  <1> QED
    BY <1>6, <1>7, <1>8, <1>9, <1>10, <1>11, <1>12, <1>13, <1>14, <1>15 DEF Next, Step

(* A replay is the response of a run of the same key, scope and body. *)
THEOREM ReplaysAreFaithful == Spec => []ReplayIsOwnResponse
  <1>1. CoreInv => ReplayIsOwnResponse
    BY DEF CoreInv
  <1> QED BY <1>1, CoreInit, CoreNext, PTL DEF Spec

-----------------------------------------------------------------------------
(* From here on handlers end within the lease.                              *)

(* The invariants of prompt handlers hold initially. *)
LEMMA PromptInit == Init => PromptInv
  <1> SUFFICES ASSUME Init PROVE PromptInv
    OBVIOUS
  <1>1. /\ table = {} /\ runs = <<>> /\ now = 0
        /\ \A r \in Reqs : stage[r] = "idle" /\ at[r] = 0 /\ answer[r].kind = "none"
    BY DEF Init
  <1>2. 1 .. Len(runs) = {}
    BY <1>1
  <1> QED
    BY <1>1, <1>2 DEF PromptInv, ClocksAgree, TakenOverRowIsStale, RunnerHoldsRow,
       TokensAreFresh, OwnerRanLast, AcknowledgedRan, AcknowledgedRowIsKept,
       AcknowledgedRunIsLast, Acknowledged, Live, Running

(* A key whose handler runs is not free for another delivery. *)
LEMMA RunnerExcludes ==
    ASSUME TypeOK, RowsOfRuns, PromptInv, Prompt, NEW r \in Reqs, NEW q \in Reqs,
           Running(r), input[r].key = input[q].key,
           \/ Rows(input[q].key) = {}
           \/ stage[q] = "takeOver" /\ Rows(input[q].key) = seen[q]
    PROVE  FALSE
  <1>1. PICK row \in table : /\ row.key = input[r].key
                             /\ row.owner = Token(r)
                             /\ row.status = "none"
    BY DEF PromptInv, RunnerHoldsRow
  <1>2. row \in Rows(input[q].key)
    BY <1>1 DEF Rows
  <1>3. \E old \in seen[q] : Reclaimable(old, at[q])
    BY <1>2 DEF PromptInv, TakenOverRowIsStale
  <1>4. Reclaimable(row, at[q])
    <2>1. \A old \in Rows(input[q].key) : old = row
      BY <1>1, <1>2 DEF Rows, TypeOK
    <2> QED BY <1>2, <1>3, <2>1
  <1>5. row.created = at[r] /\ row.expires = at[r] + TTL
    BY <1>1, ReservationType DEF RowsOfRuns
  <1>6. at[q] <= now /\ now <= at[r] + MaxRun
    BY DEF PromptInv, ClocksAgree, Live, Running
  <1>7. /\ at[q] \in Nat /\ at[r] \in Nat /\ now \in Nat
        /\ MaxRun \in Nat /\ Lease \in Nat /\ TTL \in Nat
    BY ParameterAssumption DEF TypeOK
  <1> QED BY <1>4, <1>5, <1>6, <1>7 DEF Reclaimable, Prompt

(* Of two running handlers of one key both hold its row, so they are one. *)
LEMMA RunnersAreOne ==
    ASSUME TypeOK, RunnerHoldsRow
    PROVE  OneHandlerPerKey
  <1> SUFFICES ASSUME NEW r \in Reqs, NEW q \in Reqs, Running(r), Running(q),
                      input[r].key = input[q].key
               PROVE  r = q
    BY DEF OneHandlerPerKey
  <1>1. PICK row1 \in table : row1.key = input[r].key /\ row1.owner = Token(r)
    BY DEF RunnerHoldsRow
  <1>2. PICK row2 \in table : row2.key = input[q].key /\ row2.owner = Token(q)
    BY DEF RunnerHoldsRow
  <1>3. row1 = row2
    BY <1>1, <1>2 DEF TypeOK
  <1> QED BY <1>1, <1>2, <1>3 DEF Token

(* An answered row or a row whose owner no longer runs is nobody's own. *)
LEMMA RunnerOwnsOneRow ==
    ASSUME TypeOK, PromptInv, NEW r \in Reqs, Running(r), NEW row \in table,
           row.key = input[r].key
    PROVE  row.owner = Token(r) /\ row.status = "none"
  BY DEF PromptInv, RunnerHoldsRow, TypeOK

(* A delivery that takes its key keeps the invariants: its token is new, and *)
(* the row it replaces was stale.                                            *)
LEMMA WinKeepsPromptInv ==
    ASSUME CoreInv, PromptInv, Prompt, NEW r \in Reqs, Wins(r),
           seen' \in {seen, [seen EXCEPT ![r] = {}]},
           \/ Rows(input[r].key) = {}
           \/ stage[r] = "takeOver" /\ Rows(input[r].key) = seen[r]
    PROVE  PromptInv'
  <1>i. TypeOK /\ RowsOfRuns /\ ReplayIsOwnResponse
    BY DEF CoreInv
  <1>p. /\ ClocksAgree /\ TakenOverRowIsStale /\ RunnerHoldsRow /\ TokensAreFresh
        /\ OwnerRanLast /\ AcknowledgedRan /\ AcknowledgedRowIsKept
        /\ AcknowledgedRunIsLast
    BY DEF PromptInv
  <1>n. /\ now \in Nat /\ TTL \in Nat /\ Lease \in Nat
        /\ \A q \in Reqs : at[q] \in Nat
    BY <1>i, ParameterAssumption DEF TypeOK
  <1>1. PICK run \in RunType :
           /\ run.by = Token(r) /\ run.key = input[r].key
           /\ run.began = now
           /\ Len(runs) \in Nat
           /\ Len(runs') = Len(runs) + 1
           /\ \A i \in 1 .. Len(runs) : runs'[i] = runs[i]
           /\ runs'[Len(runs) + 1] = run
           /\ GoTo(r, "handler")
    BY <1>i, BeginRunType DEF Wins
  <1>2. /\ answer' = answer
        /\ stage'[r] = "handler"
        /\ \A q \in Reqs \ {r} : stage'[q] = stage[q]
        /\ stage[r] \in {"reserve", "takeOver"}
        /\ UNCHANGED <<now, input, at, outcome>>
        /\ table' = (table \ Rows(input[r].key)) \cup {Reservation(r)}
    BY <1>i, <1>1, GoToType DEF Wins, Stages
  <1>3. \A q \in Reqs : Token(q)' = Token(q)
    BY <1>2 DEF Token
  <1>4. Live(r) /\ ~Running(r)
    BY <1>2 DEF Live, Running
  <1>5. \A i \in 1 .. Len(runs) : runs[i].by # Token(r)
    BY <1>4, <1>p DEF TokensAreFresh
  <1>6. Token(r) \in Tokens /\ Token(r).req = r /\ Token(r).at = at[r]
        /\ Reservation(r).key = input[r].key /\ Reservation(r).owner = Token(r)
        /\ Reservation(r).status = "none"
    BY <1>i, ReservationType
  <1>7. \A i \in 1 .. Len(runs') :
          \/ i \in 1 .. Len(runs) /\ runs'[i] = runs[i]
          \/ i = Len(runs) + 1 /\ runs'[i] = run
    BY <1>1
  <1>8. ASSUME NEW row \in table, row.key = input[r].key, row.status # "none"
        PROVE  now >= row.owner.at + TTL
    <2>1. row \in Rows(input[r].key)
      BY <1>8 DEF Rows
    <2>2. PICK old \in seen[r] : Reclaimable(old, at[r])
      BY <2>1, <1>p DEF TakenOverRowIsStale
    <2>3. old = row
      BY <2>1, <2>2, <1>8, <1>i DEF Rows, TypeOK
    <2>4. row.expires <= at[r]
      BY <2>2, <2>3, <1>8 DEF Reclaimable
    <2>5. row.expires = row.owner.at + TTL /\ row.owner.at \in Nat
      BY <1>i DEF RowsOfRuns, TypeOK, RowType, Tokens
    <2>6. at[r] <= now
      BY <1>p DEF ClocksAgree
    <2> QED BY <2>4, <2>5, <2>6, <1>n
  <1>9. Acknowledged' = Acknowledged
    BY <1>2 DEF Acknowledged
  <1>10. ASSUME NEW i \in 1 .. Len(runs)
         PROVE  runs[i].by \in Tokens /\ runs[i].by.at \in Nat /\ runs[i].by.req \in Reqs
    <2>1. runs[i] \in RunType
      BY <1>i DEF TypeOK
    <2> QED BY <2>1 DEF RunType, Tokens
  <1>11. ASSUME NEW q \in Reqs, Running(q), input[q].key = input[r].key
         PROVE  FALSE
    BY <1>11, <1>i, RunnerExcludes
  <1>20. ClocksAgree'
    BY <1>2, <1>4, <1>p DEF ClocksAgree, Live
  <1>21. TakenOverRowIsStale'
    BY <1>2, <1>p, <1>i DEF TakenOverRowIsStale, TypeOK, Reclaimable
  <1>22. RunnerHoldsRow'
    <2> SUFFICES ASSUME NEW q \in Reqs, Running(q)'
                 PROVE  \E row \in table' : /\ row.key = input[q].key
                                            /\ row.owner = Token(q)
                                            /\ row.status = "none"
      BY <1>2, <1>3 DEF RunnerHoldsRow
    <2>1. CASE q = r
      BY <2>1, <1>2, <1>6
    <2>2. CASE q # r
      <3>1. Running(q)
        BY <2>2, <1>2 DEF Running
      <3>2. PICK row \in table : /\ row.key = input[q].key
                                 /\ row.owner = Token(q)
                                 /\ row.status = "none"
        BY <3>1, <1>p DEF RunnerHoldsRow
      <3>3. row \notin Rows(input[r].key)
        BY <3>1, <3>2, <1>11 DEF Rows
      <3> QED BY <3>2, <3>3, <1>2
    <2> QED BY <2>1, <2>2
  <1>23. TokensAreFresh'
    <2>1. ASSUME NEW q \in Reqs, (Live(q) /\ ~Running(q))', NEW i \in 1 .. Len(runs')
          PROVE  runs'[i].by # Token(q)'
      <3>1. q # r /\ Live(q) /\ ~Running(q)
        BY <2>1, <1>2 DEF Live, Running
      <3>2. Token(q).req = q
        BY <1>i, ReservationType
      <3> QED BY <3>1, <3>2, <1>1, <1>3, <1>6, <1>7, <1>p DEF TokensAreFresh
    <2>2. ASSUME NEW i \in 1 .. Len(runs')
          PROVE  /\ runs'[i].key = input'[runs'[i].by.req].key
                 /\ stage'[runs'[i].by.req] # "idle"
      <3>1. CASE i \in 1 .. Len(runs) /\ runs'[i] = runs[i]
        <4>1. runs[i].by.req \in Reqs
          BY <3>1, <1>10
        <4>2. /\ runs[i].key = input[runs[i].by.req].key
              /\ stage[runs[i].by.req] # "idle"
          BY <3>1, <1>p DEF TokensAreFresh
        <4> QED BY <3>1, <4>1, <4>2, <1>2
      <3>2. CASE runs'[i] = run
        BY <3>2, <1>1, <1>2, <1>6
      <3> QED BY <3>1, <3>2, <1>7
    <2> QED BY <2>1, <2>2 DEF TokensAreFresh
  <1>24. OwnerRanLast'
    <2> SUFFICES ASSUME NEW row \in table', NEW i \in 1 .. Len(runs'),
                        NEW j \in 1 .. Len(runs'), runs'[i].by = row.owner, i < j
                 PROVE  runs'[j].key # row.key
      BY DEF OwnerRanLast
    <2>0. i \in 1 .. Len(runs) /\ runs'[i] = runs[i]
      BY <1>1, <1>7
    <2>1. row \in table /\ row.key # input[r].key
      BY <2>0, <1>2, <1>5, <1>6 DEF Rows
    <2>2. CASE j \in 1 .. Len(runs) /\ runs'[j] = runs[j]
      BY <2>0, <2>1, <2>2, <1>p DEF OwnerRanLast
    <2>3. CASE runs'[j] = run
      BY <2>1, <2>3, <1>1
    <2> QED BY <2>2, <2>3, <1>7
  <1>25. AcknowledgedRan'
    <2> SUFFICES ASSUME NEW token \in Acknowledged
                 PROVE  \E i \in 1 .. Len(runs') : runs'[i].by = token
      BY <1>9 DEF AcknowledgedRan
    <2>1. PICK i \in 1 .. Len(runs) : runs[i].by = token
      BY <1>p DEF AcknowledgedRan
    <2>2. i \in 1 .. Len(runs') /\ runs'[i] = runs[i]
      BY <1>1
    <2> QED BY <2>1, <2>2
  <1>26. ASSUME NEW i \in 1 .. Len(runs'), runs'[i].by \in Acknowledged'
         PROVE  i \in 1 .. Len(runs) /\ runs'[i] = runs[i] /\ runs[i].by \in Acknowledged
    <2>1. Token(r) \notin Acknowledged
      BY <1>5, <1>p DEF AcknowledgedRan
    <2>2. CASE i \in 1 .. Len(runs) /\ runs'[i] = runs[i]
      BY <2>2, <1>26, <1>9
    <2>3. CASE runs'[i] = run
      BY <2>1, <2>3, <1>1, <1>9, <1>26
    <2> QED BY <2>2, <2>3, <1>7
  <1>27. AcknowledgedRowIsKept'
    <2> SUFFICES ASSUME NEW i \in 1 .. Len(runs'), runs'[i].by \in Acknowledged'
                 PROVE  \/ now >= runs'[i].by.at + TTL
                        \/ \E row \in table' : /\ row.key = runs'[i].key
                                               /\ row.owner = runs'[i].by
                                               /\ row.status # "none"
      BY <1>2 DEF AcknowledgedRowIsKept
    <2>1. i \in 1 .. Len(runs) /\ runs'[i] = runs[i] /\ runs[i].by \in Acknowledged
      BY <1>26
    <2>2. \/ now >= runs[i].by.at + TTL
          \/ \E row \in table : /\ row.key = runs[i].key
                                /\ row.owner = runs[i].by
                                /\ row.status # "none"
      BY <2>1, <1>p DEF AcknowledgedRowIsKept
    <2>3. CASE now >= runs[i].by.at + TTL
      BY <2>1, <2>3
    <2>4. ASSUME NEW row \in table, row.key = runs[i].key, row.owner = runs[i].by,
                 row.status # "none"
          PROVE  \/ now >= runs[i].by.at + TTL
                 \/ row \in table'
      BY <2>4, <1>2, <1>8 DEF Rows
    <2> QED BY <2>1, <2>2, <2>3, <2>4
  <1>28. AcknowledgedRunIsLast'
    <2> SUFFICES ASSUME NEW i \in 1 .. Len(runs'), NEW j \in 1 .. Len(runs'), i < j,
                        runs'[i].key = runs'[j].key, runs'[i].by \in Acknowledged'
                 PROVE  runs'[j].began >= runs'[i].by.at + TTL
      BY DEF AcknowledgedRunIsLast
    <2>1. i \in 1 .. Len(runs) /\ runs'[i] = runs[i] /\ runs[i].by \in Acknowledged
      BY <1>26
    <2>2. CASE j \in 1 .. Len(runs) /\ runs'[j] = runs[j]
      BY <2>1, <2>2, <1>p DEF AcknowledgedRunIsLast
    <2>3. CASE runs'[j] = run
      <3>1. runs[i].key = input[r].key /\ runs'[j].began = now
        BY <2>1, <2>3, <1>1
      <3>2. \/ now >= runs[i].by.at + TTL
            \/ \E row \in table : /\ row.key = runs[i].key
                                  /\ row.owner = runs[i].by
                                  /\ row.status # "none"
        BY <2>1, <1>p DEF AcknowledgedRowIsKept
      <3>3. now >= runs[i].by.at + TTL
        BY <3>1, <3>2, <1>8
      <3> QED BY <3>1, <3>3, <2>1
    <2> QED BY <2>2, <2>3, <1>7
  <1> QED
    BY <1>20, <1>21, <1>22, <1>23, <1>24, <1>25, <1>27, <1>28 DEF PromptInv

(* Once a client is told a result, that result's row is in the table, so no *)
(* later run of the key can be in the history.                              *)
LEMMA NewlyAcknowledged ==
    ASSUME CoreInv, PromptInv, NEW row \in table, NEW key, row.key = key,
           runs' = runs, now' = now,
           Acknowledged' \subseteq Acknowledged \cup {row.owner},
           \A old \in table : old.status # "none" => old \in table',
           \E new \in table' : /\ new.key = key /\ new.owner = row.owner
                               /\ new.status # "none"
    PROVE  AcknowledgedRan' /\ AcknowledgedRowIsKept' /\ AcknowledgedRunIsLast'
  <1>i. TypeOK /\ RowsOfRuns
    BY DEF CoreInv
  <1>p. /\ TokensAreFresh /\ OwnerRanLast /\ AcknowledgedRan
        /\ AcknowledgedRowIsKept /\ AcknowledgedRunIsLast
    BY DEF PromptInv
  <1>1. PICK k \in 1 .. Len(runs) : runs[k].by = row.owner /\ runs[k].key = key
    BY <1>i DEF RowsOfRuns, RunOf
  <1>2. AcknowledgedRan'
    BY <1>1, <1>p DEF AcknowledgedRan
  <1>3. ASSUME NEW i \in 1 .. Len(runs), runs[i].by = row.owner
        PROVE  runs[i].key = key
    BY <1>1, <1>3, <1>p DEF TokensAreFresh
  <1>4. AcknowledgedRowIsKept'
    <2> SUFFICES ASSUME NEW i \in 1 .. Len(runs), runs[i].by \in Acknowledged'
                 PROVE  \/ now >= runs[i].by.at + TTL
                        \/ \E new \in table' : /\ new.key = runs[i].key
                                               /\ new.owner = runs[i].by
                                               /\ new.status # "none"
      BY DEF AcknowledgedRowIsKept
    <2>1. CASE runs[i].by = row.owner
      BY <1>3, <2>1
    <2>2. CASE runs[i].by \in Acknowledged
      BY <2>2, <1>p DEF AcknowledgedRowIsKept
    <2> QED BY <2>1, <2>2
  <1>5. AcknowledgedRunIsLast'
    <2> SUFFICES ASSUME NEW i \in 1 .. Len(runs), NEW j \in 1 .. Len(runs), i < j,
                        runs[i].key = runs[j].key, runs[i].by \in Acknowledged'
                 PROVE  runs[j].began >= runs[i].by.at + TTL
      BY DEF AcknowledgedRunIsLast
    <2>1. CASE runs[i].by = row.owner
      BY <1>3, <2>1, <1>p DEF OwnerRanLast
    <2>2. CASE runs[i].by \in Acknowledged
      BY <2>2, <1>p DEF AcknowledgedRunIsLast
    <2> QED BY <2>1, <2>2
  <1> QED BY <1>2, <1>4, <1>5

(* Every step keeps the invariants of prompt handlers. *)
LEMMA PromptNext == Prompt /\ CoreInv /\ PromptInv /\ [Next]_vars => PromptInv'
  <1> SUFFICES ASSUME Prompt, CoreInv, PromptInv, [Next]_vars PROVE PromptInv'
    OBVIOUS
  <1>i. TypeOK /\ RowsOfRuns /\ ReplayIsOwnResponse
    BY DEF CoreInv
  <1>p. /\ ClocksAgree /\ TakenOverRowIsStale /\ RunnerHoldsRow /\ TokensAreFresh
        /\ OwnerRanLast /\ AcknowledgedRan /\ AcknowledgedRowIsKept
        /\ AcknowledgedRunIsLast
    BY DEF PromptInv
  <1>n. /\ now \in Nat /\ TTL \in Nat /\ Lease \in Nat /\ MaxRun \in Nat
        /\ \A q \in Reqs : at[q] \in Nat
    BY <1>i, ParameterAssumption DEF TypeOK
  (* What a step that leaves the table, the history and the answers alone keeps. *)
  <1>a. ASSUME UNCHANGED runs, table' \subseteq table PROVE OwnerRanLast'
    BY <1>a, <1>p DEF OwnerRanLast
  <1>b. ASSUME UNCHANGED <<runs, table>>, now' \in Nat, now' >= now,
               Acknowledged' \subseteq Acknowledged
        PROVE  AcknowledgedRan' /\ AcknowledgedRowIsKept' /\ AcknowledgedRunIsLast'
    <2>1. AcknowledgedRan' /\ AcknowledgedRunIsLast'
      BY <1>b, <1>p DEF AcknowledgedRan, AcknowledgedRunIsLast
    <2>2. ASSUME NEW i \in 1 .. Len(runs) PROVE runs[i].by.at \in Nat
      <3>1. runs[i] \in RunType
        BY <1>i DEF TypeOK
      <3> QED BY <3>1 DEF RunType, Tokens
    <2>3. AcknowledgedRowIsKept'
      BY <1>b, <1>p, <1>n, <2>2 DEF AcknowledgedRowIsKept
    <2> QED BY <2>1, <2>3
  <1>c. ASSUME UNCHANGED <<table, input>>,
               \A q \in Reqs : Running(q)' => Running(q) /\ at'[q] = at[q]
        PROVE  RunnerHoldsRow'
    BY <1>c, <1>p DEF RunnerHoldsRow, Token
  <1>d. ASSUME UNCHANGED <<runs, input>>,
               \A q \in Reqs : (Live(q) /\ ~Running(q))' =>
                  Live(q) /\ ~Running(q) /\ at'[q] = at[q],
               \A q \in Reqs : stage'[q] = "idle" => stage[q] = "idle"
        PROVE  TokensAreFresh'
    <2>1. ASSUME NEW i \in 1 .. Len(runs) PROVE runs[i].by.req \in Reqs
      <3>1. runs[i] \in RunType
        BY <1>i DEF TypeOK
      <3> QED BY <3>1 DEF RunType, Tokens
    <2> QED BY <1>d, <1>p, <2>1 DEF TokensAreFresh, Token
  <1>e. ASSUME UNCHANGED <<now, at>>, \A q \in Reqs : Live(q)' => Live(q)
        PROVE  ClocksAgree'
    BY <1>e, <1>p DEF ClocksAgree
  <1>f. ASSUME UNCHANGED <<seen, at>>,
               \A q \in Reqs : stage'[q] = "takeOver" => stage[q] = "takeOver"
        PROVE  TakenOverRowIsStale'
    BY <1>f, <1>p DEF TakenOverRowIsStale, Reclaimable
  (* A step that moves one delivery on and leaves the rest alone. *)
  <1>g. ASSUME NEW r \in Reqs, UNCHANGED <<now, table, input, at, runs>>,
               Acknowledged' \subseteq Acknowledged,
               \A q \in Reqs \ {r} : stage'[q] = stage[q],
               stage[r] \notin {"idle", "done"}, stage'[r] # "idle",
               Running(r)' => Running(r),
               Live(r)' /\ Running(r) => Running(r)',
               TakenOverRowIsStale'
        PROVE  PromptInv'
    <2>1. \A q \in Reqs : /\ (Live(q)' => Live(q))
                          /\ (Running(q)' => Running(q))
                          /\ ((Live(q) /\ ~Running(q))' => Live(q) /\ ~Running(q))
                          /\ (stage'[q] = "idle" => stage[q] = "idle")
      BY <1>g DEF Live, Running
    <2>2. OwnerRanLast' /\ ClocksAgree'
      BY <1>g, <1>a, <1>e, <2>1 DEF Live
    <2>3. AcknowledgedRan' /\ AcknowledgedRowIsKept' /\ AcknowledgedRunIsLast'
      BY <1>g, <1>b, <1>n
    <2>4. RunnerHoldsRow'
      BY <1>g, <1>c, <2>1 DEF Running
    <2>5. TokensAreFresh'
      BY <1>g, <1>d, <2>1 DEF Live, Running
    <2> QED BY <1>g, <2>2, <2>3, <2>4, <2>5 DEF PromptInv
  <1>h. ASSUME NEW r \in Reqs, NEW kind \in Kinds, NEW by \in Tokens, Tell(r, kind, by)
        PROVE  /\ Acknowledged' \subseteq
                    Acknowledged \cup (IF kind \in {"ok", "replay"} THEN {by} ELSE {})
               /\ stage'[r] = "done"
               /\ \A q \in Reqs \ {r} : stage'[q] = stage[q]
    <2>1. /\ stage'[r] = "done" /\ answer'[r].kind = kind /\ answer'[r].by = by
          /\ \A q \in Reqs \ {r} : stage'[q] = stage[q] /\ answer'[q] = answer[q]
      BY <1>h, <1>i, TellType
    <2> QED BY <2>1 DEF Acknowledged
  (* The end of a delivery that ran no handler. *)
  <1>k. ASSUME NEW r \in Reqs, Respond(r, Rows(input[r].key)), Live(r), ~Running(r),
               UNCHANGED <<now, table, input, at, seen, runs>>
        PROVE  PromptInv'
    <2>1. PICK kind \in Refusals \cup {"replay"}, by \in Tokens :
             /\ Tell(r, kind, by)
             /\ kind \in Kinds
             /\ kind = "replay" => \E row \in Rows(input[r].key) :
                                      /\ SameRequest(r, row)
                                      /\ row.status # "none"
                                      /\ by = row.by
      <3>1. Rows(input[r].key) \in SUBSET table
        BY DEF Rows
      <3> QED BY <3>1, <1>k, <1>i, RespondTells
    <2>2. /\ Acknowledged' \subseteq
                Acknowledged \cup (IF kind \in {"ok", "replay"} THEN {by} ELSE {})
          /\ stage'[r] = "done"
          /\ \A q \in Reqs \ {r} : stage'[q] = stage[q]
      BY <2>1, <1>h
    <2>3. TakenOverRowIsStale'
      BY <1>k, <2>2, <1>f
    <2>4. CASE kind # "replay"
      <3>1. Acknowledged' \subseteq Acknowledged
        BY <2>1, <2>2, <2>4 DEF Refusals
      <3> QED BY <1>g, <1>k, <2>2, <2>3, <3>1 DEF Live, Running
    <2>5. CASE kind = "replay"
      <3>1. PICK row \in table : /\ row.key = input[r].key /\ row.status # "none"
                                 /\ by = row.by
        BY <2>1, <2>5 DEF Rows
      <3>2. by = row.owner
        BY <3>1, <1>i DEF RowsOfRuns
      <3>3. Acknowledged' \subseteq Acknowledged \cup {row.owner}
        BY <2>2, <2>5, <3>2
      <3>4. AcknowledgedRan' /\ AcknowledgedRowIsKept' /\ AcknowledgedRunIsLast'
        BY <1>k, <3>1, <3>3, NewlyAcknowledged
      <3>u. now' = now /\ table' = table /\ input' = input /\ at' = at /\ runs' = runs
        BY <1>k
      <3>6. OwnerRanLast'
        BY <3>u, <1>a
      <3>7. ClocksAgree'
        BY <3>u, <1>k, <2>2, <1>e DEF Live
      <3>8. RunnerHoldsRow'
        BY <3>u, <1>k, <2>2, <1>c DEF Running
      <3>9. TokensAreFresh'
        BY <3>u, <1>k, <2>2, <1>d DEF Live, Running
      <3> QED BY <2>3, <3>4, <3>6, <3>7, <3>8, <3>9 DEF PromptInv
    <2> QED BY <2>4, <2>5
  <1>1. ASSUME NEW r \in Reqs, Deliver(r) PROVE PromptInv'
    <2>1. /\ stage'[r] = "read" /\ answer' = answer
          /\ \A q \in Reqs \ {r} : stage'[q] = stage[q] /\ at'[q] = at[q]
          /\ at'[r] = now /\ stage[r] \in {"idle", "done"}
          /\ UNCHANGED <<now, table, input, seen, runs>>
      <3>1. GoTo(r, "read") /\ "read" \in Stages
        BY <1>1 DEF Deliver, Stages
      <3> QED BY <1>1, <1>i, <3>1, GoToType DEF Deliver, TypeOK
    <2>2. \A q \in Reqs : /\ Running(q)' => Running(q) /\ at'[q] = at[q]
                          /\ stage'[q] = "idle" => stage[q] = "idle"
      BY <2>1 DEF Running
    <2>3. ClocksAgree'
      BY <2>1, <1>n, <1>p DEF ClocksAgree, Live
    <2>4. TakenOverRowIsStale'
      BY <2>1, <1>p DEF TakenOverRowIsStale, Reclaimable
    <2>5. RunnerHoldsRow'
      BY <2>1, <2>2, <1>c DEF Running
    <2>6. TokensAreFresh'
      <3>1. ASSUME NEW i \in 1 .. Len(runs)
            PROVE  /\ runs[i].by.req \in Reqs
                   /\ runs[i].by # [req |-> r, at |-> now]
                   /\ runs[i].key = input[runs[i].by.req].key
                   /\ stage[runs[i].by.req] # "idle"
        <4>1. runs[i] \in RunType
          BY <1>i DEF TypeOK
        <4>2. runs[i].by.req \in Reqs
          BY <4>1 DEF RunType, Tokens
        <4> QED BY <4>2, <1>1, <1>p DEF Deliver, TokensAreFresh
      <3>2. \A q \in Reqs \ {r} : Live(q)' /\ ~Running(q)' => Live(q) /\ ~Running(q)
        BY <2>1 DEF Live, Running
      <3>3. Token(r)' = [req |-> r, at |-> now]
            /\ \A q \in Reqs \ {r} : Token(q)' = Token(q)
        BY <2>1 DEF Token
      <3>4. \A q \in Reqs : (Live(q) /\ ~Running(q))' =>
               \A i \in 1 .. Len(runs) : runs[i].by # Token(q)'
        BY <3>1, <3>2, <3>3, <1>p DEF TokensAreFresh
      <3> QED BY <2>1, <3>1, <3>4 DEF TokensAreFresh
    <2>7. OwnerRanLast'
      BY <2>1, <1>a
    <2>8. AcknowledgedRan' /\ AcknowledgedRowIsKept' /\ AcknowledgedRunIsLast'
      <3>1. Acknowledged' = Acknowledged
        BY <2>1 DEF Acknowledged
      <3> QED BY <2>1, <3>1, <1>b, <1>n
    <2> QED BY <2>3, <2>4, <2>5, <2>6, <2>7, <2>8 DEF PromptInv
  <1>2. ASSUME NEW r \in Reqs, ReadExisting(r) PROVE PromptInv'
    <2>1. stage[r] = "read" /\ Live(r) /\ ~Running(r)
          /\ UNCHANGED <<now, table, input, at, runs>>
      BY <1>2 DEF ReadExisting, Live, Running
    <2>2. CASE GoTo(r, "reserve") /\ UNCHANGED seen
      <3>1. /\ stage'[r] = "reserve" /\ answer' = answer
            /\ \A q \in Reqs \ {r} : stage'[q] = stage[q]
        BY <2>2, <1>i, GoToType DEF Stages
      <3>2. TakenOverRowIsStale'
        BY <2>1, <2>2, <3>1, <1>f
      <3> QED BY <2>1, <3>1, <3>2, <1>g DEF Acknowledged, Live, Running
    <2>3. ASSUME GoTo(r, "takeOver"), seen' = [seen EXCEPT ![r] = Rows(input[r].key)],
                 \E row \in Rows(input[r].key) : Reclaimable(row, at[r])
          PROVE  PromptInv'
      <3>1. /\ stage'[r] = "takeOver" /\ answer' = answer
            /\ \A q \in Reqs \ {r} : stage'[q] = stage[q]
        BY <2>3, <1>i, GoToType DEF Stages
      <3>2. TakenOverRowIsStale'
        BY <2>1, <2>3, <3>1, <1>p, <1>i DEF TakenOverRowIsStale, Reclaimable, TypeOK
      <3> QED BY <2>1, <3>1, <3>2, <1>g DEF Acknowledged, Live, Running
    <2>4. CASE Respond(r, Rows(input[r].key)) /\ UNCHANGED seen
      BY <2>1, <2>4, <1>k
    <2> QED BY <1>2, <2>2, <2>3, <2>4 DEF ReadExisting
  <1>3. ASSUME NEW r \in Reqs, ReserveKey(r) \/ TakeOverKey(r) PROVE PromptInv'
    <2>1. seen' \in {seen, [seen EXCEPT ![r] = {}]}
          /\ stage[r] \in {"reserve", "takeOver"}
      BY <1>3 DEF ReserveKey, TakeOverKey
    <2>2. CASE Wins(r) /\ \/ Rows(input[r].key) = {}
                          \/ stage[r] = "takeOver" /\ Rows(input[r].key) = seen[r]
      BY <2>1, <2>2, WinKeepsPromptInv
    <2>3. CASE GoTo(r, "reread") /\ UNCHANGED <<table, runs, input, at, now>>
      <3>1. /\ stage'[r] = "reread" /\ answer' = answer
            /\ \A q \in Reqs \ {r} : stage'[q] = stage[q]
        BY <2>3, <1>i, GoToType DEF Stages
      <3>2. TakenOverRowIsStale'
        BY <2>1, <2>3, <3>1, <1>p, <1>i DEF TakenOverRowIsStale, Reclaimable, TypeOK
      <3> QED BY <2>1, <2>3, <3>1, <3>2, <1>g DEF Acknowledged, Live, Running
    <2> QED BY <1>3, <1>i, <2>2, <2>3, ReserveWins
  <1>4. ASSUME NEW r \in Reqs, RereadRaced(r) PROVE PromptInv'
    <2>1. Live(r) /\ ~Running(r)
      BY <1>4 DEF RereadRaced, Live, Running
    <2> QED BY <1>4, <2>1, <1>k DEF RereadRaced
  <1>5. ASSUME NEW r \in Reqs, NEW status \in Outcomes, HandlerEnds(r, status)
        PROVE  PromptInv'
    <2>1. AfterHandler(r, status) \in {"release", "store"}
      BY DEF AfterHandler
    <2>2. /\ stage'[r] \in {"release", "store"} /\ answer' = answer
          /\ \A q \in Reqs \ {r} : stage'[q] = stage[q]
      BY <1>5, <1>i, <2>1, GoToType DEF HandlerEnds, Stages
    <2>3. stage[r] = "handler" /\ UNCHANGED <<now, table, input, at, seen, runs>>
      BY <1>5 DEF HandlerEnds
    <2>4. TakenOverRowIsStale'
      BY <2>2, <2>3, <1>f
    <2> QED BY <2>2, <2>3, <2>4, <1>g DEF Acknowledged, Live, Running
  <1>6. ASSUME NEW r \in Reqs, ReleaseKey(r) PROVE PromptInv'
    <2>0. "error" \in Kinds /\ Token(r) \in Tokens
      BY <1>i, ReservationType DEF Kinds, Outcomes
    <2>1. /\ Acknowledged' \subseteq Acknowledged
          /\ stage'[r] = "done"
          /\ \A q \in Reqs \ {r} : stage'[q] = stage[q]
      BY <1>6, <2>0, <1>h DEF ReleaseKey
    <2>2. /\ stage[r] = "release" /\ Running(r)
          /\ now' = now /\ input' = input /\ at' = at /\ seen' = seen /\ runs' = runs
          /\ table' = table \ OwnRows(r)
      BY <1>6 DEF ReleaseKey, Running
    <2>3. \A row \in OwnRows(r) : row \in table /\ row.status = "none" /\ row.owner = Token(r)
      BY <2>2, <1>i, RunnerOwnsOneRow DEF OwnRows, Rows
    <2>4. ClocksAgree'
      BY <2>1, <2>2, <1>e DEF Live
    <2>5. TakenOverRowIsStale'
      BY <2>1, <2>2, <1>f
    <2>6. RunnerHoldsRow'
      <3> SUFFICES ASSUME NEW q \in Reqs \ {r}, Running(q)
                   PROVE  \E row \in table' : /\ row.key = input[q].key
                                              /\ row.owner = Token(q)
                                              /\ row.status = "none"
        BY <2>1, <2>2 DEF RunnerHoldsRow, Running, Token
      <3>1. PICK row \in table : /\ row.key = input[q].key /\ row.owner = Token(q)
                                 /\ row.status = "none"
        BY <1>p DEF RunnerHoldsRow
      <3>2. Token(q) # Token(r)
        BY DEF Token
      <3> QED BY <3>1, <3>2, <2>2, <2>3
    <2>7. TokensAreFresh'
      BY <2>1, <2>2, <1>d DEF Live, Running
    <2>8. OwnerRanLast'
      BY <2>2, <1>a
    <2>9. AcknowledgedRan' /\ AcknowledgedRunIsLast'
      BY <2>1, <2>2, <1>p DEF AcknowledgedRan, AcknowledgedRunIsLast
    <2>10. AcknowledgedRowIsKept'
      BY <2>1, <2>2, <2>3, <1>p DEF AcknowledgedRowIsKept
    <2> QED BY <2>4, <2>5, <2>6, <2>7, <2>8, <2>9, <2>10 DEF PromptInv
  <1>7. ASSUME NEW r \in Reqs, StoreResponse(r) PROVE PromptInv'
    <2> DEFINE open == {row \in OwnRows(r) : row.status = "none"}
    <2>0. outcome[r] \in Kinds /\ Token(r) \in Tokens
      BY <1>i, ReservationType DEF Kinds, TypeOK
    <2>1. /\ Acknowledged' \subseteq Acknowledged \cup {Token(r)}
          /\ stage'[r] = "done"
          /\ \A q \in Reqs \ {r} : stage'[q] = stage[q]
      BY <1>7, <2>0, <1>h DEF StoreResponse
    <2>2. /\ stage[r] = "store" /\ Running(r)
          /\ now' = now /\ input' = input /\ at' = at /\ seen' = seen /\ runs' = runs
          /\ table' = (table \ open) \cup {Answered(r, row) : row \in open}
      BY <1>7 DEF StoreResponse, Running
    <2>3. \A row \in open : /\ row \in table /\ row.status = "none"
                            /\ row.owner = Token(r)
      BY DEF OwnRows, Rows
    <2>4. \A row \in open : /\ Answered(r, row).key = row.key
                            /\ Answered(r, row).owner = row.owner
                            /\ Answered(r, row).status # "none"
      BY <2>3, <1>i, AnsweredType DEF TypeOK
    <2>h. PICK row \in table : /\ row.key = input[r].key /\ row.owner = Token(r)
                               /\ row.status = "none"
      BY <2>2, <1>p DEF RunnerHoldsRow
    <2>o. row \in open
      BY <2>h DEF OwnRows, Rows
    <2> HIDE DEF open
    <2>5. ClocksAgree'
      BY <2>1, <2>2, <1>e DEF Live
    <2>6. TakenOverRowIsStale'
      BY <2>1, <2>2, <1>f
    <2>7. RunnerHoldsRow'
      <3> SUFFICES ASSUME NEW q \in Reqs \ {r}, Running(q)
                   PROVE  \E old \in table' : /\ old.key = input[q].key
                                              /\ old.owner = Token(q)
                                              /\ old.status = "none"
        BY <2>1, <2>2 DEF RunnerHoldsRow, Running, Token
      <3>1. PICK old \in table : /\ old.key = input[q].key /\ old.owner = Token(q)
                                 /\ old.status = "none"
        BY <1>p DEF RunnerHoldsRow
      <3>2. Token(q) # Token(r)
        BY DEF Token
      <3> QED BY <3>1, <3>2, <2>2, <2>3
    <2>8. TokensAreFresh'
      BY <2>1, <2>2, <1>d DEF Live, Running
    <2>9. OwnerRanLast'
      <3> SUFFICES ASSUME NEW new \in table', NEW i \in 1 .. Len(runs),
                          NEW j \in 1 .. Len(runs), runs[i].by = new.owner, i < j
                   PROVE  runs[j].key # new.key
        BY <2>2 DEF OwnerRanLast
      <3>1. PICK old \in table : old.key = new.key /\ old.owner = new.owner
        BY <2>2, <2>3, <2>4
      <3> QED BY <3>1, <1>p DEF OwnerRanLast
    <2>10. AcknowledgedRan' /\ AcknowledgedRowIsKept' /\ AcknowledgedRunIsLast'
      <3>1. Acknowledged' \subseteq Acknowledged \cup {row.owner}
        BY <2>1, <2>h
      <3>2. \A old \in table : old.status # "none" => old \in table'
        BY <2>2, <2>3
      <3>3. \E new \in table' : /\ new.key = row.key /\ new.owner = row.owner
                                /\ new.status # "none"
        BY <2>2, <2>4, <2>o
      <3> QED BY <2>2, <3>1, <3>2, <3>3, NewlyAcknowledged
    <2> QED BY <2>5, <2>6, <2>7, <2>8, <2>9, <2>10 DEF PromptInv
  <1>8. ASSUME NEW r \in Reqs, Abandon(r) PROVE PromptInv'
    <2>0. "lost" \in Kinds /\ Token(r) \in Tokens
      BY <1>i, ReservationType DEF Kinds
    <2>1. /\ Acknowledged' \subseteq Acknowledged
          /\ stage'[r] = "done"
          /\ \A q \in Reqs \ {r} : stage'[q] = stage[q]
      BY <1>8, <2>0, <1>h DEF Abandon
    <2>2. Live(r) /\ UNCHANGED <<now, table, input, at, seen, runs>>
      BY <1>8 DEF Abandon
    <2>3. TakenOverRowIsStale'
      BY <2>1, <2>2, <1>f
    <2> QED BY <2>1, <2>2, <2>3, <1>g DEF Live, Running
  <1>9. CASE CleanUp
    <2>1. /\ UNCHANGED <<now, input, stage, at, seen, answer, runs>>
          /\ table' \subseteq table
          /\ \A row \in table : row \notin table' => row.expires < now
      BY <1>9 DEF CleanUp, Expired
    <2>2. \A row \in table : row.expires = row.owner.at + TTL /\ row.owner.at \in Nat
      BY <1>i DEF RowsOfRuns, TypeOK, RowType, Tokens
    <2>3. ClocksAgree' /\ TakenOverRowIsStale' /\ OwnerRanLast'
      BY <2>1, <1>a, <1>e, <1>f DEF Live
    <2>4. RunnerHoldsRow'
      <3> SUFFICES ASSUME NEW q \in Reqs, Running(q)
                   PROVE  \E row \in table' : /\ row.key = input[q].key
                                              /\ row.owner = Token(q)
                                              /\ row.status = "none"
        BY <2>1 DEF RunnerHoldsRow, Running, Token
      <3>1. PICK row \in table : /\ row.key = input[q].key /\ row.owner = Token(q)
                                 /\ row.status = "none"
        BY <1>p DEF RunnerHoldsRow
      <3>2. row.expires = at[q] + TTL /\ now <= at[q] + MaxRun
        BY <3>1, <2>2, <1>i, <1>p, ReservationType DEF ClocksAgree, Live, Running
      <3>3. ~(row.expires < now)
        BY <3>2, <1>n DEF Prompt
      <3> QED BY <3>1, <3>3, <2>1
    <2>5. TokensAreFresh'
      BY <2>1, <1>d DEF Live, Running
    <2>6. Acknowledged' = Acknowledged
      BY <2>1 DEF Acknowledged
    <2>7. AcknowledgedRan' /\ AcknowledgedRunIsLast'
      BY <2>1, <2>6, <1>p DEF AcknowledgedRan, AcknowledgedRunIsLast
    <2>8. AcknowledgedRowIsKept'
      <3> SUFFICES ASSUME NEW i \in 1 .. Len(runs), runs[i].by \in Acknowledged,
                          ~(now >= runs[i].by.at + TTL)
                   PROVE  \E row \in table' : /\ row.key = runs[i].key
                                              /\ row.owner = runs[i].by
                                              /\ row.status # "none"
        BY <2>1, <2>6 DEF AcknowledgedRowIsKept
      <3>1. PICK row \in table : /\ row.key = runs[i].key /\ row.owner = runs[i].by
                                 /\ row.status # "none"
        BY <1>p DEF AcknowledgedRowIsKept
      <3>2. ~(row.expires < now)
        BY <3>1, <2>2, <1>n
      <3> QED BY <3>1, <3>2, <2>1
    <2> QED BY <2>3, <2>4, <2>5, <2>7, <2>8 DEF PromptInv
  <1>10. CASE Tick
    <2>1. /\ now' = now + 1
          /\ UNCHANGED <<table, input, stage, at, seen, answer, runs>>
          /\ \A r \in Reqs : Live(r) => now < at[r] + MaxRun
      BY <1>10 DEF Tick
    <2>2. ClocksAgree'
      BY <2>1, <1>n, <1>p DEF ClocksAgree, Live
    <2>3. TakenOverRowIsStale' /\ OwnerRanLast'
      BY <2>1, <1>a, <1>f
    <2>4. RunnerHoldsRow' /\ TokensAreFresh'
      BY <2>1, <1>c, <1>d DEF Live, Running
    <2>5. Acknowledged' = Acknowledged
      BY <2>1 DEF Acknowledged
    <2>6. AcknowledgedRan' /\ AcknowledgedRowIsKept' /\ AcknowledgedRunIsLast'
      BY <2>1, <2>5, <1>b, <1>n
    <2> QED BY <2>2, <2>3, <2>4, <2>6 DEF PromptInv
  <1>11. CASE UNCHANGED vars
    <2>1. UNCHANGED <<now, table, input, stage, at, seen, answer, runs>>
      BY <1>11 DEF vars
    <2>2. ClocksAgree' /\ TakenOverRowIsStale' /\ OwnerRanLast'
      BY <2>1, <1>a, <1>e, <1>f DEF Live
    <2>3. RunnerHoldsRow' /\ TokensAreFresh'
      BY <2>1, <1>c, <1>d DEF Live, Running
    <2>4. Acknowledged' = Acknowledged
      BY <2>1 DEF Acknowledged
    <2>5. AcknowledgedRan' /\ AcknowledgedRowIsKept' /\ AcknowledgedRunIsLast'
      BY <2>1, <2>4, <1>b, <1>n
    <2> QED BY <2>2, <2>3, <2>5 DEF PromptInv
  <1> QED
    BY <1>1, <1>2, <1>3, <1>4, <1>5, <1>6, <1>7, <1>8, <1>9, <1>10, <1>11
    DEF Next, Step, Outcomes

(* The inductive invariant holds while handlers end within the lease. *)
LEMMA PromptInductive == ASSUME Prompt PROVE Spec => []IInv
  <1>1. Init => IInv
    BY CoreInit, PromptInit DEF IInv
  <1>2. IInv /\ [Next]_vars => IInv'
    BY CoreNext, PromptNext DEF IInv
  <1> QED BY <1>1, <1>2, PTL DEF Spec

(* Mutual exclusion of handlers of one key, the promise of the lease. *)
THEOREM OneHandler == ASSUME Prompt PROVE Spec => []OneHandlerPerKey
  <1>1. IInv => OneHandlerPerKey
    BY RunnersAreOne DEF IInv, CoreInv, PromptInv
  <1> QED BY <1>1, PromptInductive, PTL

(* No repetition: after a client knows the result of a run, the key runs no *)
(* other handler before that run's TTL is over.                             *)
THEOREM NoRepetition == ASSUME Prompt PROVE Spec => []AcknowledgedRunIsLast
  <1>1. IInv => AcknowledgedRunIsLast
    BY DEF IInv, PromptInv
  <1> QED BY <1>1, PromptInductive, PTL
=============================================================================
