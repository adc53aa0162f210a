-------------------------- MODULE IdempotencyKeys --------------------------
(***************************************************************************)
(* The Idempotency-Key middleware of                                       *)
(* apps/api/src/middleware/idempotency.ts: a table of reservations that    *)
(* lets one delivery of a key run its handler and replays the response to  *)
(* the others, and the cron job that sweeps it.                            *)
(*                                                                         *)
(* Each database call of the middleware is an action; deliveries run       *)
(* concurrently and their isolate may be evicted between two calls.  A     *)
(* request without a key runs its handler directly and is not modelled.    *)
(* response_body and effect_id are one value with response_status: what    *)
(* matters of them is which run of the handler they come from.             *)
(***************************************************************************)
EXTENDS Integers, Sequences, FiniteSets

CONSTANTS
    Reqs,           \* clients; each sends one request until it is decided
    Keys,
    Scopes,
    Bodies,         \* request bodies, up to their hash
    Inputs,         \* the requests to consider, a subset of InputType
    Releasing,      \* scopes of routes with releaseOnServerError
    SweptScopes,    \* IDEMPOTENCY_SCOPES
    TTL,            \* ttlSeconds, in ticks
    Lease,          \* IN_PROGRESS_LEASE_MS, in ticks
    MaxRun,         \* ticks between a delivery's clock read and its last write
    MaxTime,        \* bound of the model: the clock stops here
    MaxFaults,      \* bound of the model: evictions, failed calls, 5xx answers
    LastFault       \* bound of the model: none of them after this time

InputType == [key : Keys, scope : Scopes, body : Bodies]

ASSUME ParameterAssumption ==
    /\ Inputs \subseteq InputType
    /\ {TTL, Lease, MaxRun, MaxTime, MaxFaults, LastFault} \subseteq Nat
    /\ TTL > 0

VARIABLES
    now,        \* Date.now()
    table,      \* the rows of idempotency_keys
    input,      \* input[r]: the request r sends
    stage,      \* stage[r]: the call the delivery of r is about to make
    at,         \* at[r]: the clock as the delivery of r read it
    seen,       \* seen[r]: the row it is about to take over, as a set
    outcome,    \* outcome[r]: the status its handler answered with
    answer,     \* answer[r]: what the client was told, and from which run
    runs,       \* history: the handler runs, in the order they began
    faults      \* faults so far

vars == <<now, table, input, stage, at, seen, outcome, answer, runs, faults>>

(* ownerToken of the delivery of r: the client and the time stand for the   *)
(* UUID (see Deliver).                                                      *)
Token(r) == [req |-> r, at |-> at[r]]

Tokens == [req : Reqs, at : Nat]
Outcomes == {"ok", "error"}
Stages == {"idle", "read", "takeOver", "reserve", "reread", "handler", "store",
           "release", "done"}
Refusals == {"SCOPE_MISMATCH", "BODY_MISMATCH", "IN_PROGRESS"}
Kinds == Refusals \cup Outcomes \cup {"none", "replay", "lost"}

RowType ==
    [key : Keys, scope : Scopes, body : Bodies, owner : Tokens, created : Nat,
     expires : Nat, status : Outcomes \cup {"none"}, by : Tokens]

RunType == [by : Tokens, key : Keys, scope : Scopes, body : Bodies, began : Nat]

Init ==
    /\ now = 0
    /\ table = {}
    /\ input \in [Reqs -> Inputs]
    /\ stage = [r \in Reqs |-> "idle"]
    /\ at = [r \in Reqs |-> 0]
    /\ seen = [r \in Reqs |-> {}]
    /\ outcome = [r \in Reqs |-> "ok"]
    /\ answer = [r \in Reqs |-> [kind |-> "none", by |-> [req |-> r, at |-> 0]]]
    /\ runs = <<>>
    /\ faults = 0
-----------------------------------------------------------------------------
(* Mutant: the lookups overlook answered rows. *)
OpenRows(k) == {row \in table : row.key = k /\ row.status = "none"}

Rows(k) == {row \in table : row.key = k}

(* The reservation a delivery writes; `by' has no meaning until `status' is *)
(* set.                                                                     *)
Reservation(r) ==
    [key |-> input[r].key, scope |-> input[r].scope, body |-> input[r].body,
     owner |-> Token(r), created |-> at[r], expires |-> at[r] + TTL,
     status |-> "none", by |-> Token(r)]

Fault == faults < MaxFaults /\ now <= LastFault /\ faults' = faults + 1

GoTo(r, s) == stage' = [stage EXCEPT ![r] = s] /\ UNCHANGED answer

Tell(r, kind, by) ==
    /\ stage' = [stage EXCEPT ![r] = "done"]
    /\ answer' = [answer EXCEPT ![r] = [kind |-> kind, by |-> by]]

Live(r) == stage[r] \notin {"idle", "done"}

(* The row speaks for the request r sends. *)
SameRequest(r, row) == row.scope = input[r].scope /\ row.body = input[r].body

(* What a delivery that may not run its handler is told of the row it read. *)
Respond(r, found) ==
    \/ found = {} /\ Tell(r, "IN_PROGRESS", Token(r))
    \/ \E row \in found :
         \/ row.scope # input[r].scope /\ Tell(r, "SCOPE_MISMATCH", Token(r))
         \/ /\ row.scope = input[r].scope /\ row.body # input[r].body
            /\ Tell(r, "BODY_MISMATCH", Token(r))
         \/ /\ SameRequest(r, row) /\ row.status = "none"
            /\ Tell(r, "IN_PROGRESS", Token(r))
         \/ /\ SameRequest(r, row) /\ row.status # "none"
            /\ Tell(r, "replay", row.by)
-----------------------------------------------------------------------------
(* A client sends its request, or sends it again because it has no decision. *)
(* It may do so at once, but after a delivery that ran the handler only at a *)
(* later time: two runs never have the same token.                           *)
Deliver(r) ==
    /\ \/ stage[r] = "idle"
       \/ /\ stage[r] = "done"
          /\ answer[r].kind \in {"IN_PROGRESS", "error", "lost"}
          /\ \A i \in 1 .. Len(runs) : runs[i].by # [req |-> r, at |-> now]
    /\ at' = [at EXCEPT ![r] = now]
    /\ GoTo(r, "read")
    /\ UNCHANGED <<now, table, input, seen, outcome, runs, faults>>

(* Mutant: the lease of a reservation is over at once. *)
NoLease(row, t) == row.expires <= t \/ row.status = "none"

(* Mutant: only the TTL frees a key. *)
TtlOnly(row, t) == row.expires <= t

(* isReclaimable *)
Reclaimable(row, t) ==
    \/ row.expires <= t
    \/ row.status = "none" /\ row.created <= t - Lease

ReadExisting(r) ==
    LET found == Rows(input[r].key)
        stale == \E row \in found : Reclaimable(row, at[r])
    IN  /\ stage[r] = "read"
        /\ \/ found = {} /\ GoTo(r, "reserve") /\ UNCHANGED seen
           \/ stale /\ GoTo(r, "takeOver") /\ seen' = [seen EXCEPT ![r] = found]
           \/ found # {} /\ ~stale /\ Respond(r, found) /\ UNCHANGED seen
        /\ UNCHANGED <<now, table, input, at, outcome, runs, faults>>

(* The delivery owns the key: next() runs the handler. *)
BeginRun(r) ==
    /\ GoTo(r, "handler")
    /\ runs' = Append(runs,
         [by |-> Token(r), key |-> input[r].key, scope |-> input[r].scope,
          body |-> input[r].body, began |-> now])

(* INSERT OR IGNORE *)
ReserveKey(r) ==
    /\ stage[r] = "reserve"
    /\ \/ /\ Rows(input[r].key) = {}
          /\ table' = table \cup {Reservation(r)}
          /\ BeginRun(r)
       \/ /\ Rows(input[r].key) # {}
          /\ GoTo(r, "reread")
          /\ UNCHANGED <<table, runs>>
    /\ UNCHANGED <<now, input, at, seen, outcome, faults>>

(* Mutant: the UPDATE that takes a key over names the key only. *)
SameKey(r) == Rows(input[r].key) # {}

(* The row is still the one that was read, column by column. *)
Unchanged(r) == Rows(input[r].key) = seen[r]

TakeOverKey(r) ==
    /\ stage[r] = "takeOver"
    /\ \/ /\ Unchanged(r)
          /\ table' = (table \ Rows(input[r].key)) \cup {Reservation(r)}
          /\ BeginRun(r)
       \/ /\ ~Unchanged(r)
          /\ GoTo(r, "reread")
          /\ UNCHANGED <<table, runs>>
    /\ seen' = [seen EXCEPT ![r] = {}]
    /\ UNCHANGED <<now, input, at, outcome, faults>>

RereadRaced(r) ==
    /\ stage[r] = "reread"
    /\ Respond(r, Rows(input[r].key))
    /\ UNCHANGED <<now, table, input, at, seen, outcome, runs, faults>>
-----------------------------------------------------------------------------
(* A 5xx of a route that releases is forgotten, any other outcome is kept. *)
AfterHandler(r, status) ==
    IF status = "error" /\ input[r].scope \in Releasing THEN "release" ELSE "store"

HandlerEnds(r, status) ==
    /\ stage[r] = "handler"
    /\ IF status = "error" THEN Fault ELSE UNCHANGED faults
    /\ outcome' = [outcome EXCEPT ![r] = status]
    /\ GoTo(r, AfterHandler(r, status))
    /\ UNCHANGED <<now, table, input, at, seen, runs>>

(* Mutant: the writes after the handler do not ask for the owner. *)
AnyRow(r) == Rows(input[r].key)

(* The rows of the key this delivery still owns. *)
OwnRows(r) == {row \in Rows(input[r].key) : row.owner = Token(r)}

ReleaseKey(r) ==
    /\ stage[r] = "release"
    /\ table' = table \ OwnRows(r)
    /\ Tell(r, "error", Token(r))
    /\ UNCHANGED <<now, input, at, seen, outcome, runs, faults>>

Answered(r, row) ==
    [key |-> row.key, scope |-> row.scope, body |-> row.body, owner |-> row.owner,
     created |-> row.created, expires |-> row.expires,
     status |-> outcome[r], by |-> Token(r)]

(* storeResponse; only an unanswered row of its own takes the response. *)
StoreResponse(r) ==
    LET open == {row \in OwnRows(r) : row.status = "none"}
    IN  /\ stage[r] = "store"
        /\ table' = (table \ open) \cup {Answered(r, row) : row \in open}
        /\ Tell(r, outcome[r], Token(r))
        /\ UNCHANGED <<now, input, at, seen, outcome, runs, faults>>

(* The isolate is evicted, or a call of the middleware fails: the client    *)
(* gets no response, or a 500 that nothing recorded.                        *)
Abandon(r) ==
    /\ Live(r)
    /\ Fault
    /\ Tell(r, "lost", Token(r))
    /\ UNCHANGED <<now, table, input, at, seen, outcome, runs>>

Step(r) ==
    \/ ReadExisting(r) \/ ReserveKey(r) \/ TakeOverKey(r) \/ RereadRaced(r)
    \/ HandlerEnds(r, "ok") \/ ReleaseKey(r) \/ StoreResponse(r)

Expired(row) == row.expires < now

(* cleanupExpiredIdempotencyKeys: one DELETE. *)
CleanUp ==
    /\ table' = {row \in table : ~(row.scope \in SweptScopes /\ Expired(row))}
    /\ UNCHANGED <<now, input, stage, at, seen, outcome, answer, runs, faults>>

Tick ==
    /\ now < MaxTime
    /\ \A r \in Reqs : Live(r) => now < at[r] + MaxRun
    /\ now' = now + 1
    /\ UNCHANGED <<table, input, stage, at, seen, outcome, answer, runs, faults>>

Next ==
    \/ Tick
    \/ CleanUp
    \/ \E r \in Reqs :
         Deliver(r) \/ Step(r) \/ HandlerEnds(r, "error") \/ Abandon(r)

Spec == Init /\ [][Next]_vars

(* A delivery in progress goes on, a client without a decision sends its    *)
(* request again and time passes; nothing waits for the cron job.           *)
Fairness ==
    /\ \A r \in Reqs : WF_vars(Step(r)) /\ WF_vars(Deliver(r))
    /\ WF_vars(Tick)

FairSpec == Spec /\ Fairness
-----------------------------------------------------------------------------
(* Every variable has its type, and `key' is the primary key of the table. *)
TypeOK ==
    /\ now \in Nat
    /\ table \subseteq RowType
    /\ \A row1, row2 \in table : row1.key = row2.key => row1 = row2
    /\ input \in [Reqs -> Inputs]
    /\ stage \in [Reqs -> Stages]
    /\ at \in [Reqs -> Nat]
    /\ seen \in [Reqs -> SUBSET RowType]
    /\ outcome \in [Reqs -> Outcomes]
    /\ answer \in [Reqs -> [kind : Kinds, by : Tokens]]
    /\ runs \in Seq(RunType)
    /\ faults \in Nat

Running(r) == stage[r] \in {"handler", "store", "release"}

(* "still refuses a reservation that is genuinely in flight" and "allows    *)
(* only one handler through when two retries observe the same stale lease": *)
(* while handlers end within the lease, a key has one handler at a time,    *)
(* whoever is evicted, released or swept in between.                        *)
OneHandlerPerKey ==
    \A r, q \in Reqs :
        Running(r) /\ Running(q) /\ input[r].key = input[q].key => r = q

(* The runs whose result a client was told. *)
Acknowledged ==
    {answer[r].by : r \in {q \in Reqs : answer[q].kind \in {"ok", "replay"}}}

(* Replaying it "is the entire point of the table": once a client was told  *)
(* the result of a run, no other delivery of the key runs the handler again *)
(* before the run's TTL is over.                                            *)
AcknowledgedRunIsLast ==
    \A i, j \in 1 .. Len(runs) :
        /\ i < j
        /\ runs[i].key = runs[j].key
        /\ runs[i].by \in Acknowledged
        => runs[j].began >= runs[i].by.at + TTL

RunOf(token, key, scope, body) ==
    \E i \in 1 .. Len(runs) :
        /\ runs[i].by = token
        /\ runs[i].key = key
        /\ runs[i].scope = scope
        /\ runs[i].body = body

(* A replayed response is one that a handler gave to the same key, scope    *)
(* and body, even when handlers outlive their lease and lose their row to   *)
(* another request.                                                         *)
ReplayIsOwnResponse ==
    \A r \in Reqs :
        answer[r].kind = "replay" =>
            RunOf(answer[r].by, input[r].key, input[r].scope, input[r].body)

Decided(r) ==
    /\ stage[r] = "done"
    /\ answer[r].kind \in {"ok", "replay", "SCOPE_MISMATCH", "BODY_MISMATCH"}

(* The lost-event outcome the lease exists to prevent: an evicted isolate   *)
(* or a 5xx of a releasing route leaves no row that refuses every retry;    *)
(* a client that keeps redelivering gets a decision.                        *)
EveryRequestDecided == \A r \in Reqs : <>Decided(r)

-----------------------------------------------------------------------------
(* "A minute is far longer than any handler behind this middleware runs":   *)
(* what OneHandlerPerKey and AcknowledgedRunIsLast rest on.                 *)
Prompt == MaxRun < Lease /\ MaxRun < TTL

(* The parts that make the safety properties inductive.                     *)

(* A row was reserved by a run of its own request, which alone answers it.  *)
RowsOfRuns ==
    \A row \in table :
        /\ RunOf(row.owner, row.key, row.scope, row.body)
        /\ row.created = row.owner.at
        /\ row.expires = row.owner.at + TTL
        /\ row.status # "none" => row.by = row.owner

ClocksAgree ==
    \A r \in Reqs : at[r] <= now /\ (Live(r) => now <= at[r] + MaxRun)

TakenOverRowIsStale ==
    \A r \in Reqs :
        stage[r] = "takeOver" => \E row \in seen[r] : Reclaimable(row, at[r])

(* A running handler still holds its unanswered reservation. *)
RunnerHoldsRow ==
    \A r \in Reqs :
        Running(r) => \E row \in table : /\ row.key = input[r].key
                                         /\ row.owner = Token(r)
                                         /\ row.status = "none"

(* The token of a delivery that has not reserved the key is unused. *)
TokensAreFresh ==
    /\ \A r \in Reqs : Live(r) /\ ~Running(r) =>
         \A i \in 1 .. Len(runs) : runs[i].by # Token(r)
    /\ \A i \in 1 .. Len(runs) : /\ runs[i].key = input[runs[i].by.req].key
                                 /\ stage[runs[i].by.req] # "idle"

(* The owner of a row is the latest run of the key. *)
OwnerRanLast ==
    \A row \in table : \A i, j \in 1 .. Len(runs) :
        runs[i].by = row.owner /\ i < j => runs[j].key # row.key

(* The result a client knows is that of a run. *)
AcknowledgedRan ==
    \A token \in Acknowledged : \E i \in 1 .. Len(runs) : runs[i].by = token

(* An acknowledged run is over or its response is in the table. *)
AcknowledgedRowIsKept ==
    \A i \in 1 .. Len(runs) : runs[i].by \in Acknowledged =>
        \/ now >= runs[i].by.at + TTL
        \/ \E row \in table : /\ row.key = runs[i].key
                              /\ row.owner = runs[i].by
                              /\ row.status # "none"

CoreInv == TypeOK /\ RowsOfRuns /\ ReplayIsOwnResponse

PromptInv ==
    /\ ClocksAgree
    /\ TakenOverRowIsStale
    /\ RunnerHoldsRow
    /\ TokensAreFresh
    /\ OwnerRanLast
    /\ AcknowledgedRan
    /\ AcknowledgedRowIsKept
    /\ AcknowledgedRunIsLast

IInv == CoreInv /\ PromptInv
=============================================================================
