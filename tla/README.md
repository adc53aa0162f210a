# MakanMasak: models and proofs of its money paths

MakanMasak is a marketplace for food courts and small vendors: a TypeScript
monorepo on Cloudflare Workers, with one D1 (SQLite) database, KV caches,
Durable Objects for realtime rooms and cron-triggered workers.  This directory
holds TLA+ models of the parts of it that move money or decide the fate of an
order, TLC configurations that check them on small instances, and TLAPS proofs
of their main properties for every instance.

Paths below are relative to the repository; `CreditService.ts` and the like are
under `apps/api/src/features/<feature>/services/`.

## The platform as the models see it

Every request runs in a Worker isolate.  Each database call is awaited, so other
requests run between any two of them, in this isolate or another one.  D1 runs
one statement, or one `db.batch`, atomically and has no transaction across
calls.  A call may throw before or after it committed.  An isolate may be
evicted at any await, and nothing runs its `catch` blocks then.  Cron workers
run every five minutes, every hour or every day, and may overlap requests and
each other.  So in every module **one database call is one action**, the values
a handler read before it stay in per-call variables, and failures and evictions
are actions of their own, bounded by a budget of faults for TLC only.

## Inventory

| component | state it keeps | operations | how it meets others |
|---|---|---|---|
| Credit ledger (`credits/CreditService.ts`, `workers/credit-expiry.ts`) | accounts with balance, version, expiry; cards with status, PIN and lock; an append-only ledger with unique keys | issue, setPin, setStatus, spend, topup, refund, refundByOriginalSpend; daily expiry | called by checkouts, bookings, top-ups and admins, all sharing balances |
| Top-up intents (`credits/CreditTopupService.ts`, `CreditTopupWebhookService.ts`) | one row per intent, the audit log | createIntent, confirmIntent, holdForReview | payment provider by HTTP and signed webhooks; the ledger |
| Idempotency middleware (`middleware/idempotency.ts`, `scheduled/cleanup-tokens.ts`) | a row per key: request hash, owner, response | reserve, take over, replay, release, store; daily sweep | wraps payment, credit, reservation and platform-webhook routes |
| Group orders (`group-orders/GroupOrdersService.ts`, `workers/group-order-expiry.ts`) | group row with status, claim time, settings; members; cart rows; split bills | create, join, leave, cart changes, finalize, recover, split, pay, settings; five-minute sweep | places one order through the order service |
| Market checkout (`market-checkouts/`) | a session in KV and D1, voucher reservations, the parent payment, one order per vendor | apply and remove voucher, pay, refund, webhook, reconciliation, voucher sweep | provider, ledger, coupons, vendors' orders |
| POS (`pos/`) | shifts, split payments, refunds | pay a bill in parts, refund, open and close a shift | checkout session, payment rows |
| Order payments (`payments/PaymentService.ts`) | payment transactions and the order's payment state | processPayment, webhooks, refund | idempotency middleware, orders |
| Orders (`orders/OrdersService.ts`, `packages/database/src/services/order.ts`) | order, items, stock, history | create, add items, discount, status changes, cancel | kitchen, realtime, coupons |
| Service bookings (`service-bookings/`) | slots with capacity, bookings, waitlist | create, recurring create, pay with credits, cancel, transition | ledger, coupons |
| Queue tickets (`queue/`, `packages/queue-service`) | tickets with numbers and statuses | join, call next, seat, cancel | realtime |
| Realtime rooms (`apps/realtime`) | sockets of a room and their permissions | join, broadcast, close | best-effort from every component |

The rest (authentication, menus, reservations, printing, integrations,
analytics, billing, backups, image processing, the management API, the web front
ends and the shared packages) is listed in `PROJECT.json` with a reason each: it
is catalogue editing, single-row writes, computation without a protocol or plain
input and output.

What is hard, and what must hold, component by component:

- **Credit ledger.**  Retries and twins of one request, concurrent spends of one
  balance, a sweep that zeroes accounts it read earlier, batches that commit
  while their answer is lost.  No overdraft; a key moves money once; the ledger
  explains every balance; the sweep takes idle money only; an error means that
  nothing moved, unless it is that of the look-up which would have told.
- **Top-ups.**  Webhooks late, repeated, reordered or short; handlers that die
  between the ledger and the intent.  Only collected money is credited, once,
  and before the customer is shown `paid`.
- **Idempotency.**  Evicted handlers, leases taken over while the old handler
  still runs, sweeps, redeliveries of released keys.  One handler per key; a
  known result is not computed again; a replay is the response of the same
  request; every client gets a decision in the end.
- **Group orders.**  Host, staff and sweep finalize at the same time while
  diners change the cart; an isolate dies before or after the order is recorded;
  a recovery outlives its claim; a rule refuses the cart on every attempt.  No
  reopening after the order; a whole snapshot; a truthful answer; no group stuck
  whose cart is not refused for ever.
- **Market checkout.**  One session read, changed and written back by the pay
  route, the voucher routes, the webhook, the reconciliation, the refund and the
  sweep, in two stores, beside counters and usage rows written in calls of their
  own.  The counters are exact; shares and uses follow the money; a paid
  checkout pays every stall's order, a refund reaches them, and a hold does not
  outlive an unpaid checkout.
- **POS and payments.**  Two rows for one payment; several registers on one
  bill.  Never more collected than owed; a refund never exceeds its payment.
- **Bookings and queue.**  Capacity counters and ticket numbers under
  concurrency.  A slot's count is the places taken; a cancelled booking frees
  exactly its share; a booking shown as paid with credits has spent them.

## Modules

### `CreditBook` and `CreditLedger`

`CreditBook` is the promise: a balance per account that is never negative and a
set of keys, each of which moves money at most once and is acknowledged only
after it did.  `CreditLedger` is the implementation.  `acct`, `card` and
`ledger` are the three tables, `stage[r]`, `seen[r]`, `at[r]` and `target[r]`
the local variables of call `r`, `answer[r]` what its caller got.  The original
spend of a refund (`FindSpend`), the card (`LoadCard`), the key (`FindKey`), the
PIN's counters (`PinFail`, `PinReset`), the batch (`Commit...`) and the catch
block's `Lookup` are one action each, in the order of the code, and each of these
calls may throw: the look-up too, after a batch that committed, and its own error
(`LOOKUP_ERROR`) is then all the caller hears of money that moved.  The batch of
`applyLedgerMovement` (conditional UPDATE, then `INSERT ... WHERE changes() = 1`)
is one atomic action, as D1 runs it.  The worker's scan and each account's batch
are separate actions.  Amount limits, currency alignment and parsing are
preconditions of the bodies in `Inputs`.

### `CreditTopup`

An intent's row, the provider's charge (external: what the code assumes of it is
read from how the gateway and the webhook use it), the events it reports and the
deliveries being handled.  The ledger is represented by the variables of
`CreditBook` and `Topup` is a `Move` of it: the composition rests on the ledger's
proved refinement, not on its code.

### `IdempotencyKeys`

`table` is the table; a delivery reads, then reserves (`INSERT ... ON CONFLICT DO
NOTHING`), takes over, replays or is refused, runs its handler, and stores or
releases.  `runs` is history: which handler runs began, in order.

### `GroupOrder`

One group.  `status`, `master`, `lockedAt`, `stale` and `failure` are columns of
the group row (`failure`: the settings hold `finalizeFailure`), `cart` the
active cart rows, `orders` the orders placed under the group's client mutation
id, `billed` what the last successful split charged.  Finalizers, recoveries,
sweeps, clean-ups and settings changes are processes with a `stage` each; a
sweep runs the finalizer's own actions.  Diners add (validate, then publish),
change and leave (mark, then clear).  In the configuration `c1` is in `Cleaners` and in
`Settings`: one call that is a clean-up or a settings change.  `refusing`
says that a business rule of `createOrder` (stock, minimum, delivery) turns the
cart down: `RulesChange` sets and clears it as it likes, and while it is set
every attempt is claimed, refused and reopened (`OrderRefused`), as often as the
sweep comes and without a fault.  `ReleaseLost` is the UPDATE that gives an
empty group back (`GroupOrdersService.ts:1474`) with its answer lost: the catch
block then sets `active` under whoever claimed the group meanwhile (`Reopen`
from the stage `reopenFreed`), and the history variable `ousted` remembers that
it took a claim that was another's.  From there on two calls can hold the claim,
so `ClaimIsExclusive`, `SnapshotIsWhole` and `SettledIsTrue` are stated for
behaviours up to that step; the first and the last are violated in the run's
instance when `~ousted =>` is taken out of them.  `Charged` and `Splits`
abstract `computeSplitBills` to what decides success: the total of what is
charged against the order's total. A stored split type is represented by
choosing at each split whether shares are equal or by own dish.

### `MarketCheckout`

The checkouts of several customers over one voucher.  `kv` and `db` are the two
copies of a session (the voucher's state in it, and the payment's), `row` the
`market_checkout_payments` row, `orders` the stalls' orders with the shares
written to them, `used` and `reserved` the two counters of `coupons`, `usage` the
live `coupon_usage` row per checkout and order, `countReleased` its
`refund_count_released_at`, `audited` the provider's event ids in the audit log
and `charge` the provider's own record (external).  `job[w]` is the handler a
worker runs: its label, and the copies it works with.  Handlers share their
actions as they share their functions:

| handler | actions, in order |
|---|---|
| `POST /:id/voucher` | `Apply`, `ClaimSlot`, `Hold` (or `GiveBack`), `Cache`, `Save` |
| `DELETE /:id/voucher` | `Remove`, `Release`, `Unhold`, `Cache`, `Save` |
| `POST /:id/pay` | `Pay`, then as for a voucher, `Charge`, `Put`, `Persist`, `Upsert`, `Settle`, and `redeem()` |
| `redeem()` | `Flip`, `Look`, `Slot`, `Insert` once per order, `Unslot`, `CountPaid` |
| webhook | `Hook`, `Find`, `WriteRow`, `WriteSession`, `ReadCached`, `WriteCached`, `Settle`, `Load`, `redeem()`; or `SettleRefund` |
| reconciliation worker | `Reconcile`, `Query`, then as the webhook |
| `POST /:id/refund` | `Refund`, `CallRefund`, `Put`, `Persist`, `Upsert`, `SettleRefund`, `Mark`, `Fully`, `Uncount` |
| voucher sweep | `Sweep`, `CompareAndSet`, `Release`, `Unhold` |

A redemption inserts the row of the smallest order first (`NextOrders`): order ids
are UUIDv7 and `redeem()` takes the rows in the order they were made.

Webhook and reconciliation bring the payment to the KV copy by a get
(`ReadCached`) and a put of the whole session (`WriteCached`): a voucher edited
between the two comes back or is lost, which is the disorder `staleCopy`.

A checkout has one charge: `POST /:id/pay` takes its idempotency key from the
request's header and falls back to `market-checkout:<id>`, and the shop's own
client sends none (`customer-app/src/services/orderApi.ts:455-470`).  A client that
sent a fresh key with each payment could make two charges; that is outside the
model.

The sweep reads the 50 oldest unpaid rows with a voucher and the reconciliation
25 pending payments.  Which rows are in a batch depends on checkouts that are not
in the model: `behind` holds those of `Outnumbered` that the others keep out,
`FallsBehind` and `CatchesUp` change it as they like.  Rows the sweep released
still match its query and keep their `updatedAt`
(`market-checkout-voucher-expiry.ts:62-80`), and a failed look-up leaves its
payment where it is, so 50 released rows or 25 payments whose look-up keeps
failing keep a younger one out for ever, and nothing in the code ends it.

An amount is known by whether the discount was taken off it: that is what the
comparisons of `Find`, `Query`, `Settle` and `Charge` tell apart.  Of time the
model keeps what the code measures: a request's hold is younger than half an
hour while its request runs, and a day without a request or an event of a
checkout (`DayPasses`) ends its KV copy and makes its row stale for the sweep.

**Disorders.**  The handlers guard against many interleavings and leave others
open: two requests of one checkout at a time, edits of the voucher while its
payment is open, a Worker stopped between two writes.  Each of them breaks the
counters, so a property of the counters over all behaviours would be false for
reasons that are all known.  `Strays` names them; `strayed` remembers which have
happened; `Disorders` and `MaxDisorders` say which a behaviour may begin.  A
request, a crash or an edit that begins a disorder is not enabled when the run
does not name it; what a handler on its way meets (a claim lost, a late status) is
never held up, only remembered.  `UsesAreCounted`, `ImplementsVoucherBook`,
`MoneyIsSettled`, `DiscountIsRecorded` and the liveness properties speak of
behaviours without a disorder (`Orderly`), `SharesMatchTheCharge` and
`UsesAreOfPaidCheckouts` of all of them.

`MarketCheckoutCounts` adds no behaviour: it says where each counted slot is
while a handler is between the counter and the copy that shows it, which is what
`MarketCheckoutCountProofs` proves invariant.

`VoucherBook` is the abstract specification of a voucher with a limit, without
stores, handlers or money: `claim[c]` is what a checkout has of it (`none`,
`held`, `used`, `refunded`) and `taken` the uses taken from the limit.  A use is
taken (`Take`) before a checkout holds or uses it (`Hold`, `Redeem`), and given
back (`GiveBack`) only when it is to spare, or with the hold that ends (`Drop`); so
`taken` stays within the limit and covers the checkouts that hold or use the
voucher.  `MarketCheckoutBook` maps the handlers to it: `taken` is `used_count`,
a checkout's claim is the claim's `coupon_usage` row once that is a use, and before
it the reservation D1 shows until some handler begins to give it back
(`ClaimOf`).  `ImplementsVoucherBook` says that every step of an orderly behaviour
is one of the book's or a stutter.  The module also holds the invariant that
the proofs about the settlement rest on (`SettleInv`), and no behaviour.

### `ServiceBooking`

`slot` and `booking` are the two tables, `used` the voucher's counter, `spent`
the bookings whose spend is in the credit ledger (its key is the booking's, so a
repeated spend replays: the promise of `CreditBook`).  `Book` begins a single or
a recurring creation, `Reserve` is the guarded UPDATE of the slot, `Look` the
read that tells a full slot from a time without a row, `Insert` the booking,
`Release` and `Delete` the taking back of one week; `Spend` and `Mark`,
`Cancel` and `Batch` are the two confirmations and the cancellation, whose
batches are one action each.  A statement may throw before it is done, and also
after: a place taken, a booking inserted or deleted whose answer is lost is the
disorder `lostAnswer`, after which the catch blocks give back too much or too
little.  A series carries no voucher
(`RECURRENCE_VOUCHER_UNSUPPORTED`), so `CouponIsCounted` is about single bookings.
The EXISTS conditions of the batches look for a
booking stamped in this millisecond: that another batch of the same booking has
the same stamp is the disorder `sameTick`.  Here too `strayed` remembers the
disorders, and the configuration follows a behaviour up to the first one
(`CONSTRAINT Orderly`), the state after it included and nothing beyond: that
`TypeOK` and `CreditsWereSpent` hold further on is what the theorems show.

## Runs

Each run answers one question.

| run | question | bounds | result |
|---|---|---|---|
| `credit_races` | Do retries, twins and failing calls keep the books? | 3 requests, 2 accounts, 5 bodies sharing keys, 2 faults, cards that are frozen in between, no clock | holds |
| `credit_expiry` | Do overlapping sweeps and movements keep them, and does lapsed money go? | 2 workers, 1 request out of 8 bodies, period 1 within time 4, 2 faults | holds |
| `topup_races` | Is only collected money credited, once? | 2 intents of one account, 2 deliveries, 2 faults | holds |
| `topup_live` | Do redeliveries settle what dying handlers left? | 1 intent, 2 deliveries, 2 faults | holds |
| `idempotency_prompt` | With handlers inside the lease: one handler, no repetition, a decision for all? | 2 clients, one key in 2 bodies and 2 routes, lease 2 and TTL 4 within time 5, 1 fault | holds |
| `idempotency_overrun` | Is a replay still its own when handlers outlive lease and TTL? | the same, run time 3 beyond lease 1 and TTL 2 | holds |
| `group_order` | Is a group finalized by one call at a time, truthfully, for good and in the end? | host's finalizer, sweep, recovery, one call that cleans up or changes the settings; 1 dish in quantities to 2, 2 members, 1 fault or lost answer, rules that come and go | holds |
| `checkout_limits` | Are the counters exact and the money settled whenever the handlers are done, however they interleave, and is every step in between one of the voucher book's? | 2 checkouts of one customer, 2 orders each, 3 requests, 1 shopper and 1 back-office worker, usage limit 2, 1 per customer | holds |
| `checkout_live` | Does money reach the orders, and does an abandoned hold come back? | 1 checkout, 2 orders, 2 requests, two handlers at a time of which one may be the shopper's, usage limit 1, rows that fall out of a batch and come back | holds |
| `checkout_disorder` | What survives the disorders the handlers leave open? | 1 checkout, 2 requests at a time, 3 in all, one disorder of every kind one checkout can meet | holds |
| `checkout_late_claim` | Does a refused claim record nothing? | 2 checkouts of one customer, one handler at a time | violated |
| `booking` | Are slots and vouchers counted exactly? | 2 bookings, 2 slots of capacity 1, 2 requests at a time, usage limit 1, up to the first disorder | holds |

**Why the bounds are enough.**  The races of this code are between two calls on
one row, with a third that retries or sweeps: three requests on an account, two
deliveries of a key, two finalizers (host and sweep) with a recovery reach every
pair of steps in every order.  Amounts 1 and 2 against openings 0 and 2 give a
balance that covers one of two spends; two intents of different amounts make a
credit of the wrong one visible; time bounds cover a full expiry period, lease
and TTL and what follows them.  One or two faults put a crash at every call, and
in `topup_live` and `credit_expiry` a second one during the repair.  Two
checkouts of one customer and a limit of one are the smallest instance in which
a hold of one stands against the other; two orders are the smallest in which the
claim's row differs from the others; apply, pay and one more request (remove,
pay again, or the other checkout's) with a webhook, a tick, a refund and a sweep
between any two of their steps are the life of a checkout.  Two bookings with
two slots give a series that fails in its second week, beside a request on
either of its weeks.  The theorems remove the bounds for the safety properties.
Every property has a mutant: a definition of the model changed the way a
plausible bug would change its code, under which TLC finds the property
violated.

**Fairness.**  Weak fairness of a call's next step says that a handler that has
begun goes on unless it is evicted (a separate action without fairness).  The
sweeps and workers are fair because cron starts them again and again; time is
fair.  In `CreditTopup` a provider redelivers an unanswered event for ever,
which is strong fairness of its delivery: handlers being busy now and then does
not stop it.  In `MarketCheckout` the reconciliation and the sweep are strongly
fair for the same reason (requests may keep a worker busy now and then), the
provider's decision of a pending charge is weakly fair, and a tick is not
stopped for ever at the same await.  That is not fairness of a batch: a tick takes
a checkout only while it is not `behind`, and `PaidIsSettled` and
`HoldsAreReturned` have as their premise that it is not for ever (`Reached`).
Likewise `EveryGroupCloses` has the premise that the rules do not refuse the cart
for ever (`<>[]~refusing`): without it TLC shows the group that each sweep claims
and reopens.  No request's arrival, webhook, diner's
action, refund or fault is fair, except that in `IdempotencyKeys` a client
without a decision sends its request again: that retry is what the lease exists
for.  The daily clean-up of the keys is not fair: nothing checked waits for it.

**Deadlock.**  Requests, intents, checkouts, bookings and group orders end and
counters are bounded, so those runs disable the deadlock check; the idempotency
runs keep it.

## What the runs found

**A redemption whose claim is refused is recorded in part**
(`checkout_late_claim`).  `redeem()` inserts a use for every order; the row of
the smallest order carries the customer and is refused by the trigger when the
customer has no use left.  The comment there says that nothing is recorded then.
The loop goes on with the other orders, whose rows carry no customer and are
inserted as active uses, while the slot is given back.  No failure is needed: a
payment stays pending for a day, the sweep gives its reservation back, the
customer uses the voucher on another checkout, and then the payment settles.  A
refund of the checkout later takes one off `used_count` a second time.

### Other divergences the modules state

Each of these is a property of a module that no run lists; it is violated when
its line is added to the configuration named.

| property | add to | what happens |
|---|---|---|
| `RetryIsNotRefused` (action property, without SYMMETRY) | `CreditLedgerRaces.cfg` | A twin that commits between a spend's preflight and its batch empties the balance; the conditional UPDATE matches nothing, UNIQUE is never tried and the answer is `INSUFFICIENT_BALANCE` although the movement is in the ledger.  CreditService.ts:141 calls every movement replay-safe.  Sending the key once more replays the success. |
| `SuccessIsOwnOperation` | `CreditLedgerRaces.cfg` | The catch block returns the row under the key without the comparison the preflight makes (CreditService.ts:693): the loser of a race is told another operation succeeded. |
| `DuplicateWasCredited` | `CreditTopupRaces.cfg` | The answer of an accepted charge is lost, `createIntent` marks the intent failed, and the payment that follows is answered `duplicate` and never credited. |
| `BilledIsOrdered` | `GroupOrder.cfg` with `Items = {i1, i2}`, `MaxQuantity = 1` | `createOrder` commits, its answer is lost, the group reopens, a dish is swapped for one of the same price, and the next finalizer adopts the old order. |
| `FailedIsRecoverable` | `GroupOrder.cfg` | `setFeeMode` and `setAutoSubmitOnExpiry` rewrite the settings they read earlier and erase the diagnostics a recovery needs. |
| `ReleasesOnlyReserved` | `MarketCheckout.cfg` with `Disorders = {"editRefunded"}`, `MaxDisorders = 1`, `UsageLimit = 1`, `PerUserLimit = 0`, `MaxRequests = 4`, `BackWorkers = {r1}` | The session of a refunded checkout still says `reserved`: `DELETE /:id/voucher` releases the use a second time, from under another checkout's. |

### The disorders of a checkout

What each of `Strays` stands for, and why a counter or a row goes wrong after it:

- `overlap`: `DELETE /:id/voucher` beside a payment, or two payments that both
  fail, release one reservation twice from the copies they hold
  (`routes/index.ts:1171`).
- `editPending`: the voucher is removed or applied while a charge of the other
  amount is open (`routes/index.ts:1003`); the webhook's shares then disagree
  with the charge and the orders stay unsettled.
- `editRefunded`: above.
- `sweepOverlap`: the sweep's compare-and-set looks at `updatedAt` alone
  (`market-checkout-voucher-expiry.ts:91`).  A payment that has saved the session
  is seen; one that has read it and not yet saved, and a webhook about to write
  the payment's success, are not, and their voucher is released under them.
- `refundOverlap`: `POST /:id/refund` writes the session it read before the
  provider's call; two of them both settle.
- `storeError`: KV takes the session, D1 refuses it, and the reservation the KV
  copy shows is released (`routes/index.ts:951`).
- `lateStatus`: webhook and reconciliation write the status without comparing it
  with the row's, so a failed attempt can be written over its success.
- `unreconciled`: a decided payment is still pending here a day later, because no
  batch came to it or the look-up failed all day; the sweep then gives the voucher
  of a paid checkout back.
- `staleCopy`: a webhook or the reconciliation puts the session back into KV that
  it read before a voucher was applied, removed or released
  (`MarketCheckoutPaymentWebhookService.ts:488-499`); the next payment charges by
  that copy and stores it in D1, and the reservation is given back by nobody, or
  twice.
- `claimLost`: above.
- `lostReply`: the provider made the charge and its reply is lost; the voucher
  is released and the checkout recorded as failed, until a webhook disagrees.
- `crash`: the audit row makes an event a duplicate before its effects
  (`MarketCheckoutPaymentWebhookService.ts:165`); a webhook that dies after the
  payment row is written leaves the orders to nobody, since the reconciliation
  looks at pending rows.
- `reclaimed`: a customer's second checkout reclaims the hold of a first one
  that is in payment for more than half an hour; the comment above
  `CLAIM_HOLD_STALE_MS` accepts that.

And of a booking: `lateSlot` (a slot row made for a time that is booked starts
at zero), `sameTick` (two batches of one booking in one millisecond both count),
`overLimit` (a voucher confirmed at its limit is not counted and yet given back
when cancelled), `rollbackLate` (a series takes back a week the customer has
confirmed or cancelled meanwhile), `lostAnswer` (a statement done and its answer
lost: the place of a booking that stands is given back, or that of a deleted one
is not), `crash` (a place taken and no booking).
Credits spent on a booking that is cancelled or confirmed in cash before it is
marked stay spent; cancelling gives none back.

Two more came out of reading rather than checking.  The credit routes reserve
idempotency keys in the scope `credit` (`credits/routes/index.ts:44,58`), which
`IDEMPOTENCY_SCOPES` does not list, so the daily sweep never removes them; the
runs have one route outside the swept scopes.  And `POST /split` accepts custom
amounts and stores the split type `custom`, which `PUT /split-type` refuses
because finalization cannot carry it out.

## What is proved

Eight modules hold the proofs.  `tlapm` checks every theorem below for any number
of accounts, requests, keys, intents, deliveries, finalizers, sweeps, checkouts,
stalls, bookings, slots and workers, with any number of faults.

**`CreditLedgerProofs`**: `TypeCorrect`, `NoOverspending` (no run checks
`NeverOverspent` by itself: the book it implements spends no more than it has),
`BalanceIsExplained`, `OnlyIdleMoneyExpires`, `ExpiryIsNeverStuck`,
`FailuresAreClean`, `RefundsAreBounded`, `LedgerImplementsBook`.  The invariant is
`IInv == TypeOK /\ BookInv /\ RequestInv`.  None of its parts is inductive alone:
that the sweep takes only idle money needs `ExpiryTracksLatest` (an account's
expiry is set by its latest movement) and `CandidatesAreVersioned` (the version
read by a scan identifies the balance read with it); that a refused request moved
nothing needs `RequestWritesOwnKey` (a request appends nothing before its batch,
and then only its own movement under its own key) and that a failed look-up is
answered as such; the refund's bound needs
`RefundHasSpend`.  The append of one entry is analysed once (`AppendKeepsBook`,
`AppendOrder`) and used for movements, openings and expiries alike.  That an
expiry's key is never one already in the ledger (`ExpiryIsNeverStuck`: else UNIQUE
would refuse the batch every day, and the money would lapse for ever and never go)
needs `ExpiryInv` over it: the expiry named by a key in the ledger is past and, on
an account with money in it again, older than the account's
(`ExpiryKeysAreSpent`), because whatever puts money back also moves the expiry a
year beyond its clock, which is at most `MaxLatency` old when its batch commits
(`CommitsAreTimely`).  The refinement maps each append to a `Move`, each answer to
an `Acknowledge` and everything else to a stutter.  Assumption: `MaxLatency <=
Period`, that is, no call takes a year between reading its clock and its batch.

**`IdempotencyProofs`**: `TypeCorrect` and `ReplaysAreFaithful` hold whatever
handlers and clocks do; `OneHandler` and `NoRepetition` assume `Prompt` (handlers
end within the lease and the TTL: "a minute is far longer than any handler behind
this middleware runs").  The key facts are `RunnerHoldsRow` (a running handler
still owns its unanswered row), `OwnerRanLast` and `AcknowledgedRowIsKept`.

**`CreditTopupProofs`**: `TypeCorrect`, `OnlyCollectedIsCredited`,
`CreditNeverExceedsCollection`, `PaidWasCredited`, `ReviewIsAudited`, from an
invariant saying that events tell the truth about charges and that each call of a
delivery fits its event.  A sum over the intents would need induction; the model
counts cents instead, pairs of an intent and a number up to its amount, so that
the balance is the cardinality of a set (`BalanceIsCredited`), a credit adds an
interval to it (`CentsOfMore`), and what was credited is a subset of what was
collected.

**`GroupOrderProofs`**: `TypeCorrect` and `NeverReopened` are unconditional,
from `CoreInv` (`OrderBeforeUse`: a stage that uses the order comes after its
recording).  `ClaimExcludes`, `SuccessIsTrue` and `SnapshotsAreWhole` assume
`FinalizersArePrompt` (finalizers and sweeps end within the ten minutes after
which a claim counts as abandoned; recoveries need not) and speak of behaviours
up to a claim given back under another call (`ousted`).  `HolderOwnsGroup`
carries them: a holder's claim is the row's, it is fresh, and no recovery is at
work; `Over` says that after a success no finalizer is left to undo it.

**`MarketCheckoutProofs`**: `TypeCorrect`, `SharesFollowTheCharge` and
`UsesFollowTheMoney` hold with every disorder.  The two about money rest on
`IInv`, whose parts `JobsTrue` (of the handlers) and `StatusTrue` (of the stored
copies) tie each copy of the payment to the charge: a payment's row that may still
be settled carries the amount of the charge it is for (or none was made), a worker
about to settle works with that amount, and a status a worker carries was true of
the charge when it was told; `ChargeGrows` (a charge, once paid, stays paid or is
refunded) keeps it true while others move.

**`MarketCheckoutCountProofs`**: `UsesAreExact`, in behaviours without a disorder.
`UsesAreCounted` speaks only of moments when no handler runs; the invariant
`CountInv == Orderly => Exact` (`MarketCheckoutCounts`) says of every moment where
the slots are.  A slot of `reserved_count` is a reservation D1 shows and nobody
has given back (`Reserving`), one a handler claimed and has not stored yet or is
about to release (`Carrying`), or one whose use is recorded and not counted over
yet (`OwesCount`); one of `used_count` is a checkout's (`Using`), one a handler
carries, or one counted for rows that are not there, yet or any more (`OwesUse`).
Every action moves one member between these sets, or adds or takes one together
with the count.  To know that, `Exact` also has `Fits`: what a handler at each of
its labels may assume of its own copies, the stored ones, the claim's row and the
charge (`JobFits`), which handlers can be at one checkout together (`Alone`), and
what copies, rows, payment and audit agree on when nobody is about to mend them
(`CheckoutFits`).  `OrderIsLost` shows that a disorder is never forgotten, so that
a step of an orderly behaviour starts from one.  It assumes that checkouts and
workers are finitely many.  `CountInv` was model-checked on the instance of
`checkout_limits` and on smaller ones before it was proved.

**`MarketCheckoutBookProofs`**: `DiscountsAreRecorded`, `MoneyReachesOrders` and
`CheckoutImplementsBook`, in behaviours without a disorder.  The first two speak
of moments when no handler runs; their invariant `SettleInv == Orderly => \A c :
SettlesAt(c)` speaks of every moment.  Whoever shows a checkout paid (D1, the KV
copy or the payment's row), its orders are paid or a handler at it is bringing
the money (`PaidIsSettling`, `Settling`); money that went back has left the
orders or a handler is taking it from them (`ReturnedIsSettling`, `Returning`);
and a discount taken off paid orders is recorded for every order or a handler is
recording it (`DiscountIsRecording`, `Recording`): one on its way to look at the
rows, or one inserting whose list holds every order without a use.  What makes
it inductive is `Exact` again: that a handler which finds the rows there or the
event already in the audit log may stop, because no other handler can be
half-way through the same work at that checkout.  A refused claim
(`RefusedClaimRecordsNothing`) and a crash between two of these writes are
disorders. `MoneyReachesOrders` is the theorem of `MoneyIsSettled`, the safety
side of `PaidIsSettled` and `RefundIsSettled`.

The refinement needs no invariant beyond `CountInv`.  A step moves one handler at
one checkout, so at most one claim (`ClaimStays`), and each action either changes
that claim or the count: `BeginsBook` (a handler begins), `KeepsBook` (the count
stays) and `TakesBook` (a use is taken or given back).  That a claim which appears
was covered, or a use given back was to spare, is not in the code's guards:
`TakenCovers` derives it from the exact count after the step, since `used` is the
cardinality of a set that the checkouts holding or using the voucher are part of.
`SettleInv` and the refinement were model-checked on the instance of
`checkout_limits` first, the refinement in every run of it.

**`ServiceBookingProofs`**: `TypeCorrect` and `CreditsAreSpent` hold with every
disorder; `SlotsAreCounted` and `UsesAreCounted` until the first one (the
invariants are `Shape`, and `Orderly => Count` and `Orderly => Uses` over it). The
slot's count is the cardinality of two sets, the bookings that hold a place and
the requests between taking it and inserting: an action moves a member from one to
the other, adds it with the count or removes it with the count, and the lemmas on
adding and removing an element carry it.  That a series deletes only bookings it
made, and each once, is part of the invariant.

**Only model-checked**: liveness (`LapsedBalanceIsCleared`, `CreditIsRecorded`,
`EveryRequestDecided`, `EveryGroupCloses`, `PaidIsSettled`,
`RefundIsSettled`, `HoldsAreReturned`), because the prover has neither fairness
nor ENABLED.  Every other property of a passing run is a theorem.

## Limits

- A failed UPDATE has not committed, except where the answer's loss matters and
  is modelled: the ledger's batch, `createOrder`, the release of a group's claim,
  the charge, and a booking's place, insertion and deletion.
- Some properties are stated up to a step nothing in the code guards against:
  the disorders of a checkout or a booking, the release of another call's claim
  on a group, the error of the ledger's own look-up.  Each is an action of its
  module, and the sections above say what goes wrong after it.
- `LapsedBalanceIsCleared` is checked with one lapsing account: it says nothing of
  accounts behind ones whose batch fails on every run.  `CreditIsRecorded` is
  checked for events that name the intent, not for one that names a transaction
  id which is not stored yet.  `AcknowledgedRunIsLast` says nothing of a run whose
  response could not be stored: no client was told of it.
- That a guard of the database holds is not stated as a property of its own: UNIQUE
  keys (one entry per ledger key, one order per group), the limit per customer's
  trigger, the WHERE clause of the keys' clean-up.
- A finalizer that outlives its claim (more than ten minutes) is outside
  `ClaimIsExclusive`; `RecordedOrderCloses` covers it.
- The daily expiry is modelled without its cap of fifty batches and its drift
  report (`LedgerExplainsBalance` proves what that report looks for);
  idempotency without requests that carry no key.
- Group orders: creating and joining, payments, `POST /split`, running previews
  and host recovery are not modelled.  Previews and `POST /split` share the bill
  rows with the finalizer; that race is listed as a hazard.
- Market checkouts: split mode `provider_split` only (`POST /pay` constructs no
  other); one charge per checkout, as the shop's client asks for it; one
  voucher, where a checkout may carry a stack; full refunds; the audit row and
  the review record of money that disagrees change nothing more. Creating a
  checkout and compensating one that failed half-way, the payments of POS, the
  list caches in KV and the reconciliation of failed refunds are not modelled.
  KV is taken as consistent: what a handler wrote the next one reads.
- Bookings: the availability of an employee (read before the insert and not
  guarded against a second one), opening hours, the waitlist, reminders and the
  deposit's amounts are not modelled.
- Signatures, access control and rate limits are outside this project.
- Most of the repository is not a protocol: five front ends with their
  translations, catalogue editing, reports and adapters.  What is left of its
  core logic (orders and stock, POS shifts, queue tickets) is in the plan.

## Plan

Written in this order, each with its MC module, runs, mutants and theorems:

1. *Done*: `CreditBook`, `CreditLedger` and the refinement; `IdempotencyKeys`;
   `CreditTopup` over `CreditBook`; `GroupOrder`.
2. *Done*: `MarketCheckout`, with the voucher, the webhooks, the reconciliation,
   the refund, the sweep and the settlement of the stalls' orders;
   `ServiceBooking`.
3. *Done*: the exactness of the checkout's counters (`UsesAreExact`), the expiry's
   key (`ExpiryIsNeverStuck`) and the bound of the credit
   (`CreditNeverExceedsCollection`) as theorems; `DiscountIsRecorded` and
   `MoneyIsSettled` as theorems; `VoucherBook` and the refinement.
4. `GroupOrder`, second part: previews, `POST /split` and the stored split type,
   payments of shares.
5. `PosPayment`: parts of one bill on several registers, refunds;
   `OrderLifecycle`: the status machine with its effects on stock.

## Running

`tlc -workers 2 -config CreditLedgerRaces.cfg MCCreditLedger.tla`, and likewise
for the other configurations in `PROJECT.json`; `tlapm CreditLedgerProofs.tla`,
and likewise for the other proof modules.
