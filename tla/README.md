# Mandala Exchange: verification project

Mandala Exchange is a simulated stock exchange of three services. Each keeps its
own PostgreSQL database, and they talk over HTTP (and Redis for broadcasts):

- **MATS** (Go, `src/MATS`) takes orders from brokers, matches them, and reports
  order states and trades.
- **SEKURITAS** (TypeScript, `src/SEKURITAS/backend`) is the broker: it reserves a
  customer's cash or shares, sends the order to MATS, applies what MATS reports,
  and settles.
- **BEI** (TypeScript, `src/BEI`) is the exchange operator: rules and sessions, the
  official record of trades, settlement, custody, corporate actions.

This directory holds TLA+ modules translated from that code, the TLC
configurations that check them, and TLAPS proofs. `PROJECT.json` lists the
components, the runs, which source lines every definition stands for, the
hazards, the finding and the theorems.

To repeat a check: `tlc -config X.cfg M` with the module and configuration of the
table under *What each run shows*; `tlapm M.tla` for the `*Proofs` modules.

## 1. The system

### Parts, state, operations

| Part | State it keeps | Operations that change it | Module |
|---|---|---|---|
| MATS matching engine (`internal/matching`) | order records, one book per symbol, all under one mutex | Place, PlaceAuction, Amend, Cancel, ExpireOpenOrders, UncrossAuction, Recover | `AuctionPrice`, `MatchingEngine` |
| MATS order service (`internal/orders`) | order and trade rows, remembered answers | Place, Amend, Cancel, ExpireOpenOrders, UncrossAuction, Recover | `OrderService` |
| MATS rules cache, session daemon | session status | segments of the day, uncross and expiry at their ends, finality | `OrderService`, `EventDispatcher` |
| MATS dispatcher (`internal/events`) | outbox of delivery events | publish, Drain, retry, dead, requeue, wake up | `EventDispatcher` |
| SEKURITAS order service | orders, trade fills, cash, positions | placeOrder, amendOrder, cancelOrder, handleWebhookUpdate, reconcileSubmitUnknownOrders | `SekuritasOrders` |
| SEKURITAS settlement | inbox of settlements, cash, positions | processSettlement, deferral, retry | `SettlementInbox` |
| SEKURITAS cash | cash row, ledger, withdrawals, deposits | requestWithdrawal, refund, deposit webhook, reconciliation, simulator, administrator | `CustomerCash` |
| SEKURITAS corporate actions | positions, applied events | processCorporateAction and its fallback | `CorporateActions` |
| BEI trade capture and session finality | captured trades, session row, index, previous closes | capture, session status with its gate, aggregation | `BeiSettlement` |
| BEI settlement and custody | batch, instructions, custody ledger | create batch, process, notify, retry | `BeiSettlement`, `PostTrade` |
| BEI corporate actions | actions, ledger rows, IPO subscriptions and allocations | process, subscribe, allocate | `CorporateActions` |

### How they interact

1. A customer's order is reserved and stored by SEKURITAS in one transaction, then
   posted to MATS with an idempotency key, outside the transaction.
2. MATS looks for the key, draws a number, validates against the session, stores
   the order, matches it in the engine under the engine's mutex, and after that
   stores orders and trades and writes events to its outbox (status, trade for
   BEI, fill for each broker).
3. The dispatcher delivers events at least once and in no promised order: a failed
   one is retried with backoff and is dead after the last attempt, a closing never.
4. SEKURITAS applies each event, and each reply, in one transaction that locks the
   order's row. When a submission's outcome is unknown, a timer posts it again
   under the same key.
5. The session daemon uncrosses auctions, expires orders and tells BEI that the
   session is final with its count of trades; BEI refuses until it has captured as
   many, then moves the index, makes a batch and settlement instructions, books
   custody and notifies the brokers. SEKURITAS turns what is pending into what is
   available; a detail whose fill it has not booked is deferred, and an interval
   at BEI repeats the notification.
6. Cash enters and leaves through a bank (RDN mode) or by hand (simulator mode); in
   RDN mode an interval compares the row with the bank and overwrites it.
7. BEI turns custody positions into entitlements and sends them to SEKURITAS.

### What is hard, and what correct means

| Part | Hard behaviour | Correct means |
|---|---|---|
| Engine | numbers drawn before the mutex; a generator that fails between two trades; amendments that change the order before they are validated; auctions over a mixed book | price-time priority; no crossed book left; quantity conserved; fills equal trades; live orders are in the book |
| Auction price | ties resolved pairwise in one pass | the price the auction contract defines, executing the most |
| Order service (MATS) | check-then-act on key and session; rows written from copies outside the lock; requests that break off; restart | one order per key; rows follow the book; no order trades more than it asked for |
| Outbox | two writers of one row; dead events; closings that overtake trades | at-least-once; nothing given up early; a closing is accepted in the end |
| Order service (SEKURITAS) | events late, repeated, out of order; reply and events race | money and shares move once per trade; nothing reserved for a closed order |
| Settlement | no transactions at BEI; settlement before fill; two calls at once; lost answers | a final session is settled; each detail is paid once, and in the end |
| Cash | a bank that debits and whose answer is lost; duplicate reports; absolute writes | reservations backed; ledger and bank explain the cash; every disagreement ends |
| Corporate actions | a call cut off between ledger rows and status, two calls at once | no action works on its own result; the broker mirrors the ledger |

Every hazard, at its line, is in `PROJECT.json` with the properties that would
catch it or the reason why none does.

## 2. The modules

Definitions whose comment begins with "Fault:" are not part of any model. Each is
the definition that follows it with one plausible bug, kept to show that the
property named in `PROJECT.json` ("mutants") notices it. Modules named `*MC`
add constants and symmetry sets for TLC. Variables marked "history" record what
the program does not, so that a property can name an exception or compare with
the past; no action reads them but to update them.

### MatchingEngine, AuctionPrice, OrderLifecycle

| Variable | Code |
|---|---|
| `orders` | `Engine.orders`, and records on their way in (status "accepted") |
| `book` | `Book.buys` and `Book.sells`: both slices are sorted by price and number, numbers are distinct, so a set with `Before` says the same |
| `nextSeq` | the PostgreSQL sequence `mats_event_sequence` |
| `drawn` | numbers that amendments under way have drawn |
| `op` | `Engine.mu`: the method that holds it |
| `tape`, `batch`, `reported` | trades applied; the slice a running method returns; what was returned |
| `auctioned`, `stranded` | history: ids put in the book unmatched; ids whose engine call failed half-way |

Each method's loop takes one step per trade, because the generator is asked for a
number before each trade, over the database, and may fail there
(`SequenceFails`): the method then returns the error and no trades, while all it
changed stays changed. `Accept` is separate from `BeginPlace` and `PlaceAuction`,
because the service draws the number before it asks for the mutex: requests may
enter the engine in another order than their numbers. `DrawNumber` does the same for
an amendment (`service.go:268`): orders may be accepted, traded and cancelled
between the number and `BeginAmend`, which takes any of the numbers in `drawn`. `Rest` is the engine
waiting for requests; with it, TLC's deadlock check is on and finds none.

`IndicativePrice` is the price that wins against all others; since the comparison
is a strict total order on distinct prices, that is what the code's single pass
ends with. `AuctionPriceMC` compares it with the contract stated the other way
round, on every book of limit orders: it has the engine's variables, and steps by
which orders enter and leave as they like (`BooksSpec`). `OrderLifecycle` is what an exchange promises for one order, without
books, prices, numbers or sessions; `MatchingEngineLifecycle` maps an engine
order to its life by dropping side, type, price and number.

### OrderService

One symbol and one price. `engine` is what the engine knows, `rows` and `tape` are
`mats_orders` and `mats_trades`, `memo` the answers kept in memory, `hand` what
each request (and the daemon) has still to write. Matching is one step, as it is
under the engine's mutex; which resting orders come first is left open, so every
order of the book is covered. After it, each row, each trade and the request's
own row is a step of its own (`WriteCopy`, `SaveTrade`, `WriteOwn`), and any
other request may run between two. The request's own order is not a copy: the
statement's arguments are read while another match may change the order, and
`Torn` is the set of outcomes of that race. `BreaksOff` is a store error or a
client that hangs up, `Restart` a stop and start: `Recovered` says what a start
takes up. `Submit` validates against the session, `Admit` reads it again
(`service.go:163`), and `Match` goes on from what `Admit` has read, though the session
may have changed.

The day in the run is continuous trading, a frozen book (nobody may cancel), an
auction, the close. `astray`, `misled`, `given`, `entered` are history.

### DeliveryQueue, EventDispatcher

`DeliveryQueue` is the promise: an event taken is received at least once or
reported dead, confirmed only when received, given up only after `MaxAttempts`
failed tries, some never. `EventDispatcher` is the code: `row` the outbox with
status, number, attempts and `due` (for the time of the next attempt), `work`
the copies a request or the loop has in hand, `received` and `expected` BEI's
gate. A worker calls the receiver with a copy loaded earlier and then writes
that copy back whole (`Written`). A lost call may still arrive (`wire`). The
receivers accept an event twice; for trades and fills the unique keys there
guarantee it.

### SekuritasOrders

| Variable | Code |
|---|---|
| `cash`, `pos` | `cash_balances` and `securities_positions`: available, reserved, pending |
| `row` | `orders`: quantities, reservation, submission and order status, MATS id known or not, number |
| `fills` | `trade_fills`, unique per trade and order |
| `call`, `change` | how far `placeOrder` and `amendOrder` have come, with what they have read |
| `mats`, `made`, `answer` | MATS's orders and trades of this account; what it remembers under the key |
| `wire`, `seq` | events of the outbox not yet acknowledged; `mats_event_sequence` |

`handleWebhookUpdate` is one transaction with the order's row locked: one step,
the same operator for an event, a reply and a reconciliation. `placeOrder`,
`amendOrder` and reconciliation are several statements and transactions around a
call to MATS, so each is several steps: an amendment reads the row (`AmendOrder`),
reserves (`AmendReserves`), asks MATS, applies the reply and settles what it has
read, and may fail at any of these after it has reserved (`AmendFails`); a
reconciliation asks MATS again (`Reconcile`) and applies the answer later
(`ReconcileAnswered`), when events of the order may have come first. The counterparties are the rest of the market: any
quantity up to what is left may trade at any price within the limit.

### BeiSettlement, SettlementInbox, PostTrade

No handler of BEI runs in a transaction: `run` holds the requests and how far each
has come, one step per statement that can be told apart; a request may end after
any. The session is a row of `session_templates`: the daemon closes and reopens it
under one id, so a closing settles the trades of all closings so far. Prices are
logarithms, so that multiplying the index by close / previous close is addition.
`SettlementInbox` is the webhook at the broker: a call works through its details,
each in a transaction with three steps others can see (the look at the inbox row,
the write of it with the read of the cash row, the write of the cash row with the
commit). What is deferred is never taken up by the inbox itself: the payload read
back from `jsonb` has its keys in another order, and its hash differs from the
stored one. `PostTrade` composes the two through the HTTP call, whose answer may
be lost while the broker works on.

### CustomerCash

One `cash_balances` row and every job that moves it. A job is a request or an
interval's run, one step per transaction or call of the bank. The bank is
external: it decides once per request id (`BankDecides`), its answer may be lost,
and it reports a transfer until it is answered, perhaps twice at a time. `mode` has a
third value besides RDN and simulator: with `FINANCE_MODE=rdn` outside production the
bank's webhook and the reconciliation run (`rdn-webhooks.ts:19`,
`reconciliation-service.ts:7`) beside the simulator's deposits and withdrawals
(`funds.ts:17`).
`slips` (history) names the ways in which the books have come apart, and the
properties say what holds without each.

### CorporateActions

One security. BEI counts in quarters of a share, SEKURITAS in whole ones. A call
of the administrator's is a sequence of statements; settlement, orders and other
calls go on between any two, and `CutOff` ends it. SEKURITAS handles an event in
one transaction, but reads each position unlocked and writes a total back; a customer
who has none yet gets one by an insert. The settlement of a purchase does the same
(`SettlementReads`, `SettlementWrites`: `settlement-service.ts:171-188`), and the cash row
it holds keeps neither events nor reservations away. So each may write over a
reservation, a release, a settlement or an event that came in between; `overwritten`
(history) names the customers to whom that has happened. `settling` is what a
settlement has read, `credited` and `paid` are the shares and the cash an event has
entered in the broker's ledger.

## 3. What each run shows

| Run | Module, configuration | Instance | Distinct states | Shows |
|---|---|---|---|---|
| `auction_price` | `AuctionPriceMC` | every book of up to 4 limit orders on 3 ticks, quantities 1-2, each with the references 0, 2, 3 | 28 561 | the one-pass search finds the contract's price; no tick between candidates executes more |
| `engine_continuous` | `MatchingEngineMC` | 3 limit orders, 2 ticks, quantities 1-2, 4 numbers and those of trades, one amendment at a time | 1 560 464 | priority, no unmatched cross, fills equal trades, auctions clear the book; failures included |
| `engine_amend` | `MatchingEngineLifecycleMC`, `MatchingEngineAmend` | 2 orders, limit and market, up to 3 lots, one amendment at a time | 405 123 | quantities, book, live orders; every method returns; the engine implements `OrderLifecycle` |
| `mats_service` | `OrderServiceMC` | a sale of 2 sent twice with one key, a purchase of 1, a cancellation, a day of four sessions, 2 faults | 1 160 290 | one order per key; rows and tape follow the engine but where a late copy or a lost write left them |
| `mats_recovery` | `OrderServiceMC`, `OrderServiceRecovery` | a sale of 2, two purchases of 1, no faults | - | *violation*: the stored book is not the book (see *Finding*) |
| `mats_delivery` | `EventDispatcherMC` | one trade, one closing, 2 attempts, 2 lost calls or writes, a requeue, a restart | 174 641 | the outbox implements `DeliveryQueue`; events and closings are received in the end |
| `broker_order` | `SekuritasOrdersMC` | 1 order on either side, 2 prices, 1-2 lots, one amendment, repeated events | 1 187 280 | fills move money once; cash conserved; closed holds nothing; filled never shrinks |
| `broker_shared` | `SekuritasOrdersMC`, `SekuritasOrdersShared` | 2 buy orders on one balance, one amendment each | 1 215 082 | nothing of the customer is lost |
| `session_close` | `BeiSettlementMC` | 2 trades, both instruction types, 2 requests at a time, 2 closings, a request that breaks off | 4 028 791 | an accepted closing is settled; the index moves by the closes only |
| `post_trade` | `PostTradeMC` | 1 trade, one instruction, 2 webhook calls at a time, 2 failures | 124 912 | what is settled is paid once; "sent" means settled; settled in the end |
| `cash` | `CustomerCashMC` | three modes, 2 jobs, 2 withdrawals, 1 deposit, one order, a failure | 895 471 | reservations backed; ledger and bank explain the cash; reconciled in the end |
| `corporate_actions` | `CorporateActionsMC` | 2 customers, split, reverse split, dividend, IPO, a settlement, sell orders of 2, 2 calls, 1 failure | 1 545 967 | no compounding; the broker mirrors the ledger; shares and treasury add up |

### Bounds, and why they are enough

The safety properties are proved for every instance (section 5); the runs' bounds
matter for liveness, and for the mutants, which must find their fault.

- *Engine.* Three orders are the least in which an order trades twice in one match,
  in which a queue can be jumped, and in which a generator fails on the second
  trade. Amendments need a partial fill and room below, at and above it: three
  lots (`engine_amend`). Two ticks tell a better price from an equal one. `MaxSeq`
  bounds requests: none is accepted once the generator has passed it; trades of a
  match under way still draw numbers. `MaxDrawn` is 1: one amendment that has drawn its
  number and waits for the mutex is overtaken by new orders and by trades; two
  that overtake each other are covered by the proofs only.
- *Order service.* The sale of 2 against purchases of 1 is the least in which one
  order is changed by two requests, so that copies of it can be written in either
  order; the same key twice is the least for the race on it; two faults allow a
  write that is lost and a restart that takes up what it left.
- *Dispatcher.* The request and the loop are the two writers; one trade and one
  closing that waits for it are the least for a closing that overtakes. Two
  attempts tell "failed" from "dead".
- *Broker.* A minimum fee of 1 makes fills in parts cost more than the reservation,
  which is where the clipping at zero matters. One order has the full protocol;
  two orders share a balance, where a clip for one is paid by the other.
  `InitialCash` is enough for two shares at the lower price or one at the higher, so that
  "not enough" happens, when placing and when amending.
- *Settlement.* Two closings are the least for a repeated session id, two requests
  the least for a closing repeated while the first is being handled. `post_trade`
  has one closing and one trade with both sides at the broker, so that two details
  of one call are deferred and settled separately, and two calls of the webhook.
- *Cash.* One withdrawal can be on its way while another job runs; a second finds
  what the first has left. Amounts are 1 and the opening balance is 1, so "not
  enough" happens. Two jobs are the least for a lost update.
- *Corporate actions.* A holder of two shares who has bought a third that is not
  settled (an odd total, so that rounding happens, and a settlement that meets a sell
  order of two and an event) and a customer without a position, for the insert; they
  subscribe to one share each. Two calls are the least for the race on one
  action, and for a call that is cut off (the one failure) and repeated.

Symmetry is used over ids no definition tells apart, and only where no liveness is
checked. Where the modelled system stops for good (the day, the last event, the
last call), the configuration turns deadlock checking off.

### Which properties say what

*Engine*: `QuantitiesBalance` (what was asked for = got + still wanted, also after
failures), `BookSound`, `LiveOrdersTracked` (a live limit order is in the book, in
the running method, or stranded by a failure), `NoUnmatchedCross` (a crossed pair
has an order that came by `PlaceAuction`), `FillsMatchTape`, `AuctionClearsBook`,
`PriorityHonoured` (no trade takes an order while a better live one of its side
waits), `MethodsReturn`, `ImplementsLifecycle`. The lifecycle contains `ClosedForGood` (no step
changes a closed order), which is proved and not a property of a run of its own.

*Order service*: `OneOrderPerKey`, `RowsFollowBook` (at rest each row that no late copy
or lost write has left astray is the engine's order), `TapeFollowsEngine` (trades
saved are trades made, none twice, none missing without a failure; with the types),
`OverfilledOnlyIfMisled` (only an order that a restart took up from a wrong row
trades more than it asked for), `BookCanBeRebuilt`.

*Dispatcher*: `DeadAfterMaxAttempts`, `ImplementsQueue`, `EventuallyReceived`,
`ClosingAccepted` (BEI accepts each closing unless the event of a trade was dropped
or given up); `DeliveredMeansReceived` is proved and part of `ImplementsQueue`.

*Broker*: `PendingMatchesFills` (what is pending is exactly what recorded fills cost,
earn and bring), `CashConserved` (one order, not amended), `NothingLost` (several
orders, amended: the total never falls), `ClosedHoldsNothing` (but for the minimum fee
of an order whose submission was reconciled), `FilledGrows`.
Amending may *make* cash on paper, since the reservation is settled from what was
read before the call; so may a late fill of an expired order paid from another's
reservation. Hence one unamended order in the first and a lower bound in the second.

*Settlement*: `FinalityMeansSettled` (the barrier compares numbers, so the property
does), `IndexFollowsCloses` (not when a request breaks off, or something comes in,
between index and previous close: nothing repairs that), `PaidOnce` (cash: unless a
settlement wrote over a change it had not seen, which the unlocked read at
`settlement-service.ts:153` allows; shares: as far as fills and settlements move them,
which hold the cash row; orders to sell and corporate actions do not, and are in
`CorporateActions`), `SentMeansSettled` (one closing),
`EventuallySettled`.

*Cash*: `ReservationsBacked` (with the types), `LedgerExplainsCash`, `BankMatchesBooks`,
`EventuallyReconciled`. The exceptions they name are behaviours of the code: a
withdrawal refunded though debited, a deposit credited twice, a reconciliation or
an administrator writing a balance read earlier. That available cash is never
negative and that bank and books agree is claimed of RDN mode in production only;
`EventuallyReconciled` of RDN mode everywhere.

*Corporate actions*: `NoCompounding`, `MirrorsLedger` (shares and, for an IPO, cash),
`SharesExplained` (customer by customer: what a customer holds is what was held and
bought and what events moved, unless this customer's position was written over with
a total read earlier), `TreasuryBalances`, and a type invariant that says no position is
ever negative.

### Fairness

- `MethodsReturn`: weak fairness of the matching step. The loop holds the mutex and
  waits for nobody but the database. None of requests, the clock or failures.
- `EventuallyReceived`, `ClosingAccepted`: requests and the loop go on, backoffs run out
  (the ticker of `Dispatcher.Start`), and calls do not fail for ever (`MaxFailures`).
  Strong fairness that the loop comes to an event: events are loaded oldest first
  and the older ones' backoff outlasts the loop's turn. With more than 50 closings
  waiting this does not hold, and the instance has fewer than the limit.
- `EventuallySettled`: MATS repeats reports and the closing until they are accepted
  (what `mats_delivery` shows for events that are not dead), a request goes on, and
  so does the interval at BEI. Strong fairness of posting the closing, because how
  many requests run at a time is a bound of the model.
- `EventuallyReconciled`: the interval of `app.ts:71`, jobs and the bank go on; strong
  fairness of starting a reconciliation, because the number of jobs is a bound.

## 4. Finding

`mats_recovery` / `BookCanBeRebuilt`: `MATS_PRD.md:26` promises that the book can be
reconstructed from what is stored. Every request writes the rows of the orders its
match has changed after the engine has released its mutex, from copies or, for its
own order, from the live object, and rows carry no version. In the shortest trace
TLC finds there is no fault at all: a sale of two is matched with nobody and is to be
written as open; a purchase trades one share with it and writes the row as partially
filled; then the sale's own, older write sets the row back to open with two shares.
Until the order changes again a restart would sell a share a second time
(`OverfilledOnlyIfMisled` says that this is the only way).

### Behaviours observed, for which there is no run

The models show these too; the properties above are stated around them.

- A generator that fails on a later trade of a match: `Book.Match` returns no trades
  (`book.go:61`), and the earlier ones are never stored, published or settled.
- `Engine.Amend` takes the order out of the book and sets its price before it
  compares the quantity (`engine.go:107`); refused, the order is open and rests nowhere.
- For a resting order MATS publishes the status first and the fill second; the
  status sets the filled quantity and the fill adds to it (`order-service.ts:481`).
- An expiry that overtakes a fill gives back the whole local remainder; the shares
  of the fill are sold and available again (`order-service.ts:494`).
- A fill that comes before the MATS id is known is acknowledged and dropped
  (`order-service.ts:354`); a submission that stays unknown is never resolved when
  the remembered answer is older than the row.
- An order that an amendment or cancellation in the non-cancellation period marks
  as locked is not taken up after a restart (`store.go:183`); an amended one regains
  its old place in the queue, because its new number is not written (`store.go:122`).
- A deferred settlement is answered with a payload conflict when the inbox takes it
  up (`settlement-service.ts:76`): `2026-06-17_end-to-end-trading-flow-v2.md:42`
  says it is processed when the fill arrives. BEI's interval saves it.
- With several closings, a late "sent" of an earlier request overwrites "deferred"
  (`settlement.ts:235`), and nobody asks again.
- A closing repeated after it broke off between index and previous close multiplies
  the index again, and every repetition adds market summaries; a late closing
  closes a session that has been reopened.
- A withdrawal whose debit succeeded and whose answer is lost is refunded; two
  reports of one deposit may both be credited; reconciliation counts cash that paid
  for shares as the customer's, since `pending` is not part of what it compares.
- A settlement that reads the position and then writes absolute totals takes back
  what a sell order has reserved or given back, or what a corporate action has
  moved, in between (`settlement-service.ts:171-188`); so does a corporate action with
  what a settlement or an order has moved (`corporate-action-service.ts:172`).
- When the answer of a reconciled submission records a trade that the row has counted
  already, the last status of the order comes without a fill and leaves the minimum
  fee reserved (`order-service.ts:499`).
- An IPO allocated twice gives every subscriber the shares twice; a corporate action
  cut off before it is completed is worked out again with its own rows.

## 5. What is proved

Every theorem holds for all values of the constants that the assumption of its
module allows; the runs show the same on one instance. All the safety invariants of
the passing runs, both step properties of the engine, the one of the broker, and both
refinements are proved; for `CashConserved` with one order and for `SentMeansSettled`
with one closing, as the table says. Some theorems state what no run is about: the safety
part of a liveness property, or a property of steps. Each of those was checked with TLC
on the instance of its module's run before it was proved.

| Proofs of | In | Assumed |
|---|---|---|
| the engine and its lifecycle | `MatchingEngineProofs` | `EngineAssumption`: `NoOrder` is no order; prices and quantities are positive naturals; types are limit and market; `PricesAssumption`: the ticks and references tried are naturals |
| the order service | `OrderServiceProofs` | `ServiceAssumption`: finitely many requests and cancellations, told apart from each other and from the daemon; positive quantities |
| the outbox | `EventDispatcherProofs` | `DispatcherAssumption`: counts are naturals; trades, reports and closings are disjoint; finitely many trades |
| the broker's orders | `SekuritasOrdersProofs` | `BrokerAssumption`: positive prices and quantities, a natural fee rate and minimum; orders and trades may be infinitely many |
| closing, settlement and its inbox | `PostTradeProofs` | `BeiAssumption`: trades are positive numbers; `CallersAssumption`: there is a caller |
| the cash row | `CustomerCashProofs` | `CashAssumption`: positive amounts; finitely many jobs, withdrawals and transfers |
| corporate actions | `CorporateActionsProofs` | `CorporateActionsAssumption`: the treasury is no customer; natural shares; finitely many customers and calls |

| Theorem | Statement |
|---|---|
| `Invariance` | `Spec => []IInv` (engine) |
| `TypeCorrect` | `Spec => []TypeOK` |
| `QuantitiesBalanceHolds` | `Spec => []QuantitiesBalance` |
| `BookSoundHolds` | `Spec => []BookSound` |
| `LiveOrdersTrackedHolds` | `Spec => []LiveOrdersTracked` |
| `NoUnmatchedCrossHolds` | `Spec => []NoUnmatchedCross` |
| `FillsMatchTapeHolds` | `Spec => []FillsMatchTape` |
| `AuctionClearsBookHolds` | `Spec => []AuctionClearsBook` |
| `AnyBookFollowsContract`, `AnyBookExecutesMost` | `BooksSpec => []IndicativeFollowsContract`, `BooksSpec => []NoTickExecutesMore`: for every book and every reference |
| `IndicativeFollowsContractHolds`, `NoTickExecutesMoreHolds` | the same for the book of every reachable state of the engine |
| `NeverStuckHolds` | `Spec => []NeverStuck`: a running method has reached its end or has a counterparty; an uncrossing that ends has traded all it announced |
| `LoopsShrinkHolds` | `Spec => LoopsShrink`: while a method runs each trade lowers what it wants by its quantity, nothing else changes that |
| `LimitsHonouredHolds` | `Spec => LimitsHonoured`: each trade is at a price both limits accept, between a buyer and a seller |
| `ClosedForGoodHolds`, `PriorityHonouredHolds` | `Spec => ClosedForGood`, `Spec => PriorityHonoured` |
| `ImplementsLifecycleHolds` | `Spec => ImplementsLifecycle` |
| `OneKeyOneOrder` | `Spec => []OneOrderPerKey` (order service) |
| `RowsAreTheBook` | `Spec => []RowsFollowBook` |
| `TapeIsTheTrades` | `Spec => []TapeFollowsEngine` |
| `NoOverfill` | `Spec => []OverfilledOnlyIfMisled` |
| `AnswersAreStoredHolds` | `Spec => []AnswersAreStored`: an answer names an order that has a row, under the request's key |
| `StoredForGoodHolds` | `Spec => StoredForGood`: no row vanishes, no answer changes, restarts included |
| `DispatcherType`, `DeliveredWasReceived`, `DeadWasTried` | `Spec => []TypeOK`, `[]DeliveredMeansReceived`, `[]DeadAfterMaxAttempts` (dispatcher) |
| `OutboxImplementsQueue` | `Spec => ImplementsQueue` |
| `ClosingKnowsTradesHolds` | `Spec => []ClosingKnowsTrades`: BEI has taken a closing only with as many trades as it names |
| `ClosingWaitsForTradeHolds` | `Spec => []ClosingWaitsForTrade`: while BEI refuses a closing, a trade's event is on its way, dropped or given up |
| `BalancesStayTyped` | `Spec => []TypeOK` (broker) |
| `PendingIsTheFills` | `Spec => []PendingMatchesFills` |
| `CustomerLosesNothing` | `Spec => []NothingLost` |
| `OneOrderKeepsCash` | `Spec => []CashConserved`, when there is a single order: with two, one pays for the other, which is what `NothingLost` is for |
| `FilledNeverShrinks` | `Spec => FilledGrows` |
| `ClosedOrdersHoldNothing` | `Spec => []ClosedHoldsNothing` |
| `AnsweredIsSettled`, `IndexIsTheClose` | `BeiSpec => []FinalityMeansSettled`, `[]IndexFollowsCloses` |
| `AnsweredIsSettledWithBroker` | the same two for the composition with the broker |
| `TypesOfBoth`, `PaidOutOnce` | `Spec => []TypeOK`, `[]PaidOnce` (`PostTrade`) |
| `SentIsSettled` | `Spec => []SentMeansSettled`, with one closing |
| `AnsweredIsNotedHolds` | `Spec => []AnsweredIsNoted`, with any closings: the notification of an answered closing was sent or is to be repeated |
| `NothingForgottenHolds` | at rest each trade of an answered closing is settled at BEI and at the broker or the interval repeats, with one closing |
| `NothingUndoneHolds` | `Spec => NothingUndone`: no step takes back a captured trade, a ledger row, a settled or booked detail, an event, a finished closing |
| `ReservationsAreBacked`, `LedgerExplains`, `BankMatches` | `Spec => []ReservationsBacked`, `[]LedgerExplainsCash`, `[]BankMatchesBooks` |
| `EndedForGoodHolds` | `Spec => EndedForGood`: a completed or refunded withdrawal never changes again |
| `CorporateActionsInvariant`, `CorporateTypes` | `Spec => []IInv`, `[]TypeOK` (corporate actions) |
| `RowsAreNotCompounded` | `Spec => []NoCompounding` |
| `SekuritasMirrors` | `Spec => []MirrorsLedger` |
| `MovementsExplainShares` | `Spec => []SharesExplained` |
| `IssueBalances` | `Spec => []TreasuryBalances` |
| `AppliedOnceHolds` | `Spec => AppliedOnce`: what was credited for an applied event never changes again |

*Sums.* Half of the properties compare a sum over a set with a number. `SumFacts`
proves what those proofs need of `SumFunctionOnSet`: the sum of one element more or
less, of a union, of a part that is zero elsewhere, of an image, after one change.
The library's induction takes a predicate as a parameter, which the provers cannot
instantiate; `SubsetInduction` takes the set of the subsets for which the claim
holds instead, and follows from the well-founded order of finite subsets.

*Engine.* The properties are not inductive by themselves. `IInv` adds two facts:

- `OpSound`: the order of the running method has the status it came with
  ("accepted" or "amended"), and an amended one is a limit order. It is needed
  because a market order must not end up in the book by `FinishMatch`, and
  because the incoming order is not `Live` while "accepted".
- `AcceptedWants`: an order that waits for the mutex has no fills and wants all of
  its quantity, unless an earlier call for it failed half-way. Without it
  `PlaceAuction` could put an order with nothing left into the book.

`NoUnmatchedCross` rests on the guard of `FinishMatch`: the loop ends when the
incoming order is exhausted or crosses no opposite order. The proof has one lemma
per action, with one step per conjunct; `MatchBestFacts` and its counterpart for
auctions give the shape of a trade once. `ClosedForGood` follows from `IInv`: every
step changes only orders that are not closed. `PriorityHonoured` follows from
`LiveOrdersTracked`: a live limit order that is neither being matched nor stranded is
in the book, so the head of its side comes before it, and `Before` is antisymmetric.
The refinement needs one more invariant, `Fresh`: an order that has not entered is
blank. Then a trade maps to `Exchange`, the end of a match to `Settle` or `Close`, and a
refused amendment or a failing generator changes no life.

`FillsInv` adds the trades. `Numbered` says that no number of an order or of a trade on
the tape is still to be drawn, so a trade is new on the tape and the sum of an order's
trades grows by its quantity.
`AuctionOK` is about the loop of `UncrossAuction`, which computes the indicative price
once and then takes the best pair until none executes at it. Removing a pair lowers
the volume at that price by the traded quantity, and that of any other price by as
much or to nothing, so the price stays one that executes the most; when nothing
executes at it any more, nothing does anywhere, and the book does not cross.

The two properties of the auction price need of a book only that it is finite and its
prices and quantities are numbers (`Quoted`). The behaviours of `BooksSpec` and
of the engine both have that, so the lemmas serve four theorems.
`NeverStuck` and `LoopsShrink` are what safety can say of `MethodsReturn`: what a method
still wants to trade (`Wanted`) is a natural number that every trade lowers, and as
long as the method is not at its end there is a counterparty. They also say that an
auction trades exactly the volume it announced, whatever pairs it takes.

*Order service.* `ControlOK` says what each stage of a request holds, and that what has
entered the engine has a row. `KeysOK`: a key names one row, and answers and the memory
name that row; two requests that are both past the look-up are told apart by the
unique key. `BookOK`: every row is what the engine has, or a worker carries that, or
the row is astray. `FillsOK`: what an order has traded and still asks for is at most
what it asked for, unless a restart misled the engine. `TapeOK`: each trade is on the
tape, in one worker's hand, or lost to a failure. Which resting orders a match meets is left
open by `Match`; the lemmas on matching show for every such choice that the stretches
of the other queue which overlap an order's own do not overlap one another, so that
no order gets more than it wanted. That rows stay is a matter of the copies: none in
a worker's hand, and no torn read of an order, is of an absent one. That answers stay
needs `Told`: who was told of an order is idle, so no step is that request's.

*Dispatcher.* A worker writes back what it has read long before, so what a row says
depends on what the workers hold: `IInv` relates each copy in a worker's hand to the
history. `RowOK`: a row's attempts never exceed the deliveries that failed, its
maximum never falls below `MaxAttempts`, delivered means received, dead means tried
often enough and no closing. `HandOK`: the same of every copy in hand (its maximum is
at least `MaxAttempts` and its attempts at most the failures so far), a worker about to
write "delivered" has a received event, and one about to write a failure of an event
that can die has a failure that its copy does not count yet. The last is what makes
`Write` safe although two workers count the same event: neither counts more failures
than there were. `HandKept` carries copies through every step of another worker, since
received events and failures only grow. `KnowInv` has the counts: a closing asks for
at most as many trades as were made, and those never become fewer; so when BEI has
fewer there is one that was made and not received, and `RowOK` says where its event is.
The refinement follows from `IInv`: each step
that changes a row's status maps to `Enqueue`, `Confirm`, `GiveUp` or `Again`, and a
call to `Receive` or `Fail`; waking closings up changes statuses of closings only, of
which none is dead.

*Broker.* `MatsInv` says what MATS and its messages may tell: a message speaks of a
placed order and of trades that were made, and a snapshot of an order that was not
amended never claims more than its quantity. `BrokerInv` has the balances: an unamended
order's filled quantity stays within its quantity, a sale's row reserves no cash, and
the cash of a single unamended order adds up exactly, with what a sale earned.
`handleWebhookUpdate`
is one operator for events, replies and reconciliation, so its case is proved once.
`ClosedHoldsNothing` needs `ClosedInv`: what closes an unamended order is the message
that completes its trades, and that message must find the row filled. So a row that has
heard of its order counts at least the trades of the first match and those recorded
(`RowOK`); and a snapshot
of an unamended order wants something only under the number the order was placed with
(`Tells`), so an older snapshot cannot reopen the row.
A reconciled submission (`Reconciled`) is apart: its answer may record a trade that the
row has counted by a status. The row's reservation is then at most the cost of what
is left, which for nothing left is the minimum fee.

*Settlement.* `BeiInv`: a request past the gate keeps at least as many trades as MATS
counted for its closing, where to keep a trade means at each stage that it has still to
settle it or has settled it; what is settled is in the ledger; between index and
previous close there is one request, and it knows the close. `InboxInv`: the lock of
the inbox row lets one call at a time past the look at a detail (`OneWriter`), and what
that call is about to pay is booked and not paid (`WriterOK`). `SentInv`, for one
closing: a request past the barrier, a call of the broker and a batch that is notified
all mean that every trade has been captured (`AllKnown`); a call that answers "ok" has
every detail settled or still to settle, and a notification that counts as sent means
that all are settled (`BatchKnows`). For `AnsweredIsNoted` it is enough that a request
which answers has put its notification on record before (`NoteInv`), with any closings.
With `SentMeansSettled` that gives `NothingForgotten`, the safety part of
`EventuallySettled`: a state at rest in which something is not settled is one in which
the interval still repeats.

*Cash.* Every job is between two of its transactions, so `JobOK` says what each has in
hand: the withdrawal it asked for and what the bank may have decided of it, the
transfer it found, the balance a correction has read, and which modes it can run in. `RequestOK` and `TransfersOK` tie
withdrawals and transfers to the bank, `OneAsks` says that no two jobs end one
withdrawal, and `Room` that each job about to write a new withdrawal will find one.
`EndedForGood` follows from `JobOK`: a job that will end a withdrawal, the refund in the
catch included, still finds it pending, since no other job has the same one.

*Corporate actions.* `Types` says of each stage of a call what its record holds.
`RowsFresh`: a row, and one a call is about to insert, is within what the account's
shares from other sources allow, and those never become fewer. `Mirror`: what a call sends is the ledger's rows,
or what its allocation booked. `Explained`, customer by customer: a call that has written a
position and not committed is the only one for it (`OneWrites`), and what it has written
is the position plus its movement, unless the customer is in `overwritten` (`WriteOK`).
A settlement writes what it read, which is the same only while the available shares
have not changed, and `PendingBought` says that the pending ones have not: they are what
was bought until it is settled, in the row and in what a settlement has read. `Balanced`: the sums over the IPO's ledger are what was offered plus what
calls between two entries of an allocation still owe. `AppliedOnce` follows from
`OneBooks`: a call inside the transaction of an event is the only one, and the event is
not applied yet.

The attempt to prove `RowsFollowBook` found an error in the model: the `CASE` of `Put` had
two alternatives that both applied when a row is written as it already is, and TLA+
leaves open which is taken. TLC took the first, which was meant; it is a nested
`IF` now.

### Model-checked only

- `MethodsReturn`, `EventuallyReceived`, `ClosingAccepted`, `EventuallySettled`,
  `EventuallyReconciled`: liveness under fairness is out of the prover's reach.
- `BookCanBeRebuilt`, which does not hold (see *Finding*).

## 6. What is left

1. Amend, market orders and the persisted idempotency records in `OrderService`, and
   several prices there, with the engine of `MatchingEngine` in place of its own.
2. `SekuritasOrders` against `EventDispatcher` and `OrderService` in place of its own
   view of MATS; that a submission is resolved in the end (it is not, see above).
3. Rights, bonus shares and the listing of derivatives in `CorporateActions`.

## 7. Not modelled

- The frontends, BEI's administration pages and the reference designs, which are most
  of the TypeScript of the repository: they present what the backends keep.
- Market data, websocket broadcast, notifications, leaderboard, e-mail: best effort,
  nothing depends on them.
- HTTP decoding and authentication; registration and queries; brokers, issuers,
  indices, fundamentals, surveillance and reporting (handlers over single rows).
- Tick, lot and price-band tables: data that only filters requests.
- Depth aggregation and the map from symbols to books; books of two symbols share
  only the mutex and the sequence.
- Market orders at the broker: their status events carry the price 0, which the
  webhook's schema refuses, so most of the handler is never reached for them.
- Error texts: whether MATS has refused for certain is decided in the code by a
  regular expression; here `Refuse` happens only when MATS has no such order.
- Custody accounts: the lookup that opens one has no unique key, and two requests may
  open two; the ledger of the model is per instruction.
- Manual session control. The branch of `requestWithdrawal` that completes at once: the
  route does not come to it in the modes in which it would be taken (`funds.ts:56`).
- What a step leaves out: an auction's daemon writes the last copy of each order it
  changed (the code writes one per trade, in order); an event of which every row is
  zero counts as nothing sent; a start of MATS between a reconciliation's answer and its
  application does not change that answer; the last transaction of an amendment,
  which reads the row without a lock and writes it, is one step.
- Migrations, seeds and scripts; BOT, of which there is no code.
