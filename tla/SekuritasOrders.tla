--------------------------- MODULE SekuritasOrders ---------------------------
(***************************************************************************)
(* The broker's side of an order: reservations of cash and shares in       *)
(* SEKURITAS against the events of MATS (services/order-service.ts).  One   *)
(* broker account, one symbol, limit orders.                               *)
(*                                                                         *)
(* handleWebhookUpdate is one transaction that locks the order's row, so   *)
(* it is one step; placeOrder, amendOrder and the reconciliation of        *)
(* unknown submissions are several transactions with a call to MATS in     *)
(* between, so each is several steps.                                      *)
(*                                                                         *)
(* MATS appears with what it does to the orders of this account: it        *)
(* accepts, fills, amends and closes them and publishes events.  An event  *)
(* may be delivered late, again, or in another order than it was published *)
(* (a failed delivery is retried by the outbox, dispatcher.go), and one    *)
(* that is never delivered is one that stays on the wire.                  *)
(*                                                                         *)
(* Left out: market orders, the action columns a locked amendment sets (no *)
(* quantity depends on them), that MATS forgets a locked order when it     *)
(* restarts, and that the last transaction of amendOrder reads the row     *)
(* without a lock (it is one step).                                        *)
(*                                                                         *)
(* Definitions whose comment starts with "Fault:" are not part of the      *)
(* model: each is the definition after it with a plausible bug.            *)
(***************************************************************************)
EXTENDS Integers, FiniteSets, Functions

CONSTANTS Orders,        \* client order ids
          Sides,         \* {"buy", "sell"} or one of them
          Prices,        \* limit prices
          Quantities,    \* order quantities
          InitialCash,   \* of the account
          InitialShares, \* of the account
          FeeRate,       \* fee per unit of value
          MinimumFee,    \* fee of the smallest fill
          MaxSeq,        \* bound: MATS does nothing more past this number
          Retries,       \* bound: MATS events are delivered again, or not (BOOLEAN)
          MaxAmends      \* bound: amendments asked for per order

ASSUME BrokerAssumption ==
    /\ Sides \subseteq {"buy", "sell"}
    /\ Prices \subseteq Nat \ {0}
    /\ Quantities \subseteq Nat \ {0}
    /\ InitialCash \in Nat /\ InitialShares \in Nat
    /\ FeeRate \in Nat /\ MinimumFee \in Nat
    /\ MaxSeq \in Nat
    /\ Retries \in BOOLEAN
    /\ MaxAmends \in Nat

VARIABLES cash,   \* cash_balances: available, reserved, pending
          pos,    \* securities_positions: available, reserved, pending
          row,    \* the orders table
          fills,  \* the trade_fills table
          call,   \* how far placeOrder has come, per order
          change, \* the running amendOrder, per order
          mats,   \* the orders of this account in MATS
          made,   \* the trades of these orders in MATS
          answer, \* what MATS remembers to have answered to the place request
          wire,   \* events on their way from MATS
          seq     \* next number of mats_event_sequence

broker == <<cash, pos, row, fills>>
exchange == <<mats, made, answer, wire, seq>>
vars == <<cash, pos, row, fills, call, change, mats, made, answer, wire, seq>>

AtLeast0(n) == IF n < 0 THEN 0 ELSE n
Lesser(a, b) == IF a < b THEN a ELSE b
Greater(a, b) == IF a < b THEN b ELSE a

Fee(value) == Greater(MinimumFee, FeeRate * value)
Cost(price, qty) == price * qty + Fee(price * qty)
Gain(price, qty) == price * qty - Fee(price * qty)

Refused == {"rejected", "cancelled", "expired"}
Closed == Refused \cup {"filled"}

orderStatusRank(status) ==
    CASE status \in Closed            -> 6
      [] status = "partially_filled"  -> 5
      [] status = "open"              -> 2
      [] status = "accepted"          -> 1
      [] OTHER                        -> 0

NoRow == [side |-> "buy", price |-> 0, orig |-> 0, filled |-> 0, rem |-> 0,
          reserved |-> 0, submission |-> "none", known |-> FALSE, seq |-> 0,
          status |-> "none"]

\* An order of MATS, with its number now and the one it was placed with.
Order(status, price, orig, filled, rem, number, placed) ==
    [status |-> status, price |-> price, orig |-> orig, filled |-> filled, rem |-> rem,
     seq |-> number, placed |-> placed]
NoOrder == Order("none", 0, 0, 0, 0, 0, 0)

NoChange == [stage |-> "none", prevReserved |-> 0, nextReserved |-> 0, prevRem |-> 0,
             nextRem |-> 0, price |-> 0, qty |-> 0, answer |-> {}, times |-> 0]

Account(available, reserved, pending) ==
    [available |-> available, reserved |-> reserved, pending |-> pending]

Init == /\ cash = Account(InitialCash, 0, 0)
        /\ pos = Account(InitialShares, 0, 0)
        /\ row = [o \in Orders |-> NoRow]
        /\ fills = {}
        /\ call = [o \in Orders |-> "none"]
        /\ change = [o \in Orders |-> NoChange]
        /\ mats = [o \in Orders |-> NoOrder]
        /\ made = {}
        /\ answer = [o \in Orders |-> {}]
        /\ wire = {}
        /\ seq = 1

Reserve(acct, n) == Account(acct.available - n, acct.reserved + n, acct.pending)

\* The release that never takes the reservation below zero.
Release(acct, n) ==
    Account(acct.available + n, AtLeast0(acct.reserved - n), acct.pending)
-----------------------------------------------------------------------------
(***************************************************************************)
(* handleWebhookUpdate.  A message m is an order's state ("status": an     *)
(* event, "answer": a reply of MATS, with the order's trades) or one trade *)
(* ("fill").  Only a status and an answer carry a client order id; a fill  *)
(* is matched by the MATS id, which SEKURITAS may not know yet: then it is *)
(* acknowledged and forgotten.                                             *)
(***************************************************************************)
\* Fault: a trade that is delivered again counts again.
NewRepeated(m) == m.fills

New(m) == m.fills \ fills

\* What trades bring in shares, cost and earn.
Quantity(S) == SumFunctionOnSet([t \in S |-> t.qty], S)
Costs(S) == SumFunctionOnSet([t \in S |-> Cost(t.price, t.qty)], S)
Gains(S) == SumFunctionOnSet([t \in S |-> Gain(t.price, t.qty)], S)

Snapshot(m) == m.kind # "fill"

Stale(m) ==
    LET r == row[m.o]
    IN  /\ Snapshot(m) /\ r.seq > 0
        /\ \/ m.seq < r.seq
           \/ m.seq = r.seq /\ orderStatusRank(m.status) < orderStatusRank(r.status)
           \/ m.seq = r.seq /\ m.rem > r.rem

Ignored(m) ==
    \/ row[m.o].status = "none"
    \/ m.kind = "fill" /\ ~row[m.o].known
    \/ row[m.o].status \in Closed /\ m.fills = {}
    \/ Stale(m)

NextOrig(m) == IF Snapshot(m) THEN m.orig ELSE row[m.o].orig

NextPrice(m) == IF Snapshot(m) THEN m.price ELSE row[m.o].price

\* Fault: a snapshot replaces the filled quantity.
NextFilledReplaced(m) ==
    IF Snapshot(m) THEN m.filled
    ELSE Lesser(row[m.o].orig, row[m.o].filled + Quantity(New(m)))

NextFilled(m) ==
    IF Snapshot(m) THEN Greater(m.filled, row[m.o].filled)
    ELSE IF New(m) = {} THEN row[m.o].filled
    ELSE Lesser(row[m.o].orig, row[m.o].filled + Quantity(New(m)))

NextRem(m) ==
    IF Snapshot(m) THEN m.rem
    ELSE IF New(m) = {} THEN row[m.o].rem
    ELSE AtLeast0(row[m.o].orig - NextFilled(m))

NextStatus(m) ==
    IF Snapshot(m) THEN m.status
    ELSE IF New(m) = {} THEN row[m.o].status
    ELSE IF NextRem(m) = 0 THEN "filled" ELSE "partially_filled"

\* What of the order still needs its reservation.
ReserveQuantity(m) ==
    IF NextStatus(m) = "filled"
    THEN AtLeast0(NextOrig(m) - Quantity({t \in fills : t.o = m.o} \cup New(m)))
    ELSE NextRem(m)

ReleasesAll(m) ==
    \/ NextStatus(m) \in Refused
    \/ NextStatus(m) = "filled" /\ New(m) # {} /\ ReserveQuantity(m) = 0

\* Fault: what a fill costs beyond its reservation is not taken from the
\* available cash.
PaidFromReserve(acct, spent) ==
    Account(acct.available, AtLeast0(acct.reserved - spent), acct.pending + spent)

\* Fault: a fill is paid from the reservation and from the available cash.
PaidTwice(acct, spent) ==
    Account(acct.available - spent, AtLeast0(acct.reserved - spent), acct.pending + spent)

\* A fill is paid from the reservation and, beyond it, from the available cash.
Paid(acct, spent) ==
    Account(acct.available - AtLeast0(spent - acct.reserved),
            AtLeast0(acct.reserved - spent), acct.pending + spent)

Spent(m) == Costs(New(m))
Gained(m) == Gains(New(m))

\* Fault: the order's reservation is not clipped at zero.
KeptUnclipped(m) == row[m.o].reserved - Spent(m)

\* What the order's own reservation still holds after its fills, and how much
\* of it the rest of the order does not need.
Kept(m) == AtLeast0(row[m.o].reserved - Spent(m))

Excess(m) ==
    LET target == IF ReleasesAll(m) THEN 0 ELSE Cost(NextPrice(m), ReserveQuantity(m))
    IN  AtLeast0(Kept(m) - target)

ApplyBuy(m) ==
    /\ cash' = Release(Paid(cash, Spent(m)), Excess(m))
    /\ pos' = [pos EXCEPT !.pending = @ + Quantity(New(m))]

\* The shares that go back when the order ends without them.
Returned(m) ==
    IF NextStatus(m) \in Refused THEN AtLeast0(row[m.o].rem - Quantity(New(m))) ELSE 0

ApplySell(m) ==
    LET sold == [pos EXCEPT !.reserved = @ - Quantity(New(m))]
    IN  /\ cash' = [cash EXCEPT !.pending = @ + Gained(m)]
        /\ pos' = IF Returned(m) > 0 THEN Release(sold, Returned(m)) ELSE sold

Updated(m) ==
    [side |-> row[m.o].side,
     price |-> NextPrice(m), orig |-> NextOrig(m), filled |-> NextFilled(m),
     rem |-> IF NextStatus(m) = "rejected" THEN 0 ELSE NextRem(m),
     reserved |-> Kept(m) - Excess(m),
     submission |-> "submitted", known |-> TRUE,
     seq |-> IF Snapshot(m) THEN Greater(m.seq, row[m.o].seq) ELSE row[m.o].seq,
     status |-> NextStatus(m)]

handleWebhookUpdate(m) ==
    IF Ignored(m) THEN UNCHANGED broker
    ELSE /\ IF row[m.o].side = "buy" THEN ApplyBuy(m) ELSE ApplySell(m)
         /\ fills' = fills \cup m.fills
         /\ row' = [row EXCEPT ![m.o] = Updated(m)]
-----------------------------------------------------------------------------
\* placeOrder up to the call of MATS: the reservation and the order's row are
\* one transaction, which fails when there is not enough.
Reservable(side, price, qty) ==
    IF side = "buy" THEN cash.available >= Cost(price, qty) ELSE pos.available >= qty

PlaceOrder(o, side, price, qty) ==
    /\ call[o] = "none"
    /\ Reservable(side, price, qty)
    /\ IF side = "buy"
       THEN cash' = Reserve(cash, Cost(price, qty)) /\ UNCHANGED pos
       ELSE pos' = Reserve(pos, qty) /\ UNCHANGED cash
    /\ row' = [row EXCEPT ![o] =
                 [side |-> side, price |-> price, orig |-> qty, filled |-> 0, rem |-> qty,
                  reserved |-> IF side = "buy" THEN Cost(price, qty) ELSE 0,
                  submission |-> "pending", known |-> FALSE, seq |-> 0, status |-> "pending"]]
    /\ call' = [call EXCEPT ![o] = "sent"]
    /\ UNCHANGED <<fills, change, exchange>>

\* MATS's reply: the snapshot with the trades of the match.
PlaceAnswered(o) ==
    /\ call[o] = "sent"
    /\ \E m \in answer[o] : handleWebhookUpdate(m)
    /\ call' = [call EXCEPT ![o] = "done"]
    /\ UNCHANGED <<change, exchange>>

\* The connection breaks: MATS may have the order, or get it yet.  The status
\* is overwritten whatever events have made of it meanwhile.
PlaceUnknown(o) ==
    /\ call[o] = "sent"
    /\ row' = [row EXCEPT ![o].status = "submit_unknown", ![o].submission = "unknown"]
    /\ call' = [call EXCEPT ![o] = "unknown"]
    /\ UNCHANGED <<cash, pos, fills, change, exchange>>

\* Fault: the reservation is given back, the order's row keeps it.
RefundRowKept(o) == row' = [row EXCEPT ![o].status = "rejected", ![o].rem = 0]

RefundRow(o) ==
    row' = [row EXCEPT ![o].status = "rejected", ![o].submission = "failed",
                       ![o].rem = 0, ![o].reserved = 0]

\* The reservation goes back and the order is closed as rejected.
Refund(o) ==
    /\ IF row[o].side = "buy"
       THEN cash' = Release(cash, row[o].reserved) /\ UNCHANGED pos
       ELSE pos' = Release(pos, row[o].orig) /\ UNCHANGED cash
    /\ RefundRow(o)
    /\ UNCHANGED fills

\* MATS refuses the request as malformed, before it knows the order: at once,
\* or when the submission is reconciled after the grace period.
Refuse(o) ==
    /\ mats[o].status = "none"
    /\ \/ call[o] = "sent"
       \/ call[o] = "unknown" /\ row[o].submission = "unknown"
    /\ Refund(o)
    /\ call' = [call EXCEPT ![o] = "refused"]
    /\ UNCHANGED <<change, exchange>>
-----------------------------------------------------------------------------
(***************************************************************************)
(* MATS.  Only this account's orders are shown; what they trade with is    *)
(* the rest of the market.                                                 *)
(***************************************************************************)
Live(o) == mats[o].status \in {"open", "partially_filled"}

\* A trade at the order's limit or better.
Within(o, limit, price) == IF row[o].side = "buy" THEN price <= limit ELSE price >= limit

\* A message about order o of MATS, in state r, with some of its trades.
Message(kind, o, trades, r) ==
    [kind |-> kind, o |-> o, fills |-> trades, status |-> r.status, price |-> r.price,
     orig |-> r.orig, filled |-> r.filled, rem |-> r.rem, seq |-> r.seq]

Status(o) == Message("status", o, {}, mats'[o])

FillOf(t) == [kind |-> "fill", o |-> t.o, fills |-> {t}, status |-> "", price |-> 0,
              orig |-> 0, filled |-> 0, rem |-> 0, seq |-> 0]

Reply(o, trades) == Message("answer", o, trades, mats'[o])

Publish(o, trades) ==
    /\ made' = made \cup trades
    /\ wire' = wire \cup {Status(o)} \cup {FillOf(t) : t \in trades}

\* An order that has just been matched for got lots in all.
Matched(price, qty, got, number, placed) ==
    Order(IF got = qty THEN "filled" ELSE IF got > 0 THEN "partially_filled" ELSE "open",
          price, qty, got, qty - got, number, placed)

\* The place request arrives: the order is rejected by the rules, rests, or is
\* matched at once.  A second request with the same idempotency key finds the
\* order and changes nothing.
MatsPlace(o) ==
    /\ call[o] \in {"sent", "unknown"} /\ mats[o].status = "none"
    /\ seq < MaxSeq
    /\ \/ /\ mats' = [mats EXCEPT ![o] =
                         Order("rejected", row[o].price, row[o].orig, 0, 0, seq, seq)]
          /\ Publish(o, {})
          /\ answer' = [answer EXCEPT ![o] = {Reply(o, {})}]
       \/ \E got \in 0..row[o].orig, price \in Prices :
             /\ Within(o, row[o].price, price)
             /\ mats' = [mats EXCEPT ![o] = Matched(row[o].price, row[o].orig, got, seq, seq)]
             /\ LET trades == IF got = 0 THEN {}
                              ELSE {[o |-> o, id |-> seq + 1, price |-> price, qty |-> got]}
                IN  /\ Publish(o, trades)
                    /\ answer' = [answer EXCEPT ![o] = {Reply(o, trades)}]
    /\ seq' = seq + 2
    /\ UNCHANGED <<broker, call, change>>

\* A resting order is hit, or auctioned.
MatsFill(o) ==
    /\ Live(o) /\ seq <= MaxSeq
    /\ \E got \in 1..mats[o].rem, price \in Prices :
         /\ Within(o, mats[o].price, price)
         /\ mats' = [mats EXCEPT ![o] =
                         Matched(@.price, @.orig, @.filled + got, @.seq, @.placed)]
         /\ Publish(o, {[o |-> o, id |-> seq, price |-> price, qty |-> got]})
    /\ seq' = seq + 1
    /\ UNCHANGED <<broker, call, change, answer>>

\* The session ends.
MatsExpire(o) ==
    /\ Live(o)
    /\ mats' = [mats EXCEPT ![o].status = "expired", ![o].rem = 0]
    /\ Publish(o, {})
    /\ UNCHANGED <<broker, call, change, answer, seq>>

\* cancelOrder: the reply says what the event says.
CancelOrder(o) ==
    /\ row[o].known /\ row[o].status \notin Closed
    /\ Live(o) /\ seq <= MaxSeq
    /\ mats' = [mats EXCEPT ![o].status = "cancelled", ![o].rem = 0, ![o].seq = seq]
    /\ Publish(o, {})
    /\ seq' = seq + 1
    /\ UNCHANGED <<broker, call, change, answer>>

\* An event reaches SEKURITAS; when the acknowledgement is lost, or two
\* goroutines deliver the same row of the outbox, it will again.
Deliver(m, again) ==
    /\ again => Retries
    /\ handleWebhookUpdate(m)
    /\ wire' = IF again THEN wire ELSE wire \ {m}
    /\ UNCHANGED <<call, change, mats, made, answer, seq>>

\* MATS restarts: its orders and trades are in its tables, but not the numbers
\* that amendments and cancellations gave the orders (UpdateOrder leaves them
\* out).  What it answered is forgotten, and a connection that waits for an
\* answer breaks (PlaceUnknown).
MatsRestart ==
    /\ answer' = [o \in Orders |-> {}]
    /\ mats' = [o \in Orders |-> [mats[o] EXCEPT !.seq = mats[o].placed]]
    /\ UNCHANGED <<broker, call, change, made, wire, seq>>

\* reconcileSubmitUnknownOrders: the place request is sent again for an order
\* that was unknown when the list was read, whatever it is by now (a pass of the
\* timer and one an administrator asks for may overlap).  MATS answers what it
\* answered before or, after a restart, what is in its tables, and remembers
\* that; the answer is applied later.
Current(o) == Message("answer", o, {t \in made : t.o = o},
                      [mats[o] EXCEPT !.seq = mats[o].placed])

Reconcile(o) ==
    /\ call[o] = "unknown" /\ mats[o].status # "none" /\ answer[o] = {}
    /\ answer' = [answer EXCEPT ![o] = {Current(o)}]
    /\ UNCHANGED <<broker, call, change, mats, made, wire, seq>>

ReconcileAnswered(o) ==
    /\ call[o] = "unknown"
    /\ \E m \in answer[o] : handleWebhookUpdate(m)
    /\ UNCHANGED <<call, change, exchange>>
-----------------------------------------------------------------------------
(***************************************************************************)
(* amendOrder.  It reads the order's row without a lock, reserves what the *)
(* amendment needs more, asks MATS, applies the reply like an event, and   *)
(* then settles the reservation from what it had read at the start.        *)
(***************************************************************************)
Adjusted(acct, from, to) ==
    Account(acct.available - (to - from), acct.reserved + (to - from), acct.pending)

More(o) == IF row[o].side = "buy"
           THEN change[o].nextReserved > change[o].prevReserved
           ELSE change[o].nextRem > change[o].prevRem

AmendOrder(o, price, qty) ==
    LET r     == row[o]
        needs == IF r.side = "buy" THEN Cost(price, qty - r.filled) ELSE 0
    IN  /\ change[o].stage = "none" /\ change[o].times < MaxAmends
        /\ r.known /\ r.status \notin Closed
        /\ <<price, qty>> # <<r.price, r.orig>>
        /\ qty >= r.filled
        /\ change' = [change EXCEPT ![o] =
                        [stage |-> "read", prevReserved |-> r.reserved, nextReserved |-> needs,
                         prevRem |-> r.rem, nextRem |-> qty - r.filled,
                         price |-> price, qty |-> qty, answer |-> {},
                         times |-> change[o].times + 1]]
        /\ UNCHANGED <<broker, call, exchange>>

\* The reservation is raised by what the row said it lacked; with too little
\* in the account the amendment ends here.
AmendReserves(o) ==
    LET c   == change[o]
        buy == row[o].side = "buy"
    IN  /\ c.stage = "read"
        /\ \/ /\ More(o) =>
                   IF buy THEN cash.available >= c.nextReserved - c.prevReserved
                          ELSE pos.available >= c.nextRem - c.prevRem
              /\ cash' = IF More(o) /\ buy THEN Adjusted(cash, c.prevReserved, c.nextReserved)
                         ELSE cash
              /\ pos' = IF More(o) /\ ~buy THEN Adjusted(pos, c.prevRem, c.nextRem) ELSE pos
              /\ change' = [change EXCEPT ![o].stage = "sent"]
           \/ /\ More(o)
              /\ IF buy THEN cash.available < c.nextReserved - c.prevReserved
                        ELSE pos.available < c.nextRem - c.prevRem
              /\ change' = [change EXCEPT ![o] = [NoChange EXCEPT !.times = c.times]]
              /\ UNCHANGED <<cash, pos>>
        /\ UNCHANGED <<row, fills, call, exchange>>

\* MATS amends the order, and matches it anew.
MatsAmend(o) ==
    LET c == change[o]
    IN  /\ c.stage = "sent"
        /\ Live(o) /\ seq < MaxSeq /\ c.qty >= mats[o].filled
        /\ \E got \in 0..(c.qty - mats[o].filled), price \in Prices :
             /\ Within(o, c.price, price)
             /\ mats' = [mats EXCEPT ![o] =
                             Matched(c.price, c.qty, @.filled + got, seq, @.placed)]
             /\ LET trades == IF got = 0 THEN {}
                              ELSE {[o |-> o, id |-> seq + 1, price |-> price, qty |-> got]}
                IN  /\ Publish(o, trades)
                    /\ change' = [change EXCEPT ![o].stage = "answered",
                                                ![o].answer = {Reply(o, trades)}]
        /\ seq' = seq + 2
        /\ UNCHANGED <<broker, call, answer>>

\* MATS refuses (an error), its reply is lost, or something fails after the
\* reply has been applied: what was reserved more is given back.
AmendFails(o) ==
    LET c == change[o]
    IN  /\ c.stage \in {"sent", "answered", "applied"}
        /\ cash' = IF More(o) /\ row[o].side = "buy"
                   THEN Adjusted(cash, c.nextReserved, c.prevReserved) ELSE cash
        /\ pos' = IF More(o) /\ row[o].side = "sell"
                  THEN Adjusted(pos, c.nextRem, c.prevRem) ELSE pos
        /\ change' = [change EXCEPT ![o] = [NoChange EXCEPT !.times = c.times]]
        /\ UNCHANGED <<row, fills, call, exchange>>

AmendAnswered(o) ==
    /\ change[o].stage = "answered"
    /\ \E m \in change[o].answer : handleWebhookUpdate(m)
    /\ change' = [change EXCEPT ![o].stage = "applied", ![o].answer = {}]
    /\ UNCHANGED <<call, exchange>>

\* In the non-cancellation period MATS answers with the order as it is, which
\* amendOrder takes for an accepted amendment.
AmendLocked(o) ==
    /\ change[o].stage = "sent" /\ Live(o)
    /\ change' = [change EXCEPT ![o].stage = "applied"]
    /\ UNCHANGED <<broker, call, exchange>>

AmendSettled(o) ==
    LET c == change[o]
        r == row[o]
    IN  /\ c.stage = "applied"
        /\ pos' = IF r.side = "sell" /\ c.nextRem < c.prevRem
                  THEN Adjusted(pos, c.prevRem, c.nextRem) ELSE pos
        /\ row' = IF r.side = "buy"
                  THEN [row EXCEPT ![o].reserved =
                          IF r.status \in Closed THEN 0
                          ELSE Cost(r.price, IF r.rem = 0 THEN c.nextRem ELSE r.rem)]
                  ELSE row
        /\ change' = [change EXCEPT ![o] = [NoChange EXCEPT !.times = c.times]]
        /\ UNCHANGED <<cash, fills, call, exchange>>

Next ==
    \/ \E o \in Orders, side \in Sides, price \in Prices, qty \in Quantities :
         PlaceOrder(o, side, price, qty)
    \/ \E o \in Orders : PlaceAnswered(o)
    \/ \E o \in Orders : PlaceUnknown(o)
    \/ \E o \in Orders : Refuse(o)
    \/ MatsRestart
    \/ \E o \in Orders : Reconcile(o)
    \/ \E o \in Orders : ReconcileAnswered(o)
    \/ \E o \in Orders : MatsPlace(o)
    \/ \E o \in Orders : MatsFill(o)
    \/ \E o \in Orders : MatsExpire(o)
    \/ \E o \in Orders : CancelOrder(o)
    \/ \E m \in wire, again \in BOOLEAN : Deliver(m, again)
    \/ \E o \in Orders, price \in Prices, qty \in Quantities : AmendOrder(o, price, qty)
    \/ \E o \in Orders : AmendReserves(o)
    \/ \E o \in Orders : MatsAmend(o)
    \/ \E o \in Orders : AmendFails(o)
    \/ \E o \in Orders : AmendAnswered(o)
    \/ \E o \in Orders : AmendLocked(o)
    \/ \E o \in Orders : AmendSettled(o)

Spec == Init /\ [][Next]_vars

-----------------------------------------------------------------------------
Balances == [available : Int, reserved : Int, pending : Int]

\* Types: balances are numbers of any sign, an order's quantities and its
\* reservation never go below zero, and every recorded fill is a trade of MATS.
TypeOK ==
    /\ cash \in Balances /\ pos \in Balances
    /\ \A o \in Orders : row[o].rem \in Nat /\ row[o].filled \in Nat /\ row[o].reserved \in Nat
    /\ fills \subseteq made

BuyFills  == {t \in fills : row[t.o].side = "buy"}
SellFills == {t \in fills : row[t.o].side = "sell"}

Paying  == Costs(BuyFills)
Earning == Gains(SellFills)

(***************************************************************************)
(* A trade moves money and shares once, whatever is delivered again,       *)
(* reconciled or answered at the same time: what is pending is what the    *)
(* recorded fills cost, earn and bring (order-service.ts:410-479).         *)
(***************************************************************************)
PendingMatchesFills ==
    /\ cash.pending = Paying + Earning
    /\ pos.pending = Quantity(BuyFills)

\* No amendment was asked for.
Unamended(o) == change[o].times = 0

(***************************************************************************)
(* While the account has one order and has not amended it, cash is neither *)
(* made nor lost: reserving, paying fills beyond the reservation,          *)
(* releasing, refunding and reconciling in any order keep the total,       *)
(* though the code clips the reservation at zero and adds the unclipped    *)
(* amount to the available balance (order-service.ts:436-437, 512-513).    *)
(***************************************************************************)
CashConserved ==
    (\A o \in Orders : Unamended(o)) =>
        cash.available + cash.reserved + cash.pending = InitialCash + Earning

(***************************************************************************)
(* With several orders and amendments the customer still loses nothing: a  *)
(* reservation that was raised, refused, settled from a stale read, spent  *)
(* by another order or released by an event in between never lets cash or  *)
(* shares vanish (order-service.ts:410-529, 591-695).                      *)
(***************************************************************************)
NothingLost ==
    /\ cash.available + cash.reserved + cash.pending >= InitialCash + Earning
    /\ pos.available + pos.reserved + Quantity(SellFills) >= InitialShares

(***************************************************************************)
(* An order that was never amended and ended without its rest, or whose    *)
(* fills are all accounted for, holds no more cash, in whatever order its  *)
(* status and its fills came (order-service.ts:486-519).  A filled order   *)
(* whose submission was reconciled may keep the minimum fee: when the      *)
(* answer records a trade the row has counted under another, the last      *)
(* status comes without a fill and finds a target of Fee(0).               *)
(***************************************************************************)
ClosedHoldsNothing ==
    \A o \in {p \in Orders : Unamended(p)} :
       /\ row[o].status \in Refused => row[o].reserved = 0
       /\ row[o].status = "filled" /\ Quantity({t \in fills : t.o = o}) = row[o].orig
          => row[o].reserved <= IF call[o] = "unknown" THEN Fee(0) ELSE 0

\* A stale snapshot, answer or fill never takes back what the customer has been
\* told is filled, unless an amendment lowered the quantity (order-service.ts:394,
\* 482).
FilledGrows ==
    [][\A o \in Orders : Unamended(o)' => row'[o].filled >= row[o].filled]_vars
=============================================================================
