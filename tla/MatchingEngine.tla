--------------------------- MODULE MatchingEngine ---------------------------
(***************************************************************************)
(* The MATS matching engine for one symbol: internal/matching/book.go,     *)
(* engine.go and auction.go.                                               *)
(*                                                                         *)
(* Every engine method runs under Engine.mu.  The model keeps the mutex    *)
(* (op.kind) and takes one step per trade of a method's matching loop, so  *)
(* that the sequence generator, which is asked for a number before each    *)
(* trade, can fail (database error, or the client of the HTTP request      *)
(* going away: the handlers pass r.Context()) after some of the trades.    *)
(*                                                                         *)
(* The two sorted slices of a Book are one set of ids: their order is the  *)
(* order of (price, sequence number), and sequence numbers are distinct.   *)
(*                                                                         *)
(* Definitions whose comment starts with "Fault:" are not part of the      *)
(* model: each is what the definition after it would be with a plausible   *)
(* bug, and shows that some property notices.                              *)
(***************************************************************************)
EXTENDS AuctionPrice

CONSTANTS OrderIds,        \* ids the orders can take
          NoOrder,         \* not an id: nobody holds the mutex for an order
          Prices,          \* limit prices
          Quantities,      \* order quantities
          OrderTypes,      \* {"limit", "market"} or a part of it
          ReferencePrice,  \* of the auctions
          MaxSeq,          \* bound: no new request once the generator is past it
          MaxDrawn         \* bound: amendments on their way in at a time

ASSUME EngineAssumption ==
    /\ NoOrder \notin OrderIds
    /\ Prices \subseteq Nat \ {0}
    /\ Quantities \subseteq Nat \ {0}
    /\ OrderTypes \subseteq {"limit", "market"}
    /\ ReferencePrice \in Nat
    /\ MaxSeq \in Nat /\ MaxDrawn \in Nat

VARIABLES orders,    \* the order records (Engine.orders, and those on their way in)
          book,      \* ids resting in the book
          nextSeq,   \* next value of mats_event_sequence
          drawn,     \* numbers of amendments on their way in
          op,        \* the method that holds Engine.mu
          tape,      \* trades applied to the orders and to the market summary
          batch,     \* trades the running method has made so far
          reported,  \* trades handed to the caller of a method that succeeded
          auctioned, \* history: ids put into the book without being matched
          stranded   \* history: ids whose engine call failed half-way

vars == <<orders, book, nextSeq, drawn, op, tape, batch, reported, auctioned, stranded>>

Sides == {"buy", "sell"}

Statuses == {"absent", "accepted", "open", "amended", "partially_filled",
             "filled", "cancelled", "rejected", "expired"}

Terminal == {"filled", "cancelled", "rejected", "expired"}

Active(status) == status \in {"open", "partially_filled", "amended"}

\* Fault: the status is not looked at.
LiveAnyStatus(o) == orders[o].status # "absent"

\* What Amend, Cancel and ExpireOpenOrders require of an order.
Live(o) == Active(orders[o].status) /\ orders[o].rem > 0

OrderRecords ==
    [side : Sides, type : {"limit", "market"}, price : Nat, orig : Nat,
     rem : Nat, filled : Nat, status : Statuses, seq : Nat]

TradeRecords ==
    [seq : Nat, buy : OrderIds, sell : OrderIds, price : Nat, qty : Nat]

Absent == [side |-> "buy", type |-> "limit", price |-> 0, orig |-> 0,
           rem |-> 0, filled |-> 0, status |-> "absent", seq |-> 0]

Idle == [kind |-> "idle", id |-> NoOrder, price |-> 0]

Bids == {o \in book : orders[o].side = "buy"}
Asks == {o \in book : orders[o].side = "sell"}

Opposite(side) == IF side = "buy" THEN Asks ELSE Bids

\* Price-time priority between two orders of one side.
Before(a, b) ==
    \/ orders[a].price = orders[b].price /\ orders[a].seq < orders[b].seq
    \/ orders[a].side = "buy"  /\ orders[a].price > orders[b].price
    \/ orders[a].side = "sell" /\ orders[a].price < orders[b].price

\* Fault: the slice is sorted by time only.
BestOfOldest(S) == {o \in S : \A p \in S \ {o} : orders[o].seq < orders[p].seq}

\* The head of a sorted slice.
BestOf(S) == {o \in S : \A p \in S \ {o} : Before(o, p)}

\* Fault: equal prices do not meet.
CrossesStrictly(o, r) ==
    \/ orders[o].type = "market"
    \/ orders[o].side = "buy"  /\ orders[o].price > orders[r].price
    \/ orders[o].side = "sell" /\ orders[o].price < orders[r].price

\* Does incoming order o accept the price of the resting order r?
Crosses(o, r) ==
    \/ orders[o].type = "market"
    \/ orders[o].side = "buy"  /\ orders[o].price >= orders[r].price
    \/ orders[o].side = "sell" /\ orders[o].price <= orders[r].price

\* Fault: the rest of a market order rests.
WithAddedAnyType(o) == book \cup {o}

\* Fault: an order that traded is not put back.
WithAddedUntraded(o) ==
    IF orders[o].type = "market" \/ orders[o].filled > 0 THEN book ELSE book \cup {o}

\* Book.Add ignores market orders.
WithAdded(o) == IF orders[o].type = "market" THEN book ELSE book \cup {o}

-----------------------------------------------------------------------------
Init == /\ orders = [o \in OrderIds |-> Absent]
        /\ book = {}
        /\ nextSeq = 1
        /\ drawn = {}
        /\ op = Idle
        /\ tape = {}
        /\ batch = {}
        /\ reported = {}
        /\ auctioned = {}
        /\ stranded = {}

(***************************************************************************)
(* A request reaches orders.Service.Place, which takes a sequence number   *)
(* and accepts the order before it asks for the engine's mutex: the order  *)
(* of sequence numbers need not be the order in which the engine is        *)
(* entered.  The price a market order may carry is never read: 0 here.     *)
(***************************************************************************)
Accept(o) ==
    /\ orders[o].status = "absent"
    /\ nextSeq <= MaxSeq
    /\ \E side \in Sides, type \in OrderTypes, price \in Prices, qty \in Quantities :
         orders' = [orders EXCEPT ![o] =
                      [side |-> side, type |-> type,
                       price |-> IF type = "market" THEN 0 ELSE price,
                       orig |-> qty, rem |-> qty, filled |-> 0,
                       status |-> "accepted", seq |-> nextSeq]]
    /\ nextSeq' = nextSeq + 1
    /\ UNCHANGED <<book, drawn, op, tape, batch, reported, auctioned, stranded>>

\* Service.Amend has found a limit order and draws a number in the same way.
DrawNumber ==
    /\ nextSeq <= MaxSeq /\ Cardinality(drawn) < MaxDrawn
    /\ \E o \in OrderIds : Live(o) /\ orders[o].type = "limit"
    /\ drawn' = drawn \cup {nextSeq}
    /\ nextSeq' = nextSeq + 1
    /\ UNCHANGED <<orders, book, op, tape, batch, reported, auctioned, stranded>>

\* Engine.Place takes the mutex and enters the matching loop.
BeginPlace(o) ==
    /\ op = Idle
    /\ orders[o].status = "accepted" /\ o \notin stranded
    /\ op' = [kind |-> "place", id |-> o, price |-> 0]
    /\ UNCHANGED <<orders, book, nextSeq, drawn, tape, batch, reported, auctioned, stranded>>

\* Engine.PlaceAuction: into the book without matching.
PlaceAuction(o) ==
    /\ op = Idle
    /\ orders[o].status = "accepted" /\ o \notin stranded
    /\ orders' = [orders EXCEPT ![o].status = "open"]
    /\ book' = WithAdded(o)
    /\ auctioned' = auctioned \cup {o}
    /\ UNCHANGED <<nextSeq, drawn, op, tape, batch, reported, stranded>>

(***************************************************************************)
(* Engine.Amend.  The order leaves the book and takes the new price before *)
(* the new quantity is examined; a quantity below what is already filled   *)
(* then returns an error and leaves the order as it is, live and not in    *)
(* the book.  A nil price or quantity is the value the order already has.  *)
(* Service.Amend has refused market orders before it calls the engine.     *)
(***************************************************************************)
AmendReady(o) == /\ op = Idle
                 /\ Live(o)
                 /\ orders[o].type = "limit"

\* What an accepted amendment does before it is matched.
Amended(o, n, price, qty, rem) ==
    /\ AmendReady(o) /\ n \in drawn
    /\ orders' = [orders EXCEPT ![o].price = price, ![o].orig = qty, ![o].rem = rem,
                                ![o].seq = n, ![o].status = "amended"]
    /\ book' = book \ {o}
    /\ drawn' = drawn \ {n}
    /\ op' = [kind |-> "amend", id |-> o, price |-> 0]
    /\ auctioned' = auctioned \ {o}
    /\ stranded' = stranded \ {o}
    /\ UNCHANGED <<nextSeq, tape, batch, reported>>

\* Fault: the new quantity is taken for what is still wanted.
BeginAmendWhole(o, n, price, qty) ==
    qty >= orders[o].filled /\ Amended(o, n, price, qty, qty)

BeginAmend(o, n, price, qty) ==
    /\ qty >= orders[o].filled
    /\ Amended(o, n, price, qty, qty - orders[o].filled)

AmendBelowFilled(o, n, price, qty) ==
    /\ AmendReady(o) /\ n \in drawn
    /\ qty < orders[o].filled
    /\ orders' = [orders EXCEPT ![o].price = price]
    /\ book' = book \ {o}
    /\ drawn' = drawn \ {n}
    /\ stranded' = stranded \cup {o}
    /\ UNCHANGED <<nextSeq, op, tape, batch, reported, auctioned>>
-----------------------------------------------------------------------------
(***************************************************************************)
(* One iteration of a matching loop: a trade between buy b and sell s.     *)
(***************************************************************************)
\* Fault: the fill replaces the earlier ones.
FillForgetting(o, qty, status) ==
    [orders[o] EXCEPT !.rem = @ - qty, !.filled = qty, !.status = status]

Fill(o, qty, status) ==
    [orders[o] EXCEPT !.rem = @ - qty, !.filled = @ + qty, !.status = status]

\* The status of an order that was waiting in the book, after a fill.
RestingStatus(o, qty) ==
    IF orders[o].rem = qty THEN "filled" ELSE "partially_filled"

Record(b, s, price, qty) ==
    LET trade == [seq |-> nextSeq, buy |-> b, sell |-> s, price |-> price, qty |-> qty]
    IN  /\ tape' = tape \cup {trade}
        /\ batch' = batch \cup {trade}
        /\ nextSeq' = nextSeq + 1

\* Fault: the mutex is not released.
ReleaseForgotten == batch' = {} /\ UNCHANGED op

\* The method returns, and with it the deferred e.mu.Unlock().
Release == batch' = {} /\ op' = Idle

Matching == op.kind \in {"place", "amend"}

\* The best resting order that the incoming one can trade with.
Counterparty ==
    {r \in BestOf(Opposite(orders[op.id].side)) : orders[op.id].rem > 0 /\ Crosses(op.id, r)}

\* Book.Match, loop body: at the resting order's price; the incoming
\* order's status is settled only when the loop is over.
MatchBest ==
    /\ Matching
    /\ \E r \in Counterparty :
         LET o   == op.id
             qty == Lesser(orders[o].rem, orders[r].rem)
         IN  /\ orders' = [orders EXCEPT ![o] = Fill(o, qty, orders[o].status),
                                         ![r] = Fill(r, qty, RestingStatus(r, qty))]
             /\ book' = IF orders[r].rem = qty THEN book \ {r} ELSE book
             /\ IF orders[o].side = "buy" THEN Record(o, r, orders[r].price, qty)
                                          ELSE Record(r, o, orders[r].price, qty)
    /\ UNCHANGED <<drawn, op, reported, auctioned, stranded>>

\* The loop is over: nothing left to trade, or no opposite order that the
\* incoming one crosses (the slice being sorted, the code looks at its head).
MatchDone ==
    /\ Matching
    /\ \/ orders[op.id].rem = 0
       \/ \A r \in Opposite(orders[op.id].side) : ~Crosses(op.id, r)

\* The switch that ends Book.Match, and the return of Place or Amend.
FinalStatus(o) ==
    CASE orders[o].rem = 0                                  -> "filled"
      [] orders[o].rem > 0 /\ orders[o].type = "market"
           /\ orders[o].filled > 0                          -> "cancelled"
      [] orders[o].rem > 0 /\ orders[o].type = "market"
           /\ orders[o].filled = 0                          -> "rejected"
      [] orders[o].rem > 0 /\ orders[o].type = "limit"
           /\ orders[o].filled > 0                          -> "partially_filled"
      [] orders[o].rem > 0 /\ orders[o].type = "limit"
           /\ orders[o].filled = 0                          -> "open"

FinishMatch ==
    /\ MatchDone
    /\ LET o == op.id
       IN  /\ orders' = [orders EXCEPT ![o].status = FinalStatus(o),
                                       ![o].rem = IF orders[o].type = "market" THEN 0 ELSE @]
           /\ book' = IF orders[o].rem > 0 THEN WithAdded(o) ELSE book
    /\ reported' = reported \cup batch
    /\ Release
    /\ UNCHANGED <<nextSeq, drawn, tape, auctioned, stranded>>
-----------------------------------------------------------------------------
\* Engine.UncrossAuction, up to the loop of Book.Uncross.  An auction without
\* volume returns at once.
BeginUncross ==
    /\ op = Idle
    /\ \E iep \in IndicativePrice(orders, book, ReferencePrice) :
         /\ iep > 0 /\ Executable(orders, book, iep) > 0
         /\ op' = [kind |-> "uncross", id |-> NoOrder, price |-> iep]
    /\ UNCHANGED <<orders, book, nextSeq, drawn, tape, batch, reported, auctioned, stranded>>

\* Fault: an order at the auction price itself does not take part.
AuctionPairStrictly ==
    {p \in BestOf(Bids) \X BestOf(Asks) :
       orders[p[1]].price > op.price /\ orders[p[2]].price < op.price}

\* The pair at the top of the book, if both accept the auction price.
AuctionPair ==
    {p \in BestOf(Bids) \X BestOf(Asks) :
       orders[p[1]].price >= op.price /\ orders[p[2]].price <= op.price}

\* Book.Uncross, loop body: the trade is at the auction price.
UncrossBest ==
    /\ op.kind = "uncross"
    /\ \E p \in AuctionPair :
         LET b   == p[1]
             s   == p[2]
             qty == Lesser(orders[b].rem, orders[s].rem)
         IN  /\ orders' = [orders EXCEPT ![b] = Fill(b, qty, RestingStatus(b, qty)),
                                         ![s] = Fill(s, qty, RestingStatus(s, qty))]
             /\ book' = book \ {o \in {b, s} : orders[o].rem = qty}
             /\ Record(b, s, op.price, qty)
    /\ UNCHANGED <<drawn, op, reported, auctioned, stranded>>

UncrossDone ==
    /\ op.kind = "uncross"
    /\ AuctionPair = {}

\* Of the auctioned orders only those that still cross something are left.
FinishUncross ==
    /\ UncrossDone
    /\ reported' = reported \cup batch
    /\ Release
    /\ auctioned' = {o \in auctioned \cap book :
                       \E r \in Opposite(orders[o].side) : Crosses(o, r)}
    /\ UNCHANGED <<orders, book, nextSeq, drawn, tape, stranded>>

(***************************************************************************)
(* The sequence generator fails before a trade: the method returns the     *)
(* error and no trades.  What it did to the orders, the book and the       *)
(* market summary stays done; the incoming order is in no book.            *)
(***************************************************************************)
SequenceFails ==
    /\ \/ Matching /\ Counterparty # {}
       \/ op.kind = "uncross" /\ AuctionPair # {}
    /\ stranded' = IF Matching THEN stranded \cup {op.id} ELSE stranded
    /\ Release
    /\ UNCHANGED <<orders, book, nextSeq, drawn, tape, reported, auctioned>>
-----------------------------------------------------------------------------
\* Engine.Cancel.  When the service drew its number is nothing to a closed order.
Cancel(o) ==
    /\ op = Idle
    /\ Live(o)
    /\ nextSeq <= MaxSeq
    /\ orders' = [orders EXCEPT ![o].rem = 0, ![o].status = "cancelled",
                                ![o].seq = nextSeq]
    /\ book' = book \ {o}
    /\ nextSeq' = nextSeq + 1
    /\ UNCHANGED <<drawn, op, tape, batch, reported, auctioned, stranded>>

\* Engine.ExpireOpenOrders, when the session closes.
ExpireOpenOrders ==
    /\ op = Idle
    /\ \E o \in OrderIds : Live(o)
    /\ orders' = [o \in OrderIds |->
                    IF Live(o) THEN [orders[o] EXCEPT !.rem = 0, !.status = "expired"]
                               ELSE orders[o]]
    /\ book' = {o \in book : ~Live(o)}
    /\ UNCHANGED <<nextSeq, drawn, op, tape, batch, reported, auctioned, stranded>>

\* No method is running and no request comes.
Rest == op = Idle /\ UNCHANGED vars

Next ==
    \/ \E o \in OrderIds : Accept(o)
    \/ DrawNumber
    \/ \E o \in OrderIds : BeginPlace(o)
    \/ \E o \in OrderIds : PlaceAuction(o)
    \/ \E o \in OrderIds, n \in drawn, price \in Prices, qty \in Quantities :
         BeginAmend(o, n, price, qty) \/ AmendBelowFilled(o, n, price, qty)
    \/ MatchBest
    \/ FinishMatch
    \/ BeginUncross
    \/ UncrossBest
    \/ FinishUncross
    \/ SequenceFails
    \/ \E o \in OrderIds : Cancel(o)
    \/ ExpireOpenOrders
    \/ Rest

Spec == Init /\ [][Next]_vars

\* A goroutine that holds Engine.mu keeps running its loop.
FairSpec == Spec /\ WF_vars(MatchBest \/ FinishMatch \/ UncrossBest \/ FinishUncross)
-----------------------------------------------------------------------------
\* The type invariant.
TypeOK ==
    /\ orders \in [OrderIds -> OrderRecords]
    /\ book \subseteq OrderIds
    /\ nextSeq \in Nat \ {0} /\ drawn \subseteq Nat
    /\ op \in [kind : {"idle", "place", "amend", "uncross"},
               id : OrderIds \cup {NoOrder}, price : Nat]
    /\ tape \subseteq TradeRecords
    /\ batch \subseteq tape
    /\ reported \subseteq tape
    /\ auctioned \subseteq OrderIds
    /\ stranded \subseteq OrderIds

(***************************************************************************)
(* Quantity is neither created nor destroyed by matching, amending and     *)
(* failing half-way: what an order asked for is what it got plus what it   *)
(* still wants, until it is closed, and a closed order wants nothing and   *)
(* never got more than it asked for.                                       *)
(***************************************************************************)
QuantitiesBalance ==
    \A o \in OrderIds :
       /\ orders[o].status \notin Terminal => orders[o].orig = orders[o].filled + orders[o].rem
       /\ orders[o].status \in Terminal => orders[o].rem = 0 /\ orders[o].filled <= orders[o].orig
       /\ orders[o].status = "filled" => orders[o].filled = orders[o].orig

(***************************************************************************)
(* What rests in the book can trade: it is a limit order, live, with       *)
(* quantity left ("Market orders never rest in the order book",            *)
(* docs/api-contracts.md), and the method that holds the mutex is not      *)
(* matching an order against itself.                                       *)
(***************************************************************************)
BookSound ==
    \A o \in book : Live(o) /\ orders[o].type = "limit" /\ o # op.id

(***************************************************************************)
(* A live limit order is in the book, is being matched right now, or is    *)
(* one whose amendment failed after it was taken out.                      *)
(***************************************************************************)
LiveOrdersTracked ==
    \A o \in OrderIds :
       Live(o) /\ orders[o].type = "limit" => o \in book \cup stranded \cup {op.id}

(***************************************************************************)
(* Continuous matching leaves no crossed book: a bid at or above an ask    *)
(* can only rest if one of the two was put there by PlaceAuction and has   *)
(* not been through an auction since.                                      *)
(***************************************************************************)
NoUnmatchedCross ==
    \A b \in Bids, s \in Asks :
       orders[b].price >= orders[s].price => b \in auctioned \/ s \in auctioned

(***************************************************************************)
(* The fills of the orders are those of the trades: the filled quantity of *)
(* every order is the sum over its trades, also after a method failed with *)
(* some trades made.                                                       *)
(***************************************************************************)
FillsMatchTape ==
    \A o \in OrderIds :
       orders[o].filled = SumFunctionOnSet([t \in tape |-> t.qty],
                                           {t \in tape : o \in {t.buy, t.sell}})

(***************************************************************************)
(* When the loop of Book.Uncross stops, the book is uncrossed: the auction *)
(* price leaves no bid at or above an ask anywhere, at whatever price      *)
(* (together: IEP of maximal volume, loop over the best pair).             *)
(***************************************************************************)
AuctionClearsBook ==
    UncrossDone => \A b \in Bids, s \in Asks : orders[b].price < orders[s].price

(***************************************************************************)
(* Price-time priority over the order records, not only over the book: a   *)
(* trade takes no resting order while a better live one of the same side   *)
(* waits, except one that a failed amendment took out of the book.         *)
(***************************************************************************)
PriorityHonoured ==
    [][\A t \in tape' \ tape, o \in OrderIds \ (stranded \cup {op.id}) :
         Live(o) /\ orders[o].type = "limit" =>
           \A r \in {t.buy, t.sell} \ {op.id} :
              orders[o].side = orders[r].side => ~Before(o, r)]_vars

(***************************************************************************)
(* A closed order stays as it is, whatever request or trade comes later,   *)
(* and no order ever loses a fill.                                         *)
(***************************************************************************)
ClosedForGood ==
    [][\A o \in OrderIds :
         /\ orders[o].status \in Terminal => orders'[o] = orders[o]
         /\ orders'[o].filled >= orders[o].filled]_vars

(***************************************************************************)
(* Every engine method returns and releases the mutex: a matching loop     *)
(* never runs on without making progress.                                  *)
(***************************************************************************)
MethodsReturn == op.kind # "idle" ~> op.kind = "idle"
=============================================================================
