------------------------ MODULE MatchingEngineProofs ------------------------
(***************************************************************************)
(* Proofs about MatchingEngine, for every set of orders, prices and        *)
(* quantities and every number of requests: first the books and the        *)
(* orders, then what a step may not do, then the trades and the auctions,  *)
(* and at the end that the engine implements the order lifecycle: under    *)
(* the inductive invariant every step maps to a step of the lifecycle or   *)
(* changes no life.                                                        *)
(***************************************************************************)
EXTENDS MatchingEngineLifecycle, AuctionPriceMC, SumFacts

\* Fill keeps the shape of an order record.
LEMMA FillType ==
    ASSUME NEW o \in OrderIds, orders[o] \in OrderRecords,
           NEW qty \in Nat, qty <= orders[o].rem,
           NEW status \in Statuses
    PROVE  /\ Fill(o, qty, status) \in OrderRecords
           /\ Fill(o, qty, status).rem = orders[o].rem - qty
           /\ Fill(o, qty, status).filled = orders[o].filled + qty
           /\ Fill(o, qty, status).status = status
           /\ Fill(o, qty, status).orig = orders[o].orig
           /\ Fill(o, qty, status).side = orders[o].side
           /\ Fill(o, qty, status).type = orders[o].type
           /\ Fill(o, qty, status).price = orders[o].price
           /\ Fill(o, qty, status).seq = orders[o].seq
  <1>1. orders[o].rem - qty \in Nat /\ orders[o].filled + qty \in Nat
    BY DEF OrderRecords
  <1>2. Fill(o, qty, status) \in OrderRecords
    BY <1>1 DEF Fill, OrderRecords
  <1>3. /\ Fill(o, qty, status).rem = orders[o].rem - qty
        /\ Fill(o, qty, status).filled = orders[o].filled + qty
        /\ Fill(o, qty, status).status = status
    BY DEF Fill, OrderRecords
  <1>4. /\ Fill(o, qty, status).orig = orders[o].orig
        /\ Fill(o, qty, status).side = orders[o].side
        /\ Fill(o, qty, status).type = orders[o].type
        /\ Fill(o, qty, status).price = orders[o].price
        /\ Fill(o, qty, status).seq = orders[o].seq
    BY DEF Fill, OrderRecords
  <1> QED
    BY <1>2, <1>3, <1>4

\* The method that holds the mutex: its order is out of the book and still
\* has the status it came with.
OpSound ==
    /\ op.kind \in {"idle", "uncross"} => op.id = NoOrder
    /\ op.kind = "place" => orders[op.id].status = "accepted"
    /\ op.kind = "amend" => orders[op.id].status = "amended" /\ orders[op.id].type = "limit"
    /\ Matching => op.id \in OrderIds

\* An order that waits for the mutex still wants all of its quantity, and one
\* that never was has no fills.
AcceptedWants ==
    \A o \in OrderIds :
       /\ orders[o].status = "accepted" /\ o \notin stranded \cup {op.id} =>
            orders[o].filled = 0 /\ orders[o].rem > 0
       /\ orders[o].status = "absent" => orders[o].filled = 0

IInv == /\ TypeOK
        /\ AcceptedWants
        /\ OpSound
        /\ QuantitiesBalance
        /\ BookSound
        /\ LiveOrdersTracked
        /\ NoUnmatchedCross

LEMMA InitIInv == Init => IInv
  BY EngineAssumption
     DEF Init, IInv, TypeOK, OpSound, QuantitiesBalance, BookSound, LiveOrdersTracked,
         NoUnmatchedCross, AcceptedWants, OrderRecords, Absent, Sides, Statuses, Terminal, Idle,
         Live, Active, Bids, Asks, Matching

\* What the states of a matching step look like: an incoming order o, a
\* resting order r of the other side, and the quantity they trade.
LEMMA MatchBestFacts ==
    ASSUME IInv, MatchBest
    PROVE  /\ op.id \in OrderIds /\ op.id \notin book
           /\ op.kind \in {"place", "amend"}
           /\ \E r \in book, qty \in Nat \ {0} :
                /\ r \in OrderIds /\ r # op.id /\ Live(r) /\ orders[r].type = "limit"
                /\ qty <= orders[op.id].rem /\ qty <= orders[r].rem
                /\ orders' = [orders EXCEPT ![op.id] = Fill(op.id, qty, orders[op.id].status),
                                            ![r] = Fill(r, qty, RestingStatus(r, qty))]
                /\ book' = IF orders[r].rem = qty THEN book \ {r} ELSE book
                /\ IF orders[op.id].side = "buy" THEN Record(op.id, r, orders[r].price, qty)
                                                 ELSE Record(r, op.id, orders[r].price, qty)
  <1> DEFINE o == op.id
  <1>1. o \in OrderIds /\ o \notin book /\ op.kind \in {"place", "amend"}
    BY DEF IInv, OpSound, BookSound, MatchBest, Matching
  <1>2. PICK r \in Counterparty :
          LET qty == Lesser(orders[o].rem, orders[r].rem)
          IN  /\ orders' = [orders EXCEPT ![o] = Fill(o, qty, orders[o].status),
                                          ![r] = Fill(r, qty, RestingStatus(r, qty))]
              /\ book' = IF orders[r].rem = qty THEN book \ {r} ELSE book
              /\ IF orders[o].side = "buy" THEN Record(o, r, orders[r].price, qty)
                                           ELSE Record(r, o, orders[r].price, qty)
    BY DEF MatchBest
  <1> DEFINE qty == Lesser(orders[o].rem, orders[r].rem)
  <1>3. r \in book /\ orders[o].rem > 0
    BY <1>2 DEF Counterparty, BestOf, Opposite, Bids, Asks
  <1>4. r \in OrderIds /\ r # o /\ Live(r) /\ orders[r].type = "limit"
    BY <1>1, <1>3 DEF IInv, TypeOK, BookSound
  <1>5. orders[o].rem \in Nat /\ orders[r].rem \in Nat /\ orders[r].rem > 0
    BY <1>1, <1>4 DEF IInv, TypeOK, OrderRecords, Live
  <1>6. qty \in Nat \ {0} /\ qty <= orders[o].rem /\ qty <= orders[r].rem
    BY <1>3, <1>5 DEF Lesser
  <1> HIDE DEF qty
  <1> QED
    BY <1>1, <1>2, <1>3, <1>4, <1>6 DEF qty

\* A request enters: nobody else is touched, and the order is in no book.
LEMMA AcceptStep == ASSUME IInv, NEW o \in OrderIds, Accept(o) PROVE IInv'
  <1> USE DEF IInv
  <1>1. /\ orders[o].status = "absent" /\ o \notin book
        /\ UNCHANGED <<book, drawn, op, tape, batch, reported, auctioned, stranded>>
    BY DEF Accept, BookSound, Live, Active
  <1>2. PICK side \in Sides, type \in OrderTypes, price \in Prices, qty \in Quantities :
          orders' = [orders EXCEPT ![o] =
                       [side |-> side, type |-> type,
                        price |-> IF type = "market" THEN 0 ELSE price,
                        orig |-> qty, rem |-> qty, filled |-> 0,
                        status |-> "accepted", seq |-> nextSeq]]
    BY DEF Accept
  <1>3. /\ \A x \in OrderIds \ {o} : orders'[x] = orders[x]
        /\ orders'[o].status = "accepted" /\ orders'[o].filled = 0
        /\ orders'[o].rem = qty /\ orders'[o].orig = qty /\ qty \in Nat
    BY <1>2, EngineAssumption DEF TypeOK
  <1>4. TypeOK'
    <2>1. [side |-> side, type |-> type,
           price |-> IF type = "market" THEN 0 ELSE price,
           orig |-> qty, rem |-> qty, filled |-> 0,
           status |-> "accepted", seq |-> nextSeq] \in OrderRecords
      BY EngineAssumption DEF OrderRecords, TypeOK, Statuses
    <2>2. orders' \in [OrderIds -> OrderRecords]
      BY <1>2, <2>1 DEF TypeOK
    <2>3. nextSeq' \in Nat \ {0}
      BY DEF Accept, TypeOK
    <2> QED BY <1>1, <2>2, <2>3 DEF TypeOK
  <1>5. OpSound'
    BY <1>1, <1>3 DEF OpSound, Matching
  <1>6. QuantitiesBalance'
    BY <1>3 DEF QuantitiesBalance, Terminal
  <1>7. BookSound'
    BY <1>1, <1>3 DEF BookSound, Live, TypeOK
  <1>8. LiveOrdersTracked'
    BY <1>1, <1>3 DEF LiveOrdersTracked, Live, Active
  <1>9. NoUnmatchedCross'
    BY <1>1, <1>3 DEF NoUnmatchedCross, Bids, Asks, TypeOK
  <1>10. AcceptedWants'
    BY <1>1, <1>2, <1>3, EngineAssumption DEF AcceptedWants
  <1> QED BY <1>4, <1>5, <1>6, <1>7, <1>8, <1>9, <1>10

\* An accepted order is out of the book and not live.
LEMMA BeginPlaceStep == ASSUME IInv, NEW o \in OrderIds, BeginPlace(o) PROVE IInv'
  <1> USE DEF IInv
  <1>1. /\ op' = [kind |-> "place", id |-> o, price |-> 0] /\ op = Idle
        /\ orders[o].status = "accepted"
        /\ UNCHANGED <<orders, book, nextSeq, drawn, tape, batch, reported, auctioned, stranded>>
    BY DEF BeginPlace
  <1>2. o \notin book
    BY <1>1 DEF BookSound, Live, Active
  <1>3. TypeOK'
    BY <1>1 DEF TypeOK
  <1>4. OpSound'
    BY <1>1 DEF OpSound, Matching
  <1>5. QuantitiesBalance'
    BY <1>1 DEF QuantitiesBalance
  <1>6. BookSound'
    BY <1>1, <1>2 DEF BookSound, Live
  <1>7. LiveOrdersTracked'
    <2>1. op.id \notin OrderIds
      BY <1>1, EngineAssumption DEF Idle
    <2> QED BY <1>1, <2>1 DEF LiveOrdersTracked, Live
  <1>8. NoUnmatchedCross'
    BY <1>1 DEF NoUnmatchedCross, Bids, Asks
  <1>9. AcceptedWants'
    BY <1>1, EngineAssumption DEF AcceptedWants, Idle
  <1> QED BY <1>3, <1>4, <1>5, <1>6, <1>7, <1>8, <1>9

\* An order that is not matched is remembered in auctioned.
LEMMA PlaceAuctionStep == ASSUME IInv, NEW o \in OrderIds, PlaceAuction(o) PROVE IInv'
  <1> USE DEF IInv
  <1>1. /\ op = Idle /\ orders[o].status = "accepted" /\ o \notin stranded
        /\ orders' = [orders EXCEPT ![o].status = "open"]
        /\ book' = WithAdded(o) /\ auctioned' = auctioned \cup {o}
        /\ UNCHANGED <<nextSeq, drawn, op, tape, batch, reported, stranded>>
    BY DEF PlaceAuction
  <1>2. o \notin book /\ op.id \notin OrderIds /\ op.kind = "idle"
    BY <1>1, EngineAssumption DEF BookSound, Live, Active, Idle
  <1>3. /\ \A x \in OrderIds \ {o} : orders'[x] = orders[x]
        /\ orders'[o].status = "open" /\ orders'[o].type = orders[o].type
        /\ orders'[o].rem = orders[o].rem /\ orders'[o].orig = orders[o].orig
        /\ orders'[o].filled = orders[o].filled
    BY <1>1 DEF TypeOK, OrderRecords
  <1>4. TypeOK'
    <2>1. orders' \in [OrderIds -> OrderRecords]
      BY <1>1 DEF TypeOK, OrderRecords, Statuses
    <2> QED BY <1>1, <2>1 DEF TypeOK, WithAdded
  <1>5. OpSound'
    BY <1>1, <1>2 DEF OpSound, Matching
  <1>6. QuantitiesBalance'
    BY <1>1, <1>3 DEF QuantitiesBalance, Terminal
  <1>7. o \in book' => orders[o].type = "limit" /\ orders[o].rem > 0
    <2>1. orders[o].type \in {"limit", "market"} /\ orders[o].rem \in Nat
      BY DEF TypeOK, OrderRecords
    <2>2. orders[o].rem # 0
      BY <1>1, <1>2 DEF AcceptedWants
    <2> QED BY <1>1, <1>2, <2>1, <2>2 DEF WithAdded
  <1>8. BookSound'
    BY <1>1, <1>2, <1>3, <1>7 DEF BookSound, Live, Active, WithAdded, TypeOK
  <1>9. LiveOrdersTracked'
    BY <1>1, <1>2, <1>3 DEF LiveOrdersTracked, Live, WithAdded
  <1>10. NoUnmatchedCross'
    BY <1>1, <1>3 DEF NoUnmatchedCross, Bids, Asks, WithAdded, TypeOK
  <1>11. AcceptedWants'
    BY <1>1, <1>3 DEF AcceptedWants
  <1> QED BY <1>4, <1>5, <1>6, <1>8, <1>9, <1>10, <1>11

\* The amended order leaves the book while it is matched.
LEMMA BeginAmendStep ==
    ASSUME IInv, NEW o \in OrderIds, NEW n \in drawn, NEW price \in Prices, NEW qty \in Quantities,
           BeginAmend(o, n, price, qty)
    PROVE  IInv'
  <1> USE DEF IInv
  <1>0. n \in Nat BY DEF TypeOK
  <1>1. /\ op = Idle /\ Live(o) /\ orders[o].type = "limit" /\ qty >= orders[o].filled
        /\ orders' = [orders EXCEPT ![o].price = price, ![o].orig = qty,
                                    ![o].rem = qty - orders[o].filled,
                                    ![o].seq = n, ![o].status = "amended"]
        /\ book' = book \ {o} /\ drawn' = drawn \ {n} /\ nextSeq' = nextSeq
        /\ op' = [kind |-> "amend", id |-> o, price |-> 0]
        /\ auctioned' = auctioned \ {o} /\ stranded' = stranded \ {o}
        /\ UNCHANGED <<tape, batch, reported>>
    BY DEF BeginAmend, Amended, AmendReady
  <1>2. op.id \notin OrderIds /\ orders[o].status # "accepted"
    BY <1>1, EngineAssumption DEF Idle, Live, Active
  <1>3. qty \in Nat /\ price \in Nat /\ orders[o].filled \in Nat
        /\ qty - orders[o].filled \in Nat
    BY <1>1, EngineAssumption DEF TypeOK, OrderRecords
  <1>4. /\ \A x \in OrderIds \ {o} : orders'[x] = orders[x]
        /\ orders'[o].status = "amended" /\ orders'[o].type = "limit"
        /\ orders'[o].orig = qty /\ orders'[o].rem = qty - orders[o].filled
        /\ orders'[o].filled = orders[o].filled
    BY <1>1 DEF TypeOK, OrderRecords
  <1>5. TypeOK'
    <2>1. [orders[o] EXCEPT !.price = price, !.orig = qty,
                            !.rem = qty - orders[o].filled,
                            !.seq = n, !.status = "amended"] \in OrderRecords
      BY <1>0, <1>3 DEF TypeOK, OrderRecords, Statuses
    <2>2. orders' = [orders EXCEPT ![o] =
                       [orders[o] EXCEPT !.price = price, !.orig = qty,
                                         !.rem = qty - orders[o].filled,
                                         !.seq = n, !.status = "amended"]]
      BY <1>1 DEF TypeOK
    <2>3. orders' \in [OrderIds -> OrderRecords]
      BY <2>1, <2>2 DEF TypeOK
    <2> QED BY <1>1, <2>3 DEF TypeOK
  <1>6. OpSound'
    BY <1>1, <1>4 DEF OpSound, Matching
  <1>7. QuantitiesBalance'
    BY <1>3, <1>4 DEF QuantitiesBalance, Terminal
  <1>8. BookSound'
    BY <1>1, <1>4 DEF BookSound, Live, TypeOK
  <1>9. LiveOrdersTracked'
    BY <1>1, <1>2, <1>4 DEF LiveOrdersTracked, Live
  <1>10. NoUnmatchedCross'
    BY <1>1, <1>4 DEF NoUnmatchedCross, Bids, Asks, TypeOK
  <1>11. AcceptedWants'
    BY <1>1, <1>2, <1>4 DEF AcceptedWants
  <1> QED BY <1>5, <1>6, <1>7, <1>8, <1>9, <1>10, <1>11

\* The refused amendment: the order is out of the book and stranded.
LEMMA AmendBelowFilledStep ==
    ASSUME IInv, NEW o \in OrderIds, NEW n \in drawn, NEW price \in Prices, NEW qty \in Quantities,
           AmendBelowFilled(o, n, price, qty)
    PROVE  IInv'
  <1> USE DEF IInv
  <1>1. /\ op = Idle /\ Live(o)
        /\ orders' = [orders EXCEPT ![o].price = price]
        /\ book' = book \ {o} /\ drawn' = drawn \ {n} /\ nextSeq' = nextSeq
        /\ stranded' = stranded \cup {o}
        /\ UNCHANGED <<op, tape, batch, reported, auctioned>>
    BY DEF AmendBelowFilled, AmendReady
  <1>2. op.id \notin OrderIds /\ op.kind = "idle" /\ price \in Nat
    BY <1>1, EngineAssumption DEF Idle
  <1>3. /\ \A x \in OrderIds \ {o} : orders'[x] = orders[x]
        /\ orders'[o].status = orders[o].status /\ orders'[o].type = orders[o].type
        /\ orders'[o].orig = orders[o].orig /\ orders'[o].rem = orders[o].rem
        /\ orders'[o].filled = orders[o].filled
    BY <1>1 DEF TypeOK, OrderRecords
  <1>4. TypeOK'
    <2>1. orders' \in [OrderIds -> OrderRecords]
      BY <1>1, <1>2 DEF TypeOK, OrderRecords
    <2> QED BY <1>1, <2>1 DEF TypeOK
  <1>5. OpSound'
    BY <1>1, <1>2 DEF OpSound, Matching
  <1>6. QuantitiesBalance'
    BY <1>3 DEF QuantitiesBalance
  <1>7. BookSound'
    BY <1>1, <1>3 DEF BookSound, Live, TypeOK
  <1>8. LiveOrdersTracked'
    BY <1>1, <1>3 DEF LiveOrdersTracked, Live
  <1>9. NoUnmatchedCross'
    BY <1>1, <1>3 DEF NoUnmatchedCross, Bids, Asks, TypeOK
  <1>10. AcceptedWants'
    BY <1>1, <1>3 DEF AcceptedWants
  <1> QED BY <1>4, <1>5, <1>6, <1>7, <1>8, <1>9, <1>10

\* A cancelled order is closed and leaves the book.
LEMMA CancelStep == ASSUME IInv, NEW o \in OrderIds, Cancel(o) PROVE IInv'
  <1> USE DEF IInv
  <1>1. /\ op = Idle /\ Live(o)
        /\ orders' = [orders EXCEPT ![o].rem = 0, ![o].status = "cancelled",
                                    ![o].seq = nextSeq]
        /\ book' = book \ {o} /\ nextSeq' = nextSeq + 1
        /\ UNCHANGED <<drawn, op, tape, batch, reported, auctioned, stranded>>
    BY DEF Cancel
  <1>2. op.id \notin OrderIds /\ op.kind = "idle"
    BY <1>1, EngineAssumption DEF Idle
  <1>3. /\ \A x \in OrderIds \ {o} : orders'[x] = orders[x]
        /\ orders'[o].status = "cancelled" /\ orders'[o].rem = 0
        /\ orders'[o].orig = orders[o].orig /\ orders'[o].filled = orders[o].filled
    BY <1>1 DEF TypeOK, OrderRecords
  <1>4. TypeOK'
    <2>1. [orders[o] EXCEPT !.rem = 0, !.status = "cancelled", !.seq = nextSeq]
             \in OrderRecords
      BY DEF TypeOK, OrderRecords, Statuses
    <2>2. orders' = [orders EXCEPT ![o] =
                       [orders[o] EXCEPT !.rem = 0, !.status = "cancelled", !.seq = nextSeq]]
      BY <1>1 DEF TypeOK
    <2>3. orders' \in [OrderIds -> OrderRecords]
      BY <2>1, <2>2 DEF TypeOK
    <2> QED BY <1>1, <2>3 DEF TypeOK
  <1>5. OpSound'
    BY <1>1, <1>2 DEF OpSound, Matching
  <1>6. QuantitiesBalance'
    <2>1. orders[o].status \notin Terminal
      BY <1>1 DEF Live, Active, Terminal
    <2>2. orders[o].filled \in Nat /\ orders[o].rem \in Nat /\ orders[o].orig \in Nat
      BY DEF TypeOK, OrderRecords
    <2> QED BY <1>3, <2>1, <2>2 DEF QuantitiesBalance, Terminal
  <1>7. BookSound'
    BY <1>1, <1>3 DEF BookSound, Live, TypeOK
  <1>8. LiveOrdersTracked'
    <2> SUFFICES ASSUME NEW x \in OrderIds, Live(x)', orders'[x].type = "limit"
                 PROVE  x \in book' \cup stranded' \cup {op'.id}
      BY DEF LiveOrdersTracked
    <2>1. x # o
      BY <1>3 DEF Live
    <2>2. Live(x) /\ orders[x].type = "limit"
      BY <1>3, <2>1 DEF Live
    <2> QED BY <1>1, <2>1, <2>2 DEF LiveOrdersTracked
  <1>9. NoUnmatchedCross'
    BY <1>1, <1>3 DEF NoUnmatchedCross, Bids, Asks, TypeOK
  <1>10. AcceptedWants'
    BY <1>1, <1>3 DEF AcceptedWants
  <1> QED BY <1>4, <1>5, <1>6, <1>7, <1>8, <1>9, <1>10

\* Expiry closes every live order; nothing live is left in the book.
LEMMA ExpireStep == ASSUME IInv, ExpireOpenOrders PROVE IInv'
  <1> USE DEF IInv
  <1>1. /\ op = Idle
        /\ orders' = [o \in OrderIds |->
                        IF Live(o) THEN [orders[o] EXCEPT !.rem = 0, !.status = "expired"]
                                   ELSE orders[o]]
        /\ book' = {o \in book : ~Live(o)}
        /\ UNCHANGED <<nextSeq, drawn, op, tape, batch, reported, auctioned, stranded>>
    BY DEF ExpireOpenOrders
  <1>2. op.kind = "idle"
    BY <1>1 DEF Idle
  <1>3. book' = {}
    BY <1>1 DEF BookSound
  <1>4. \A x \in OrderIds : ~Live(x) => orders'[x] = orders[x]
    BY <1>1
  <1>5. ASSUME NEW x \in OrderIds, Live(x)
        PROVE  /\ orders'[x] \in OrderRecords
               /\ orders'[x].rem = 0 /\ orders'[x].status = "expired"
               /\ orders'[x].orig = orders[x].orig /\ orders'[x].filled = orders[x].filled
    <2>1. orders'[x] = [orders[x] EXCEPT !.rem = 0, !.status = "expired"]
      BY <1>1, <1>5
    <2>2. orders[x] \in OrderRecords
      BY DEF TypeOK
    <2>3. [orders[x] EXCEPT !.rem = 0, !.status = "expired"] \in OrderRecords
      BY <2>2 DEF OrderRecords, Statuses
    <2> QED BY <2>1, <2>2, <2>3 DEF OrderRecords
  <1>6. TypeOK'
    <2>1. \A x \in OrderIds : orders'[x] \in OrderRecords
      BY <1>4, <1>5 DEF TypeOK
    <2>2. orders' \in [OrderIds -> OrderRecords]
      BY <1>1, <2>1
    <2> QED BY <1>1, <1>3, <2>2 DEF TypeOK
  <1>7. OpSound'
    BY <1>1, <1>2 DEF OpSound, Matching
  <1>8. QuantitiesBalance'
    <2> SUFFICES ASSUME NEW x \in OrderIds
                 PROVE  /\ orders'[x].status \notin Terminal =>
                             orders'[x].orig = orders'[x].filled + orders'[x].rem
                        /\ orders'[x].status \in Terminal =>
                             orders'[x].rem = 0 /\ orders'[x].filled <= orders'[x].orig
                        /\ orders'[x].status = "filled" => orders'[x].filled = orders'[x].orig
      BY DEF QuantitiesBalance
    <2>1. CASE Live(x)
      <3>1. orders[x].status \notin Terminal
        BY <2>1 DEF Live, Active, Terminal
      <3>2. orders[x].filled \in Nat /\ orders[x].rem \in Nat /\ orders[x].orig \in Nat
        BY DEF TypeOK, OrderRecords
      <3> QED BY <1>5, <2>1, <3>1, <3>2 DEF QuantitiesBalance, Terminal
    <2>2. CASE ~Live(x)
      BY <1>4, <2>2 DEF QuantitiesBalance
    <2> QED BY <2>1, <2>2
  <1>9. BookSound'
    BY <1>3 DEF BookSound
  <1>10. LiveOrdersTracked'
    <2>1. \A x \in OrderIds : ~Live(x)'
      BY <1>4, <1>5 DEF Live
    <2> QED BY <2>1 DEF LiveOrdersTracked
  <1>11. NoUnmatchedCross'
    BY <1>3 DEF NoUnmatchedCross, Bids, Asks
  <1>12. AcceptedWants'
    BY <1>1, <1>4, <1>5 DEF AcceptedWants
  <1> QED BY <1>6, <1>7, <1>8, <1>9, <1>10, <1>11, <1>12

\* Entering and leaving an auction, and a failure, change no order.
LEMMA BeginUncrossStep == ASSUME IInv, BeginUncross PROVE IInv'
  <1> USE DEF IInv
  <1>1. PICK iep \in IndicativePrice(orders, book, ReferencePrice) :
          op' = [kind |-> "uncross", id |-> NoOrder, price |-> iep]
    BY DEF BeginUncross
  <1>2. /\ op = Idle
        /\ UNCHANGED <<orders, book, nextSeq, drawn, tape, batch, reported, auctioned, stranded>>
    BY DEF BeginUncross
  <1>3. iep \in Nat
    BY DEF IndicativePrice, Candidates, TypeOK, OrderRecords
  <1>4. TypeOK'
    BY <1>1, <1>2, <1>3 DEF TypeOK
  <1>5. op'.id = op.id /\ op'.kind = "uncross"
    BY <1>1, <1>2 DEF Idle
  <1> QED
    BY <1>1, <1>2, <1>4, <1>5
       DEF OpSound, Matching, QuantitiesBalance, BookSound, LiveOrdersTracked, Live,
           NoUnmatchedCross, Bids, Asks, AcceptedWants

LEMMA SequenceFailsStep == ASSUME IInv, SequenceFails PROVE IInv'
  <1> USE DEF IInv
  <1>1. /\ op' = Idle /\ batch' = {}
        /\ stranded' = IF Matching THEN stranded \cup {op.id} ELSE stranded
        /\ UNCHANGED <<orders, book, nextSeq, drawn, tape, reported, auctioned>>
    BY DEF SequenceFails, Release
  <1>2. op'.id = NoOrder /\ op'.kind = "idle" /\ op'.price = 0
    BY <1>1 DEF Idle
  <1>3. Matching \/ op.kind = "uncross"
    BY DEF SequenceFails
  <1>4. TypeOK'
    BY <1>1 DEF TypeOK, OpSound, Idle
  <1>5. OpSound'
    BY <1>2 DEF OpSound, Matching
  <1>6. QuantitiesBalance'
    BY <1>1 DEF QuantitiesBalance
  <1>7. BookSound'
    BY <1>1, <1>2, EngineAssumption DEF BookSound, Live, TypeOK
  <1>8. LiveOrdersTracked'
    BY <1>1, <1>3, EngineAssumption DEF LiveOrdersTracked, Live, OpSound, Matching
  <1>9. NoUnmatchedCross'
    BY <1>1 DEF NoUnmatchedCross, Bids, Asks
  <1>10. AcceptedWants'
    BY <1>1, <1>3, EngineAssumption DEF AcceptedWants, OpSound, Matching
  <1> QED BY <1>4, <1>5, <1>6, <1>7, <1>8, <1>9, <1>10

\* Whatever still crosses when an auction ends is still in auctioned.
LEMMA FinishUncrossStep == ASSUME IInv, FinishUncross PROVE IInv'
  <1> USE DEF IInv
  <1>1. /\ op.kind = "uncross" /\ op' = Idle /\ batch' = {}
        /\ reported' = reported \cup batch
        /\ auctioned' = {o \in auctioned \cap book :
                           \E r \in Opposite(orders[o].side) : Crosses(o, r)}
        /\ UNCHANGED <<orders, book, nextSeq, drawn, tape, stranded>>
    BY DEF FinishUncross, UncrossDone, Release
  <1>2. op'.id = NoOrder /\ op.id = NoOrder /\ op'.kind = "idle"
    BY <1>1 DEF Idle, OpSound
  <1>3. TypeOK'
    BY <1>1 DEF TypeOK, Idle
  <1>4. NoUnmatchedCross'
    <2> SUFFICES ASSUME NEW b \in Bids, NEW s \in Asks, orders[b].price >= orders[s].price
                 PROVE  b \in auctioned' \/ s \in auctioned'
      BY <1>1 DEF NoUnmatchedCross, Bids, Asks
    <2>1. b \in auctioned \/ s \in auctioned
      BY DEF NoUnmatchedCross
    <2>2. /\ s \in Opposite(orders[b].side) /\ Crosses(b, s) /\ b \in book
          /\ b \in Opposite(orders[s].side) /\ s \in book
      BY DEF Bids, Asks, Opposite, Crosses
    <2>3. Crosses(s, b)
      <3>1. orders[b].price \in Nat /\ orders[s].price \in Nat /\ orders[s].side = "sell"
        BY DEF Bids, Asks, TypeOK, OrderRecords
      <3> QED BY <3>1 DEF Crosses
    <2> QED BY <1>1, <2>1, <2>2, <2>3
  <1> QED
    BY <1>1, <1>2, <1>3, <1>4
       DEF OpSound, Matching, QuantitiesBalance, BookSound, LiveOrdersTracked, Live, AcceptedWants

\* Two orders a and b trade qty and take the statuses sa and sb.
Trades(a, b, qty, sa, sb) ==
    /\ a \in OrderIds /\ b \in OrderIds /\ a # b
    /\ qty \in Nat \ {0} /\ qty <= orders[a].rem /\ qty <= orders[b].rem
    /\ sa \in Statuses /\ sb \in Statuses
    /\ orders' = [orders EXCEPT ![a] = Fill(a, qty, sa), ![b] = Fill(b, qty, sb)]

\* What the step does to their records.
LEMMA TradeFacts ==
    ASSUME TypeOK, NEW a, NEW b, NEW qty, NEW sa, NEW sb, Trades(a, b, qty, sa, sb)
    PROVE  /\ orders' \in [OrderIds -> OrderRecords]
           /\ \A x \in OrderIds \ {a, b} : orders'[x] = orders[x]
           /\ orders'[a].status = sa /\ orders'[b].status = sb
           /\ \A x \in {a, b} :
                /\ orders'[x].rem = orders[x].rem - qty
                /\ orders'[x].filled = orders[x].filled + qty
                /\ orders'[x].orig = orders[x].orig
           /\ \A x \in OrderIds :
                /\ orders'[x].side = orders[x].side
                /\ orders'[x].type = orders[x].type
                /\ orders'[x].price = orders[x].price
                /\ orders'[x].seq = orders[x].seq
  <1>1. /\ orders[a] \in OrderRecords /\ orders[b] \in OrderRecords
        /\ a \in OrderIds /\ b \in OrderIds /\ a # b /\ qty \in Nat
        /\ qty <= orders[a].rem /\ qty <= orders[b].rem
        /\ sa \in Statuses /\ sb \in Statuses
        /\ orders' = [orders EXCEPT ![a] = Fill(a, qty, sa), ![b] = Fill(b, qty, sb)]
    BY DEF TypeOK, Trades
  <1>2. /\ Fill(a, qty, sa) \in OrderRecords
        /\ Fill(a, qty, sa).rem = orders[a].rem - qty
        /\ Fill(a, qty, sa).filled = orders[a].filled + qty
        /\ Fill(a, qty, sa).status = sa
        /\ Fill(a, qty, sa).orig = orders[a].orig
        /\ Fill(a, qty, sa).side = orders[a].side
        /\ Fill(a, qty, sa).type = orders[a].type
        /\ Fill(a, qty, sa).price = orders[a].price
        /\ Fill(a, qty, sa).seq = orders[a].seq
    BY <1>1, FillType
  <1>3. /\ Fill(b, qty, sb) \in OrderRecords
        /\ Fill(b, qty, sb).rem = orders[b].rem - qty
        /\ Fill(b, qty, sb).filled = orders[b].filled + qty
        /\ Fill(b, qty, sb).status = sb
        /\ Fill(b, qty, sb).orig = orders[b].orig
        /\ Fill(b, qty, sb).side = orders[b].side
        /\ Fill(b, qty, sb).type = orders[b].type
        /\ Fill(b, qty, sb).price = orders[b].price
        /\ Fill(b, qty, sb).seq = orders[b].seq
    BY <1>1, FillType
  <1>4. /\ orders'[a] = Fill(a, qty, sa) /\ orders'[b] = Fill(b, qty, sb)
        /\ \A x \in OrderIds \ {a, b} : orders'[x] = orders[x]
    BY <1>1 DEF TypeOK
  <1>5. orders' \in [OrderIds -> OrderRecords]
    BY <1>1, <1>2, <1>3 DEF TypeOK
  <1> QED
    BY <1>1, <1>2, <1>3, <1>4, <1>5

\* The trade itself is well-formed.
LEMMA RecordType ==
    ASSUME TypeOK, NEW a \in OrderIds, NEW b \in OrderIds, NEW price \in Nat,
           NEW qty \in Nat, Record(a, b, price, qty), UNCHANGED reported
    PROVE  /\ tape' \subseteq TradeRecords /\ batch' \subseteq tape'
           /\ reported' \subseteq tape' /\ nextSeq' \in Nat \ {0}
  BY DEF TypeOK, Record, TradeRecords

\* A trade keeps the balance of both of its orders.
LEMMA TradeBalance ==
    ASSUME TypeOK, QuantitiesBalance, NEW a, NEW b, NEW qty, NEW sa, NEW sb,
           Trades(a, b, qty, sa, sb),
           orders[a].status \notin Terminal, orders[b].status \notin Terminal,
           sa \in Terminal => sa = "filled" /\ orders[a].rem = qty,
           sb \in Terminal => sb = "filled" /\ orders[b].rem = qty
    PROVE  QuantitiesBalance'
  <1> SUFFICES ASSUME NEW x \in OrderIds
               PROVE  /\ orders'[x].status \notin Terminal =>
                           orders'[x].orig = orders'[x].filled + orders'[x].rem
                      /\ orders'[x].status \in Terminal =>
                           orders'[x].rem = 0 /\ orders'[x].filled <= orders'[x].orig
                      /\ orders'[x].status = "filled" => orders'[x].filled = orders'[x].orig
    BY DEF QuantitiesBalance
  <1>0. /\ orders' \in [OrderIds -> OrderRecords]
        /\ \A y \in OrderIds \ {a, b} : orders'[y] = orders[y]
        /\ orders'[a].status = sa /\ orders'[b].status = sb
        /\ \A y \in {a, b} :
             /\ orders'[y].rem = orders[y].rem - qty
             /\ orders'[y].filled = orders[y].filled + qty
             /\ orders'[y].orig = orders[y].orig
    BY TradeFacts
  <1>1. CASE x \in {a, b}
    <2>1. qty \in Nat /\ orders[x].filled \in Nat /\ orders[x].rem \in Nat /\ orders[x].orig \in Nat
      BY DEF TypeOK, OrderRecords, Trades
    <2>2. orders[x].orig = orders[x].filled + orders[x].rem
      BY <1>1 DEF QuantitiesBalance
    <2>3. orders'[x].orig = orders'[x].filled + orders'[x].rem
      BY <1>0, <1>1, <2>1, <2>2
    <2>4. orders'[x].filled \in Nat /\ orders'[x].rem \in Nat
      BY <1>0 DEF OrderRecords
    <2>5. orders'[x].status \in Terminal => orders'[x].status = "filled" /\ orders'[x].rem = 0
      BY <1>0, <1>1, <2>1
    <2> QED BY <2>3, <2>4, <2>5 DEF Terminal
  <1>2. CASE x \notin {a, b}
    BY <1>0, <1>2 DEF QuantitiesBalance
  <1> QED BY <1>1, <1>2

\* One trade of a continuous match.
LEMMA MatchBestStep == ASSUME IInv, MatchBest PROVE IInv'
  <1> USE DEF IInv
  <1> DEFINE o == op.id
  <1>1. o \in OrderIds /\ o \notin book /\ op.kind \in {"place", "amend"}
    BY MatchBestFacts
  <1>2. PICK r \in book, qty \in Nat \ {0} :
          /\ r \in OrderIds /\ r # o /\ Live(r) /\ orders[r].type = "limit"
          /\ qty <= orders[o].rem /\ qty <= orders[r].rem
          /\ orders' = [orders EXCEPT ![o] = Fill(o, qty, orders[o].status),
                                      ![r] = Fill(r, qty, RestingStatus(r, qty))]
          /\ book' = IF orders[r].rem = qty THEN book \ {r} ELSE book
          /\ IF orders[o].side = "buy" THEN Record(o, r, orders[r].price, qty)
                                       ELSE Record(r, o, orders[r].price, qty)
    BY MatchBestFacts
  <1>3. UNCHANGED <<op, reported, auctioned, stranded>>
    BY DEF MatchBest
  <1>4. RestingStatus(r, qty) \in Statuses /\ orders[o].status \in Statuses
    BY <1>1 DEF RestingStatus, Statuses, TypeOK, OrderRecords
  <1>0. Trades(o, r, qty, orders[o].status, RestingStatus(r, qty))
    BY <1>1, <1>2, <1>4 DEF Trades
  <1>5. /\ orders' \in [OrderIds -> OrderRecords]
        /\ \A x \in OrderIds \ {o, r} : orders'[x] = orders[x]
        /\ orders'[o].status = orders[o].status
        /\ orders'[r].status = RestingStatus(r, qty)
        /\ \A x \in {o, r} :
             /\ orders'[x].rem = orders[x].rem - qty
             /\ orders'[x].filled = orders[x].filled + qty
             /\ orders'[x].orig = orders[x].orig
        /\ \A x \in OrderIds :
             /\ orders'[x].side = orders[x].side
             /\ orders'[x].type = orders[x].type
             /\ orders'[x].price = orders[x].price
    BY <1>0, TradeFacts
  <1>6. orders[r].rem \in Nat /\ orders[r].price \in Nat /\ orders[r].rem > 0
    BY <1>2 DEF TypeOK, OrderRecords, Live
  <1>7. orders[o].status \in {"accepted", "amended"} /\ orders[r].status \notin Terminal
    BY <1>1, <1>2 DEF OpSound, Live, Active, Terminal
  <1>8. book' \subseteq book
    BY <1>2
  <1>9. TypeOK'
    <2>1. /\ tape' \subseteq TradeRecords /\ batch' \subseteq tape'
          /\ reported' \subseteq tape' /\ nextSeq' \in Nat \ {0}
      BY <1>1, <1>2, <1>3, <1>6, RecordType
    <2>2. drawn' = drawn BY DEF MatchBest
    <2> QED BY <1>3, <1>5, <1>8, <2>1, <2>2 DEF TypeOK
  <1>10. OpSound'
    BY <1>1, <1>3, <1>5 DEF OpSound, Matching
  <1>11. QuantitiesBalance'
    <2>1. RestingStatus(r, qty) \in Terminal =>
            RestingStatus(r, qty) = "filled" /\ orders[r].rem = qty
      BY DEF RestingStatus, Terminal
    <2>2. orders[o].status \notin Terminal
      BY <1>7 DEF Terminal
    <2> QED BY <1>7, <1>0, <2>1, <2>2, TradeBalance
  <1>12. BookSound'
    <2> SUFFICES ASSUME NEW x \in book'
                 PROVE  Live(x)' /\ orders'[x].type = "limit" /\ x # op'.id
      BY DEF BookSound
    <2>1. x \in book /\ x # o /\ x \in OrderIds /\ Live(x) /\ orders[x].type = "limit"
      BY <1>1, <1>8 DEF BookSound, TypeOK
    <2>2. CASE x = r
      <3>1. orders[r].rem # qty
        BY <1>2, <2>2
      <3>2. orders'[r].status = "partially_filled" /\ orders'[r].rem > 0
        BY <1>2, <1>5, <1>6, <3>1 DEF RestingStatus
      <3> QED BY <1>3, <1>5, <2>1, <2>2, <3>2 DEF Live, Active
    <2>3. CASE x # r
      BY <1>3, <1>5, <2>1, <2>3 DEF Live
    <2> QED BY <2>2, <2>3
  <1>13. LiveOrdersTracked'
    <2> SUFFICES ASSUME NEW x \in OrderIds, Live(x)', orders'[x].type = "limit", x # o
                 PROVE  x \in book' \cup stranded'
      BY <1>3 DEF LiveOrdersTracked
    <2>1. CASE x = r
      <3>1. orders[r].rem # qty
        BY <1>5, <1>6, <2>1 DEF Live
      <3> QED BY <1>2, <2>1, <3>1
    <2>2. CASE x # r
      <3>1. Live(x) /\ orders[x].type = "limit"
        BY <1>5, <2>2 DEF Live
      <3> QED BY <1>2, <1>3, <2>2, <3>1 DEF LiveOrdersTracked
    <2> QED BY <2>1, <2>2
  <1>14. NoUnmatchedCross'
    BY <1>3, <1>5, <1>8 DEF NoUnmatchedCross, Bids, Asks, TypeOK
  <1>15. AcceptedWants'
    <2>1. orders'[r].status \notin {"accepted", "absent"} /\ orders'[o].status # "absent"
      BY <1>5, <1>7 DEF RestingStatus
    <2> QED BY <1>3, <1>5, <2>1 DEF AcceptedWants
  <1> QED BY <1>9, <1>10, <1>11, <1>12, <1>13, <1>14, <1>15

\* The incoming order takes its final status, and its place in the book if it
\* is a limit order that still wants something and crosses nothing.
LEMMA FinishMatchStep == ASSUME IInv, FinishMatch PROVE IInv'
  <1> USE DEF IInv
  <1> DEFINE o == op.id
             left == IF orders[o].type = "market" THEN 0 ELSE orders[o].rem
  <1>1. /\ MatchDone /\ op' = Idle /\ batch' = {} /\ reported' = reported \cup batch
        /\ orders' = [orders EXCEPT ![o].status = FinalStatus(o),
                                    ![o].rem = IF orders[o].type = "market" THEN 0 ELSE @]
        /\ book' = IF orders[o].rem > 0 THEN WithAdded(o) ELSE book
        /\ UNCHANGED <<nextSeq, drawn, tape, auctioned, stranded>>
    BY DEF FinishMatch, Release
  <1>2. o \in OrderIds /\ o \notin book /\ orders[o] \in OrderRecords /\ Matching
    BY <1>1 DEF MatchDone, OpSound, BookSound, TypeOK
  <1>3. op'.id = NoOrder /\ op'.kind = "idle" /\ NoOrder \notin OrderIds /\ op'.price = 0
    BY <1>1, EngineAssumption DEF Idle
  <1>4. orders[o].status \in {"accepted", "amended"}
    BY <1>2 DEF OpSound, Matching
  <1>5. /\ orders[o].rem \in Nat /\ orders[o].filled \in Nat /\ orders[o].orig \in Nat
        /\ orders[o].orig = orders[o].filled + orders[o].rem
        /\ orders[o].type \in {"limit", "market"}
    BY <1>2, <1>4 DEF OrderRecords, QuantitiesBalance, Terminal
  <1>6. /\ orders[o].rem = 0 => FinalStatus(o) = "filled"
        /\ orders[o].rem > 0 /\ orders[o].type = "market" =>
             FinalStatus(o) \in {"cancelled", "rejected"}
        /\ orders[o].rem > 0 /\ orders[o].type = "limit" =>
             FinalStatus(o) \in {"partially_filled", "open"}
    BY <1>5 DEF FinalStatus
  <1>7. FinalStatus(o) \in Statuses
    BY <1>5, <1>6 DEF Statuses
  <1> HIDE DEF o
  <1>8. /\ orders' \in [OrderIds -> OrderRecords]
        /\ \A x \in OrderIds \ {o} : orders'[x] = orders[x]
        /\ orders'[o].status = FinalStatus(o) /\ orders'[o].rem = left
        /\ orders'[o].orig = orders[o].orig /\ orders'[o].filled = orders[o].filled
        /\ orders'[o].side = orders[o].side /\ orders'[o].type = orders[o].type
        /\ orders'[o].price = orders[o].price
    <2>1. /\ [orders[o] EXCEPT !.status = FinalStatus(o), !.rem = left] \in OrderRecords
          /\ [orders[o] EXCEPT !.status = FinalStatus(o), !.rem = left].status = FinalStatus(o)
          /\ [orders[o] EXCEPT !.status = FinalStatus(o), !.rem = left].rem = left
          /\ [orders[o] EXCEPT !.status = FinalStatus(o), !.rem = left].orig = orders[o].orig
          /\ [orders[o] EXCEPT !.status = FinalStatus(o), !.rem = left].filled = orders[o].filled
          /\ [orders[o] EXCEPT !.status = FinalStatus(o), !.rem = left].side = orders[o].side
          /\ [orders[o] EXCEPT !.status = FinalStatus(o), !.rem = left].type = orders[o].type
          /\ [orders[o] EXCEPT !.status = FinalStatus(o), !.rem = left].price = orders[o].price
      BY <1>2, <1>5, <1>7 DEF OrderRecords
    <2>2. orders' = [orders EXCEPT ![o] =
                       [orders[o] EXCEPT !.status = FinalStatus(o), !.rem = left]]
      BY <1>1, <1>2 DEF TypeOK, o
    <2> QED BY <1>2, <2>1, <2>2 DEF TypeOK
  <1>9. o \in book' => orders[o].type = "limit" /\ orders[o].rem > 0
    BY <1>1, <1>2, <1>5 DEF WithAdded, o
  <1>10. book \subseteq book' /\ book' \subseteq book \cup {o}
    BY <1>1 DEF WithAdded, o
  <1>11. TypeOK'
    BY <1>1, <1>2, <1>3, <1>8, <1>10 DEF TypeOK, Idle
  <1>12. OpSound'
    BY <1>3 DEF OpSound, Matching
  <1>13. QuantitiesBalance'
    <2> SUFFICES ASSUME NEW x \in OrderIds
                 PROVE  /\ orders'[x].status \notin Terminal =>
                             orders'[x].orig = orders'[x].filled + orders'[x].rem
                        /\ orders'[x].status \in Terminal =>
                             orders'[x].rem = 0 /\ orders'[x].filled <= orders'[x].orig
                        /\ orders'[x].status = "filled" => orders'[x].filled = orders'[x].orig
      BY DEF QuantitiesBalance
    <2>1. CASE x = o
      BY <1>5, <1>6, <1>8, <2>1 DEF Terminal, o
    <2>2. CASE x # o
      BY <1>8, <2>2 DEF QuantitiesBalance
    <2> QED BY <2>1, <2>2
  <1>14. BookSound'
    <2> SUFFICES ASSUME NEW x \in book'
                 PROVE  Live(x)' /\ orders'[x].type = "limit" /\ x # op'.id
      BY DEF BookSound
    <2>1. CASE x = o
      BY <1>2, <1>3, <1>6, <1>8, <1>9, <2>1 DEF Live, Active, o
    <2>2. CASE x # o
      BY <1>3, <1>8, <1>10, <2>2 DEF BookSound, Live, TypeOK
    <2> QED BY <2>1, <2>2
  <1>15. LiveOrdersTracked'
    <2> SUFFICES ASSUME NEW x \in OrderIds, Live(x)', orders'[x].type = "limit"
                 PROVE  x \in book' \cup stranded'
      BY DEF LiveOrdersTracked
    <2>1. CASE x = o
      BY <1>1, <1>5, <1>8, <2>1 DEF Live, WithAdded, o
    <2>2. CASE x # o
      BY <1>1, <1>8, <1>10, <2>2 DEF LiveOrdersTracked, Live, o
    <2> QED BY <2>1, <2>2
  <1>16. NoUnmatchedCross'
    <2> SUFFICES ASSUME NEW b \in book', NEW s \in book',
                        orders'[b].side = "buy", orders'[s].side = "sell",
                        orders'[b].price >= orders'[s].price
                 PROVE  b \in auctioned' \/ s \in auctioned'
      BY DEF NoUnmatchedCross, Bids, Asks
    <2>0. b \in OrderIds /\ s \in OrderIds
      BY <1>11 DEF TypeOK
    <2>1. CASE b # o /\ s # o
      BY <1>1, <1>8, <1>10, <2>0, <2>1 DEF NoUnmatchedCross, Bids, Asks
    <2>2. CASE b = o
      <3>1. s # o /\ s \in book /\ orders[s].side = "sell" /\ orders[o].side = "buy"
        BY <1>8, <1>10, <2>0, <2>2
      <3>2. s \in Opposite(orders[o].side)
        BY <3>1 DEF Opposite, Asks
      <3>3. ~Crosses(o, s)
        BY <1>1, <1>9, <2>2, <3>2 DEF MatchDone, o
      <3> QED BY <1>8, <2>0, <2>2, <3>1, <3>3 DEF Crosses
    <2>3. CASE s = o
      <3>1. b # o /\ b \in book /\ orders[b].side = "buy" /\ orders[o].side = "sell"
        BY <1>8, <1>10, <2>0, <2>3
      <3>2. b \in Opposite(orders[o].side)
        BY <3>1 DEF Opposite, Bids
      <3>3. ~Crosses(o, b)
        BY <1>1, <1>9, <2>3, <3>2 DEF MatchDone, o
      <3>4. orders[b].price \in Nat /\ orders[o].price \in Nat
        BY <1>2, <2>0 DEF TypeOK, OrderRecords
      <3> QED BY <1>8, <2>0, <2>3, <3>1, <3>3, <3>4 DEF Crosses
    <2> QED BY <2>1, <2>2, <2>3
  <1>17. AcceptedWants'
    <2>1. orders'[o].status \notin {"accepted", "absent"}
      BY <1>5, <1>6, <1>8 DEF o
    <2> QED BY <1>1, <1>8, <2>1 DEF AcceptedWants, o
  <1> QED BY <1>11, <1>12, <1>13, <1>14, <1>15, <1>16, <1>17

\* A bid and an ask at the top of the book, and the quantity they trade.
LEMMA UncrossBestFacts ==
    ASSUME IInv, UncrossBest
    PROVE  /\ op.kind = "uncross" /\ UNCHANGED <<op, reported, auctioned, stranded>>
           /\ \E b \in book, s \in book, qty \in Nat \ {0} :
                /\ Live(b) /\ Live(s)
                /\ Trades(b, s, qty, RestingStatus(b, qty), RestingStatus(s, qty))
                /\ book' = book \ {o \in {b, s} : orders[o].rem = qty}
                /\ Record(b, s, op.price, qty)
  <1>1. PICK p \in AuctionPair :
          LET b   == p[1]
              s   == p[2]
              qty == Lesser(orders[b].rem, orders[s].rem)
          IN  /\ orders' = [orders EXCEPT ![b] = Fill(b, qty, RestingStatus(b, qty)),
                                          ![s] = Fill(s, qty, RestingStatus(s, qty))]
              /\ book' = book \ {o \in {b, s} : orders[o].rem = qty}
              /\ Record(b, s, op.price, qty)
    BY DEF UncrossBest
  <1> DEFINE b == p[1]
             s == p[2]
             qty == Lesser(orders[b].rem, orders[s].rem)
  <1>2. b \in Bids /\ s \in Asks
    BY DEF AuctionPair, BestOf
  <1>3. b \in book /\ s \in book /\ b # s
    BY <1>2 DEF Bids, Asks
  <1>4. b \in OrderIds /\ s \in OrderIds /\ Live(b) /\ Live(s)
    BY <1>3 DEF IInv, TypeOK, BookSound
  <1>5. /\ orders[b].rem \in Nat /\ orders[s].rem \in Nat
        /\ orders[b].rem > 0 /\ orders[s].rem > 0
    BY <1>4 DEF IInv, TypeOK, OrderRecords, Live
  <1>6. qty \in Nat \ {0} /\ qty <= orders[b].rem /\ qty <= orders[s].rem
    BY <1>5 DEF Lesser
  <1>7. /\ orders' = [orders EXCEPT ![b] = Fill(b, qty, RestingStatus(b, qty)),
                                    ![s] = Fill(s, qty, RestingStatus(s, qty))]
        /\ book' = book \ {o \in {b, s} : orders[o].rem = qty}
        /\ Record(b, s, op.price, qty)
    BY <1>1
  <1> HIDE DEF qty, b, s
  <1>8. RestingStatus(b, qty) \in Statuses /\ RestingStatus(s, qty) \in Statuses
    BY DEF RestingStatus, Statuses
  <1>9. Trades(b, s, qty, RestingStatus(b, qty), RestingStatus(s, qty))
    BY <1>3, <1>4, <1>6, <1>7, <1>8 DEF Trades
  <1> QED
    BY <1>3, <1>4, <1>6, <1>7, <1>9 DEF UncrossBest

\* One trade of an auction: both orders were resting.
LEMMA UncrossBestStep == ASSUME IInv, UncrossBest PROVE IInv'
  <1> USE DEF IInv
  <1>1. op.kind = "uncross" /\ UNCHANGED <<op, reported, auctioned, stranded>>
    BY UncrossBestFacts
  <1>2. PICK b \in book, s \in book, qty \in Nat \ {0} :
          /\ Live(b) /\ Live(s)
          /\ Trades(b, s, qty, RestingStatus(b, qty), RestingStatus(s, qty))
          /\ book' = book \ {o \in {b, s} : orders[o].rem = qty}
          /\ Record(b, s, op.price, qty)
    BY UncrossBestFacts
  <1>3. /\ orders' \in [OrderIds -> OrderRecords]
        /\ \A x \in OrderIds \ {b, s} : orders'[x] = orders[x]
        /\ orders'[b].status = RestingStatus(b, qty)
        /\ orders'[s].status = RestingStatus(s, qty)
        /\ \A x \in {b, s} :
             /\ orders'[x].rem = orders[x].rem - qty
             /\ orders'[x].filled = orders[x].filled + qty
             /\ orders'[x].orig = orders[x].orig
        /\ \A x \in OrderIds :
             /\ orders'[x].side = orders[x].side
             /\ orders'[x].type = orders[x].type
             /\ orders'[x].price = orders[x].price
    BY <1>2, TradeFacts
  <1>4. /\ b \in OrderIds /\ s \in OrderIds /\ op.price \in Nat /\ op.id = NoOrder
        /\ NoOrder \notin OrderIds
    BY <1>1, EngineAssumption DEF TypeOK, OpSound
  <1>5. /\ orders[b].rem \in Nat /\ orders[s].rem \in Nat
        /\ qty <= orders[b].rem /\ qty <= orders[s].rem
    BY <1>2, <1>4 DEF TypeOK, OrderRecords, Trades
  <1>6. book' \subseteq book
    BY <1>2
  <1>7. TypeOK'
    <2>1. /\ tape' \subseteq TradeRecords /\ batch' \subseteq tape'
          /\ reported' \subseteq tape' /\ nextSeq' \in Nat \ {0}
      BY <1>1, <1>2, <1>4, RecordType
    <2>2. drawn' = drawn BY DEF UncrossBest
    <2> QED BY <1>1, <1>3, <1>6, <2>1, <2>2 DEF TypeOK
  <1>8. OpSound'
    BY <1>1 DEF OpSound, Matching
  <1>9. QuantitiesBalance'
    <2>1. orders[b].status \notin Terminal /\ orders[s].status \notin Terminal
      BY <1>2 DEF Live, Active, Terminal
    <2>2. /\ RestingStatus(b, qty) \in Terminal =>
               RestingStatus(b, qty) = "filled" /\ orders[b].rem = qty
          /\ RestingStatus(s, qty) \in Terminal =>
               RestingStatus(s, qty) = "filled" /\ orders[s].rem = qty
      BY DEF RestingStatus, Terminal
    <2> QED BY <1>2, <2>1, <2>2, TradeBalance
  <1>10. \A x \in {b, s} :
           /\ x \in book' => orders'[x].status = "partially_filled" /\ orders'[x].rem > 0
           /\ x \notin book' => orders'[x].rem = 0
    BY <1>2, <1>3, <1>5 DEF RestingStatus
  <1>11. BookSound'
    <2> SUFFICES ASSUME NEW x \in book'
                 PROVE  Live(x)' /\ orders'[x].type = "limit" /\ x # op'.id
      BY DEF BookSound
    <2>1. x \in OrderIds /\ Live(x) /\ orders[x].type = "limit"
      BY <1>6 DEF BookSound, TypeOK
    <2>2. CASE x \in {b, s}
      BY <1>1, <1>3, <1>4, <1>10, <2>1, <2>2 DEF Live, Active
    <2>3. CASE x \notin {b, s}
      BY <1>1, <1>3, <1>4, <2>1, <2>3 DEF Live
    <2> QED BY <2>2, <2>3
  <1>12. LiveOrdersTracked'
    <2> SUFFICES ASSUME NEW x \in OrderIds, Live(x)', orders'[x].type = "limit"
                 PROVE  x \in book' \cup stranded'
      BY DEF LiveOrdersTracked
    <2>1. CASE x \in {b, s}
      BY <1>10, <2>1 DEF Live
    <2>2. CASE x \notin {b, s}
      <3>1. Live(x) /\ orders[x].type = "limit"
        BY <1>3, <2>2 DEF Live
      <3> QED BY <1>1, <1>2, <1>4, <2>2, <3>1 DEF LiveOrdersTracked
    <2> QED BY <2>1, <2>2
  <1>13. NoUnmatchedCross'
    BY <1>1, <1>3, <1>6 DEF NoUnmatchedCross, Bids, Asks, TypeOK
  <1>14. AcceptedWants'
    <2>1. \A x \in {b, s} : orders'[x].status \notin {"accepted", "absent"}
      BY <1>3 DEF RestingStatus
    <2> QED BY <1>1, <1>3, <2>1 DEF AcceptedWants
  <1> QED BY <1>7, <1>8, <1>9, <1>11, <1>12, <1>13, <1>14

\* A number is drawn for an amendment.
LEMMA DrawNumberStep == ASSUME IInv, DrawNumber PROVE IInv'
  <1>1. /\ UNCHANGED <<orders, book, op, tape, batch, reported, auctioned, stranded>>
        /\ drawn' = drawn \cup {nextSeq} /\ nextSeq' = nextSeq + 1
    BY DEF DrawNumber
  <1>2. TypeOK' BY <1>1 DEF IInv, TypeOK
  <1> QED
    BY <1>1, <1>2 DEF IInv, AcceptedWants, OpSound, QuantitiesBalance, BookSound,
       LiveOrdersTracked, NoUnmatchedCross, Matching, Live, Bids, Asks

\* Steps that change nothing.
LEMMA StutterStep == ASSUME IInv, UNCHANGED vars PROVE IInv'
  BY DEF vars, IInv, TypeOK, AcceptedWants, OpSound, QuantitiesBalance, BookSound,
         LiveOrdersTracked, NoUnmatchedCross, Matching, Live, Bids, Asks

LEMMA NextIInv == ASSUME IInv, [Next]_vars PROVE IInv'
  <1>1. ASSUME NEW o \in OrderIds, Accept(o) PROVE IInv'
    BY <1>1, AcceptStep
  <1>2. ASSUME NEW o \in OrderIds, BeginPlace(o) PROVE IInv'
    BY <1>2, BeginPlaceStep
  <1>3. ASSUME NEW o \in OrderIds, PlaceAuction(o) PROVE IInv'
    BY <1>3, PlaceAuctionStep
  <1>4. ASSUME NEW o \in OrderIds, NEW n \in drawn, NEW price \in Prices, NEW qty \in Quantities,
               BeginAmend(o, n, price, qty)
        PROVE  IInv'
    BY <1>4, BeginAmendStep
  <1>5. ASSUME NEW o \in OrderIds, NEW n \in drawn, NEW price \in Prices, NEW qty \in Quantities,
               AmendBelowFilled(o, n, price, qty)
        PROVE  IInv'
    BY <1>5, AmendBelowFilledStep
  <1>6. ASSUME MatchBest PROVE IInv'
    BY <1>6, MatchBestStep
  <1>7. ASSUME FinishMatch PROVE IInv'
    BY <1>7, FinishMatchStep
  <1>8. ASSUME BeginUncross PROVE IInv'
    BY <1>8, BeginUncrossStep
  <1>9. ASSUME UncrossBest PROVE IInv'
    BY <1>9, UncrossBestStep
  <1>10. ASSUME FinishUncross PROVE IInv'
    BY <1>10, FinishUncrossStep
  <1>11. ASSUME SequenceFails PROVE IInv'
    BY <1>11, SequenceFailsStep
  <1>12. ASSUME NEW o \in OrderIds, Cancel(o) PROVE IInv'
    BY <1>12, CancelStep
  <1>13. ASSUME ExpireOpenOrders PROVE IInv'
    BY <1>13, ExpireStep
  <1>14. ASSUME Rest \/ UNCHANGED vars PROVE IInv'
    BY <1>14, StutterStep DEF Rest
  <1>15. ASSUME DrawNumber PROVE IInv'
    BY <1>15, DrawNumberStep
  <1> QED
    BY <1>1, <1>2, <1>3, <1>4, <1>5, <1>6, <1>7, <1>8, <1>9, <1>10, <1>11, <1>12, <1>13,
       <1>14, <1>15 DEF Next
-----------------------------------------------------------------------------
\* The inductive invariant holds in every reachable state.
THEOREM Invariance == Spec => []IInv
  BY InitIInv, NextIInv, PTL DEF Spec

\* Every reachable state is well-typed, for every set of orders and prices.
THEOREM TypeCorrect == Spec => []TypeOK
  <1>1. IInv => TypeOK
    BY DEF IInv
  <1> QED BY <1>1, Invariance, PTL

\* Matching, amending and failing half-way neither create nor destroy quantity.
THEOREM QuantitiesBalanceHolds == Spec => []QuantitiesBalance
  <1>1. IInv => QuantitiesBalance
    BY DEF IInv
  <1> QED BY <1>1, Invariance, PTL

\* Only live limit orders with quantity left rest in the book.
THEOREM BookSoundHolds == Spec => []BookSound
  <1>1. IInv => BookSound
    BY DEF IInv
  <1> QED BY <1>1, Invariance, PTL

\* No live limit order drops out of the book, save those of a failed method.
THEOREM LiveOrdersTrackedHolds == Spec => []LiveOrdersTracked
  <1>1. IInv => LiveOrdersTracked
    BY DEF IInv
  <1> QED BY <1>1, Invariance, PTL

\* Continuous matching never leaves the book crossed.
THEOREM NoUnmatchedCrossHolds == Spec => []NoUnmatchedCross
  <1>1. IInv => NoUnmatchedCross
    BY DEF IInv
  <1> QED BY <1>1, Invariance, PTL
-----------------------------------------------------------------------------
\* What ClosedForGood says of one order.
Kept(o) == /\ orders[o].status \in Terminal => orders'[o] = orders[o]
           /\ orders'[o].filled >= orders[o].filled

\* A trade leaves the other orders alone and adds to the fills of its own two.
LEMMA TradeKeeps ==
    ASSUME TypeOK, NEW a, NEW b, NEW qty, NEW sa, NEW sb, Trades(a, b, qty, sa, sb),
           orders[a].status \notin Terminal, orders[b].status \notin Terminal,
           NEW x \in OrderIds
    PROVE  Kept(x)
  <1>1. /\ \A y \in OrderIds \ {a, b} : orders'[y] = orders[y]
        /\ \A y \in {a, b} : orders'[y].filled = orders[y].filled + qty
    BY TradeFacts
  <1>2. orders[x].filled \in Nat /\ qty \in Nat
    BY DEF TypeOK, OrderRecords, Trades
  <1> QED BY <1>1, <1>2 DEF Kept

\* No step of the engine touches a closed order or takes a fill back.
LEMMA NextKeeps == ASSUME IInv, [Next]_vars, NEW x \in OrderIds PROVE Kept(x)
  <1> USE DEF IInv
  <1>1. orders[x] \in OrderRecords /\ orders[x].filled \in Nat
    BY DEF TypeOK, OrderRecords
  <1>2. ASSUME NEW o \in OrderIds, Accept(o) PROVE Kept(x)
    <2>1. orders[o].status = "absent" /\ orders[o].filled = 0
      BY <1>2 DEF Accept, AcceptedWants
    <2>2. orders'[o].filled = 0 /\ \A y \in OrderIds \ {o} : orders'[y] = orders[y]
      BY <1>2 DEF Accept, TypeOK
    <2> QED BY <1>1, <2>1, <2>2 DEF Kept, Terminal
  <1>3. ASSUME NEW o \in OrderIds, PlaceAuction(o) PROVE Kept(x)
    <2>1. /\ orders[o].status = "accepted" /\ orders'[o].filled = orders[o].filled
          /\ \A y \in OrderIds \ {o} : orders'[y] = orders[y]
      BY <1>3 DEF PlaceAuction, TypeOK, OrderRecords
    <2> QED BY <1>1, <2>1 DEF Kept, Terminal
  <1>4. ASSUME NEW o \in OrderIds, NEW n \in drawn, NEW price \in Prices, NEW qty \in Quantities,
               BeginAmend(o, n, price, qty)
        PROVE  Kept(x)
    <2>1. /\ Live(o) /\ orders'[o].filled = orders[o].filled
          /\ \A y \in OrderIds \ {o} : orders'[y] = orders[y]
      BY <1>4 DEF BeginAmend, Amended, AmendReady, TypeOK, OrderRecords
    <2> QED BY <1>1, <2>1 DEF Kept, Terminal, Live, Active
  <1>5. ASSUME NEW o \in OrderIds, NEW n \in drawn, NEW price \in Prices, NEW qty \in Quantities,
               AmendBelowFilled(o, n, price, qty)
        PROVE  Kept(x)
    <2>1. /\ Live(o) /\ orders'[o].filled = orders[o].filled
          /\ \A y \in OrderIds \ {o} : orders'[y] = orders[y]
      BY <1>5 DEF AmendBelowFilled, AmendReady, TypeOK, OrderRecords
    <2> QED BY <1>1, <2>1 DEF Kept, Terminal, Live, Active
  <1>6. ASSUME MatchBest PROVE Kept(x)
    <2>1. PICK r \in book, qty \in Nat \ {0} :
            /\ r \in OrderIds /\ r # op.id /\ Live(r)
            /\ qty <= orders[op.id].rem /\ qty <= orders[r].rem
            /\ orders' = [orders EXCEPT ![op.id] = Fill(op.id, qty, orders[op.id].status),
                                        ![r] = Fill(r, qty, RestingStatus(r, qty))]
      BY <1>6, MatchBestFacts
    <2>2. op.id \in OrderIds /\ op.kind \in {"place", "amend"}
      BY <1>6, MatchBestFacts
    <2>3. orders[op.id].status \in Statuses /\ RestingStatus(r, qty) \in Statuses
      BY <2>2 DEF TypeOK, OrderRecords, RestingStatus, Statuses
    <2>4. Trades(op.id, r, qty, orders[op.id].status, RestingStatus(r, qty))
      BY <2>1, <2>2, <2>3 DEF Trades
    <2>5. orders[op.id].status \notin Terminal /\ orders[r].status \notin Terminal
      BY <2>1, <2>2 DEF OpSound, Live, Active, Terminal
    <2> QED BY <2>4, <2>5, TradeKeeps
  <1>7. ASSUME FinishMatch PROVE Kept(x)
    <2>1. /\ op.id \in OrderIds /\ orders[op.id].status \notin Terminal
          /\ orders'[op.id].filled = orders[op.id].filled
          /\ \A y \in OrderIds \ {op.id} : orders'[y] = orders[y]
      BY <1>7 DEF FinishMatch, MatchDone, OpSound, Matching, Terminal, TypeOK, OrderRecords
    <2> QED BY <1>1, <2>1 DEF Kept
  <1>8. ASSUME UncrossBest PROVE Kept(x)
    <2>1. PICK b \in book, s \in book, qty \in Nat \ {0} :
            /\ Live(b) /\ Live(s)
            /\ Trades(b, s, qty, RestingStatus(b, qty), RestingStatus(s, qty))
      BY <1>8, UncrossBestFacts
    <2>2. orders[b].status \notin Terminal /\ orders[s].status \notin Terminal
      BY <2>1 DEF Live, Active, Terminal
    <2> QED BY <2>1, <2>2, TradeKeeps
  <1>9. ASSUME NEW o \in OrderIds, Cancel(o) PROVE Kept(x)
    <2>1. /\ Live(o) /\ orders'[o].filled = orders[o].filled
          /\ \A y \in OrderIds \ {o} : orders'[y] = orders[y]
      BY <1>9 DEF Cancel, TypeOK, OrderRecords
    <2> QED BY <1>1, <2>1 DEF Kept, Terminal, Live, Active
  <1>10. ASSUME ExpireOpenOrders PROVE Kept(x)
    <2>1. /\ orders'[x].filled = orders[x].filled
          /\ ~Live(x) => orders'[x] = orders[x]
      BY <1>10 DEF ExpireOpenOrders, TypeOK, OrderRecords
    <2> QED BY <1>1, <2>1 DEF Kept, Terminal, Live, Active
  <1>11. ASSUME UNCHANGED orders PROVE Kept(x)
    BY <1>1, <1>11 DEF Kept
  <1> QED
    BY <1>2, <1>3, <1>4, <1>5, <1>6, <1>7, <1>8, <1>9, <1>10, <1>11
       DEF Next, DrawNumber, BeginPlace, BeginUncross, FinishUncross, SequenceFails, Rest, vars

\* A closed order stays as it is, and no order ever loses a fill.
THEOREM ClosedForGoodHolds == Spec => ClosedForGood
  <1>1. ASSUME IInv, [Next]_vars
        PROVE  [\A o \in OrderIds :
                  /\ orders[o].status \in Terminal => orders'[o] = orders[o]
                  /\ orders'[o].filled >= orders[o].filled]_vars
    BY <1>1, NextKeeps DEF Kept
  <1> QED BY <1>1, Invariance, PTL DEF Spec, ClosedForGood
-----------------------------------------------------------------------------
\* What PriorityHonoured says of one trade that took the resting order r.
NotPassedOver(r) ==
    \A o \in OrderIds \ (stranded \cup {op.id}) :
       Live(o) /\ orders[o].type = "limit" /\ orders[o].side = orders[r].side
         => ~Before(o, r)

\* Priority is antisymmetric on order records.
LEMMA BeforeAntisymmetric ==
    ASSUME TypeOK, NEW a \in OrderIds, NEW b \in OrderIds,
           orders[a].side = orders[b].side, Before(a, b)
    PROVE  ~Before(b, a)
  <1>1. /\ orders[a].price \in Nat /\ orders[b].price \in Nat
        /\ orders[a].seq \in Nat /\ orders[b].seq \in Nat
    BY DEF TypeOK, OrderRecords
  <1> QED BY <1>1 DEF Before

\* The head of a side of the book is behind nobody: every live limit order that
\* is not being matched and whose amendment did not fail rests in the book.
LEMMA BestNotPassedOver ==
    ASSUME IInv, NEW side \in Sides,
           NEW r \in BestOf({x \in book : orders[x].side = side})
    PROVE  NotPassedOver(r)
  <1> USE DEF IInv
  <1>1. r \in book /\ r \in OrderIds /\ orders[r].side = side
    BY DEF BestOf, TypeOK
  <1>2. ASSUME NEW o \in OrderIds \ (stranded \cup {op.id}),
               Live(o), orders[o].type = "limit", orders[o].side = orders[r].side
        PROVE  ~Before(o, r)
    <2>1. o \in {x \in book : orders[x].side = side}
      BY <1>1, <1>2 DEF LiveOrdersTracked
    <2>2. CASE o = r
      <3>1. orders[r].price \in Nat /\ orders[r].seq \in Nat
        BY <1>1 DEF TypeOK, OrderRecords
      <3> QED BY <2>2, <3>1 DEF Before
    <2>3. CASE o # r
      <3>1. Before(r, o)
        BY <2>1, <2>3 DEF BestOf
      <3> QED BY <1>1, <1>2, <3>1, BeforeAntisymmetric
    <2> QED BY <2>2, <2>3
  <1> QED BY <1>2 DEF NotPassedOver

\* A trade of the step is the one that it records.
LEMMA NewTrade ==
    ASSUME NEW a, NEW b, NEW price, NEW qty, Record(a, b, price, qty),
           NEW t \in tape' \ tape
    PROVE  t.buy = a /\ t.sell = b
  BY DEF Record

\* Only the two loop bodies trade.
LEMMA NextTrades == ASSUME [Next]_vars PROVE MatchBest \/ UncrossBest \/ UNCHANGED tape
  <1>1. \A o \in OrderIds :
          Accept(o) \/ BeginPlace(o) \/ PlaceAuction(o) \/ Cancel(o) => UNCHANGED tape
    BY DEF Accept, BeginPlace, PlaceAuction, Cancel
  <1>2. \A o \in OrderIds, n \in drawn, price \in Prices, qty \in Quantities :
          BeginAmend(o, n, price, qty) \/ AmendBelowFilled(o, n, price, qty) => UNCHANGED tape
    BY DEF BeginAmend, Amended, AmendBelowFilled
  <1>3. FinishMatch \/ BeginUncross \/ FinishUncross \/ SequenceFails \/ ExpireOpenOrders
          \/ DrawNumber => UNCHANGED tape
    BY DEF DrawNumber, FinishMatch, BeginUncross, FinishUncross, SequenceFails, ExpireOpenOrders
  <1>4. Rest \/ UNCHANGED vars => UNCHANGED tape
    BY DEF Rest, vars
  <1> QED BY <1>1, <1>2, <1>3, <1>4 DEF Next

\* No new trade takes an order while a better one of its side waits.
LEMMA NextHonours ==
    ASSUME IInv, [Next]_vars, NEW t \in tape' \ tape, NEW r \in {t.buy, t.sell} \ {op.id}
    PROVE  NotPassedOver(r)
  <1>1. ASSUME MatchBest PROVE NotPassedOver(r)
    <2>1. PICK c \in Counterparty :
            LET qty == Lesser(orders[op.id].rem, orders[c].rem)
            IN  IF orders[op.id].side = "buy" THEN Record(op.id, c, orders[c].price, qty)
                                              ELSE Record(c, op.id, orders[c].price, qty)
      BY <1>1 DEF MatchBest
    <2>2. r = c
      BY <2>1, NewTrade
    <2>3. PICK side \in Sides : Opposite(orders[op.id].side) = {x \in book : orders[x].side = side}
      BY DEF Opposite, Bids, Asks, Sides
    <2>4. c \in BestOf({x \in book : orders[x].side = side})
      BY <2>3 DEF Counterparty
    <2> QED BY <2>2, <2>4, BestNotPassedOver
  <1>2. ASSUME UncrossBest PROVE NotPassedOver(r)
    <2>1. PICK p \in AuctionPair :
            Record(p[1], p[2], op.price, Lesser(orders[p[1]].rem, orders[p[2]].rem))
      BY <1>2 DEF UncrossBest
    <2>2. r \in {p[1], p[2]}
      BY <2>1, NewTrade
    <2>3. p[1] \in BestOf(Bids) /\ p[2] \in BestOf(Asks)
      BY DEF AuctionPair
    <2>4. NotPassedOver(p[1])
      BY <2>3, BestNotPassedOver DEF Bids, Sides
    <2>5. NotPassedOver(p[2])
      BY <2>3, BestNotPassedOver DEF Asks, Sides
    <2> QED BY <2>2, <2>4, <2>5
  <1>3. ASSUME UNCHANGED tape PROVE NotPassedOver(r)
    BY <1>3
  <1>4. MatchBest \/ UncrossBest \/ UNCHANGED tape BY NextTrades
  <1> QED
    BY <1>1, <1>2, <1>3, <1>4

\* Price-time priority over all live orders: no trade takes a resting order
\* while a better one of the same side waits.
THEOREM PriorityHonouredHolds == Spec => PriorityHonoured
  <1>1. ASSUME IInv, [Next]_vars
        PROVE  [\A t \in tape' \ tape, o \in OrderIds \ (stranded \cup {op.id}) :
                  Live(o) /\ orders[o].type = "limit" =>
                    \A r \in {t.buy, t.sell} \ {op.id} :
                       orders[o].side = orders[r].side => ~Before(o, r)]_vars
    BY <1>1, NextHonours DEF NotPassedOver
  <1> QED BY <1>1, Invariance, PTL DEF Spec, PriorityHonoured

\* A trade is between a buyer and a seller, at a price both have accepted.
TradeAccepted(t) ==
    /\ t.buy \in OrderIds /\ orders[t.buy].side = "buy"
    /\ t.sell \in OrderIds /\ orders[t.sell].side = "sell"
    /\ orders[t.buy].type = "limit" => t.price <= orders[t.buy].price
    /\ orders[t.sell].type = "limit" => t.price >= orders[t.sell].price

LimitsHonoured == [][\A t \in tape' \ tape : TradeAccepted(t)]_vars

LEMMA NextLimits ==
    ASSUME IInv, [Next]_vars, NEW t \in tape' \ tape
    PROVE  TradeAccepted(t)
  <1> USE DEF IInv
  <1>1. CASE MatchBest
    <2>1. PICK c \in Counterparty :
            LET qty == Lesser(orders[op.id].rem, orders[c].rem)
            IN  IF orders[op.id].side = "buy" THEN Record(op.id, c, orders[c].price, qty)
                                              ELSE Record(c, op.id, orders[c].price, qty)
      BY <1>1 DEF MatchBest
    <2>2. op.id \in OrderIds BY <1>1, MatchBestFacts
    <2>3. c \in Opposite(orders[op.id].side) /\ Crosses(op.id, c) BY DEF Counterparty, BestOf
    <2>4. c \in book /\ c \in OrderIds BY <2>3 DEF Opposite, Bids, Asks, TypeOK
    <2>5. orders[op.id].side \in {"buy", "sell"} /\ orders[op.id].price \in Nat
          /\ orders[c].price \in Nat
      BY <2>2, <2>4 DEF TypeOK, OrderRecords, Sides
    <2>6. CASE orders[op.id].side = "buy"
      <3>1. t.buy = op.id /\ t.sell = c /\ t.price = orders[c].price
        BY <2>1, <2>6 DEF Record
      <3>2. orders[c].side = "sell" BY <2>3, <2>6 DEF Opposite, Asks
      <3>3. orders[op.id].type = "limit" => orders[op.id].price >= orders[c].price
        BY <2>3, <2>6 DEF Crosses
      <3> QED BY <2>2, <2>4, <2>5, <2>6, <3>1, <3>2, <3>3 DEF TradeAccepted
    <2>7. CASE orders[op.id].side = "sell"
      <3>1. t.buy = c /\ t.sell = op.id /\ t.price = orders[c].price
        BY <2>1, <2>7 DEF Record
      <3>2. orders[c].side = "buy" BY <2>3, <2>7 DEF Opposite, Bids
      <3>3. orders[op.id].type = "limit" => orders[op.id].price <= orders[c].price
        BY <2>3, <2>7 DEF Crosses
      <3> QED BY <2>2, <2>4, <2>5, <2>7, <3>1, <3>2, <3>3 DEF TradeAccepted
    <2> QED BY <2>5, <2>6, <2>7
  <1>2. CASE UncrossBest
    <2>1. PICK p \in AuctionPair :
            Record(p[1], p[2], op.price, Lesser(orders[p[1]].rem, orders[p[2]].rem))
      BY <1>2 DEF UncrossBest
    <2>2. t.buy = p[1] /\ t.sell = p[2] /\ t.price = op.price BY <2>1 DEF Record
    <2>3. /\ p[1] \in book /\ orders[p[1]].side = "buy" /\ orders[p[1]].price >= op.price
          /\ p[2] \in book /\ orders[p[2]].side = "sell" /\ orders[p[2]].price <= op.price
      BY DEF AuctionPair, BestOf, Bids, Asks
    <2>4. /\ p[1] \in OrderIds /\ p[2] \in OrderIds /\ op.price \in Nat
          /\ orders[p[1]].price \in Nat /\ orders[p[2]].price \in Nat
      BY <2>3 DEF TypeOK, OrderRecords
    <2> QED BY <2>2, <2>3, <2>4 DEF TradeAccepted
  <1>3. ~(UNCHANGED tape) OBVIOUS
  <1> QED BY <1>1, <1>2, <1>3, NextTrades

\* Nobody pays more than the limit of a bid or gets less than that of an ask,
\* in continuous matching and in an auction, also after an amendment.
THEOREM LimitsHonouredHolds == Spec => LimitsHonoured
  <1>1. IInv /\ [Next]_vars => [\A t \in tape' \ tape : TradeAccepted(t)]_vars
    BY NextLimits
  <1> QED BY <1>1, Invariance, PTL DEF Spec, LimitsHonoured
-----------------------------------------------------------------------------
(***************************************************************************)
(* Fills and trades, and what an auction leaves.  A number is drawn once,  *)
(* so that a trade is new to the tape and the orders of one side are in    *)
(* one queue.  An auction price is one at which nothing more could be      *)
(* executed; trading the best pair keeps it so.                            *)
(***************************************************************************)
Entered(o) == orders[o].status # "absent"

Numbered ==
    /\ \A o \in OrderIds : Entered(o) => orders[o].seq < nextSeq
    /\ \A o, p \in OrderIds : o # p /\ Entered(o) /\ Entered(p) => orders[o].seq # orders[p].seq
    /\ \A t \in tape : t.seq < nextSeq
    /\ \A n \in drawn : n < nextSeq /\ \A o \in OrderIds : Entered(o) => orders[o].seq # n
    /\ IsFiniteSet(tape) /\ IsFiniteSet(book)

\* No price that an order still names executes more than the auction price.
NothingMoreAt(price) ==
    \A q \in Candidates(orders, book) :
       Executable(orders, book, q) <= Executable(orders, book, price)

AuctionOK == op.kind = "uncross" => NothingMoreAt(op.price)

FillsInv == IInv /\ Numbered /\ FillsMatchTape /\ AuctionOK

\* Two orders trade.
Trading(a, b) ==
    \E price, qty \in Nat :
       /\ a # b /\ Record(a, b, price, qty)
       /\ \A x \in {a, b} : orders'[x].filled = orders[x].filled + qty

\* A step gives at most one order a number: a new one, or one drawn before.
NumberKept(x) == orders'[x].seq = orders[x].seq /\ (Entered(x) <=> Entered(x)')

NumberTaken(o) == \/ orders'[o].seq = nextSeq /\ nextSeq' = nextSeq + 1
                  \/ orders'[o].seq \in drawn \ drawn'

OneNumber(o) ==
    /\ drawn' \subseteq drawn
    /\ \A x \in OrderIds \ {o} : NumberKept(x)
    /\ o \in OrderIds => NumberKept(o) \/ NumberTaken(o)

\* A step without a trade leaves tape and fills alone.
Quiet ==
    /\ tape' = tape /\ nextSeq' \in {nextSeq, nextSeq + 1}
    /\ \A x \in OrderIds : orders'[x].filled = orders[x].filled
    /\ DrawNumber \/ \E o \in OrderIds \cup {NoOrder} : OneNumber(o)

Shape == \/ Quiet
         \/ /\ \E a, b \in OrderIds : Trading(a, b) /\ \A x \in OrderIds \ {a, b} : orders'[x] = orders[x]
            /\ drawn' = drawn /\ \A x \in OrderIds : NumberKept(x)

BookGrowsByOne == \E z \in OrderIds \cup {NoOrder} : book' \subseteq book \cup {z}

LEMMA UnchangedIsQuiet ==
    ASSUME TypeOK, UNCHANGED <<orders, tape, nextSeq, drawn>>
    PROVE  Quiet
  <1>1. \A x \in OrderIds : NumberKept(x) BY DEF NumberKept, Entered
  <1>2. OneNumber(NoOrder) BY <1>1, EngineAssumption DEF OneNumber
  <1> QED BY <1>2 DEF Quiet, TypeOK

\* One order is written, and no trade made.
LEMMA OneOrderIsQuiet ==
    ASSUME TypeOK, tape' = tape, nextSeq' \in {nextSeq, nextSeq + 1}, drawn' \subseteq drawn,
           NEW o \in OrderIds,
           \A x \in OrderIds \ {o} : orders'[x] = orders[x],
           orders'[o].filled = orders[o].filled,
           NumberKept(o) \/ NumberTaken(o)
    PROVE  Quiet
  <1>1. \A x \in OrderIds \ {o} : NumberKept(x) BY DEF NumberKept, Entered
  <1>2. OneNumber(o) BY <1>1 DEF OneNumber
  <1> QED BY <1>2 DEF Quiet

LEMMA TradesAreTrading ==
    ASSUME TypeOK, NEW a, NEW b, NEW qty, NEW sa, NEW sb, NEW price \in Nat,
           Trades(a, b, qty, sa, sb), orders[a].status # "absent", orders[b].status # "absent",
           sa # "absent", sb # "absent",
           Record(a, b, price, qty) \/ Record(b, a, price, qty), drawn' = drawn
    PROVE  Shape
  <1>1. /\ \A x \in OrderIds \ {a, b} : orders'[x] = orders[x]
        /\ orders'[a].status = sa /\ orders'[b].status = sb
        /\ \A x \in {a, b} : orders'[x].filled = orders[x].filled + qty
        /\ \A x \in OrderIds : orders'[x].seq = orders[x].seq
    BY TradeFacts
  <1>2. a \in OrderIds /\ b \in OrderIds /\ a # b /\ qty \in Nat BY DEF Trades
  <1>3. \A x \in OrderIds : NumberKept(x) BY <1>1, <1>2 DEF NumberKept, Entered
  <1>4. Trading(a, b) \/ Trading(b, a) BY <1>1, <1>2 DEF Trading
  <1> QED BY <1>1, <1>2, <1>3, <1>4 DEF Shape

LEMMA NextShape == ASSUME IInv, [Next]_vars PROVE Shape
  <1> USE DEF IInv
  <1>1. nextSeq \in Nat /\ \A x \in OrderIds : orders[x] \in OrderRecords
    BY DEF TypeOK
  <1>2. ASSUME NEW o \in OrderIds, Accept(o) PROVE Quiet
    <2>1. orders[o].status = "absent" /\ orders[o].filled = 0
      BY <1>2 DEF Accept, AcceptedWants
    <2>2. /\ orders'[o].filled = 0 /\ orders'[o].seq = nextSeq /\ nextSeq' = nextSeq + 1
          /\ tape' = tape /\ drawn' = drawn /\ \A y \in OrderIds \ {o} : orders'[y] = orders[y]
      BY <1>2 DEF Accept, TypeOK
    <2> QED BY <2>1, <2>2, OneOrderIsQuiet DEF NumberTaken
  <1>3. ASSUME NEW o \in OrderIds, PlaceAuction(o) PROVE Quiet
    <2>1. /\ orders[o].status = "accepted" /\ orders'[o].filled = orders[o].filled
          /\ orders'[o].seq = orders[o].seq /\ orders'[o].status = "open"
          /\ \A y \in OrderIds \ {o} : orders'[y] = orders[y]
          /\ tape' = tape /\ nextSeq' = nextSeq /\ drawn' = drawn
      BY <1>3 DEF PlaceAuction, TypeOK, OrderRecords
    <2> QED BY <2>1, OneOrderIsQuiet DEF NumberKept, Entered
  <1>4. ASSUME NEW o \in OrderIds, NEW n \in drawn, NEW price \in Prices, NEW qty \in Quantities,
               BeginAmend(o, n, price, qty)
        PROVE  Quiet
    <2>1. /\ orders'[o].filled = orders[o].filled /\ orders'[o].seq = n
          /\ \A y \in OrderIds \ {o} : orders'[y] = orders[y]
          /\ tape' = tape /\ nextSeq' = nextSeq /\ drawn' = drawn \ {n} /\ n \in drawn
      BY <1>4 DEF BeginAmend, Amended, AmendReady, TypeOK, OrderRecords
    <2> QED BY <2>1, OneOrderIsQuiet DEF NumberTaken
  <1>5. ASSUME NEW o \in OrderIds, NEW n \in drawn, NEW price \in Prices, NEW qty \in Quantities,
               AmendBelowFilled(o, n, price, qty)
        PROVE  Quiet
    <2>1. /\ orders'[o].filled = orders[o].filled /\ orders'[o].seq = orders[o].seq
          /\ orders'[o].status = orders[o].status
          /\ \A y \in OrderIds \ {o} : orders'[y] = orders[y]
          /\ tape' = tape /\ nextSeq' = nextSeq /\ drawn' = drawn \ {n}
      BY <1>5 DEF AmendBelowFilled, AmendReady, TypeOK, OrderRecords
    <2> QED BY <2>1, OneOrderIsQuiet DEF NumberKept, Entered
  <1>6. ASSUME MatchBest PROVE Shape
    <2>1. PICK r \in book, qty \in Nat \ {0} :
            /\ r \in OrderIds /\ r # op.id /\ Live(r)
            /\ qty <= orders[op.id].rem /\ qty <= orders[r].rem
            /\ orders' = [orders EXCEPT ![op.id] = Fill(op.id, qty, orders[op.id].status),
                                        ![r] = Fill(r, qty, RestingStatus(r, qty))]
            /\ IF orders[op.id].side = "buy" THEN Record(op.id, r, orders[r].price, qty)
                                             ELSE Record(r, op.id, orders[r].price, qty)
      BY <1>6, MatchBestFacts
    <2>2. op.id \in OrderIds /\ op.kind \in {"place", "amend"}
      BY <1>6, MatchBestFacts
    <2>3. orders[op.id].status \in Statuses /\ RestingStatus(r, qty) \in Statuses
      BY <2>2 DEF TypeOK, OrderRecords, RestingStatus, Statuses
    <2>4. Trades(op.id, r, qty, orders[op.id].status, RestingStatus(r, qty))
      BY <2>1, <2>2, <2>3 DEF Trades
    <2>5. /\ orders[op.id].status # "absent" /\ orders[r].status # "absent"
          /\ RestingStatus(r, qty) # "absent" /\ orders[r].price \in Nat
      BY <2>1, <2>2 DEF OpSound, Live, Active, RestingStatus, TypeOK, OrderRecords
    <2>6. drawn' = drawn BY <1>6 DEF MatchBest
    <2> QED BY <2>1, <2>4, <2>5, <2>6, TradesAreTrading
  <1>7. ASSUME FinishMatch PROVE Quiet
    <2>1. /\ op.id \in OrderIds /\ Entered(op.id)
          /\ orders'[op.id].filled = orders[op.id].filled
          /\ orders'[op.id].seq = orders[op.id].seq
          /\ orders'[op.id].status = FinalStatus(op.id)
          /\ \A y \in OrderIds \ {op.id} : orders'[y] = orders[y]
          /\ tape' = tape /\ nextSeq' = nextSeq /\ drawn' = drawn
      BY <1>7 DEF FinishMatch, MatchDone, OpSound, Matching, Entered, TypeOK, OrderRecords
    <2>2. FinalStatus(op.id) # "absent"
      <3>1. /\ orders[op.id].rem = 0 \/ orders[op.id].rem > 0
            /\ orders[op.id].type \in {"limit", "market"}
            /\ orders[op.id].filled = 0 \/ orders[op.id].filled > 0
        BY <2>1 DEF TypeOK, OrderRecords
      <3> QED BY <3>1 DEF FinalStatus
    <2> QED BY <2>1, <2>2, OneOrderIsQuiet DEF NumberKept, Entered
  <1>8. ASSUME UncrossBest PROVE Shape
    <2>1. PICK b \in book, s \in book, qty \in Nat \ {0} :
            /\ Live(b) /\ Live(s)
            /\ Trades(b, s, qty, RestingStatus(b, qty), RestingStatus(s, qty))
            /\ Record(b, s, op.price, qty)
      BY <1>8, UncrossBestFacts
    <2>2. /\ orders[b].status # "absent" /\ orders[s].status # "absent" /\ op.price \in Nat
          /\ RestingStatus(b, qty) # "absent" /\ RestingStatus(s, qty) # "absent"
      BY <2>1 DEF Live, Active, RestingStatus, TypeOK
    <2>3. drawn' = drawn BY <1>8 DEF UncrossBest
    <2> QED BY <2>1, <2>2, <2>3, TradesAreTrading
  <1>9. ASSUME NEW o \in OrderIds, Cancel(o) PROVE Quiet
    <2>1. /\ orders'[o].filled = orders[o].filled /\ orders'[o].seq = nextSeq
          /\ \A y \in OrderIds \ {o} : orders'[y] = orders[y]
          /\ tape' = tape /\ nextSeq' = nextSeq + 1 /\ drawn' = drawn
      BY <1>9 DEF Cancel, TypeOK, OrderRecords
    <2> QED BY <2>1, OneOrderIsQuiet DEF NumberTaken
  <1>10. ASSUME ExpireOpenOrders PROVE Quiet
    <2>1. \A x \in OrderIds :
             orders'[x] = IF Live(x) THEN [orders[x] EXCEPT !.rem = 0, !.status = "expired"]
                                     ELSE orders[x]
      BY <1>10 DEF ExpireOpenOrders
    <2>2. ASSUME NEW x \in OrderIds
          PROVE  orders'[x].filled = orders[x].filled /\ NumberKept(x)
      <3>1. CASE Live(x)
        <4>1. /\ orders'[x].filled = orders[x].filled /\ orders'[x].seq = orders[x].seq
              /\ orders'[x].status = "expired"
          BY <1>1, <2>1, <3>1 DEF OrderRecords
        <4> QED BY <3>1, <4>1 DEF NumberKept, Entered, Live, Active
      <3>2. CASE ~Live(x) BY <2>1, <3>2 DEF NumberKept, Entered
      <3> QED BY <3>1, <3>2
    <2>3. OneNumber(NoOrder) BY <1>10, <2>2, EngineAssumption DEF OneNumber, ExpireOpenOrders
    <2> QED BY <1>10, <2>2, <2>3 DEF ExpireOpenOrders, Quiet
  <1>11. ASSUME UNCHANGED <<orders, tape, nextSeq, drawn>> PROVE Quiet
    BY <1>11, UnchangedIsQuiet
  <1>12. ASSUME DrawNumber PROVE Quiet
    BY <1>12 DEF DrawNumber, Quiet
  <1> QED
    BY <1>2, <1>3, <1>4, <1>5, <1>6, <1>7, <1>8, <1>9, <1>10, <1>11, <1>12
       DEF Next, BeginPlace, BeginUncross, FinishUncross, SequenceFails, Rest, vars, Shape

LEMMA NextBook == ASSUME IInv, [Next]_vars PROVE BookGrowsByOne
  <1> USE DEF BookGrowsByOne
  <1>1. ASSUME NEW o \in OrderIds,
               Accept(o) \/ BeginPlace(o) \/ PlaceAuction(o) \/ Cancel(o)
        PROVE  book' \subseteq book \cup {o}
    BY <1>1 DEF Accept, BeginPlace, PlaceAuction, Cancel, WithAdded
  <1>2. ASSUME NEW o \in OrderIds, NEW n \in drawn, NEW price \in Prices, NEW qty \in Quantities,
               BeginAmend(o, n, price, qty) \/ AmendBelowFilled(o, n, price, qty)
        PROVE  book' \subseteq book
    BY <1>2 DEF BeginAmend, Amended, AmendBelowFilled
  <1>3. ASSUME MatchBest \/ UncrossBest PROVE book' \subseteq book
    BY <1>3 DEF MatchBest, UncrossBest
  <1>4. ASSUME FinishMatch PROVE op.id \in OrderIds /\ book' \subseteq book \cup {op.id}
    BY <1>4 DEF FinishMatch, MatchDone, WithAdded, IInv, OpSound
  <1>5. ASSUME \/ BeginUncross \/ FinishUncross \/ SequenceFails \/ ExpireOpenOrders
               \/ DrawNumber \/ Rest \/ UNCHANGED vars
        PROVE  book' \subseteq book
    BY <1>5 DEF DrawNumber, BeginUncross, FinishUncross, SequenceFails, ExpireOpenOrders, Rest, vars
  <1> QED BY <1>1, <1>2, <1>3, <1>4, <1>5 DEF Next

LEMMA NextNumbered == ASSUME IInv, Numbered, [Next]_vars PROVE Numbered'
  <1>1. /\ nextSeq \in Nat /\ drawn \subseteq Nat /\ \A x \in OrderIds : orders[x].seq \in Nat
        /\ \A t \in tape : t.seq \in Nat
    BY DEF IInv, TypeOK, OrderRecords, TradeRecords
  <1>2. IsFiniteSet(book')
    <2>1. PICK z \in OrderIds \cup {NoOrder} : book' \subseteq book \cup {z}
      BY NextBook DEF BookGrowsByOne
    <2>2. IsFiniteSet(book \cup {z}) BY FS_AddElement DEF Numbered
    <2> QED BY <2>1, <2>2, FS_Subset
  <1>3. ASSUME Quiet, NEW o \in OrderIds \cup {NoOrder}, OneNumber(o) PROVE Numbered'
    <2>1. drawn' \subseteq drawn /\ \A m \in drawn : m < nextSeq BY <1>3 DEF OneNumber, Numbered
    <2>2. tape' = tape /\ nextSeq' \in {nextSeq, nextSeq + 1} BY <1>3 DEF Quiet
    <2>3. \A t \in tape' : t.seq < nextSeq' BY <1>1, <2>2 DEF Numbered
    <2>4. \A x \in OrderIds : NumberKept(x) \/ (x = o /\ NumberTaken(x))
      BY <1>3 DEF OneNumber
    <2>9. nextSeq' \in Nat /\ nextSeq <= nextSeq' BY <1>1, <2>2
    <2>10. ASSUME NEW m \in drawn PROVE m \in Nat /\ m < nextSeq'
      <3>1. m \in Nat BY <1>1
      <3>2. m < nextSeq BY <2>1
      <3>3. nextSeq \in Nat BY <1>1
      <3> QED BY <2>9, <3>1, <3>2, <3>3
    <2>8. ASSUME NEW m \in drawn' PROVE m \in Nat /\ m < nextSeq'
      BY <2>1, <2>10
    <2>5. ASSUME NEW x \in OrderIds, Entered(x)' PROVE orders'[x].seq < nextSeq'
      <3>1. CASE NumberKept(x)
        <4>1. Entered(x) /\ orders'[x].seq = orders[x].seq BY <2>5, <3>1 DEF NumberKept
        <4>2. orders[x].seq < nextSeq BY <4>1 DEF Numbered
        <4> QED BY <1>1, <2>2, <4>1, <4>2
      <3>2. CASE orders'[x].seq = nextSeq /\ nextSeq' = nextSeq + 1 BY <1>1, <3>2
      <3>3. CASE orders'[x].seq \in drawn \ drawn' BY <2>10, <3>3
      <3> QED BY <2>4, <3>1, <3>2, <3>3 DEF NumberTaken
    <2>7. ASSUME NEW m \in drawn', NEW x \in OrderIds, Entered(x)' PROVE orders'[x].seq # m
      <3>1. CASE NumberKept(x) BY <2>1, <2>7, <3>1 DEF Numbered, NumberKept
      <3>2. m \in drawn /\ m \in Nat /\ m < nextSeq BY <1>1, <2>1, <2>7
      <3>3. CASE NumberTaken(x) BY <1>1, <2>7, <3>2, <3>3 DEF NumberTaken
      <3> QED BY <2>4, <3>1, <3>3
    <2>6. ASSUME NEW x \in OrderIds, NEW y \in OrderIds, x # y, Entered(x)', Entered(y)'
          PROVE  orders'[x].seq # orders'[y].seq
      <3>1. CASE NumberKept(x) /\ NumberKept(y)
        BY <2>6, <3>1 DEF Numbered, NumberKept
      <3>2. CASE NumberKept(x) /\ NumberTaken(y)
        BY <1>1, <2>6, <3>2 DEF Numbered, NumberKept, NumberTaken
      <3>3. CASE NumberKept(y) /\ NumberTaken(x)
        BY <1>1, <2>6, <3>3 DEF Numbered, NumberKept, NumberTaken
      <3> QED BY <2>4, <2>6, <3>1, <3>2, <3>3
    <2> QED BY <1>2, <2>2, <2>3, <2>5, <2>6, <2>7, <2>8 DEF Numbered
  <1>5. CASE DrawNumber
    <2>1. /\ drawn' = drawn \cup {nextSeq} /\ nextSeq' = nextSeq + 1 /\ UNCHANGED <<orders, tape>>
      BY <1>5 DEF DrawNumber
    <2> QED BY <1>1, <1>2, <2>1 DEF Numbered, Entered
  <1>4. ASSUME NEW a \in OrderIds, NEW b \in OrderIds, Trading(a, b), drawn' = drawn,
               \A x \in OrderIds : NumberKept(x)
        PROVE  Numbered'
    <2>1. PICK price \in Nat, qty \in Nat : Record(a, b, price, qty) BY <1>4 DEF Trading
    <2> DEFINE trade == [seq |-> nextSeq, buy |-> a, sell |-> b, price |-> price, qty |-> qty]
    <2>2. tape' = tape \cup {trade} /\ nextSeq' = nextSeq + 1 BY <2>1 DEF Record
    <2>3. \A t \in tape' : t.seq < nextSeq' BY <1>1, <2>2 DEF Numbered
    <2> HIDE DEF trade
    <2>4. IsFiniteSet(tape') BY <2>2, FS_AddElement DEF Numbered
    <2>5. \A x \in OrderIds : Entered(x)' => orders'[x].seq < nextSeq'
      BY <1>1, <1>4, <2>2 DEF Numbered, NumberKept
    <2>6. \A x, y \in OrderIds : x # y /\ Entered(x)' /\ Entered(y)' => orders'[x].seq # orders'[y].seq
      BY <1>4 DEF Numbered, NumberKept
    <2>7. \A m \in drawn' : /\ m < nextSeq'
                            /\ \A x \in OrderIds : Entered(x)' => orders'[x].seq # m
      BY <1>1, <1>4, <2>2 DEF Numbered, NumberKept
    <2> QED BY <1>2, <2>3, <2>4, <2>5, <2>6, <2>7 DEF Numbered
  <1>6. CASE Quiet BY <1>3, <1>5, <1>6 DEF Quiet
  <1> QED BY <1>4, <1>6, NextShape DEF Shape

\* What an order got according to the tape.
Got(trades, o) == SumFunctionOnSet([t \in trades |-> t.qty], {t \in trades : o \in {t.buy, t.sell}})

\* A new trade adds its quantity to what its two orders got.
LEMMA GotMore ==
    ASSUME NEW T, NEW t, IsFiniteSet(T), \A u \in T \cup {t} : u.qty \in Nat, t \notin T,
           NEW o, NEW U, U = T \cup {t}
    PROVE  Got(U, o) = IF o \in {t.buy, t.sell} THEN t.qty + Got(T, o) ELSE Got(T, o)
  <1> DEFINE f == [u \in T |-> u.qty]
             g == [u \in U |-> u.qty]
             S == {u \in T : o \in {u.buy, u.sell}}
             R == {u \in U : o \in {u.buy, u.sell}}
  <1>1. /\ \A u \in S : f[u] = g[u] /\ f[u] \in Int
        /\ g[t] = t.qty /\ \A u \in R : g[u] \in Int
        /\ S \subseteq T /\ t \notin S
        /\ R = IF o \in {t.buy, t.sell} THEN S \cup {t} ELSE S
        /\ t \in R <=> o \in {t.buy, t.sell}
    OBVIOUS
  <1>2. Got(T, o) = SumFunctionOnSet(f, S) /\ Got(U, o) = SumFunctionOnSet(g, R)
    BY DEF Got
  <1> HIDE DEF f, g, S, R
  <1>3. IsFiniteSet(S) BY <1>1, FS_Subset
  <1>4. SumFunctionOnSet(f, S) = SumFunctionOnSet(g, S) BY <1>1, <1>3, SumAgree
  <1>5. CASE o \in {t.buy, t.sell}
    <2>1. R = S \cup {t} BY <1>1, <1>5
    <2>2. \A u \in S \cup {t} : g[u] \in Int BY <1>1, <2>1
    <2>3. SumFunctionOnSet(g, S \cup {t}) = g[t] + SumFunctionOnSet(g, S)
      BY <1>1, <1>3, <2>2, SumAdd
    <2> QED BY <1>1, <1>2, <1>4, <1>5, <2>1, <2>3
  <1>6. CASE o \notin {t.buy, t.sell}
    BY <1>1, <1>2, <1>4, <1>6
  <1> QED BY <1>5, <1>6

LEMMA GotNat ==
    ASSUME NEW T, IsFiniteSet(T), \A u \in T : u.qty \in Nat, NEW o
    PROVE  Got(T, o) \in Nat
  <1> DEFINE f == [u \in T |-> u.qty]
             S == {u \in T : o \in {u.buy, u.sell}}
  <1>1. \A u \in S : f[u] \in Nat OBVIOUS
  <1>2. S \subseteq T OBVIOUS
  <1>3. Got(T, o) = SumFunctionOnSet(f, S) BY DEF Got
  <1> HIDE DEF f, S
  <1>4. IsFiniteSet(S) BY <1>2, FS_Subset
  <1> QED BY <1>1, <1>3, <1>4, SumNat

LEMMA NextFills ==
    ASSUME IInv, Numbered, FillsMatchTape, [Next]_vars
    PROVE  FillsMatchTape'
  <1>1. /\ nextSeq \in Nat /\ \A x \in OrderIds : orders[x].filled \in Nat
        /\ \A t \in tape : t.qty \in Nat
    BY DEF IInv, TypeOK, OrderRecords, TradeRecords
  <1>2. \A o \in OrderIds : orders[o].filled = Got(tape, o) BY DEF FillsMatchTape, Got
  <1>3. CASE Quiet
    <2>1. tape' = tape /\ \A o \in OrderIds : orders'[o].filled = orders[o].filled
      BY <1>3 DEF Quiet
    <2>2. \A o \in OrderIds : orders'[o].filled = Got(tape', o) BY <1>2, <2>1
    <2> QED BY <2>2 DEF FillsMatchTape, Got
  <1>4. ASSUME NEW a \in OrderIds, NEW b \in OrderIds, Trading(a, b),
               \A x \in OrderIds \ {a, b} : orders'[x] = orders[x]
        PROVE  FillsMatchTape'
    <2>1. PICK price \in Nat, qty \in Nat :
             /\ a # b /\ Record(a, b, price, qty)
             /\ \A x \in {a, b} : orders'[x].filled = orders[x].filled + qty
      BY <1>4 DEF Trading
    <2>2. PICK trade :
            trade = [seq |-> nextSeq, buy |-> a, sell |-> b, price |-> price, qty |-> qty]
      OBVIOUS
    <2>3. tape' = tape \cup {trade} BY <2>1, <2>2 DEF Record
    <2>4. trade.buy = a /\ trade.sell = b /\ trade.qty = qty /\ trade.seq = nextSeq BY <2>2
    <2>5. trade \notin tape BY <1>1, <2>4 DEF Numbered
    <2>6. \A u \in tape \cup {trade} : u.qty \in Nat BY <1>1, <2>4
    <2>7. IsFiniteSet(tape) BY DEF Numbered
    <2>8. ASSUME NEW o \in OrderIds PROVE orders'[o].filled = Got(tape', o)
      <3>1. Got(tape', o) = IF o \in {a, b} THEN qty + Got(tape, o) ELSE Got(tape, o)
        BY <2>3, <2>4, <2>5, <2>6, <2>7, GotMore
      <3>2. orders[o].filled = Got(tape, o) /\ orders[o].filled \in Nat BY <1>1, <1>2
      <3> QED BY <1>4, <2>1, <3>1, <3>2
    <2> QED BY <2>8 DEF FillsMatchTape, Got
  <1> QED BY <1>3, <1>4, NextShape DEF Shape

\* A sum in which x gives up qty, and leaves when that was all it had.
GivesUp(x, qty, f, S, g, R) ==
    /\ \A y \in S : f[y] \in Int
    /\ \A y \in S \ {x} : g[y] = f[y]
    /\ x \notin S => R = S
    /\ x \in S => \/ R = S /\ g[x] = f[x] - qty
                  \/ R = S \ {x} /\ f[x] = qty

LEMMA SumLess ==
    ASSUME NEW f, NEW g, NEW S, NEW R, NEW x, NEW qty \in Int, IsFiniteSet(S),
           GivesUp(x, qty, f, S, g, R)
    PROVE  SumFunctionOnSet(g, R) = SumFunctionOnSet(f, S) - (IF x \in S THEN qty ELSE 0)
  <1> USE DEF GivesUp
  <1>1. PICK V : V = S \ {x} OBVIOUS
  <1>2. IsFiniteSet(V) /\ \A y \in V : f[y] \in Int /\ f[y] = g[y] BY <1>1, FS_Subset
  <1>3. SumFunctionOnSet(f, V) = SumFunctionOnSet(g, V) BY <1>2, SumAgree
  <1>4. SumFunctionOnSet(f, V) \in Int BY <1>2, SumType
  <1>5. CASE x \notin S
    <2>1. R = S /\ V = S BY <1>1, <1>5
    <2> QED BY <1>3, <1>4, <1>5, <2>1
  <1>6. CASE x \in S
    <2>1. SumFunctionOnSet(f, S) = f[x] + SumFunctionOnSet(f, V) BY <1>1, <1>6, SumRemove
    <2>2. f[x] \in Int BY <1>6
    <2>3. CASE R = S \ {x} /\ f[x] = qty
      <3>1. SumFunctionOnSet(g, R) = SumFunctionOnSet(f, V) BY <1>1, <1>3, <2>3
      <3> QED BY <1>4, <1>6, <2>1, <2>3, <3>1
    <2>4. CASE R = S /\ g[x] = f[x] - qty
      <3>1. \A y \in S : g[y] \in Int BY <1>1, <1>2, <2>2, <2>4
      <3>2. SumFunctionOnSet(g, S) = g[x] + SumFunctionOnSet(g, V) BY <1>1, <1>6, <3>1, SumRemove
      <3>3. SumFunctionOnSet(g, R) = g[x] + SumFunctionOnSet(f, V) BY <1>3, <2>4, <3>2
      <3> QED BY <1>4, <1>6, <2>1, <2>2, <2>4, <3>3
    <2> QED BY <1>6, <2>3, <2>4
  <1> QED BY <1>5, <1>6

Buying(p)  == {o \in book : orders[o].side = "buy" /\ orders[o].price >= p}
Selling(p) == {o \in book : orders[o].side = "sell" /\ orders[o].price <= p}
Wants == [o \in book |-> orders[o].rem]

LEMMA VolumesOf ==
    ASSUME IsFiniteSet(book), \A o \in book : orders[o].rem \in Nat, NEW p
    PROVE  /\ BuyVolume(orders, book, p) = SumFunctionOnSet(Wants, Buying(p))
           /\ SellVolume(orders, book, p) = SumFunctionOnSet(Wants, Selling(p))
           /\ \A o \in book : Wants[o] = orders[o].rem /\ Wants[o] \in Nat
           /\ Buying(p) \subseteq book /\ Selling(p) \subseteq book
           /\ IsFiniteSet(Buying(p)) /\ IsFiniteSet(Selling(p))
           /\ BuyVolume(orders, book, p) \in Nat /\ SellVolume(orders, book, p) \in Nat
  <1>1. BuyVolume(orders, book, p) = SumFunctionOnSet(Wants, Buying(p))
    BY DEF BuyVolume, Wants, Buying
  <1>2. SellVolume(orders, book, p) = SumFunctionOnSet(Wants, Selling(p))
    BY DEF SellVolume, Wants, Selling
  <1>3. \A o \in book : Wants[o] = orders[o].rem /\ Wants[o] \in Nat
    BY DEF Wants
  <1>4. Buying(p) \subseteq book /\ Selling(p) \subseteq book BY DEF Buying, Selling
  <1>5. IsFiniteSet(Buying(p)) /\ IsFiniteSet(Selling(p)) BY <1>4, FS_Subset
  <1>6. SumFunctionOnSet(Wants, Buying(p)) \in Nat /\ SumFunctionOnSet(Wants, Selling(p)) \in Nat
    BY <1>3, <1>4, <1>5, SumNat
  <1> QED BY <1>1, <1>2, <1>3, <1>4, <1>5, <1>6

LEMMA VolumeFacts ==
    ASSUME TypeOK, IsFiniteSet(book), NEW p
    PROVE  /\ BuyVolume(orders, book, p) = SumFunctionOnSet(Wants, Buying(p))
           /\ SellVolume(orders, book, p) = SumFunctionOnSet(Wants, Selling(p))
           /\ \A o \in book : Wants[o] = orders[o].rem /\ Wants[o] \in Nat
           /\ Buying(p) \subseteq book /\ Selling(p) \subseteq book
           /\ IsFiniteSet(Buying(p)) /\ IsFiniteSet(Selling(p))
           /\ BuyVolume(orders, book, p) \in Nat /\ SellVolume(orders, book, p) \in Nat
  <1>1. \A o \in book : orders[o].rem \in Nat BY DEF TypeOK, OrderRecords
  <1> QED BY <1>1, VolumesOf

Lowered(b, s, qty) ==
    /\ orders[b].price >= op.price /\ orders[s].price <= op.price
    /\ book' \subseteq book /\ IsFiniteSet(book')
    /\ \A x \in book : orders'[x].price = orders[x].price
    /\ \A t \in tape' \ tape : t.qty = qty
    /\ \A p : /\ BuyVolume(orders', book', p)
                   = BuyVolume(orders, book, p) - (IF b \in Buying(p) THEN qty ELSE 0)
              /\ SellVolume(orders', book', p)
                   = SellVolume(orders, book, p) - (IF s \in Selling(p) THEN qty ELSE 0)

\* Volumes after a bid b and an ask s have traded.
LEMMA VolumesAfter ==
    ASSUME IInv, IsFiniteSet(book), UncrossBest
    PROVE  \E b \in BestOf(Bids), s \in BestOf(Asks), qty \in Nat \ {0} : Lowered(b, s, qty)
  <1> USE DEF IInv
  <1>0. PICK pair \in AuctionPair :
          LET qty == Lesser(orders[pair[1]].rem, orders[pair[2]].rem)
          IN  /\ orders' = [orders EXCEPT ![pair[1]] = Fill(pair[1], qty, RestingStatus(pair[1], qty)),
                                          ![pair[2]] = Fill(pair[2], qty, RestingStatus(pair[2], qty))]
              /\ book' = book \ {o \in {pair[1], pair[2]} : orders[o].rem = qty}
              /\ Record(pair[1], pair[2], op.price, qty)
    BY DEF UncrossBest
  <1> DEFINE b == pair[1]
             s == pair[2]
             qty == Lesser(orders[b].rem, orders[s].rem)
  <1>1. /\ b \in BestOf(Bids) /\ s \in BestOf(Asks)
        /\ orders[b].price >= op.price /\ orders[s].price <= op.price
        /\ qty = Lesser(orders[b].rem, orders[s].rem)
        /\ orders' = [orders EXCEPT ![b] = Fill(b, qty, RestingStatus(b, qty)),
                                    ![s] = Fill(s, qty, RestingStatus(s, qty))]
        /\ book' = book \ {o \in {b, s} : orders[o].rem = qty}
    BY <1>0 DEF AuctionPair
  <1>19. \A t \in tape' \ tape : t.qty = qty BY <1>0 DEF Record
  <1> HIDE DEF b, s, qty
  <1>2. /\ b \in book /\ s \in book /\ b # s
        /\ orders[b].side = "buy" /\ orders[s].side = "sell"
        /\ b \in OrderIds /\ s \in OrderIds /\ Live(b) /\ Live(s)
    BY <1>1 DEF BestOf, Bids, Asks, TypeOK, BookSound
  <1>3. /\ orders[b].rem \in Nat /\ orders[s].rem \in Nat
        /\ orders[b].rem > 0 /\ orders[s].rem > 0
    BY <1>2 DEF TypeOK, OrderRecords, Live
  <1>4. qty \in Nat \ {0} /\ qty <= orders[b].rem /\ qty <= orders[s].rem
    BY <1>1, <1>3 DEF Lesser
  <1>5. RestingStatus(b, qty) \in Statuses /\ RestingStatus(s, qty) \in Statuses
    BY DEF RestingStatus, Statuses
  <1>6. Trades(b, s, qty, RestingStatus(b, qty), RestingStatus(s, qty))
    BY <1>1, <1>2, <1>4, <1>5 DEF Trades
  <1>7. /\ orders' \in [OrderIds -> OrderRecords]
        /\ \A x \in OrderIds \ {b, s} : orders'[x] = orders[x]
        /\ \A x \in {b, s} : orders'[x].rem = orders[x].rem - qty
        /\ \A x \in OrderIds : orders'[x].side = orders[x].side /\ orders'[x].price = orders[x].price
    BY <1>6, TradeFacts
  <1>8. book' \subseteq book /\ book \subseteq OrderIds BY <1>1 DEF TypeOK
  <1>9. IsFiniteSet(book') BY <1>8, FS_Subset
  <1>10. \A x \in book' : Wants'[x] = orders'[x].rem BY DEF Wants
  <1>11. \A x \in book : Wants[x] = orders[x].rem /\ Wants[x] \in Int
    BY <1>8, VolumeFacts
  <1>12. \A x \in book \ {b, s} : x \in book' BY <1>1
  <1>13. \A x \in {b, s} : (x \in book' /\ orders'[x].rem = orders[x].rem - qty) \/ (x \notin book' /\ orders[x].rem = qty)
    BY <1>1, <1>2, <1>7
  <1>14. ASSUME NEW p
         PROVE  BuyVolume(orders', book', p)
                  = BuyVolume(orders, book, p) - (IF b \in Buying(p) THEN qty ELSE 0)
    <2>1. \A y \in Buying(p) : Wants[y] \in Int BY <1>11 DEF Buying
    <2>2. \A y \in Buying(p) \ {b} : y \in book \ {b, s} /\ y \in OrderIds
      BY <1>2, <1>8 DEF Buying
    <2>3. \A y \in Buying(p) \ {b} : Wants'[y] = Wants[y]
      BY <1>7, <1>10, <1>11, <1>12, <2>2
    <2>4. \A y \in book' : y \in Buying(p)' <=> y \in Buying(p)
      BY <1>7, <1>8 DEF Buying
    <2>5. Buying(p)' \subseteq book' /\ Buying(p) \subseteq book BY DEF Buying
    <2>6. \A y \in Buying(p) \ {b} : y \in Buying(p)' BY <1>12, <2>2, <2>4
    <2>7. Buying(p)' \subseteq Buying(p) BY <2>4, <2>5
    <2>8. b \notin Buying(p) => Buying(p)' = Buying(p) BY <2>6, <2>7
    <2>9. b \in Buying(p) => \/ Buying(p)' = Buying(p) /\ Wants'[b] = Wants[b] - qty
                             \/ Buying(p)' = Buying(p) \ {b} /\ Wants[b] = qty
      <3>1. CASE b \in book'
        BY <1>2, <1>10, <1>11, <1>13, <2>4, <2>6, <2>7, <3>1
      <3>2. CASE b \notin book'
        BY <1>2, <1>11, <1>13, <2>5, <2>6, <2>7, <3>2
      <3> QED BY <3>1, <3>2
    <2>10. IsFiniteSet(Buying(p)) BY <2>5, FS_Subset
    <2>11. SumFunctionOnSet(Wants', Buying(p)')
             = SumFunctionOnSet(Wants, Buying(p)) - (IF b \in Buying(p) THEN qty ELSE 0)
      <3>1. GivesUp(b, qty, Wants, Buying(p), Wants', Buying(p)')
        BY <2>1, <2>3, <2>8, <2>9 DEF GivesUp
      <3> QED BY <1>4, <2>10, <3>1, SumLess
    <2>12. BuyVolume(orders, book, p) = SumFunctionOnSet(Wants, Buying(p))
      BY DEF BuyVolume, Wants, Buying
    <2>13. BuyVolume(orders', book', p) = SumFunctionOnSet(Wants', Buying(p)')
      BY DEF BuyVolume, Wants, Buying
    <2> QED BY <2>11, <2>12, <2>13
  <1>15. ASSUME NEW p
         PROVE  SellVolume(orders', book', p)
                  = SellVolume(orders, book, p) - (IF s \in Selling(p) THEN qty ELSE 0)
    <2>1. \A y \in Selling(p) : Wants[y] \in Int BY <1>11 DEF Selling
    <2>2. \A y \in Selling(p) \ {s} : y \in book \ {b, s} /\ y \in OrderIds
      BY <1>2, <1>8 DEF Selling
    <2>3. \A y \in Selling(p) \ {s} : Wants'[y] = Wants[y]
      BY <1>7, <1>10, <1>11, <1>12, <2>2
    <2>4. \A y \in book' : y \in Selling(p)' <=> y \in Selling(p)
      BY <1>7, <1>8 DEF Selling
    <2>5. Selling(p)' \subseteq book' /\ Selling(p) \subseteq book BY DEF Selling
    <2>6. \A y \in Selling(p) \ {s} : y \in Selling(p)' BY <1>12, <2>2, <2>4
    <2>7. Selling(p)' \subseteq Selling(p) BY <2>4, <2>5
    <2>8. s \notin Selling(p) => Selling(p)' = Selling(p) BY <2>6, <2>7
    <2>9. s \in Selling(p) => \/ Selling(p)' = Selling(p) /\ Wants'[s] = Wants[s] - qty
                              \/ Selling(p)' = Selling(p) \ {s} /\ Wants[s] = qty
      <3>1. CASE s \in book'
        BY <1>2, <1>10, <1>11, <1>13, <2>4, <2>6, <2>7, <3>1
      <3>2. CASE s \notin book'
        BY <1>2, <1>11, <1>13, <2>5, <2>6, <2>7, <3>2
      <3> QED BY <3>1, <3>2
    <2>10. IsFiniteSet(Selling(p)) BY <2>5, FS_Subset
    <2>11. SumFunctionOnSet(Wants', Selling(p)')
             = SumFunctionOnSet(Wants, Selling(p)) - (IF s \in Selling(p) THEN qty ELSE 0)
      <3>1. GivesUp(s, qty, Wants, Selling(p), Wants', Selling(p)')
        BY <2>1, <2>3, <2>8, <2>9 DEF GivesUp
      <3> QED BY <1>4, <2>10, <3>1, SumLess
    <2>12. SellVolume(orders, book, p) = SumFunctionOnSet(Wants, Selling(p))
      BY DEF SellVolume, Wants, Selling
    <2>13. SellVolume(orders', book', p) = SumFunctionOnSet(Wants', Selling(p)')
      BY DEF SellVolume, Wants, Selling
    <2> QED BY <2>11, <2>12, <2>13
  <1>16. \A x \in book : orders'[x].price = orders[x].price BY <1>7, <1>8
  <1>17. \A p : /\ BuyVolume(orders', book', p)
                     = BuyVolume(orders, book, p) - (IF b \in Buying(p) THEN qty ELSE 0)
                /\ SellVolume(orders', book', p)
                     = SellVolume(orders, book, p) - (IF s \in Selling(p) THEN qty ELSE 0)
    BY <1>14, <1>15
  <1>18. Lowered(b, s, qty) BY <1>1, <1>8, <1>9, <1>16, <1>17, <1>19 DEF Lowered
  <1> QED BY <1>1, <1>4, <1>18

\* Nobody of its side is ahead of the head in price.
LEMMA BestPrice ==
    ASSUME TypeOK, NEW side \in Sides, NEW h \in BestOf({x \in book : orders[x].side = side}),
           NEW x \in book, orders[x].side = side
    PROVE  /\ h \in book /\ orders[h].side = side
           /\ side = "buy" => orders[x].price <= orders[h].price
           /\ side = "sell" => orders[h].price <= orders[x].price
  <1>1. h \in book /\ orders[h].side = side BY DEF BestOf
  <1>2. orders[h].price \in Nat /\ orders[x].price \in Nat
    BY <1>1 DEF TypeOK, OrderRecords
  <1>3. x = h \/ Before(h, x) BY DEF BestOf
  <1> QED BY <1>1, <1>2, <1>3 DEF Before

LEMMA UncrossBestAuction ==
    ASSUME IInv, IsFiniteSet(book), NothingMoreAt(op.price), UncrossBest
    PROVE  NothingMoreAt(op.price)'
  <1>1. PICK b \in BestOf(Bids), s \in BestOf(Asks), qty \in Nat \ {0} : Lowered(b, s, qty)
    BY VolumesAfter
  <1>2. /\ orders[b].price >= op.price /\ orders[s].price <= op.price
        /\ book' \subseteq book /\ IsFiniteSet(book')
        /\ \A x \in book : orders'[x].price = orders[x].price
    BY <1>1 DEF Lowered
  <1>3. TypeOK /\ TypeOK' /\ IInv' BY UncrossBestStep DEF IInv
  <1>4. op' = op /\ op.price \in Nat BY <1>3 DEF UncrossBest, TypeOK
  <1>5. /\ b \in book /\ s \in book /\ orders[b].side = "buy" /\ orders[s].side = "sell"
        /\ orders[b].price \in Nat /\ orders[s].price \in Nat
    BY <1>3 DEF BestOf, Bids, Asks, TypeOK, OrderRecords
  <1>6. \A p : /\ BuyVolume(orders, book, p) \in Nat /\ SellVolume(orders, book, p) \in Nat
               /\ BuyVolume(orders', book', p) \in Nat /\ SellVolume(orders', book', p) \in Nat
    <2>1. \A p : BuyVolume(orders, book, p) \in Nat /\ SellVolume(orders, book, p) \in Nat
      BY <1>3, VolumeFacts
    <2>2. \A p : BuyVolume(orders', book', p) \in Nat /\ SellVolume(orders', book', p) \in Nat
      <3>1. ASSUME NEW p PROVE BuyVolume(orders, book, p)' \in Nat /\ SellVolume(orders, book, p)' \in Nat
        <4>1. Buying(p)' \subseteq book' /\ Selling(p)' \subseteq book' BY DEF Buying, Selling
        <4>2. IsFiniteSet(Buying(p)') /\ IsFiniteSet(Selling(p)') BY <1>2, <4>1, FS_Subset
        <4>3. \A x \in book' : Wants'[x] \in Nat BY <1>3 DEF Wants, TypeOK, OrderRecords
        <4>4. SumFunctionOnSet(Wants', Buying(p)') \in Nat /\ SumFunctionOnSet(Wants', Selling(p)') \in Nat
          BY <4>1, <4>2, <4>3, SumNat
        <4> QED BY <4>4 DEF BuyVolume, SellVolume, Wants, Buying, Selling
      <3> QED BY <3>1
    <2> QED BY <2>1, <2>2
  <1> SUFFICES ASSUME NEW q \in Candidates(orders', book')
               PROVE  Executable(orders', book', q) <= Executable(orders', book', op.price)
    BY <1>4 DEF NothingMoreAt
  <1>7. q \in Candidates(orders, book) /\ q \in Nat
    <2>1. PICK x \in book' : orders'[x].rem > 0 /\ q = orders'[x].price BY DEF Candidates
    <2>2. x \in book /\ q = orders[x].price BY <1>2, <2>1
    <2>3. orders[x].rem > 0 /\ q \in Nat
      BY <1>3, <2>2 DEF IInv, BookSound, Live, TypeOK, OrderRecords
    <2> QED BY <2>2, <2>3 DEF Candidates
  <1>8. Executable(orders, book, q) <= Executable(orders, book, op.price)
    BY <1>7 DEF NothingMoreAt
  <1>9. ASSUME NEW p \in Nat
        PROVE  /\ b \in Buying(p) <=> orders[b].price >= p
               /\ s \in Selling(p) <=> orders[s].price <= p
               /\ ~(orders[b].price >= p) => BuyVolume(orders, book, p) = 0
               /\ ~(orders[s].price <= p) => SellVolume(orders, book, p) = 0
    <2>1. /\ b \in Buying(p) <=> orders[b].price >= p
          /\ s \in Selling(p) <=> orders[s].price <= p
      BY <1>5 DEF Buying, Selling
    <2>2. ASSUME ~(orders[b].price >= p) PROVE Buying(p) = {}
      <3> SUFFICES ASSUME NEW x \in Buying(p) PROVE FALSE OBVIOUS
      <3>1. x \in book /\ orders[x].side = "buy" /\ orders[x].price >= p BY DEF Buying
      <3>2. orders[x].price <= orders[b].price
        BY <1>3, <3>1, BestPrice DEF Bids, Sides
      <3>3. orders[x].price \in Nat BY <1>3, <3>1 DEF TypeOK, OrderRecords
      <3> QED BY <1>5, <2>2, <3>1, <3>2, <3>3
    <2>3. ASSUME ~(orders[s].price <= p) PROVE Selling(p) = {}
      <3> SUFFICES ASSUME NEW x \in Selling(p) PROVE FALSE OBVIOUS
      <3>1. x \in book /\ orders[x].side = "sell" /\ orders[x].price <= p BY DEF Selling
      <3>2. orders[s].price <= orders[x].price
        BY <1>3, <3>1, BestPrice DEF Asks, Sides
      <3>3. orders[x].price \in Nat BY <1>3, <3>1 DEF TypeOK, OrderRecords
      <3> QED BY <1>5, <2>3, <3>1, <3>2, <3>3
    <2>4. ~(orders[b].price >= p) => BuyVolume(orders, book, p) = 0
      BY <1>3, <2>2, VolumeFacts, SumEmpty
    <2>5. ~(orders[s].price <= p) => SellVolume(orders, book, p) = 0
      BY <1>3, <2>3, VolumeFacts, SumEmpty
    <2> QED BY <2>1, <2>4, <2>5
  <1>10. ASSUME NEW p \in Nat
         PROVE  /\ BuyVolume(orders', book', p)
                     = BuyVolume(orders, book, p) - (IF orders[b].price >= p THEN qty ELSE 0)
                /\ SellVolume(orders', book', p)
                     = SellVolume(orders, book, p) - (IF orders[s].price <= p THEN qty ELSE 0)
    BY <1>1, <1>9 DEF Lowered
  <1> DEFINE B(p) == BuyVolume(orders, book, p)
             S(p) == SellVolume(orders, book, p)
             B1(p) == BuyVolume(orders', book', p)
             S1(p) == SellVolume(orders', book', p)
  <1>11. /\ B(q) \in Nat /\ S(q) \in Nat /\ B(op.price) \in Nat /\ S(op.price) \in Nat
         /\ B1(q) \in Nat /\ S1(q) \in Nat /\ B1(op.price) \in Nat /\ S1(op.price) \in Nat
    BY <1>6
  <1>12. /\ B1(op.price) = B(op.price) - qty /\ S1(op.price) = S(op.price) - qty
         /\ B1(q) = B(q) - (IF orders[b].price >= q THEN qty ELSE 0)
         /\ S1(q) = S(q) - (IF orders[s].price <= q THEN qty ELSE 0)
         /\ ~(orders[b].price >= q) => B(q) = 0
         /\ ~(orders[s].price <= q) => S(q) = 0
    BY <1>2, <1>4, <1>7, <1>9, <1>10
  <1>13. Lesser(B(q), S(q)) <= Lesser(B(op.price), S(op.price))
    BY <1>8 DEF Executable
  <1> HIDE DEF B, S, B1, S1
  <1>14. Lesser(B1(q), S1(q)) <= Lesser(B1(op.price), S1(op.price))
    BY <1>11, <1>12, <1>13 DEF Lesser
  <1> QED BY <1>14 DEF Executable, B1, S1

\* The auction starts at a price at which nothing more can be executed.
LEMMA BeginUncrossAuction ==
    ASSUME IInv, IsFiniteSet(book), BeginUncross
    PROVE  NothingMoreAt(op.price)'
  <1>1. PICK iep \in IndicativePrice(orders, book, ReferencePrice) :
          op' = [kind |-> "uncross", id |-> NoOrder, price |-> iep]
    BY DEF BeginUncross
  <1>2. op'.price = iep /\ orders' = orders /\ book' = book BY <1>1 DEF BeginUncross
  <1> SUFFICES ASSUME NEW q \in Candidates(orders, book)
               PROVE  Executable(orders, book, q) <= Executable(orders, book, iep)
    BY <1>2 DEF NothingMoreAt
  <1>3. \A p : Executable(orders, book, p) \in Nat
    BY VolumeFacts DEF Executable, Lesser, IInv
  <1>4. CASE q = iep BY <1>3, <1>4
  <1>5. CASE q # iep
    <2>1. BetterIndicative(orders, book, ReferencePrice, iep, q)
      BY <1>5 DEF IndicativePrice
    <2>2. \/ Executable(orders, book, iep) > Executable(orders, book, q)
          \/ Executable(orders, book, iep) = Executable(orders, book, q)
      BY <2>1 DEF BetterIndicative
    <2> QED BY <1>3, <2>2
  <1> QED BY <1>4, <1>5

\* A request that is accepted meanwhile rests nowhere.
LEMMA AcceptAuction ==
    ASSUME IInv, NothingMoreAt(op.price), NEW o \in OrderIds, Accept(o)
    PROVE  NothingMoreAt(op.price)'
  <1>1. /\ \A x \in book : orders'[x] = orders[x]
        /\ book' = book /\ op' = op
    BY DEF Accept, IInv, TypeOK, BookSound, Live, Active
  <1>2. Candidates(orders', book') = Candidates(orders, book) BY <1>1 DEF Candidates
  <1>3. \A p : Executable(orders', book', p) = Executable(orders, book, p)
    <2>1. ASSUME NEW p
          PROVE  /\ BuyVolume(orders', book', p) = BuyVolume(orders, book, p)
                 /\ SellVolume(orders', book', p) = SellVolume(orders, book, p)
      <3>1. Wants' = Wants BY <1>1 DEF Wants
      <3>2. Buying(p)' = Buying(p) /\ Selling(p)' = Selling(p) BY <1>1 DEF Buying, Selling
      <3> QED BY <3>1, <3>2 DEF BuyVolume, SellVolume, Wants, Buying, Selling
    <2> QED BY <2>1 DEF Executable
  <1> QED BY <1>1, <1>2, <1>3 DEF NothingMoreAt

LEMMA NextAuction ==
    ASSUME IInv, Numbered, AuctionOK, [Next]_vars
    PROVE  AuctionOK'
  <1> USE DEF AuctionOK
  <1>0. IsFiniteSet(book) BY DEF Numbered
  <1>1. ASSUME NEW o \in OrderIds, Accept(o) PROVE AuctionOK'
    BY <1>1, AcceptAuction DEF Accept
  <1>2. ASSUME NEW o \in OrderIds,
               BeginPlace(o) \/ PlaceAuction(o) \/ Cancel(o)
        PROVE  AuctionOK'
    BY <1>2 DEF BeginPlace, PlaceAuction, Cancel, Idle
  <1>3. ASSUME NEW o \in OrderIds, NEW n \in drawn, NEW price \in Prices, NEW qty \in Quantities,
               BeginAmend(o, n, price, qty) \/ AmendBelowFilled(o, n, price, qty)
        PROVE  AuctionOK'
    BY <1>3 DEF BeginAmend, Amended, AmendBelowFilled, AmendReady, Idle
  <1>4. ASSUME MatchBest PROVE AuctionOK' BY <1>4 DEF MatchBest, Matching
  <1>5. ASSUME FinishMatch \/ FinishUncross \/ SequenceFails PROVE AuctionOK'
    BY <1>5 DEF FinishMatch, FinishUncross, SequenceFails, Release, Idle
  <1>6. ASSUME BeginUncross PROVE AuctionOK' BY <1>0, <1>6, BeginUncrossAuction
  <1>7. ASSUME UncrossBest PROVE AuctionOK'
    BY <1>0, <1>7, UncrossBestAuction DEF UncrossBest
  <1>8. ASSUME ExpireOpenOrders PROVE AuctionOK' BY <1>8 DEF ExpireOpenOrders, Idle
  <1>9. ASSUME DrawNumber \/ Rest \/ UNCHANGED vars PROVE AuctionOK'
    BY <1>9 DEF DrawNumber, Rest, vars, NothingMoreAt
  <1> QED BY <1>1, <1>2, <1>3, <1>4, <1>5, <1>6, <1>7, <1>8, <1>9 DEF Next

\* What a function makes of a finite set is finite.
LEMMA FiniteValues ==
    ASSUME NEW f, NEW S, IsFiniteSet(S), NEW T, T = {f[y] : y \in S}
    PROVE  IsFiniteSet(T)
  <1> DEFINE g == [y \in S |-> f[y]]
  <1>1. g \in Surjection(S, T) BY DEF Surjection
  <1> QED BY <1>1, FS_Surjection

\* A side of the book with an order in it has a head.
LEMMA SideHasHead ==
    ASSUME IInv, Numbered, NEW side \in Sides,
           NEW x \in book, orders[x].side = side
    PROVE  BestOf({y \in book : orders[y].side = side}) # {}
  <1> DEFINE S == {y \in book : orders[y].side = side}
             Ps == {orders[y].price : y \in S}
  <1>1. /\ S \subseteq book /\ x \in S
        /\ \A y \in S : /\ y \in OrderIds /\ Entered(y) /\ orders[y].side = side
                        /\ orders[y].price \in Nat /\ orders[y].seq \in Nat
    BY DEF IInv, TypeOK, OrderRecords, BookSound, Live, Active, Entered
  <1>2. IsFiniteSet(S) BY <1>1, FS_Subset DEF Numbered
  <1>3. Ps # {} /\ Ps \subseteq Int /\ \A y \in S : orders[y].price \in Ps BY <1>1
  <1>4. IsFiniteSet(Ps)
    <2> DEFINE price == [y \in S |-> orders[y].price]
    <2>1. Ps = {price[y] : y \in S} OBVIOUS
    <2> HIDE DEF price, Ps, S
    <2> QED BY <1>2, <2>1, FiniteValues
  <1>5. \A y, z \in S : y # z => orders[y].seq # orders[z].seq BY <1>1 DEF Numbered
  <1>6. \E top \in Ps : \A p \in Ps : IF side = "buy" THEN p <= top ELSE top <= p
    BY <1>3, <1>4, FiniteMax, FiniteMin
  <1>7. PICK top \in Ps : \A p \in Ps : IF side = "buy" THEN p <= top ELSE top <= p
    BY <1>6
  <1> DEFINE T == {y \in S : orders[y].price = top}
             Ns == {orders[y].seq : y \in T}
  <1>8. T \subseteq S /\ \E y \in S : orders[y].price = top BY <1>7
  <1>9. Ns # {} /\ Ns \subseteq Int BY <1>1, <1>8
  <1>10. IsFiniteSet(T) BY <1>2, <1>8, FS_Subset
  <1>11. IsFiniteSet(Ns)
    <2> DEFINE seq == [y \in T |-> orders[y].seq]
    <2>1. Ns = {seq[y] : y \in T} OBVIOUS
    <2> HIDE DEF seq, Ns, T
    <2> QED BY <1>10, <2>1, FiniteValues
  <1>12. PICK first \in Ns : \A n \in Ns : first <= n BY <1>9, <1>11, FiniteMin
  <1>13. PICK h \in S : orders[h].price = top /\ orders[h].seq = first BY <1>12
  <1>14. ASSUME NEW y \in S \ {h} PROVE Before(h, y)
    <2>1. /\ orders[y].price \in Nat /\ orders[h].price \in Nat
          /\ orders[y].seq \in Nat /\ orders[h].seq \in Nat /\ orders[y].seq # orders[h].seq
          /\ orders[h].side = side /\ side \in {"buy", "sell"}
      BY <1>1, <1>5, <1>13 DEF Sides
    <2>2. IF side = "buy" THEN orders[y].price <= orders[h].price
                          ELSE orders[h].price <= orders[y].price
      BY <1>3, <1>7, <1>13
    <2>3. orders[y].price = orders[h].price => orders[h].seq <= orders[y].seq
      BY <1>12, <1>13
    <2> HIDE DEF S, Ps, T, Ns
    <2> QED BY <2>1, <2>2, <2>3 DEF Before
  <1> QED BY <1>13, <1>14 DEF BestOf

\* At the end of an auction one side takes no part any more: nothing could be
\* executed at its price, so nothing at any price.
LEMMA ClearsBook == ASSUME FillsInv PROVE AuctionClearsBook
  <1> SUFFICES ASSUME UncrossDone, NEW b \in Bids, NEW s \in Asks,
                      ~(orders[b].price < orders[s].price)
               PROVE  FALSE
    BY DEF AuctionClearsBook
  <1>1. IInv /\ TypeOK /\ IsFiniteSet(book) /\ Numbered /\ NothingMoreAt(op.price)
    BY DEF FillsInv, IInv, Numbered, AuctionOK, UncrossDone
  <1>2. /\ b \in book /\ s \in book /\ orders[b].side = "buy" /\ orders[s].side = "sell"
        /\ orders[b].price \in Nat /\ orders[s].price \in Nat /\ op.price \in Nat
        /\ orders[b].rem \in Nat \ {0} /\ orders[s].rem \in Nat \ {0}
    BY <1>1 DEF Bids, Asks, TypeOK, OrderRecords, IInv, BookSound, Live
  <1>3. Executable(orders, book, op.price) = 0
    <2>1. PICK hb : hb \in BestOf(Bids) BY <1>1, <1>2, SideHasHead DEF Bids, Sides
    <2>2. PICK hs : hs \in BestOf(Asks) BY <1>1, <1>2, SideHasHead DEF Asks, Sides
    <2>3. ~(orders[hb].price >= op.price /\ orders[hs].price <= op.price)
      <3>1. <<hb, hs>> \notin AuctionPair BY DEF UncrossDone
      <3> QED BY <2>1, <2>2, <3>1 DEF AuctionPair
    <2>4. orders[hb].price \in Nat /\ orders[hs].price \in Nat
      BY <1>1, <2>1, <2>2 DEF BestOf, Bids, Asks, TypeOK, OrderRecords
    <2>5. CASE ~(orders[hb].price >= op.price)
      <3>1. ASSUME NEW x \in Buying(op.price) PROVE FALSE
        <4>1. x \in book /\ orders[x].side = "buy" /\ orders[x].price >= op.price BY DEF Buying
        <4>2. orders[x].price <= orders[hb].price
          BY <1>1, <2>1, <4>1, BestPrice DEF Bids, Sides
        <4>3. orders[x].price \in Nat BY <1>1, <4>1 DEF TypeOK, OrderRecords
        <4> QED BY <1>2, <2>4, <2>5, <4>1, <4>2, <4>3
      <3>2. Buying(op.price) = {} BY <3>1
      <3>3. BuyVolume(orders, book, op.price) = 0 BY <1>1, <3>2, VolumeFacts, SumEmpty
      <3>4. SellVolume(orders, book, op.price) \in Nat BY <1>1, VolumeFacts
      <3> QED BY <3>3, <3>4 DEF Executable, Lesser
    <2>6. CASE ~(orders[hs].price <= op.price)
      <3>1. ASSUME NEW x \in Selling(op.price) PROVE FALSE
        <4>1. x \in book /\ orders[x].side = "sell" /\ orders[x].price <= op.price BY DEF Selling
        <4>2. orders[hs].price <= orders[x].price
          BY <1>1, <2>2, <4>1, BestPrice DEF Asks, Sides
        <4>3. orders[x].price \in Nat BY <1>1, <4>1 DEF TypeOK, OrderRecords
        <4> QED BY <1>2, <2>4, <2>6, <4>1, <4>2, <4>3
      <3>2. Selling(op.price) = {} BY <3>1
      <3>3. SellVolume(orders, book, op.price) = 0 BY <1>1, <3>2, VolumeFacts, SumEmpty
      <3>4. BuyVolume(orders, book, op.price) \in Nat BY <1>1, VolumeFacts
      <3> QED BY <3>3, <3>4 DEF Executable, Lesser
    <2> QED BY <2>3, <2>5, <2>6
  <1> DEFINE q == orders[b].price
  <1>4. q \in Candidates(orders, book) BY <1>2 DEF Candidates
  <1>5. b \in Buying(q) /\ s \in Selling(q) BY <1>2 DEF Buying, Selling
  <1>6. BuyVolume(orders, book, q) > 0
    <2>1. SumFunctionOnSet(Wants, Buying(q))
            = Wants[b] + SumFunctionOnSet(Wants, Buying(q) \ {b})
      BY <1>1, <1>5, VolumeFacts, SumRemove
    <2>2. SumFunctionOnSet(Wants, Buying(q) \ {b}) \in Nat
      <3>1. IsFiniteSet(Buying(q)) /\ \A x \in Buying(q) : Wants[x] \in Nat
        BY <1>1, VolumeFacts
      <3>2. Buying(q) \ {b} \subseteq Buying(q) OBVIOUS
      <3> QED BY <3>1, <3>2, SumPart
    <2>3. Wants[b] = orders[b].rem BY <1>2 DEF Wants
    <2>4. BuyVolume(orders, book, q) = SumFunctionOnSet(Wants, Buying(q)) BY <1>1, VolumeFacts
    <2> QED BY <1>2, <2>1, <2>2, <2>3, <2>4
  <1>7. SellVolume(orders, book, q) > 0
    <2>1. SumFunctionOnSet(Wants, Selling(q))
            = Wants[s] + SumFunctionOnSet(Wants, Selling(q) \ {s})
      BY <1>1, <1>5, VolumeFacts, SumRemove
    <2>2. SumFunctionOnSet(Wants, Selling(q) \ {s}) \in Nat
      <3>1. IsFiniteSet(Selling(q)) /\ \A x \in Selling(q) : Wants[x] \in Nat
        BY <1>1, VolumeFacts
      <3>2. Selling(q) \ {s} \subseteq Selling(q) OBVIOUS
      <3> QED BY <3>1, <3>2, SumPart
    <2>3. Wants[s] = orders[s].rem BY <1>2 DEF Wants
    <2>4. SellVolume(orders, book, q) = SumFunctionOnSet(Wants, Selling(q)) BY <1>1, VolumeFacts
    <2> QED BY <1>2, <2>1, <2>2, <2>3, <2>4
  <1>8. BuyVolume(orders, book, q) \in Nat /\ SellVolume(orders, book, q) \in Nat
    BY <1>1, VolumeFacts
  <1>9. Executable(orders, book, q) <= 0 BY <1>1, <1>3, <1>4 DEF NothingMoreAt
  <1> QED BY <1>6, <1>7, <1>8, <1>9 DEF Executable, Lesser

LEMMA InitFills == Init => FillsInv
  <1> SUFFICES ASSUME Init PROVE FillsInv OBVIOUS
  <1>1. /\ orders = [o \in OrderIds |-> Absent] /\ book = {} /\ tape = {} /\ op = Idle /\ drawn = {}
    BY DEF Init
  <1>2. IInv BY InitIInv
  <1>3. Numbered BY <1>1, FS_EmptySet DEF Numbered, Entered, Absent
  <1>4. AuctionOK BY <1>1 DEF AuctionOK, Idle
  <1>5. ASSUME NEW o \in OrderIds PROVE orders[o].filled = Got(tape, o)
    <2>1. orders[o].filled = 0 BY <1>1 DEF Absent
    <2>2. {t \in tape : o \in {t.buy, t.sell}} = {} BY <1>1
    <2> QED BY <2>1, <2>2, SumEmpty DEF Got
  <1>6. FillsMatchTape BY <1>5 DEF FillsMatchTape, Got
  <1> QED BY <1>2, <1>3, <1>4, <1>6 DEF FillsInv

\* The two invariants together: what the orders are and what the trades say.
THEOREM FillsInvariant == Spec => []FillsInv
  <1>1. ASSUME FillsInv, [Next]_vars PROVE FillsInv'
    BY <1>1, NextIInv, NextNumbered, NextFills, NextAuction DEF FillsInv
  <1> QED BY InitFills, <1>1, PTL DEF Spec

\* The filled quantity of an order is what its trades on the tape add up to,
\* also when a method failed with some trades made.
THEOREM FillsMatchTapeHolds == Spec => []FillsMatchTape
  <1>1. FillsInv => FillsMatchTape BY DEF FillsInv
  <1> QED BY <1>1, FillsInvariant, PTL

\* When Book.Uncross stops, no bid is at or above an ask.
THEOREM AuctionClearsBookHolds == Spec => []AuctionClearsBook
  <1>1. FillsInv => AuctionClearsBook BY ClearsBook
  <1> QED BY <1>1, FillsInvariant, PTL
-----------------------------------------------------------------------------
(***************************************************************************)
(* What a matching loop still has to do is a number, which every trade     *)
(* lowers by what it trades and nothing else changes, and the loop always  *)
(* either is over or has a trade to make: the part of MethodsReturn that   *)
(* is no matter of fairness.                                               *)
(***************************************************************************)
Wanted == IF Matching THEN orders[op.id].rem ELSE Executable(orders, book, op.price)

\* A loop that is not over has a counterparty at the head of the book.
NeverStuck ==
    /\ Wanted \in Nat
    /\ Matching => MatchDone \/ Counterparty # {}
    /\ UncrossDone => Wanted = 0

\* While a method runs, what it trades is exactly what it wants less.
LoopsShrink ==
    [][op.kind # "idle" /\ op' = op =>
         /\ tape' = tape => Wanted' = Wanted
         /\ \A t \in tape' \ tape : t.qty > 0 /\ Wanted' = Wanted - t.qty]_vars

LEMMA WantedType == ASSUME IInv, IsFiniteSet(book) PROVE Wanted \in Nat
  <1>1. CASE Matching
    <2>1. op.id \in OrderIds BY <1>1 DEF IInv, OpSound, Matching
    <2> QED BY <1>1, <2>1 DEF IInv, TypeOK, OrderRecords, Wanted
  <1>2. CASE ~Matching
    <2>1. BuyVolume(orders, book, op.price) \in Nat /\ SellVolume(orders, book, op.price) \in Nat
      BY VolumeFacts DEF IInv
    <2> QED BY <1>2, <2>1 DEF Wanted, Executable, Lesser
  <1> QED BY <1>1, <1>2

LEMMA MatchingGoesOn == ASSUME FillsInv, Matching PROVE MatchDone \/ Counterparty # {}
  <1> DEFINE o == op.id
             side == IF orders[o].side = "buy" THEN "sell" ELSE "buy"
  <1>1. o \in OrderIds BY DEF FillsInv, IInv, OpSound, Matching
  <1>2. /\ orders[o].rem \in Nat /\ orders[o].side \in Sides
        /\ orders[o].price \in Nat /\ orders[o].type \in {"limit", "market"}
    BY <1>1 DEF FillsInv, IInv, TypeOK, OrderRecords
  <1>3. side \in Sides /\ Opposite(orders[o].side) = {x \in book : orders[x].side = side}
    BY <1>2 DEF Opposite, Bids, Asks, Sides
  <1> SUFFICES ASSUME NEW r \in Opposite(orders[o].side), Crosses(o, r), orders[o].rem > 0
               PROVE  Counterparty # {}
    BY <1>2 DEF MatchDone
  <1> HIDE DEF side
  <1>4. r \in book /\ orders[r].side = side BY <1>3
  <1>5. PICK h : h \in BestOf({x \in book : orders[x].side = side})
    BY <1>3, <1>4, SideHasHead DEF FillsInv
  <1>6. /\ h \in book /\ orders[h].side = side
        /\ side = "buy" => orders[r].price <= orders[h].price
        /\ side = "sell" => orders[h].price <= orders[r].price
    BY <1>3, <1>4, <1>5, BestPrice DEF FillsInv, IInv
  <1>7. orders[h].price \in Nat /\ orders[r].price \in Nat
    BY <1>4, <1>6 DEF FillsInv, IInv, TypeOK, OrderRecords
  <1>8. orders[o].side = "buy" <=> side = "sell" BY <1>2 DEF side, Sides
  <1>9. Crosses(o, h) BY <1>2, <1>3, <1>6, <1>7, <1>8 DEF Crosses, Sides
  <1>10. h \in Counterparty BY <1>3, <1>5, <1>9 DEF Counterparty
  <1> QED BY <1>10

\* No bid or no ask accepts the auction price any more.
LEMMA AuctionGoesOn == ASSUME FillsInv, UncrossDone PROVE Wanted = 0
  <1> USE DEF FillsInv
  <1>1. TypeOK /\ IsFiniteSet(book) /\ op.kind = "uncross" /\ op.price \in Nat
    BY DEF IInv, Numbered, UncrossDone, TypeOK
  <1>2. /\ BuyVolume(orders, book, op.price) \in Nat /\ SellVolume(orders, book, op.price) \in Nat
    BY <1>1, VolumeFacts
  <1>3. \A x \in book : orders[x].price \in Nat BY <1>1 DEF TypeOK, OrderRecords
  <1>4. Buying(op.price) = {} \/ Selling(op.price) = {}
    <2> SUFFICES ASSUME NEW x \in Buying(op.price), NEW y \in Selling(op.price) PROVE FALSE
      OBVIOUS
    <2>1. /\ x \in book /\ orders[x].side = "buy" /\ orders[x].price >= op.price
          /\ y \in book /\ orders[y].side = "sell" /\ orders[y].price <= op.price
      BY DEF Buying, Selling
    <2>2. PICK b : b \in BestOf(Bids) BY <2>1, SideHasHead DEF Bids, Sides
    <2>3. PICK s : s \in BestOf(Asks) BY <2>1, SideHasHead DEF Asks, Sides
    <2>4. b \in book /\ orders[x].price <= orders[b].price
      BY <1>1, <2>1, <2>2, BestPrice DEF Bids, Sides
    <2>5. s \in book /\ orders[s].price <= orders[y].price
      BY <1>1, <2>1, <2>3, BestPrice DEF Asks, Sides
    <2>6. orders[b].price >= op.price /\ orders[s].price <= op.price
      BY <1>1, <1>3, <2>1, <2>4, <2>5
    <2>7. <<b, s>> \in AuctionPair BY <2>2, <2>3, <2>6 DEF AuctionPair
    <2> QED BY <2>7 DEF UncrossDone
  <1>5. BuyVolume(orders, book, op.price) = 0 \/ SellVolume(orders, book, op.price) = 0
    BY <1>1, <1>4, VolumeFacts, SumEmpty
  <1>6. ~Matching BY <1>1 DEF Matching
  <1> QED BY <1>2, <1>5, <1>6 DEF Wanted, Executable, Lesser

\* A trade of Book.Match.
LEMMA MatchShrinks ==
    ASSUME FillsInv, MatchBest, NEW t \in tape' \ tape
    PROVE  t.qty > 0 /\ Wanted' = Wanted - t.qty
  <1>1. IInv BY DEF FillsInv
  <1>2. PICK r \in book, qty \in Nat \ {0} :
          /\ r # op.id
          /\ orders' = [orders EXCEPT ![op.id] = Fill(op.id, qty, orders[op.id].status),
                                      ![r] = Fill(r, qty, RestingStatus(r, qty))]
          /\ IF orders[op.id].side = "buy" THEN Record(op.id, r, orders[r].price, qty)
                                           ELSE Record(r, op.id, orders[r].price, qty)
    BY <1>1, MatchBestFacts
  <1>3. op.id \in OrderIds BY <1>1, MatchBestFacts
  <1>4. t.qty = qty BY <1>2 DEF Record
  <1>5. orders'[op.id].rem = orders[op.id].rem - qty
    <2>1. orders'[op.id] = Fill(op.id, qty, orders[op.id].status)
      BY <1>1, <1>2, <1>3 DEF IInv, TypeOK
    <2>2. orders[op.id] \in OrderRecords BY <1>1, <1>3 DEF IInv, TypeOK
    <2> QED BY <2>1, <2>2 DEF Fill, OrderRecords
  <1>6. Matching /\ op' = op /\ Matching' BY DEF MatchBest, Matching
  <1>7. Wanted = orders[op.id].rem /\ Wanted' = orders'[op.id].rem BY <1>6 DEF Wanted
  <1> QED BY <1>2, <1>4, <1>5, <1>7

\* A trade of Book.Uncross: both sides lose it at the auction price.
LEMMA UncrossShrinks ==
    ASSUME FillsInv, UncrossBest, NEW t \in tape' \ tape
    PROVE  t.qty > 0 /\ Wanted' = Wanted - t.qty
  <1> USE DEF FillsInv
  <1>1. PICK b \in BestOf(Bids), s \in BestOf(Asks), qty \in Nat \ {0} :
          Lowered(b, s, qty)
    <2>1. IInv /\ IsFiniteSet(book) BY DEF Numbered
    <2> QED BY <2>1, VolumesAfter
  <1>2. t.qty = qty BY <1>1 DEF Lowered
  <1>3. /\ orders[b].price >= op.price /\ orders[s].price <= op.price
        /\ \A p : /\ BuyVolume(orders', book', p)
                        = BuyVolume(orders, book, p) - (IF b \in Buying(p) THEN qty ELSE 0)
                  /\ SellVolume(orders', book', p)
                        = SellVolume(orders, book, p) - (IF s \in Selling(p) THEN qty ELSE 0)
    BY <1>1 DEF Lowered
  <1>4. b \in Buying(op.price) /\ s \in Selling(op.price)
    BY <1>1, <1>3 DEF BestOf, Bids, Asks, Buying, Selling
  <1>5. /\ BuyVolume(orders', book', op.price) = BuyVolume(orders, book, op.price) - qty
        /\ SellVolume(orders', book', op.price) = SellVolume(orders, book, op.price) - qty
    BY <1>3, <1>4
  <1>6. BuyVolume(orders, book, op.price) \in Nat /\ SellVolume(orders, book, op.price) \in Nat
    BY VolumeFacts DEF IInv, Numbered
  <1>7. Executable(orders', book', op.price) = Executable(orders, book, op.price) - qty
    BY <1>1, <1>5, <1>6 DEF Executable, Lesser
  <1>8. op' = op /\ ~Matching /\ ~Matching' BY DEF UncrossBest, Matching
  <1> QED BY <1>1, <1>2, <1>7, <1>8 DEF Wanted

\* A request that is accepted meanwhile takes nothing away and adds nothing.
LEMMA AcceptWantsNothing ==
    ASSUME FillsInv, op.kind # "idle", NEW o \in OrderIds, Accept(o)
    PROVE  Wanted' = Wanted
  <1> USE DEF FillsInv
  <1>1. /\ \A x \in OrderIds \ {o} : orders'[x] = orders[x]
        /\ orders[o].status = "absent" /\ book' = book /\ op' = op
    BY DEF Accept, IInv, TypeOK
  <1>2. CASE Matching
    <2>1. op.id \in OrderIds /\ op.id # o
      BY <1>1, <1>2 DEF IInv, OpSound, Matching
    <2> QED BY <1>1, <1>2, <2>1 DEF Wanted, Matching
  <1>3. CASE ~Matching
    <2>1. \A x \in book : orders'[x] = orders[x]
      BY <1>1 DEF IInv, TypeOK, BookSound, Live, Active
    <2>2. Wants' = Wants BY <1>1, <2>1 DEF Wants
    <2>3. Buying(op.price)' = Buying(op.price) /\ Selling(op.price)' = Selling(op.price)
      BY <1>1, <2>1 DEF Buying, Selling
    <2>4. BuyVolume(orders, book, op.price)' = BuyVolume(orders, book, op.price)
      BY <2>2, <2>3 DEF BuyVolume, Wants, Buying
    <2>5. SellVolume(orders, book, op.price)' = SellVolume(orders, book, op.price)
      BY <2>2, <2>3 DEF SellVolume, Wants, Selling
    <2> QED BY <1>1, <1>3, <2>4, <2>5 DEF Wanted, Matching, Executable
  <1> QED BY <1>2, <1>3

LEMMA RecordGrows ==
    ASSUME FillsInv, NEW a, NEW b, NEW price, NEW qty, Record(a, b, price, qty)
    PROVE  tape' # tape
  <1>0. PICK t : t = [seq |-> nextSeq, buy |-> a, sell |-> b, price |-> price, qty |-> qty]
    OBVIOUS
  <1>1. t \in tape' /\ t.seq = nextSeq BY <1>0 DEF Record
  <1>2. \A u \in tape : u.seq \in Nat /\ u.seq < nextSeq /\ nextSeq \in Nat
    BY DEF FillsInv, Numbered, IInv, TypeOK, TradeRecords
  <1> QED BY <1>1, <1>2

Shrinks == op.kind # "idle" /\ op' = op =>
             /\ tape' = tape => Wanted' = Wanted
             /\ \A t \in tape' \ tape : t.qty > 0 /\ Wanted' = Wanted - t.qty

LEMMA NextShrinks == ASSUME FillsInv, [Next]_vars PROVE Shrinks
  <1> SUFFICES ASSUME op.kind # "idle", op' = op
               PROVE  /\ tape' = tape => Wanted' = Wanted
                      /\ \A t \in tape' \ tape : t.qty > 0 /\ Wanted' = Wanted - t.qty
    BY DEF Shrinks
  <1>1. CASE \E o \in OrderIds : Accept(o)
    <2>1. tape' = tape BY <1>1 DEF Accept
    <2> QED BY <1>1, <2>1, AcceptWantsNothing
  <1>2. CASE MatchBest
    <2>1. tape' # tape
      <3>1. PICK r \in book, qty \in Nat \ {0} :
              IF orders[op.id].side = "buy" THEN Record(op.id, r, orders[r].price, qty)
                                            ELSE Record(r, op.id, orders[r].price, qty)
        BY <1>2, MatchBestFacts DEF FillsInv
      <3> QED BY <3>1, RecordGrows
    <2> QED BY <1>2, <2>1, MatchShrinks
  <1>3. CASE UncrossBest
    <2>1. tape' # tape
      <3>1. PICK p \in AuctionPair : Record(p[1], p[2], op.price,
                                            Lesser(orders[p[1]].rem, orders[p[2]].rem))
        BY <1>3 DEF UncrossBest
      <3> QED BY <3>1, RecordGrows
    <2> QED BY <1>3, <2>1, UncrossShrinks
  <1>4. CASE DrawNumber \/ Rest \/ UNCHANGED vars
    <2>1. UNCHANGED <<orders, book, op, tape>> BY <1>4 DEF DrawNumber, Rest, vars
    <2> QED BY <2>1 DEF Wanted, Matching
  <1>5. op # Idle BY DEF Idle
  <1>6. /\ ~FinishMatch /\ ~FinishUncross /\ ~SequenceFails /\ ~BeginUncross /\ ~ExpireOpenOrders
        /\ \A o \in OrderIds : ~BeginPlace(o) /\ ~PlaceAuction(o) /\ ~Cancel(o)
    BY <1>5 DEF FinishMatch, FinishUncross, SequenceFails, Release, BeginUncross,
                ExpireOpenOrders, BeginPlace, PlaceAuction, Cancel
  <1>7. \A o \in OrderIds, n \in drawn, price \in Prices, qty \in Quantities :
           ~BeginAmend(o, n, price, qty) /\ ~AmendBelowFilled(o, n, price, qty)
    BY <1>5 DEF BeginAmend, Amended, AmendBelowFilled, AmendReady
  <1> QED BY <1>1, <1>2, <1>3, <1>4, <1>6, <1>7 DEF Next

\* A matching loop that is not over finds an order to trade with, whatever
\* the book, and Book.Uncross stops only when the whole volume is traded.
THEOREM NeverStuckHolds == Spec => []NeverStuck
  <1>1. FillsInv => NeverStuck
    BY WantedType, MatchingGoesOn, AuctionGoesOn DEF NeverStuck, FillsInv, Numbered
  <1> QED BY <1>1, FillsInvariant, PTL

\* Every trade brings its loop nearer to its end, by what is traded, and no
\* request that comes meanwhile takes it further away: with NeverStuck, an
\* auction trades exactly the volume that Indicative announced for its price.
THEOREM LoopsShrinkHolds == Spec => LoopsShrink
  <1>1. FillsInv /\ [Next]_vars
          => [op.kind # "idle" /\ op' = op =>
                /\ tape' = tape => Wanted' = Wanted
                /\ \A t \in tape' \ tape : t.qty > 0 /\ Wanted' = Wanted - t.qty]_vars
    BY NextShrinks DEF Shrinks
  <1> QED BY <1>1, FillsInvariant, PTL DEF Spec, LoopsShrink
-----------------------------------------------------------------------------
(***************************************************************************)
(* The auction price of every book is the contract's, and no price at all  *)
(* would execute more: the two properties of AuctionPriceMC, for its own   *)
(* behaviours, in which orders enter and leave the book as they like, and  *)
(* for those of the engine.                                                *)
(***************************************************************************)
\* What the price depends on: finitely many orders that want something.
Quoted == /\ IsFiniteSet(book)
          /\ \A o \in book : orders[o].price \in Nat /\ orders[o].rem \in Nat \ {0}

LEMMA MinimisingSome ==
    ASSUME NEW S, IsFiniteSet(S), S # {}, NEW cost, \A p \in S : cost[p] \in Int
    PROVE  /\ Minimising(S, cost) # {} /\ Minimising(S, cost) \subseteq S
           /\ IsFiniteSet(Minimising(S, cost))
  <1>1. PICK costs : costs = {cost[p] : p \in S} OBVIOUS
  <1>2. IsFiniteSet(costs) BY <1>1, FiniteValues
  <1>3. costs # {} /\ costs \subseteq Int BY <1>1
  <1>4. PICK least \in costs : \A c \in costs : least <= c BY <1>2, <1>3, FiniteMin
  <1>5. PICK p \in S : cost[p] = least BY <1>1
  <1>6. p \in Minimising(S, cost) BY <1>1, <1>4, <1>5 DEF Minimising
  <1>7. Minimising(S, cost) \subseteq S BY DEF Minimising
  <1> QED BY <1>6, <1>7, FS_Subset

Exec(p) == Executable(orders, book, p)
Uneven(p) == Imbalance(orders, book, p)
Away(ref, p) == AbsDiff(p, ref)

LEMMA QuotedVolumes ==
    ASSUME Quoted, NEW p
    PROVE  /\ BuyVolume(orders, book, p) = SumFunctionOnSet(Wants, Buying(p))
           /\ SellVolume(orders, book, p) = SumFunctionOnSet(Wants, Selling(p))
           /\ \A o \in book : Wants[o] = orders[o].rem /\ Wants[o] \in Nat
           /\ Buying(p) \subseteq book /\ Selling(p) \subseteq book
           /\ IsFiniteSet(Buying(p)) /\ IsFiniteSet(Selling(p))
           /\ BuyVolume(orders, book, p) \in Nat /\ SellVolume(orders, book, p) \in Nat
  <1>1. \A o \in book : orders[o].rem \in Nat BY DEF Quoted
  <1>2. IsFiniteSet(book) BY DEF Quoted
  <1> QED BY <1>1, <1>2, VolumesOf

LEMMA CostTypes ==
    ASSUME Quoted
    PROVE  /\ \A p : Exec(p) \in Nat /\ Uneven(p) \in Nat
           /\ Prospects \subseteq Nat /\ IsFiniteSet(Prospects)
  <1>1. \A p : BuyVolume(orders, book, p) \in Nat /\ SellVolume(orders, book, p) \in Nat
    BY QuotedVolumes DEF Quoted
  <1>2. \A p : Exec(p) \in Nat BY <1>1 DEF Exec, Executable, Lesser
  <1>3. \A p : Uneven(p) \in Nat BY <1>1 DEF Uneven, Imbalance, AbsDiff
  <1>4. Prospects \subseteq Nat BY DEF Prospects, Candidates, Quoted
  <1>5. IsFiniteSet(Prospects)
    <2>1. PICK live : live = {b \in book : orders[b].rem > 0} OBVIOUS
    <2>2. IsFiniteSet(live) BY <2>1, FS_Subset DEF Quoted
    <2> DEFINE price == [o \in live |-> orders[o].price]
    <2>3. Prospects = {price[o] : o \in live} BY <2>1 DEF Prospects, Candidates
    <2> HIDE DEF price
    <2> QED BY <2>2, <2>3, FiniteValues
  <1> QED BY <1>2, <1>3, <1>4, <1>5

LEMMA AwayType ==
    ASSUME Quoted, NEW ref, ref \in Nat
    PROVE  \A p \in Prospects : Away(ref, p) \in Nat
  <1>1. Prospects \subseteq Nat BY CostTypes
  <1> QED BY <1>1 DEF Away, AbsDiff

LEMMA ContractRules ==
    ASSUME Quoted, NEW ref, ref \in Nat
    PROVE  /\ \A p : p \in Most <=> p \in Prospects /\ \A q \in Prospects : Exec(q) <= Exec(p)
           /\ \A p : p \in LeastUneven <=> p \in Most /\ \A q \in Most : Uneven(p) <= Uneven(q)
           /\ \A p : p \in Nearest(ref) <=> p \in LeastUneven /\ \A q \in LeastUneven : Away(ref, p) <= Away(ref, q)
           /\ \A p : p \in Lowest(ref) <=> p \in Nearest(ref) /\ \A q \in Nearest(ref) : p <= q
  <1>1. \A p \in Prospects : Exec(p) \in Nat BY CostTypes
  <1>2. \A p : p \in Most <=> p \in Prospects /\ \A q \in Prospects : Exec(q) <= Exec(p)
    <2>1. \A p : p \in Most <=> p \in Prospects /\ \A q \in Prospects : -Exec(p) <= -Exec(q)
      BY DEF Most, Minimising, Exec
    <2> QED BY <1>1, <2>1
  <1>3. \A p : p \in LeastUneven <=> p \in Most /\ \A q \in Most : Uneven(p) <= Uneven(q)
    BY <1>2 DEF LeastUneven, Minimising, Uneven
  <1>4. \A p : p \in Nearest(ref) <=> p \in LeastUneven /\ \A q \in LeastUneven : Away(ref, p) <= Away(ref, q)
    BY <1>2, <1>3 DEF Nearest, Minimising, Away
  <1>5. \A p : p \in Lowest(ref) <=> p \in Nearest(ref) /\ \A q \in Nearest(ref) : p <= q
    BY <1>2, <1>3, <1>4 DEF Lowest, Minimising
  <1> QED BY <1>2, <1>3, <1>4, <1>5

LEMMA ContractPrice ==
    ASSUME Quoted, NEW ref, ref \in Nat
    PROVE  IndicativePrice(orders, book, ref) = Lowest(ref)
  <1> DEFINE Better(p, q) == \/ Exec(p) > Exec(q)
                             \/ Exec(p) = Exec(q) /\ Uneven(p) < Uneven(q)
                             \/ Exec(p) = Exec(q) /\ Uneven(p) = Uneven(q) /\ Away(ref, p) < Away(ref, q)
                             \/ /\ Exec(p) = Exec(q) /\ Uneven(p) = Uneven(q)
                                /\ Away(ref, p) = Away(ref, q) /\ p < q
  <1>1. \A p, q : BetterIndicative(orders, book, ref, p, q) <=> Better(p, q)
    BY DEF BetterIndicative, Exec, Uneven, Away
  <1>2. \A p : p \in IndicativePrice(orders, book, ref)
                 <=> p \in Prospects /\ \A q \in Prospects \ {p} : Better(p, q)
    BY <1>1 DEF IndicativePrice, Prospects
  <1>3. \A p \in Prospects : p \in Nat /\ Exec(p) \in Nat /\ Uneven(p) \in Nat /\ Away(ref, p) \in Nat
    BY CostTypes, AwayType
  <1>4. /\ \A p : p \in Most <=> p \in Prospects /\ \A q \in Prospects : Exec(q) <= Exec(p)
        /\ \A p : p \in LeastUneven <=> p \in Most /\ \A q \in Most : Uneven(p) <= Uneven(q)
        /\ \A p : p \in Nearest(ref)
                   <=> p \in LeastUneven /\ \A q \in LeastUneven : Away(ref, p) <= Away(ref, q)
        /\ \A p : p \in Lowest(ref) <=> p \in Nearest(ref) /\ \A q \in Nearest(ref) : p <= q
    BY ContractRules
  <1>5. ASSUME NEW p \in Prospects, \A q \in Prospects \ {p} : Better(p, q)
        PROVE  p \in Lowest(ref)
    <2>1. p \in Most BY <1>3, <1>5, <1>4
    <2>2. \A q \in Most : Exec(q) = Exec(p) /\ q \in Prospects
      BY <1>3, <2>1, <1>4
    <2>3. p \in LeastUneven BY <1>3, <1>5, <2>1, <2>2, <1>4
    <2>4. \A q \in LeastUneven : Uneven(q) = Uneven(p) /\ q \in Most
      BY <1>3, <2>2, <2>3, <1>4
    <2>5. p \in Nearest(ref) BY <1>3, <1>5, <2>2, <2>3, <2>4, <1>4
    <2>6. \A q \in Nearest(ref) : Away(ref, q) = Away(ref, p) /\ q \in LeastUneven
      BY <1>3, <2>2, <2>4, <2>5, <1>4
    <2>7. \A q \in Nearest(ref) : p <= q
      BY <1>3, <1>5, <2>2, <2>4, <2>6
    <2> QED BY <2>5, <2>7, <1>4
  <1>6. ASSUME NEW p \in Lowest(ref)
        PROVE  p \in Prospects /\ \A q \in Prospects \ {p} : Better(p, q)
    <2>1. p \in Nearest(ref) /\ p \in LeastUneven /\ p \in Most /\ p \in Prospects BY <1>4
    <2>2. ASSUME NEW q \in Prospects, q # p PROVE Better(p, q)
      <3>1. Exec(q) <= Exec(p) BY <2>1, <1>4
      <3>2. Exec(q) = Exec(p) => q \in Most /\ Uneven(p) <= Uneven(q)
        BY <1>3, <2>1, <1>4
      <3>3. Exec(q) = Exec(p) /\ Uneven(q) = Uneven(p) => q \in LeastUneven /\ Away(ref, p) <= Away(ref, q)
        BY <1>3, <2>1, <3>2, <1>4
      <3>4. Exec(q) = Exec(p) /\ Uneven(q) = Uneven(p) /\ Away(ref, q) = Away(ref, p) => p <= q
        BY <1>3, <2>1, <3>3, <1>4
      <3> QED BY <1>3, <2>1, <2>2, <3>1, <3>2, <3>3, <3>4
    <2> QED BY <2>1, <2>2
  <1> QED BY <1>2, <1>5, <1>6

\* A price at which anything is executed is no better than the lowest bid
\* that accepts it: no bid is lost, and no ask.
LEMMA SomeBidAsGood ==
    ASSUME Quoted, NEW p \in Nat, Exec(p) > 0
    PROVE  \E q \in Prospects : Exec(p) <= Exec(q)
  <1>1. /\ BuyVolume(orders, book, p) \in Nat /\ SellVolume(orders, book, p) \in Nat
    BY QuotedVolumes
  <1>2. BuyVolume(orders, book, p) # 0 BY <1>1 DEF Exec, Executable, Lesser
  <1>3. Buying(p) # {} BY <1>1, <1>2, QuotedVolumes, SumEmpty
  <1>4. PICK prices : prices = {orders[o].price : o \in Buying(p)} OBVIOUS
  <1>5. IsFiniteSet(prices)
    <2> DEFINE price == [o \in Buying(p) |-> orders[o].price]
    <2>1. prices = {price[o] : o \in Buying(p)} BY <1>4
    <2>2. IsFiniteSet(Buying(p)) BY <1>1, QuotedVolumes
    <2> HIDE DEF price
    <2> QED BY <2>1, <2>2, FiniteValues
  <1>6. \A o \in book : orders[o].price \in Nat /\ orders[o].rem \in Nat /\ orders[o].rem > 0
    BY DEF Quoted
  <1>7. prices # {} /\ prices \subseteq Int
    <2>1. \A o \in Buying(p) : orders[o].price \in Int BY <1>6 DEF Buying
    <2> QED BY <1>3, <1>4, <2>1
  <1>8. PICK q \in prices : \A z \in prices : q <= z BY <1>5, <1>7, FiniteMin
  <1>9. PICK h \in Buying(p) : orders[h].price = q BY <1>4
  <1>10. q \in Prospects BY <1>6, <1>9 DEF Prospects, Candidates, Buying
  <1>11. q \in Nat /\ q >= p BY <1>6, <1>9 DEF Buying
  <1>12. Buying(q) = Buying(p)
    <2>1. \A o \in Buying(p) : o \in Buying(q) BY <1>4, <1>8 DEF Buying
    <2>2. \A o \in Buying(q) : o \in Buying(p) BY <1>6, <1>11 DEF Buying
    <2> QED BY <2>1, <2>2
  <1>13. Selling(p) \subseteq Selling(q) BY <1>6, <1>11 DEF Selling
  <1>14. BuyVolume(orders, book, q) = BuyVolume(orders, book, p)
    BY <1>1, <1>12, QuotedVolumes
  <1>15. SellVolume(orders, book, p) <= SellVolume(orders, book, q)
    <2>1. IsFiniteSet(Selling(q)) /\ \A o \in Selling(q) : Wants[o] \in Nat
      BY <1>1, QuotedVolumes
    <2>2. SumFunctionOnSet(Wants, Selling(p)) <= SumFunctionOnSet(Wants, Selling(q))
      BY <1>13, <2>1, SumPart
    <2> QED BY <1>1, <2>2, QuotedVolumes
  <1>16. SellVolume(orders, book, q) \in Nat BY <1>1, QuotedVolumes
  <1>17. Exec(p) <= Exec(q) BY <1>1, <1>14, <1>15, <1>16 DEF Exec, Executable, Lesser
  <1> QED BY <1>10, <1>17

LEMMA NoPriceExecutesMore ==
    ASSUME Quoted
    PROVE  NoTickExecutesMore
  <1> SUFFICES ASSUME NEW ref \in References
               PROVE  \A p \in Nat : Exec(p) <= Volume(ref)
    BY PricesAssumption DEF NoTickExecutesMore, Exec
  <1>0. ref \in Nat BY PricesAssumption
  <1>1. IsFiniteSet(book) BY DEF Quoted
  <1>2. \A p : Exec(p) \in Nat BY CostTypes
  <1>3. CASE book = {}
    <2>1. ASSUME NEW p \in Nat PROVE Exec(p) = 0
      <3>1. Buying(p) = {} BY <1>3 DEF Buying
      <3>2. BuyVolume(orders, book, p) = 0 BY <1>1, <1>3, <3>1, QuotedVolumes, FS_EmptySet, SumEmpty
      <3>3. SellVolume(orders, book, p) \in Nat BY <1>1, QuotedVolumes
      <3> QED BY <3>2, <3>3 DEF Exec, Executable, Lesser
    <2> QED BY <1>3, <2>1 DEF Volume
  <1>4. CASE book # {}
    <2>1. PICK o \in book : TRUE BY <1>4
    <2>2. orders[o].price \in Prospects
      BY DEF Prospects, Candidates, Quoted
    <2>3. IsFiniteSet(Prospects) /\ \A p \in Prospects : p \in Nat /\ Away(ref, p) \in Nat
          /\ \A q : Uneven(q) \in Nat
      BY <1>0, CostTypes, AwayType
    <2>4. Most # {} /\ Most \subseteq Prospects /\ IsFiniteSet(Most)
      <3>1. PICK cost : cost = [p \in Prospects |-> -Executable(orders, book, p)] OBVIOUS
      <3>2. \A p \in Prospects : cost[p] \in Int BY <1>2, <3>1 DEF Exec
      <3> QED BY <2>2, <2>3, <3>1, <3>2, MinimisingSome DEF Most
    <2>5. LeastUneven # {} /\ LeastUneven \subseteq Most /\ IsFiniteSet(LeastUneven)
      <3>1. PICK cost : cost = [p \in Prospects |-> Imbalance(orders, book, p)] OBVIOUS
      <3>2. \A p \in Most : cost[p] \in Int BY <2>3, <2>4, <3>1 DEF Uneven
      <3> QED BY <2>4, <3>1, <3>2, MinimisingSome DEF LeastUneven
    <2>6. Nearest(ref) # {} /\ Nearest(ref) \subseteq LeastUneven /\ IsFiniteSet(Nearest(ref))
      <3>1. PICK cost : cost = [p \in Prospects |-> AbsDiff(p, ref)] OBVIOUS
      <3>2. \A p \in LeastUneven : cost[p] \in Int BY <2>3, <2>4, <2>5, <3>1 DEF Away
      <3> QED BY <2>5, <3>1, <3>2, MinimisingSome DEF Nearest
    <2>7. Lowest(ref) # {} /\ Lowest(ref) \subseteq Nearest(ref)
      <3>1. PICK cost : cost = [p \in Prospects |-> p] OBVIOUS
      <3>2. \A p \in Nearest(ref) : cost[p] \in Int BY <2>3, <2>4, <2>5, <2>6, <3>1
      <3> QED BY <2>6, <3>1, <3>2, MinimisingSome DEF Lowest
    <2>8. PICK iep : iep = CHOOSE p \in IndicativePrice(orders, book, ref) : TRUE
      OBVIOUS
    <2>9. iep \in Lowest(ref) BY <1>0, <2>7, <2>8, ContractPrice
    <2>10. iep \in Most BY <2>5, <2>6, <2>7, <2>9
    <2>11. \A q \in Prospects : Exec(q) <= Exec(iep) BY <1>0, <2>10, ContractRules
    <2>12. ASSUME NEW p \in Nat PROVE Exec(p) <= Exec(iep)
      <3>1. CASE Exec(p) = 0 BY <1>2, <3>1
      <3>2. CASE Exec(p) > 0
        <4>1. PICK q \in Prospects : Exec(p) <= Exec(q) BY <3>2, SomeBidAsGood
        <4> QED BY <1>2, <2>11, <4>1
      <3> QED BY <1>2, <3>1, <3>2
    <2>13. Volume(ref) = Exec(iep) BY <1>4, <2>8 DEF Volume, IEP, Exec
    <2> QED BY <2>12, <2>13
  <1> QED BY <1>3, <1>4

LEMMA FollowsContract ==
    ASSUME Quoted
    PROVE  IndicativeFollowsContract
  <1>1. ASSUME NEW ref \in References PROVE IndicativePrice(orders, book, ref) = Lowest(ref)
    <2>1. ref \in Nat BY PricesAssumption
    <2> QED BY <2>1, ContractPrice
  <1> QED BY <1>1 DEF IndicativeFollowsContract

LEMMA EngineQuotes == ASSUME FillsInv PROVE Quoted
  <1>1. IsFiniteSet(book) BY DEF FillsInv, Numbered
  <1>2. ASSUME NEW o \in book PROVE orders[o].price \in Nat /\ orders[o].rem \in Nat \ {0}
    <2>1. orders[o].rem > 0 BY DEF FillsInv, IInv, BookSound, Live
    <2>2. orders[o] \in OrderRecords BY DEF FillsInv, IInv, TypeOK
    <2> QED BY <2>1, <2>2 DEF OrderRecords
  <1> QED BY <1>1, <1>2 DEF Quoted

\* In every state of the engine the price that auction.go finds in one pass,
\* comparing pair by pair, is the one the rules of the contract leave.
THEOREM IndicativeFollowsContractHolds == Spec => []IndicativeFollowsContract
  <1>1. FillsInv => IndicativeFollowsContract
    BY EngineQuotes, FollowsContract
  <1> QED BY <1>1, FillsInvariant, PTL

\* Nor would any other price, named by an order or not, execute more.
THEOREM NoTickExecutesMoreHolds == Spec => []NoTickExecutesMore
  <1>1. FillsInv => NoTickExecutesMore
    BY EngineQuotes, NoPriceExecutesMore
  <1> QED BY <1>1, FillsInvariant, PTL

\* The books of AuctionPriceMC.
PricesInv == /\ IsFiniteSet(book) /\ book \subseteq OrderIds
             /\ DOMAIN orders = OrderIds
             /\ \A o \in OrderIds : {"side", "price", "rem"} \subseteq DOMAIN orders[o]
             /\ \A o \in book : orders[o].price \in Nat /\ orders[o].rem \in Nat \ {0}

LEMMA PricesInvQuotes == ASSUME PricesInv PROVE Quoted
  BY DEF PricesInv, Quoted

LEMMA PricesInvariant == BooksSpec => []PricesInv
  <1>1. Init => PricesInv
    BY FS_EmptySet DEF Init, PricesInv, Absent
  <1>2. ASSUME PricesInv, [BooksNext]_vars PROVE PricesInv'
    <2>1. CASE UNCHANGED vars BY <1>2, <2>1 DEF PricesInv, vars
    <2>2. ASSUME NEW o \in OrderIds, NEW quote \in Quotes, Enter(o, quote)
          PROVE  PricesInv'
      <3>1. /\ o \notin book /\ book' = book \cup {o}
            /\ orders' = [orders EXCEPT ![o].side = quote.side, ![o].price = quote.price,
                                        ![o].rem = quote.rem]
        BY <2>2 DEF Enter
      <3>2. quote.price \in Nat /\ quote.rem \in Nat \ {0} BY EngineAssumption DEF Quotes
      <3>3. IsFiniteSet(book') BY <1>2, <3>1, FS_AddElement DEF PricesInv
      <3>4. PICK old : old = orders[o] OBVIOUS
      <3>5. PICK new : new = [old EXCEPT !.side = quote.side, !.price = quote.price,
                                         !.rem = quote.rem] OBVIOUS
      <3>6. orders' = [orders EXCEPT ![o] = new] BY <1>2, <3>1, <3>4, <3>5 DEF PricesInv
      <3>7. {"side", "price", "rem"} \subseteq DOMAIN old BY <1>2, <3>4 DEF PricesInv
      <3>8. DOMAIN new = DOMAIN old /\ new.price = quote.price /\ new.rem = quote.rem
        BY <3>5, <3>7
      <3>9. DOMAIN orders' = OrderIds /\ orders'[o] = new
            /\ \A x \in OrderIds \ {o} : orders'[x] = orders[x]
        BY <1>2, <3>6 DEF PricesInv
      <3>10. \A x \in OrderIds : {"side", "price", "rem"} \subseteq DOMAIN orders'[x]
        BY <1>2, <3>7, <3>8, <3>9 DEF PricesInv
      <3>11. \A x \in book' : orders'[x].price \in Nat /\ orders'[x].rem \in Nat \ {0}
        BY <1>2, <3>1, <3>2, <3>8, <3>9 DEF PricesInv
      <3>12. book' \subseteq OrderIds BY <1>2, <3>1 DEF PricesInv
      <3> QED BY <3>3, <3>9, <3>10, <3>11, <3>12 DEF PricesInv
    <2>3. ASSUME NEW o \in OrderIds, Leave(o) PROVE PricesInv'
      <3>1. book' = book \ {o} /\ orders' = [orders EXCEPT ![o] = Absent]
        BY <2>3 DEF Leave
      <3>2. IsFiniteSet(book') BY <1>2, <3>1, FS_Subset DEF PricesInv
      <3>3. DOMAIN orders' = OrderIds /\ orders'[o] = Absent
            /\ \A x \in OrderIds \ {o} : orders'[x] = orders[x]
        BY <1>2, <3>1 DEF PricesInv
      <3>4. {"side", "price", "rem"} \subseteq DOMAIN Absent BY DEF Absent
      <3> QED BY <1>2, <3>1, <3>2, <3>3, <3>4 DEF PricesInv
    <2> QED BY <1>2, <2>1, <2>2, <2>3 DEF BooksNext
  <1> QED BY <1>1, <1>2, PTL DEF BooksSpec

\* And of any book at all, whatever orders entered and left it.
THEOREM AnyBookFollowsContract == BooksSpec => []IndicativeFollowsContract
  <1>1. PricesInv => IndicativeFollowsContract
    BY PricesInvQuotes, FollowsContract
  <1> QED BY <1>1, PricesInvariant, PTL

\* No book has a price that would execute more than the one that is found.
THEOREM AnyBookExecutesMost == BooksSpec => []NoTickExecutesMore
  <1>1. PricesInv => NoTickExecutesMore
    BY PricesInvQuotes, NoPriceExecutesMore
  <1> QED BY <1>1, PricesInvariant, PTL

-----------------------------------------------------------------------------
(***************************************************************************)
(* The order lifecycle.                                                    *)
(***************************************************************************)
\* A step that leaves the other orders alone changes one life.
LEMMA OneLife ==
    ASSUME NEW o \in OrderIds, \A x \in OrderIds \ {o} : orders'[x] = orders[x]
    PROVE  Life' = [Life EXCEPT ![o] = [status |-> orders'[o].status, orig |-> orders'[o].orig,
                                        rem |-> orders'[o].rem, filled |-> orders'[o].filled]]
  BY DEF Life

\* The engine starts with blank lives.
LEMMA InitLife == Init => L!Init
  BY DEF Init, Life, Absent, L!Init, L!Blank

-----------------------------------------------------------------------------
\* An order that has not entered asks for nothing.  The engine's inductive
\* invariant does not say so, and a new life must start blank.
Fresh == \A o \in OrderIds : orders[o].status = "absent" => orders[o] = Absent

\* What a step may do to the record of x without harm to Fresh.
Enters(x) == orders'[x] = orders[x] \/ orders'[x].status # "absent"

\* A trade between orders that have entered.
LEMMA TradeEnters ==
    ASSUME TypeOK, NEW a, NEW b, NEW qty, NEW sa, NEW sb, Trades(a, b, qty, sa, sb),
           sa # "absent", sb # "absent", NEW x \in OrderIds
    PROVE  Enters(x)
  <1>1. /\ \A y \in OrderIds \ {a, b} : orders'[y] = orders[y]
        /\ orders'[a].status = sa /\ orders'[b].status = sb
    BY TradeFacts
  <1> QED BY <1>1 DEF Enters

\* No step makes an order absent.
LEMMA NextEnters == ASSUME IInv, [Next]_vars, NEW x \in OrderIds PROVE Enters(x)
  <1> USE DEF IInv
  <1>1. ASSUME NEW o \in OrderIds,
               Accept(o) \/ PlaceAuction(o) \/ Cancel(o)
        PROVE  Enters(x)
    BY <1>1 DEF Accept, PlaceAuction, Cancel, TypeOK, OrderRecords, Enters
  <1>2. ASSUME NEW o \in OrderIds, NEW n \in drawn, NEW price \in Prices, NEW qty \in Quantities,
               BeginAmend(o, n, price, qty)
        PROVE  Enters(x)
    BY <1>2 DEF BeginAmend, Amended, TypeOK, OrderRecords, Enters
  <1>3. ASSUME NEW o \in OrderIds, NEW n \in drawn, NEW price \in Prices, NEW qty \in Quantities,
               AmendBelowFilled(o, n, price, qty)
        PROVE  Enters(x)
    <2>1. /\ Live(o) /\ orders'[o].status = orders[o].status
          /\ \A y \in OrderIds \ {o} : orders'[y] = orders[y]
      BY <1>3 DEF AmendBelowFilled, AmendReady, TypeOK, OrderRecords
    <2> QED BY <2>1 DEF Enters, Live, Active
  <1>4. ASSUME MatchBest PROVE Enters(x)
    <2>1. PICK r \in book, qty \in Nat \ {0} :
            /\ r \in OrderIds /\ r # op.id /\ Live(r)
            /\ qty <= orders[op.id].rem /\ qty <= orders[r].rem
            /\ orders' = [orders EXCEPT ![op.id] = Fill(op.id, qty, orders[op.id].status),
                                        ![r] = Fill(r, qty, RestingStatus(r, qty))]
      BY <1>4, MatchBestFacts
    <2>2. op.id \in OrderIds /\ op.kind \in {"place", "amend"}
      BY <1>4, MatchBestFacts
    <2>3. orders[op.id].status \in Statuses /\ RestingStatus(r, qty) \in Statuses
      BY <2>2 DEF TypeOK, OrderRecords, RestingStatus, Statuses
    <2>4. Trades(op.id, r, qty, orders[op.id].status, RestingStatus(r, qty))
      BY <2>1, <2>2, <2>3 DEF Trades
    <2>5. orders[op.id].status # "absent" /\ RestingStatus(r, qty) # "absent"
      BY <2>2 DEF OpSound, RestingStatus
    <2> QED BY <2>4, <2>5, TradeEnters
  <1>5. ASSUME FinishMatch PROVE Enters(x)
    <2>1. /\ op.id \in OrderIds /\ orders[op.id].rem \in Nat /\ orders[op.id].filled \in Nat
          /\ orders[op.id].type \in {"limit", "market"}
      BY <1>5 DEF FinishMatch, MatchDone, OpSound, TypeOK, OrderRecords
    <2>2. FinalStatus(op.id) # "absent"
      BY <2>1 DEF FinalStatus
    <2>3. /\ orders'[op.id].status = FinalStatus(op.id)
          /\ \A y \in OrderIds \ {op.id} : orders'[y] = orders[y]
      BY <1>5, <2>1 DEF FinishMatch, TypeOK, OrderRecords
    <2> QED BY <2>2, <2>3 DEF Enters
  <1>6. ASSUME UncrossBest PROVE Enters(x)
    <2>1. PICK b \in book, s \in book, qty \in Nat \ {0} :
            Trades(b, s, qty, RestingStatus(b, qty), RestingStatus(s, qty))
      BY <1>6, UncrossBestFacts
    <2>2. RestingStatus(b, qty) # "absent" /\ RestingStatus(s, qty) # "absent"
      BY DEF RestingStatus
    <2> QED BY <2>1, <2>2, TradeEnters
  <1>7. ASSUME ExpireOpenOrders PROVE Enters(x)
    BY <1>7 DEF ExpireOpenOrders, TypeOK, OrderRecords, Enters
  <1>8. ASSUME UNCHANGED orders PROVE Enters(x)
    BY <1>8 DEF Enters
  <1> QED
    BY <1>1, <1>2, <1>3, <1>4, <1>5, <1>6, <1>7, <1>8
       DEF Next, DrawNumber, BeginPlace, BeginUncross, FinishUncross, SequenceFails, Rest, vars

\* An order that has not entered is blank in every reachable state.
LEMMA FreshHolds == Spec => []Fresh
  <1>1. Init => Fresh
    BY DEF Init, Fresh
  <1>2. ASSUME IInv, Fresh, [Next]_vars PROVE Fresh'
    BY <1>2, NextEnters DEF Fresh, Enters, Absent
  <1> QED BY <1>1, <1>2, Invariance, PTL DEF Spec
-----------------------------------------------------------------------------
\* A request enters as a new life.
LEMMA AcceptLife == ASSUME IInv, Fresh, NEW o \in OrderIds, Accept(o) PROVE L!Next
  <1>1. orders[o] = Absent
    BY DEF Accept, Fresh
  <1>2. PICK qty \in Quantities :
          /\ orders'[o].status = "accepted" /\ orders'[o].orig = qty
          /\ orders'[o].rem = qty /\ orders'[o].filled = 0
    BY DEF Accept, IInv, TypeOK
  <1>3. \A x \in OrderIds \ {o} : orders'[x] = orders[x]
    BY DEF Accept, IInv, TypeOK
  <1>4. Life[o] = L!Blank
    BY <1>1 DEF Life, Absent, L!Blank
  <1>5. L!Accept(o, qty)
    BY <1>2, <1>3, <1>4, OneLife DEF L!Accept
  <1> QED BY <1>5 DEF L!Next

\* An order that changes nothing but its status, to what its fills make it.
LEMMA SettleLife ==
    ASSUME NEW o \in OrderIds, \A x \in OrderIds \ {o} : orders'[x] = orders[x],
           orders[o].status \in {"accepted", "amended"},
           orders'[o].rem = orders[o].rem, orders'[o].filled = orders[o].filled,
           orders'[o].orig = orders[o].orig,
           orders'[o].status = IF orders[o].rem = 0 THEN "filled"
                               ELSE IF orders[o].filled > 0 THEN "partially_filled" ELSE "open"
    PROVE  L!Next
  <1>1. Life' = [Life EXCEPT ![o].status = orders'[o].status]
    BY DEF Life
  <1>2. /\ Life[o].status = orders[o].status /\ Life[o].rem = orders[o].rem
        /\ Life[o].filled = orders[o].filled
    BY DEF Life
  <1>3. L!Settle(o)
    BY <1>1, <1>2 DEF L!Settle
  <1> QED BY <1>3 DEF L!Next

\* Orders that stop with quantity left.
LEMMA CloseLife ==
    ASSUME NEW S \in SUBSET OrderIds, S # {},
           NEW status \in {"cancelled", "rejected", "expired"},
           \A o \in S : orders[o].status \in L!Working /\ orders[o].rem > 0,
           status = "rejected" => \A o \in S : orders[o].filled = 0,
           \A o \in OrderIds \ S : orders'[o] = orders[o],
           \A o \in S : /\ orders'[o].rem = 0 /\ orders'[o].status = status
                        /\ orders'[o].filled = orders[o].filled
                        /\ orders'[o].orig = orders[o].orig
    PROVE  L!Next
  <1>1. Life' = [o \in OrderIds |->
                   IF o \in S THEN [Life[o] EXCEPT !.rem = 0, !.status = status] ELSE Life[o]]
    BY DEF Life
  <1>2. \A o \in OrderIds : /\ Life[o].status = orders[o].status
                            /\ Life[o].rem = orders[o].rem
                            /\ Life[o].filled = orders[o].filled
    BY DEF Life
  <1>3. L!Close(S, status)
    BY <1>1, <1>2 DEF L!Close
  <1> QED BY <1>3 DEF L!Next

\* An order that is collected still wants everything: it settles as open.
LEMMA PlaceAuctionLife == ASSUME IInv, NEW o \in OrderIds, PlaceAuction(o) PROVE L!Next
  <1>1. /\ orders[o].status = "accepted" /\ orders'[o].status = "open"
        /\ orders'[o].rem = orders[o].rem /\ orders'[o].filled = orders[o].filled
        /\ orders'[o].orig = orders[o].orig
        /\ \A x \in OrderIds \ {o} : orders'[x] = orders[x]
    BY DEF PlaceAuction, IInv, TypeOK, OrderRecords
  <1>2. orders[o].filled = 0 /\ orders[o].rem > 0
    BY EngineAssumption DEF PlaceAuction, IInv, AcceptedWants, Idle
  <1> QED BY <1>1, <1>2, SettleLife

\* An accepted amendment, before it is matched.
LEMMA BeginAmendLife ==
    ASSUME IInv, NEW o \in OrderIds, NEW n \in drawn, NEW price \in Prices, NEW qty \in Quantities,
           BeginAmend(o, n, price, qty)
    PROVE  L!Next
  <1>1. /\ Live(o) /\ qty >= orders[o].filled
        /\ orders'[o].status = "amended" /\ orders'[o].orig = qty
        /\ orders'[o].rem = qty - orders[o].filled /\ orders'[o].filled = orders[o].filled
        /\ \A x \in OrderIds \ {o} : orders'[x] = orders[x]
    BY DEF BeginAmend, Amended, AmendReady, IInv, TypeOK, OrderRecords
  <1>2. Life' = [Life EXCEPT ![o].orig = qty, ![o].rem = qty - Life[o].filled,
                             ![o].status = "amended"]
    BY <1>1 DEF Life
  <1>3. /\ Life[o].status = orders[o].status /\ Life[o].rem = orders[o].rem
        /\ Life[o].filled = orders[o].filled
    BY DEF Life
  <1>4. L!Amend(o, qty)
    BY <1>1, <1>2, <1>3 DEF L!Amend, L!Working, Live, Active
  <1> QED BY <1>4 DEF L!Next

\* A refused amendment changes the price only, which no life knows of.
LEMMA AmendBelowFilledLife ==
    ASSUME IInv, NEW o \in OrderIds, NEW n \in drawn, NEW price \in Prices, NEW qty \in Quantities,
           AmendBelowFilled(o, n, price, qty)
    PROVE  UNCHANGED Life
  <1>1. /\ orders'[o].status = orders[o].status /\ orders'[o].orig = orders[o].orig
        /\ orders'[o].rem = orders[o].rem /\ orders'[o].filled = orders[o].filled
        /\ \A x \in OrderIds \ {o} : orders'[x] = orders[x]
    BY DEF AmendBelowFilled, IInv, TypeOK, OrderRecords
  <1> QED BY <1>1 DEF Life

\* A trade is an exchange between two different working orders.
LEMMA TradeLife ==
    ASSUME TypeOK, NEW a, NEW b, NEW qty, NEW sa, NEW sb, Trades(a, b, qty, sa, sb), qty > 0,
           orders[a].status \in L!Working, orders[b].status \in L!Working,
           sa \in {orders[a].status, RestingStatus(a, qty)},
           sb \in {orders[b].status, RestingStatus(b, qty)}
    PROVE  L!Next
  <1>1. /\ a \in OrderIds /\ b \in OrderIds /\ a # b /\ qty \in Nat
        /\ qty <= orders[a].rem /\ qty <= orders[b].rem
        /\ orders[a].rem \in Nat
    BY DEF Trades, TypeOK, OrderRecords
  <1>2. /\ \A x \in OrderIds \ {a, b} : orders'[x] = orders[x]
        /\ orders'[a].status = sa /\ orders'[b].status = sb
        /\ \A x \in {a, b} : /\ orders'[x].rem = orders[x].rem - qty
                             /\ orders'[x].filled = orders[x].filled + qty
                             /\ orders'[x].orig = orders[x].orig
    BY TradeFacts
  <1>3. \A x \in {a, b} : /\ Life[x].status = orders[x].status /\ Life[x].rem = orders[x].rem
                          /\ Life[x].filled = orders[x].filled
    BY <1>1 DEF Life
  <1>4. sa \in L!StatusAfter(a, qty) /\ sb \in L!StatusAfter(b, qty)
    BY <1>3 DEF L!StatusAfter, RestingStatus
  <1>5. Life' = [Life EXCEPT ![a] = L!Bought(a, qty, sa), ![b] = L!Bought(b, qty, sb)]
    BY <1>1, <1>2 DEF Life, L!Bought
  <1>6. L!Exchange(a, b, qty)
    BY <1>1, <1>3, <1>4, <1>5 DEF L!Exchange
  <1>7. qty \in 1..Life[a].rem
    BY <1>1, <1>3
  <1> QED BY <1>1, <1>6, <1>7 DEF L!Next

\* A trade of a match: the incoming order keeps its status.
LEMMA MatchBestLife == ASSUME IInv, MatchBest PROVE L!Next
  <1> USE DEF IInv
  <1>1. PICK r \in book, qty \in Nat \ {0} :
          /\ r \in OrderIds /\ r # op.id /\ Live(r)
          /\ qty <= orders[op.id].rem /\ qty <= orders[r].rem
          /\ orders' = [orders EXCEPT ![op.id] = Fill(op.id, qty, orders[op.id].status),
                                      ![r] = Fill(r, qty, RestingStatus(r, qty))]
    BY MatchBestFacts
  <1>2. op.id \in OrderIds /\ op.kind \in {"place", "amend"}
    BY MatchBestFacts
  <1>3. orders[op.id].status \in Statuses /\ RestingStatus(r, qty) \in Statuses
    BY <1>2 DEF TypeOK, OrderRecords, RestingStatus, Statuses
  <1>4. Trades(op.id, r, qty, orders[op.id].status, RestingStatus(r, qty))
    BY <1>1, <1>2, <1>3 DEF Trades
  <1>5. orders[op.id].status \in L!Working /\ orders[r].status \in L!Working
    BY <1>1, <1>2 DEF OpSound, Live, Active, L!Working
  <1> QED BY <1>1, <1>4, <1>5, TradeLife

\* A trade of an auction.
LEMMA UncrossBestLife == ASSUME IInv, UncrossBest PROVE L!Next
  <1>1. PICK b \in book, s \in book, qty \in Nat \ {0} :
          /\ Live(b) /\ Live(s)
          /\ Trades(b, s, qty, RestingStatus(b, qty), RestingStatus(s, qty))
    BY UncrossBestFacts
  <1>2. orders[b].status \in L!Working /\ orders[s].status \in L!Working
    BY <1>1 DEF Live, Active, L!Working
  <1> QED BY <1>1, <1>2, TradeLife DEF IInv

\* The end of a match settles the order, or closes what is left of a market one.
LEMMA FinishMatchLife == ASSUME IInv, FinishMatch PROVE L!Next
  <1> DEFINE o == op.id
  <1> USE DEF IInv
  <1>1. /\ o \in OrderIds /\ orders[o].status \in {"accepted", "amended"}
        /\ orders[o].rem \in Nat /\ orders[o].filled \in Nat
        /\ orders[o].type \in {"limit", "market"}
    BY DEF FinishMatch, MatchDone, OpSound, Matching, TypeOK, OrderRecords
  <1>2. /\ orders'[o].status = FinalStatus(o)
        /\ orders'[o].rem = IF orders[o].type = "market" THEN 0 ELSE orders[o].rem
        /\ orders'[o].filled = orders[o].filled /\ orders'[o].orig = orders[o].orig
        /\ \A x \in OrderIds \ {o} : orders'[x] = orders[x]
    BY <1>1 DEF FinishMatch, TypeOK, OrderRecords
  <1>3. CASE orders[o].rem = 0 \/ orders[o].type = "limit"
    <2>1. orders'[o].status = IF orders[o].rem = 0 THEN "filled"
                              ELSE IF orders[o].filled > 0 THEN "partially_filled" ELSE "open"
      BY <1>1, <1>2, <1>3 DEF FinalStatus
    <2>2. orders'[o].rem = orders[o].rem
      BY <1>2, <1>3
    <2> HIDE DEF o
    <2> QED BY <1>1, <1>2, <2>1, <2>2, SettleLife
  <1>4. CASE orders[o].rem > 0 /\ orders[o].type = "market"
    <2>1. PICK status \in {"cancelled", "rejected"} :
            /\ orders'[o].status = status
            /\ status = "rejected" => orders[o].filled = 0
      BY <1>1, <1>2, <1>4 DEF FinalStatus
    <2>2. orders[o].status \in L!Working /\ orders'[o].rem = 0
      BY <1>1, <1>2, <1>4 DEF L!Working
    <2> HIDE DEF o
    <2>3. {o} \in SUBSET OrderIds /\ {o} # {}
      BY <1>1
    <2> QED BY <1>1, <1>2, <1>4, <2>1, <2>2, <2>3, CloseLife
  <1> QED BY <1>1, <1>3, <1>4

\* A cancellation closes one order, an expiry all that are live.
LEMMA CancelLife == ASSUME IInv, NEW o \in OrderIds, Cancel(o) PROVE L!Next
  <1>1. /\ Live(o) /\ orders'[o].rem = 0 /\ orders'[o].status = "cancelled"
        /\ orders'[o].filled = orders[o].filled /\ orders'[o].orig = orders[o].orig
        /\ \A x \in OrderIds \ {o} : orders'[x] = orders[x]
    BY DEF Cancel, IInv, TypeOK, OrderRecords
  <1>2. {o} \in SUBSET OrderIds /\ {o} # {}
    OBVIOUS
  <1>3. orders[o].status \in L!Working /\ orders[o].rem > 0
    BY <1>1 DEF L!Working, Live, Active
  <1> QED BY <1>1, <1>2, <1>3, CloseLife

\* The end of the session.
LEMMA ExpireLife == ASSUME IInv, ExpireOpenOrders PROVE L!Next
  <1> DEFINE S == {o \in OrderIds : Live(o)}
  <1>1. S \in SUBSET OrderIds /\ S # {}
    BY DEF ExpireOpenOrders
  <1>2. /\ \A o \in S : /\ orders'[o].rem = 0 /\ orders'[o].status = "expired"
                        /\ orders'[o].filled = orders[o].filled
                        /\ orders'[o].orig = orders[o].orig
        /\ \A o \in OrderIds \ S : orders'[o] = orders[o]
    BY DEF ExpireOpenOrders, IInv, TypeOK, OrderRecords
  <1>3. \A o \in S : orders[o].status \in L!Working /\ orders[o].rem > 0
    BY DEF L!Working, Live, Active
  <1> HIDE DEF S
  <1> QED BY <1>1, <1>2, <1>3, CloseLife

\* Every step of the engine is a step of the lifecycle, or changes no life.
LEMMA NextLife == ASSUME IInv, Fresh, [Next]_vars PROVE L!Next \/ UNCHANGED Life
  <1>1. ASSUME NEW o \in OrderIds, Accept(o) PROVE L!Next
    BY <1>1, AcceptLife
  <1>2. ASSUME NEW o \in OrderIds, PlaceAuction(o) PROVE L!Next
    BY <1>2, PlaceAuctionLife
  <1>3. ASSUME NEW o \in OrderIds, NEW n \in drawn, NEW price \in Prices, NEW qty \in Quantities,
               BeginAmend(o, n, price, qty)
        PROVE  L!Next
    BY <1>3, BeginAmendLife
  <1>4. ASSUME NEW o \in OrderIds, NEW n \in drawn, NEW price \in Prices, NEW qty \in Quantities,
               AmendBelowFilled(o, n, price, qty)
        PROVE  UNCHANGED Life
    BY <1>4, AmendBelowFilledLife
  <1>5. ASSUME NEW o \in OrderIds, Cancel(o) PROVE L!Next
    BY <1>5, CancelLife
  <1>6. ASSUME UNCHANGED orders PROVE UNCHANGED Life
    BY <1>6 DEF Life
  <1>7. \A o \in OrderIds : BeginPlace(o) => UNCHANGED orders
    BY DEF BeginPlace
  <1>8. DrawNumber \/ BeginUncross \/ FinishUncross \/ SequenceFails \/ Rest \/ UNCHANGED vars
          => UNCHANGED orders
    BY DEF DrawNumber, BeginUncross, FinishUncross, SequenceFails, Rest, vars
  <1> QED
    BY <1>1, <1>2, <1>3, <1>4, <1>5, <1>6, <1>7, <1>8,
       MatchBestLife, FinishMatchLife, UncrossBestLife, ExpireLife
       DEF Next
-----------------------------------------------------------------------------
\* The matching engine implements the order lifecycle.
THEOREM ImplementsLifecycleHolds == Spec => ImplementsLifecycle
  <1>1. Init => L!Init
    BY InitLife
  <1>2. ASSUME IInv, Fresh, [Next]_vars PROVE [L!Next]_Life
    BY <1>2, NextLife
  <1> QED BY <1>1, <1>2, Invariance, FreshHolds, PTL DEF Spec, ImplementsLifecycle, L!Spec
=============================================================================
