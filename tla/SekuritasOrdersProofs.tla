------------------------ MODULE SekuritasOrdersProofs ------------------------
(***************************************************************************)
(* The broker's reservations for any number of orders, prices, quantities, *)
(* amendments, repeated and reordered events: what is pending is what the  *)
(* recorded fills cost and bring, nothing the customer owns is lost, what  *)
(* was reported filled stays filled, with one order that is not amended no *)
(* cash is made either, and an order that ended unamended holds nothing.   *)
(*                                                                         *)
(* The invariant has two halves: the broker's tables, and what MATS and    *)
(* its messages may say.  Broker steps keep the second half and steps of   *)
(* MATS the first.                                                         *)
(***************************************************************************)
EXTENDS SekuritasOrders, SumFacts

TradeRecords == [o : Orders, id : Nat, price : Nat, qty : Nat]
Statuses == {"none", "pending", "submit_unknown", "open", "partially_filled", "filled",
             "rejected", "cancelled", "expired", ""}
Submissions == {"none", "pending", "unknown", "submitted", "failed"}
Calls == {"none", "sent", "unknown", "done", "refused"}
Stages == {"none", "read", "sent", "answered", "applied"}
RowRecords == [side : {"buy", "sell"}, price : Nat, orig : Nat, filled : Nat, rem : Nat,
               reserved : Nat, submission : Submissions, known : BOOLEAN, seq : Nat,
               status : Statuses]
OrderRecords == [status : Statuses, price : Nat, orig : Nat, filled : Nat, rem : Nat, seq : Nat,
                 placed : Nat]
MessageRecords == [kind : {"status", "answer", "fill"}, o : Orders, fills : SUBSET TradeRecords,
                   status : Statuses, price : Nat, orig : Nat, filled : Nat, rem : Nat, seq : Nat]
ChangeRecords == [stage : Stages, prevReserved : Nat, nextReserved : Nat, prevRem : Nat,
                  nextRem : Nat, price : Nat, qty : Nat, answer : SUBSET MessageRecords,
                  times : Nat]

BrokerTypes == /\ cash \in Balances /\ pos \in Balances
               /\ row \in [Orders -> RowRecords] /\ fills \subseteq made

MatsTypes == /\ mats \in [Orders -> OrderRecords]
             /\ made \subseteq TradeRecords /\ IsFiniteSet(made)
             /\ answer \in [Orders -> SUBSET MessageRecords] /\ wire \subseteq MessageRecords
             /\ change \in [Orders -> ChangeRecords] /\ call \in [Orders -> Calls]
             /\ seq \in Nat

\* What an order has filled, unless it was amended, is within its quantity.
FilledWithin == \A o \in Orders : Unamended(o) => row[o].filled <= row[o].orig

\* The cash reserved for the only order is what its row says, if it was not amended.
ReservedForOne ==
    \A o \in Orders : Orders = {o} /\ Unamended(o) => cash.reserved = row[o].reserved

SellReservesNone == \A o \in Orders : row[o].side # "buy" => row[o].reserved = 0

CashOfOne ==
    \A o \in Orders : Orders = {o} /\ Unamended(o) =>
      cash.available + cash.reserved + cash.pending = InitialCash + Earning

BrokerInv == /\ BrokerTypes /\ PendingMatchesFills /\ NothingLost
             /\ FilledWithin /\ ReservedForOne /\ SellReservesNone /\ CashOfOne

\* A message tells of a placed order, its trades, and its quantity.
MessageOK(m) ==
    /\ mats[m.o].status # "none"
    /\ \A t \in m.fills : t \in made /\ t.o = m.o
    /\ Snapshot(m) /\ Unamended(m.o) => m.orig = row[m.o].orig /\ m.filled <= m.orig

MessagesOK == /\ \A m \in wire : MessageOK(m)
              /\ \A o \in Orders : \A m \in answer[o] : MessageOK(m)
              /\ \A o \in Orders : \A m \in change[o].answer : MessageOK(m)

OrderOK(o) ==
    /\ mats[o].filled <= mats[o].orig
    /\ Live(o) => mats[o].rem = mats[o].orig - mats[o].filled
    /\ mats[o].status # "none" /\ Unamended(o) => mats[o].orig = row[o].orig
    /\ mats[o].status = "none" => \A t \in made : t.o # o
    /\ call[o] = "none" =>
         mats[o].status = "none" /\ row[o] = NoRow /\ change[o].stage = "none"
    /\ change[o].stage # "none" => ~Unamended(o)

MatsInv == MatsTypes /\ MessagesOK /\ \A o \in Orders : OrderOK(o)

IInv == BrokerInv /\ MatsInv
-----------------------------------------------------------------------------
\* Amounts.
LEMMA NatTimes == \A a, b \in Nat : a * b \in Nat
  OBVIOUS

LEMMA FeeType == ASSUME NEW v \in Nat PROVE Fee(v) \in Nat
  <1>1. FeeRate \in Nat /\ MinimumFee \in Nat BY BrokerAssumption
  <1>2. FeeRate * v \in Nat BY <1>1, NatTimes
  <1> QED BY <1>1, <1>2 DEF Fee, Greater

LEMMA CostType == ASSUME NEW p \in Nat, NEW q \in Nat PROVE Cost(p, q) \in Nat
  <1>1. p * q \in Nat BY NatTimes
  <1>2. Fee(p * q) \in Nat BY <1>1, FeeType
  <1> QED BY <1>1, <1>2 DEF Cost

LEMMA GainType == ASSUME NEW p \in Nat, NEW q \in Nat PROVE Gain(p, q) \in Int
  <1>1. p * q \in Nat BY NatTimes
  <1>2. Fee(p * q) \in Nat BY <1>1, FeeType
  <1> QED BY <1>1, <1>2 DEF Gain

LEMMA ClipType ==
    ASSUME NEW n \in Int
    PROVE  AtLeast0(n) \in Nat /\ AtLeast0(n) >= n /\ (n >= 0 => AtLeast0(n) = n)
           /\ (n < 0 => AtLeast0(n) = 0)
  BY DEF AtLeast0
-----------------------------------------------------------------------------
\* The sums over trades, as sums of one function each.
QtyOf == [t \in TradeRecords |-> t.qty]
CostOf == [t \in TradeRecords |-> Cost(t.price, t.qty)]
GainOf == [t \in TradeRecords |-> Gain(t.price, t.qty)]

LEMMA TradeFields ==
    ASSUME NEW t \in TradeRecords
    PROVE  /\ t.o \in Orders /\ t.price \in Nat /\ t.qty \in Nat
           /\ QtyOf[t] = t.qty /\ CostOf[t] = Cost(t.price, t.qty)
           /\ GainOf[t] = Gain(t.price, t.qty)
           /\ QtyOf[t] \in Nat /\ CostOf[t] \in Nat /\ GainOf[t] \in Int
  <1>1. t.o \in Orders /\ t.price \in Nat /\ t.qty \in Nat BY DEF TradeRecords
  <1> QED BY <1>1, CostType, GainType DEF QtyOf, CostOf, GainOf

LEMMA SumsAre ==
    ASSUME NEW S, S \subseteq TradeRecords, IsFiniteSet(S)
    PROVE  /\ Quantity(S) = SumFunctionOnSet(QtyOf, S)
           /\ Costs(S) = SumFunctionOnSet(CostOf, S)
           /\ Gains(S) = SumFunctionOnSet(GainOf, S)
  <1>1. PICK q : q = [t \in S |-> t.qty] OBVIOUS
  <1>2. PICK c : c = [t \in S |-> Cost(t.price, t.qty)] OBVIOUS
  <1>3. PICK g : g = [t \in S |-> Gain(t.price, t.qty)] OBVIOUS
  <1>4. \A t \in S : q[t] = QtyOf[t] BY <1>1, TradeFields
  <1>5. \A t \in S : c[t] = CostOf[t] BY <1>2, TradeFields
  <1>6. \A t \in S : g[t] = GainOf[t] BY <1>3, TradeFields
  <1>7. SumFunctionOnSet(q, S) = SumFunctionOnSet(QtyOf, S) BY <1>4, SumAgree
  <1>8. SumFunctionOnSet(c, S) = SumFunctionOnSet(CostOf, S) BY <1>5, SumAgree
  <1>9. SumFunctionOnSet(g, S) = SumFunctionOnSet(GainOf, S) BY <1>6, SumAgree
  <1>10. Quantity(S) = SumFunctionOnSet(q, S) BY Zenon, <1>1 DEF Quantity
  <1>11. Costs(S) = SumFunctionOnSet(c, S) BY Zenon, <1>2 DEF Costs
  <1>12. Gains(S) = SumFunctionOnSet(g, S) BY Zenon, <1>3 DEF Gains
  <1> QED BY <1>7, <1>8, <1>9, <1>10, <1>11, <1>12

LEMMA SumsType ==
    ASSUME NEW S, S \subseteq TradeRecords, IsFiniteSet(S)
    PROVE  Quantity(S) \in Nat /\ Costs(S) \in Nat /\ Gains(S) \in Int
  <1>1. \A t \in S : QtyOf[t] \in Nat BY TradeFields
  <1>2. \A t \in S : CostOf[t] \in Nat BY TradeFields
  <1>3. \A t \in S : GainOf[t] \in Int BY TradeFields
  <1>4. SumFunctionOnSet(QtyOf, S) \in Nat BY <1>1, SumNat
  <1>5. SumFunctionOnSet(CostOf, S) \in Nat BY <1>2, SumNat
  <1>6. SumFunctionOnSet(GainOf, S) \in Int BY <1>3, SumType
  <1> QED BY <1>4, <1>5, <1>6, SumsAre

LEMMA SumsJoin ==
    ASSUME NEW S, S \subseteq TradeRecords, IsFiniteSet(S),
           NEW T, T \subseteq TradeRecords, IsFiniteSet(T), S \cap T = {}
    PROVE  /\ Quantity(S \cup T) = Quantity(S) + Quantity(T)
           /\ Costs(S \cup T) = Costs(S) + Costs(T)
           /\ Gains(S \cup T) = Gains(S) + Gains(T)
  <1>1. PICK U : U = S \cup T OBVIOUS
  <1>2. U \subseteq TradeRecords /\ IsFiniteSet(U) BY <1>1, FS_Union
  <1>3. \A t \in S \cup T : QtyOf[t] \in Int BY TradeFields
  <1>4. \A t \in S \cup T : CostOf[t] \in Int BY TradeFields
  <1>5. \A t \in S \cup T : GainOf[t] \in Int BY TradeFields
  <1>6. SumFunctionOnSet(QtyOf, S \cup T) = SumFunctionOnSet(QtyOf, S) + SumFunctionOnSet(QtyOf, T)
    BY <1>3, SumUnion
  <1>7. SumFunctionOnSet(CostOf, S \cup T) = SumFunctionOnSet(CostOf, S) + SumFunctionOnSet(CostOf, T)
    BY <1>4, SumUnion
  <1>8. SumFunctionOnSet(GainOf, S \cup T) = SumFunctionOnSet(GainOf, S) + SumFunctionOnSet(GainOf, T)
    BY <1>5, SumUnion
  <1>9. /\ Quantity(U) = SumFunctionOnSet(QtyOf, U) /\ Costs(U) = SumFunctionOnSet(CostOf, U)
        /\ Gains(U) = SumFunctionOnSet(GainOf, U)
    BY <1>2, SumsAre
  <1>10. /\ Quantity(S) = SumFunctionOnSet(QtyOf, S) /\ Costs(S) = SumFunctionOnSet(CostOf, S)
         /\ Gains(S) = SumFunctionOnSet(GainOf, S)
    BY SumsAre
  <1>11. /\ Quantity(T) = SumFunctionOnSet(QtyOf, T) /\ Costs(T) = SumFunctionOnSet(CostOf, T)
         /\ Gains(T) = SumFunctionOnSet(GainOf, T)
    BY SumsAre
  <1> QED BY <1>1, <1>6, <1>7, <1>8, <1>9, <1>10, <1>11

LEMMA SumsEmpty == Quantity({}) = 0 /\ Costs({}) = 0 /\ Gains({}) = 0
  <1>1. IsFiniteSet({}) BY FS_EmptySet
  <1> QED BY <1>1, SumsAre, SumEmpty
-----------------------------------------------------------------------------
LEMMA RowFields ==
    ASSUME BrokerTypes, NEW o \in Orders
    PROVE  /\ row[o].side \in {"buy", "sell"} /\ row[o].price \in Nat /\ row[o].orig \in Nat
           /\ row[o].filled \in Nat /\ row[o].rem \in Nat /\ row[o].reserved \in Nat
           /\ row[o].seq \in Nat /\ row[o].status \in Statuses
  BY DEF BrokerTypes, RowRecords

LEMMA MessageFields ==
    ASSUME NEW m \in MessageRecords
    PROVE  /\ m.o \in Orders /\ m.fills \subseteq TradeRecords /\ m.price \in Nat
           /\ m.orig \in Nat /\ m.filled \in Nat /\ m.rem \in Nat /\ m.seq \in Nat
           /\ m.status \in Statuses
  BY DEF MessageRecords

LEMMA AccountFields ==
    ASSUME NEW acct \in Balances
    PROVE  acct.available \in Int /\ acct.reserved \in Int /\ acct.pending \in Int
  BY DEF Balances

LEMMA AccountType ==
    ASSUME NEW a \in Int, NEW r \in Int, NEW p \in Int
    PROVE  /\ Account(a, r, p) \in Balances /\ Account(a, r, p).available = a
           /\ Account(a, r, p).reserved = r /\ Account(a, r, p).pending = p
  BY DEF Account, Balances

\* The trades of a message that are not recorded yet.
LEMMA NewTrades ==
    ASSUME BrokerTypes, MatsTypes, NEW m \in MessageRecords, MessageOK(m)
    PROVE  /\ New(m) \subseteq made /\ New(m) \subseteq TradeRecords /\ IsFiniteSet(New(m))
           /\ New(m) \cap fills = {} /\ fills \cup m.fills = fills \cup New(m)
           /\ \A t \in New(m) : t.o = m.o
           /\ fills \subseteq TradeRecords /\ IsFiniteSet(fills)
           /\ Quantity(New(m)) \in Nat /\ Spent(m) \in Nat /\ Gained(m) \in Int
  <1>1. /\ New(m) \subseteq made /\ New(m) \cap fills = {} /\ fills \cup m.fills = fills \cup New(m)
        /\ \A t \in New(m) : t.o = m.o
    BY DEF New, MessageOK
  <1>2. fills \subseteq made /\ made \subseteq TradeRecords /\ IsFiniteSet(made)
    BY DEF BrokerTypes, MatsTypes
  <1>3. IsFiniteSet(New(m)) /\ IsFiniteSet(fills) BY <1>1, <1>2, FS_Subset
  <1>4. New(m) \subseteq TradeRecords BY <1>1, <1>2
  <1>5. Quantity(New(m)) \in Nat /\ Costs(New(m)) \in Nat /\ Gains(New(m)) \in Int
    BY <1>3, <1>4, SumsType
  <1> QED BY <1>1, <1>2, <1>3, <1>4, <1>5 DEF Spent, Gained

LEMMA NextTypes ==
    ASSUME BrokerTypes, MatsTypes, NEW m \in MessageRecords, MessageOK(m)
    PROVE  /\ NextOrig(m) \in Nat /\ NextPrice(m) \in Nat /\ NextFilled(m) \in Nat
           /\ NextRem(m) \in Nat /\ NextStatus(m) \in Statuses /\ ReserveQuantity(m) \in Nat
  <1>1. /\ row[m.o].price \in Nat /\ row[m.o].orig \in Nat
        /\ row[m.o].filled \in Nat /\ row[m.o].rem \in Nat /\ row[m.o].status \in Statuses
    BY MessageFields, RowFields
  <1>2. /\ m.price \in Nat /\ m.orig \in Nat /\ m.filled \in Nat /\ m.rem \in Nat
        /\ m.status \in Statuses
    BY MessageFields
  <1>3. Quantity(New(m)) \in Nat BY NewTrades
  <1>4. NextOrig(m) \in Nat /\ NextPrice(m) \in Nat BY <1>1, <1>2 DEF NextOrig, NextPrice
  <1>5. NextFilled(m) \in Nat BY <1>1, <1>2, <1>3 DEF NextFilled, Lesser, Greater
  <1>6. NextRem(m) \in Nat
    <2>1. AtLeast0(row[m.o].orig - NextFilled(m)) \in Nat BY <1>1, <1>5, ClipType
    <2> QED BY <1>1, <1>2, <2>1 DEF NextRem
  <1>7. NextStatus(m) \in Statuses BY <1>1, <1>2 DEF NextStatus, Statuses
  <1>8. ReserveQuantity(m) \in Nat
    <2>1. PICK S : S = {t \in fills : t.o = m.o} \cup New(m) OBVIOUS
    <2>2. S \subseteq TradeRecords BY <2>1, NewTrades
    <2>3. IsFiniteSet({t \in fills : t.o = m.o}) /\ IsFiniteSet(New(m)) BY NewTrades, FS_Subset
    <2>4. IsFiniteSet(S) BY <2>1, <2>3, FS_Union
    <2>5. Quantity(S) \in Nat BY <2>2, <2>4, SumsType
    <2>6. AtLeast0(NextOrig(m) - Quantity(S)) \in Nat BY <1>4, <2>5, ClipType
    <2> QED BY <1>6, <2>1, <2>6 DEF ReserveQuantity
  <1> QED BY <1>4, <1>5, <1>6, <1>7, <1>8

\* What the order keeps reserved is never less than nothing.
LEMMA KeptTypes ==
    ASSUME BrokerTypes, MatsTypes, NEW m \in MessageRecords, MessageOK(m)
    PROVE  /\ Kept(m) \in Nat /\ Excess(m) \in Nat /\ Excess(m) <= Kept(m)
           /\ row[m.o].reserved = 0 => Kept(m) = 0 /\ Excess(m) = 0
  <1>1. row[m.o].reserved \in Nat /\ Spent(m) \in Nat BY MessageFields, RowFields, NewTrades
  <1>2. Kept(m) \in Nat /\ (row[m.o].reserved = 0 => Kept(m) = 0)
    BY <1>1, ClipType DEF Kept, AtLeast0
  <1>3. Cost(NextPrice(m), ReserveQuantity(m)) \in Nat BY NextTypes, CostType
  <1>4. PICK target \in Nat : Excess(m) = AtLeast0(Kept(m) - target)
    BY <1>3 DEF Excess
  <1>5. Excess(m) \in Nat /\ Excess(m) <= Kept(m) BY <1>2, <1>4 DEF AtLeast0
  <1> QED BY <1>2, <1>5

LEMMA UpdatedFields ==
    ASSUME BrokerTypes, MatsTypes, NEW m \in MessageRecords, MessageOK(m)
    PROVE  /\ Updated(m) \in RowRecords
           /\ Updated(m).side = row[m.o].side /\ Updated(m).orig = NextOrig(m)
           /\ Updated(m).filled = NextFilled(m) /\ Updated(m).reserved = Kept(m) - Excess(m)
  <1>1. PICK reserved \in Nat : reserved = Kept(m) - Excess(m) BY KeptTypes
  <1>2. PICK rem \in Nat : rem = IF NextStatus(m) = "rejected" THEN 0 ELSE NextRem(m)
    BY NextTypes
  <1>3. row[m.o].seq \in Nat /\ row[m.o].side \in {"buy", "sell"} BY MessageFields, RowFields
  <1>4. PICK n \in Nat : n = IF Snapshot(m) THEN Greater(m.seq, row[m.o].seq) ELSE row[m.o].seq
    BY <1>3, MessageFields DEF Greater
  <1>5. /\ NextOrig(m) \in Nat /\ NextPrice(m) \in Nat /\ NextFilled(m) \in Nat
        /\ NextStatus(m) \in Statuses
    BY NextTypes
  <1>6. Updated(m) = [side |-> row[m.o].side, price |-> NextPrice(m), orig |-> NextOrig(m),
                      filled |-> NextFilled(m), rem |-> rem, reserved |-> reserved,
                      submission |-> "submitted", known |-> TRUE, seq |-> n,
                      status |-> NextStatus(m)]
    BY <1>1, <1>2, <1>4 DEF Updated
  <1>7. "submitted" \in Submissions BY DEF Submissions
  <1> QED BY <1>1, <1>3, <1>5, <1>6, <1>7 DEF RowRecords
-----------------------------------------------------------------------------
Total(acct) == acct.available + acct.reserved + acct.pending

PaidExactly(acct, spent, excess, next) ==
    acct.reserved >= 0 /\ excess <= AtLeast0(acct.reserved - spent) =>
       /\ Total(next) = Total(acct)
       /\ next.reserved = AtLeast0(acct.reserved - spent) - excess

\* Fills are paid, and what is left over is given back: nothing gets lost, and
\* nothing is made when the account reserves for this order alone.
LEMMA PaidAndReleased ==
    ASSUME NEW acct \in Balances, NEW spent \in Nat, NEW excess \in Nat, NEW next,
           next = Release(Paid(acct, spent), excess)
    PROVE  /\ next \in Balances /\ next.pending = acct.pending + spent
           /\ Total(next) >= Total(acct)
           /\ PaidExactly(acct, spent, excess, next)
  <1>1. PICK a \in Int, r \in Int, p \in Int :
          acct.available = a /\ acct.reserved = r /\ acct.pending = p
    BY AccountFields
  <1>2. PICK over \in Nat : over = AtLeast0(spent - r) BY <1>1, ClipType
  <1>3. PICK left \in Nat : left = AtLeast0(r - spent) BY <1>1, ClipType
  <1>4. Paid(acct, spent) = Account(a - over, left, p + spent) BY <1>1, <1>2, <1>3 DEF Paid
  <1>5. /\ Paid(acct, spent).available = a - over /\ Paid(acct, spent).reserved = left
        /\ Paid(acct, spent).pending = p + spent
    BY <1>4, AccountType
  <1>6. PICK rest \in Nat : rest = AtLeast0(left - excess) BY ClipType
  <1>7. next = Account(a - over + excess, rest, p + spent) BY <1>5, <1>6 DEF Release
  <1>8. /\ next \in Balances /\ next.available = a - over + excess /\ next.reserved = rest
        /\ next.pending = p + spent
    BY <1>7, AccountType
  <1>9. left - over >= r - spent /\ (r >= 0 => left - over = r - spent)
    BY <1>2, <1>3 DEF AtLeast0
  <1>10. rest >= left - excess /\ (excess <= left => rest = left - excess)
    BY <1>6 DEF AtLeast0
  <1>11. Total(next) = (a - over + excess) + rest + (p + spent) /\ Total(acct) = a + r + p
    BY <1>1, <1>8 DEF Total
  <1>12. Total(next) >= Total(acct) BY <1>9, <1>10, <1>11
  <1>13. ASSUME r >= 0, excess <= left PROVE Total(next) = Total(acct) /\ next.reserved = left - excess
    BY <1>8, <1>9, <1>10, <1>11, <1>13
  <1> QED BY <1>1, <1>3, <1>8, <1>12, <1>13 DEF PaidExactly

LEMMA Released ==
    ASSUME NEW acct \in Balances, NEW n \in Nat, NEW next, next = Release(acct, n)
    PROVE  /\ next \in Balances /\ next.pending = acct.pending /\ Total(next) >= Total(acct)
           /\ n <= acct.reserved =>
                Total(next) = Total(acct) /\ next.reserved = acct.reserved - n
  <1>1. PICK a \in Int, r \in Int, p \in Int :
          acct.available = a /\ acct.reserved = r /\ acct.pending = p
    BY AccountFields
  <1>2. PICK rest \in Nat : rest = AtLeast0(r - n) BY <1>1, ClipType
  <1>3. next = Account(a + n, rest, p) BY <1>1, <1>2 DEF Release
  <1>4. next \in Balances /\ next.available = a + n /\ next.reserved = rest /\ next.pending = p
    BY <1>3, AccountType
  <1>5. rest >= r - n /\ (n <= r => rest = r - n) BY <1>2 DEF AtLeast0
  <1> QED BY <1>1, <1>4, <1>5 DEF Total

LEMMA Reserved ==
    ASSUME NEW acct \in Balances, NEW n \in Int, NEW next,
           next = Account(acct.available - n, acct.reserved + n, acct.pending)
    PROVE  /\ next \in Balances /\ next.pending = acct.pending
           /\ Total(next) = Total(acct) /\ next.reserved = acct.reserved + n
  <1>1. acct.available \in Int /\ acct.reserved \in Int /\ acct.pending \in Int
    BY AccountFields
  <1>2. /\ next \in Balances /\ next.available = acct.available - n
        /\ next.reserved = acct.reserved + n /\ next.pending = acct.pending
    BY <1>1, AccountType
  <1> QED BY <1>1, <1>2 DEF Total

\* An amendment reserves more, or takes that back.
LEMMA Moved ==
    ASSUME NEW acct \in Balances, NEW from \in Nat, NEW to \in Nat, NEW next,
           next \in {acct, Adjusted(acct, from, to)}
    PROVE  next \in Balances /\ next.pending = acct.pending /\ Total(next) = Total(acct)
  <1>1. to - from \in Int OBVIOUS
  <1> QED BY <1>1, Reserved DEF Adjusted

LEMMA PendingMoved ==
    ASSUME NEW acct \in Balances, NEW n \in Int, NEW next,
           next = [acct EXCEPT !.pending = @ + n]
    PROVE  /\ next \in Balances /\ next.available = acct.available
           /\ next.reserved = acct.reserved /\ next.pending = acct.pending + n
  BY DEF Balances

LEMMA SharesSold ==
    ASSUME NEW acct \in Balances, NEW n \in Int, NEW next,
           next = [acct EXCEPT !.reserved = @ - n]
    PROVE  /\ next \in Balances /\ next.available = acct.available
           /\ next.reserved = acct.reserved - n /\ next.pending = acct.pending
  BY DEF Balances
-----------------------------------------------------------------------------
\* While no order changes its side, new trades of one order are bought or sold.
LEMMA FillsSplit ==
    ASSUME BrokerTypes, MatsTypes, NEW N, N \subseteq made, N \cap fills = {}, NEW o \in Orders,
           \A t \in N : t.o = o, fills' = fills \cup N,
           \A p \in Orders : row'[p].side = row[p].side
    PROVE  LET buy == row[o].side = "buy"
           IN  /\ Paying' = Paying + (IF buy THEN Costs(N) ELSE 0)
               /\ Earning' = Earning + (IF buy THEN 0 ELSE Gains(N))
               /\ Quantity(BuyFills)' = Quantity(BuyFills) + (IF buy THEN Quantity(N) ELSE 0)
               /\ Quantity(SellFills)' = Quantity(SellFills) + (IF buy THEN 0 ELSE Quantity(N))
               /\ Paying \in Int /\ Earning \in Int /\ Quantity(BuyFills) \in Int
               /\ Quantity(SellFills) \in Int
  <1>1. fills \subseteq made /\ made \subseteq TradeRecords /\ IsFiniteSet(made)
    BY DEF BrokerTypes, MatsTypes
  <1>2. PICK B : B = BuyFills OBVIOUS
  <1>3. PICK S : S = SellFills OBVIOUS
  <1>4. B \subseteq fills /\ S \subseteq fills BY <1>2, <1>3 DEF BuyFills, SellFills
  <1>5. /\ IsFiniteSet(B) /\ IsFiniteSet(S) /\ IsFiniteSet(N)
        /\ B \subseteq TradeRecords /\ S \subseteq TradeRecords /\ N \subseteq TradeRecords
        /\ B \cap N = {} /\ S \cap N = {}
    BY <1>1, <1>4, FS_Subset
  <1>6. \A t \in fills : t.o \in Orders /\ row'[t.o].side = row[t.o].side
    BY <1>1, TradeFields
  <1>7. row[o].side \in {"buy", "sell"} BY RowFields
  <1>8. /\ Costs(B) \in Int /\ Gains(S) \in Int /\ Quantity(B) \in Int /\ Quantity(S) \in Int
        /\ Costs(N) \in Int /\ Gains(N) \in Int /\ Quantity(N) \in Int
    BY <1>5, SumsType
  <1>9. /\ Paying = Costs(B) /\ Earning = Gains(S) /\ Quantity(BuyFills) = Quantity(B)
        /\ Quantity(SellFills) = Quantity(S)
    BY <1>2, <1>3 DEF Paying, Earning
  <1>10. CASE row[o].side = "buy"
    <2>1. BuyFills' = B \cup N BY <1>2, <1>6, <1>10 DEF BuyFills
    <2>2. SellFills' = S BY <1>3, <1>6, <1>10 DEF SellFills
    <2>3. Quantity(B \cup N) = Quantity(B) + Quantity(N) /\ Costs(B \cup N) = Costs(B) + Costs(N)
      BY <1>5, SumsJoin
    <2>4. /\ Paying' = Costs(B \cup N) /\ Quantity(BuyFills)' = Quantity(B \cup N)
      BY <2>1 DEF Paying
    <2>5. Earning' = Gains(S) /\ Quantity(SellFills)' = Quantity(S) BY <2>2 DEF Earning
    <2> QED BY <1>8, <1>9, <1>10, <2>3, <2>4, <2>5
  <1>11. CASE row[o].side = "sell"
    <2>1. SellFills' = S \cup N BY <1>3, <1>6, <1>11 DEF SellFills
    <2>2. BuyFills' = B BY <1>2, <1>6, <1>11 DEF BuyFills
    <2>3. Quantity(S \cup N) = Quantity(S) + Quantity(N) /\ Gains(S \cup N) = Gains(S) + Gains(N)
      BY <1>5, SumsJoin
    <2>4. Earning' = Gains(S \cup N) /\ Quantity(SellFills)' = Quantity(S \cup N)
      BY <2>1 DEF Earning
    <2>5. Paying' = Costs(B) /\ Quantity(BuyFills)' = Quantity(B) BY <2>2 DEF Paying
    <2> QED BY <1>8, <1>9, <1>11, <2>3, <2>4, <2>5
  <1> QED BY <1>7, <1>10, <1>11

\* A step that records no fill and changes the side of no filled order.
LEMMA FillsStay ==
    ASSUME BrokerTypes, MatsTypes, fills' = fills,
           \A p \in Orders : (\E t \in fills : t.o = p) => row'[p].side = row[p].side
    PROVE  /\ Paying' = Paying /\ Earning' = Earning
           /\ Quantity(BuyFills)' = Quantity(BuyFills)
           /\ Quantity(SellFills)' = Quantity(SellFills)
  <1>1. \A t \in fills : t.o \in Orders /\ row'[t.o].side = row[t.o].side
    BY TradeFields DEF BrokerTypes, MatsTypes
  <1>2. BuyFills' = BuyFills BY <1>1 DEF BuyFills
  <1>3. SellFills' = SellFills BY <1>1 DEF SellFills
  <1> QED BY <1>2, <1>3 DEF Paying, Earning

LEMMA SumsInt ==
    ASSUME BrokerTypes, MatsTypes
    PROVE  /\ Paying \in Int /\ Earning \in Int /\ Quantity(BuyFills) \in Int
           /\ Quantity(SellFills) \in Int
  <1>1. fills \subseteq TradeRecords /\ IsFiniteSet(fills)
    BY FS_Subset DEF BrokerTypes, MatsTypes
  <1>2. /\ BuyFills \subseteq TradeRecords /\ IsFiniteSet(BuyFills)
        /\ SellFills \subseteq TradeRecords /\ IsFiniteSet(SellFills)
    BY <1>1, FS_Subset DEF BuyFills, SellFills
  <1> QED BY <1>2, SumsType DEF Paying, Earning
-----------------------------------------------------------------------------
\* What an update does to the orders' rows.
RowStep ==
    \A o \in Orders :
      /\ row'[o].side = row[o].side
      /\ Unamended(o) => row'[o].orig = row[o].orig /\ row'[o].filled >= row[o].filled
      /\ mats[o].status = "none" => row'[o] = row[o]

LEMMA Unfold ==
    ASSUME IInv
    PROVE  /\ BrokerTypes /\ MatsTypes /\ PendingMatchesFills /\ NothingLost
           /\ FilledWithin /\ ReservedForOne /\ SellReservesNone /\ CashOfOne
           /\ cash \in Balances /\ pos \in Balances /\ row \in [Orders -> RowRecords]
           /\ fills \subseteq made
           /\ Paying \in Int /\ Earning \in Int /\ Quantity(BuyFills) \in Int
           /\ Quantity(SellFills) \in Int /\ InitialCash \in Int /\ InitialShares \in Int
           /\ cash.available \in Int /\ cash.reserved \in Int /\ cash.pending \in Int
           /\ pos.available \in Int /\ pos.reserved \in Int /\ pos.pending \in Int
           /\ cash.pending = Paying + Earning /\ pos.pending = Quantity(BuyFills)
           /\ Total(cash) >= InitialCash + Earning
           /\ pos.available + pos.reserved + Quantity(SellFills) >= InitialShares
  <1>1. BrokerInv /\ MatsTypes BY DEF IInv, MatsInv
  <1>2. /\ BrokerTypes /\ PendingMatchesFills /\ NothingLost
        /\ FilledWithin /\ ReservedForOne /\ SellReservesNone /\ CashOfOne
    BY <1>1 DEF BrokerInv
  <1>3. /\ cash \in Balances /\ pos \in Balances /\ row \in [Orders -> RowRecords]
        /\ fills \subseteq made
    BY <1>2 DEF BrokerTypes
  <1>4. /\ cash.available \in Int /\ cash.reserved \in Int /\ cash.pending \in Int
        /\ pos.available \in Int /\ pos.reserved \in Int /\ pos.pending \in Int
    BY <1>3, AccountFields
  <1>5. InitialCash \in Int /\ InitialShares \in Int BY BrokerAssumption
  <1>6. cash.pending = Paying + Earning /\ pos.pending = Quantity(BuyFills)
    BY <1>2 DEF PendingMatchesFills
  <1>7. /\ Total(cash) >= InitialCash + Earning
        /\ pos.available + pos.reserved + Quantity(SellFills) >= InitialShares
    BY <1>2 DEF NothingLost, Total
  <1> QED BY <1>1, <1>2, <1>3, <1>4, <1>5, <1>6, <1>7, SumsInt

\* What a step has to do to the accounts.
LEMMA Balanced ==
    ASSUME cash' \in Balances, pos' \in Balances, row' \in [Orders -> RowRecords],
           fills' \subseteq made',
           cash'.pending = Paying' + Earning', pos'.pending = Quantity(BuyFills)',
           Total(cash') >= InitialCash + Earning',
           pos'.available + pos'.reserved + Quantity(SellFills)' >= InitialShares,
           FilledWithin', SellReservesNone',
           \A o \in Orders : Orders = {o} /\ Unamended(o)' =>
             cash'.reserved = row'[o].reserved /\ Total(cash') = InitialCash + Earning'
    PROVE  BrokerInv'
  <1>1. BrokerTypes' BY DEF BrokerTypes
  <1>2. PendingMatchesFills' BY DEF PendingMatchesFills
  <1>3. NothingLost' BY DEF NothingLost, Total
  <1>4. ReservedForOne' BY DEF ReservedForOne
  <1>5. CashOfOne' BY DEF CashOfOne, Total
  <1> QED BY <1>1, <1>2, <1>3, <1>4, <1>5 DEF BrokerInv

LEMMA TotalOfOne ==
    ASSUME IInv, NEW o \in Orders, Orders = {o}, Unamended(o)
    PROVE  Total(cash) = InitialCash + Earning /\ cash.reserved = row[o].reserved
  BY Unfold DEF CashOfOne, ReservedForOne, Total

\* A step that leaves the accounts and rows alone.
LEMMA BrokerSame ==
    ASSUME IInv, UNCHANGED broker, made \subseteq made',
           \A o \in Orders : Unamended(o)' => Unamended(o)
    PROVE  BrokerInv'
  <1>1. UNCHANGED <<cash, pos, row, fills>> BY DEF broker
  <1>2. /\ Paying' = Paying /\ Earning' = Earning
        /\ Quantity(BuyFills)' = Quantity(BuyFills)
        /\ Quantity(SellFills)' = Quantity(SellFills)
    BY <1>1, Unfold, FillsStay
  <1>3. FilledWithin' BY <1>1, Unfold DEF FilledWithin
  <1>4. SellReservesNone' BY <1>1, Unfold DEF SellReservesNone
  <1>5. /\ cash' \in Balances /\ pos' \in Balances /\ row' \in [Orders -> RowRecords]
        /\ fills' \subseteq made'
    BY <1>1, Unfold
  <1>6. /\ cash'.pending = Paying' + Earning' /\ pos'.pending = Quantity(BuyFills)'
        /\ Total(cash') >= InitialCash + Earning'
        /\ pos'.available + pos'.reserved + Quantity(SellFills)' >= InitialShares
    BY <1>1, <1>2, Unfold
  <1>7. \A o \in Orders : Orders = {o} /\ Unamended(o)' =>
          cash'.reserved = row'[o].reserved /\ Total(cash') = InitialCash + Earning'
    BY <1>1, <1>2, TotalOfOne
  <1> QED BY <1>3, <1>4, <1>5, <1>6, <1>7, Balanced

\* What an update says is filled.
LEMMA NextFilledFacts ==
    ASSUME IInv, NEW m \in MessageRecords, MessageOK(m), Unamended(m.o)
    PROVE  /\ NextOrig(m) = row[m.o].orig /\ NextFilled(m) >= row[m.o].filled
           /\ NextFilled(m) <= row[m.o].orig
  <1>1. m.o \in Orders BY MessageFields
  <1>2. row[m.o].orig \in Nat /\ row[m.o].filled \in Nat BY <1>1, Unfold, RowFields
  <1>3. row[m.o].filled <= row[m.o].orig BY <1>1, Unfold DEF FilledWithin
  <1>4. CASE Snapshot(m)
    <2>1. m.orig = row[m.o].orig /\ m.filled <= m.orig /\ m.filled \in Nat
      BY <1>4, MessageFields DEF MessageOK
    <2> QED BY <1>2, <1>3, <1>4, <2>1 DEF NextOrig, NextFilled, Greater
  <1>5. CASE ~Snapshot(m)
    <2>1. Quantity(New(m)) \in Nat BY Unfold, NewTrades
    <2> QED BY <1>2, <1>3, <1>5, <2>1 DEF NextOrig, NextFilled, Lesser
  <1> QED BY <1>4, <1>5

\* A buy is paid for, a sell is credited.
LEMMA HandledBuy ==
    ASSUME IInv, NEW m \in MessageRecords, MessageOK(m), row[m.o].side = "buy", ApplyBuy(m),
           fills' = fills \cup New(m), made' = made, row' \in [Orders -> RowRecords],
           \A p \in Orders : row'[p].side = row[p].side,
           row'[m.o].reserved = Kept(m) - Excess(m),
           FilledWithin', SellReservesNone',
           \A o \in Orders : Unamended(o)' => Unamended(o)
    PROVE  BrokerInv'
  <1>1. m.o \in Orders BY MessageFields
  <1>2. /\ New(m) \subseteq made /\ New(m) \cap fills = {} /\ \A t \in New(m) : t.o = m.o
        /\ Spent(m) \in Nat /\ Quantity(New(m)) \in Nat /\ Spent(m) = Costs(New(m))
    BY Unfold, NewTrades DEF Spent
  <1>3. Kept(m) \in Nat /\ Excess(m) \in Nat /\ Excess(m) <= Kept(m) BY Unfold, KeptTypes
  <1>4. /\ Paying' = Paying + Spent(m) /\ Earning' = Earning + 0
        /\ Quantity(BuyFills)' = Quantity(BuyFills) + Quantity(New(m))
        /\ Quantity(SellFills)' = Quantity(SellFills) + 0
    BY <1>1, <1>2, Unfold, FillsSplit
  <1>5. /\ cash' = Release(Paid(cash, Spent(m)), Excess(m))
        /\ pos' = [pos EXCEPT !.pending = @ + Quantity(New(m))]
    BY DEF ApplyBuy
  <1>6. /\ cash' \in Balances /\ cash'.pending = cash.pending + Spent(m)
        /\ Total(cash') >= Total(cash)
        /\ PaidExactly(cash, Spent(m), Excess(m), cash')
    <2>1. cash \in Balances /\ Spent(m) \in Nat /\ Excess(m) \in Nat BY <1>2, <1>3, Unfold
    <2>2. cash' = Release(Paid(cash, Spent(m)), Excess(m)) BY <1>5
    <2> QED BY <2>1, <2>2, PaidAndReleased
  <1>7. /\ pos' \in Balances /\ pos'.available = pos.available /\ pos'.reserved = pos.reserved
        /\ pos'.pending = pos.pending + Quantity(New(m))
    BY <1>2, <1>5, Unfold, PendingMoved
  <1>8. Total(cash) \in Int /\ Total(cash') \in Int BY <1>6, AccountFields, Unfold DEF Total
  <1>9. cash'.pending = Paying' + Earning' BY <1>2, <1>4, <1>6, Unfold
  <1>10. pos'.pending = Quantity(BuyFills)' BY <1>4, <1>7, Unfold
  <1>11. Total(cash') >= InitialCash + Earning' BY <1>4, <1>6, <1>8, Unfold
  <1>12. pos'.available + pos'.reserved + Quantity(SellFills)' >= InitialShares
    BY <1>4, <1>7, Unfold
  <1>13. ASSUME NEW o \in Orders, Orders = {o}, Unamended(o)'
         PROVE  cash'.reserved = row'[o].reserved /\ Total(cash') = InitialCash + Earning'
    <2>1. m.o = o /\ Unamended(o) BY <1>1, <1>13
    <2>2. Total(cash) = InitialCash + Earning /\ cash.reserved = row[o].reserved
      BY <1>13, <2>1, TotalOfOne
    <2>3. row[o].reserved \in Nat BY Unfold, RowFields
    <2>4. AtLeast0(cash.reserved - Spent(m)) = Kept(m) BY <2>1, <2>2 DEF Kept
    <2>5. Total(cash') = Total(cash) /\ cash'.reserved = Kept(m) - Excess(m)
      BY <1>3, <1>6, <2>2, <2>3, <2>4 DEF PaidExactly
    <2> QED BY <1>4, <2>1, <2>2, <2>5, Unfold
  <1>14. fills' \subseteq made' BY <1>2, Unfold
  <1> QED BY <1>6, <1>7, <1>9, <1>10, <1>11, <1>12, <1>13, <1>14, Balanced

LEMMA HandledSell ==
    ASSUME IInv, NEW m \in MessageRecords, MessageOK(m), row[m.o].side # "buy", ApplySell(m),
           fills' = fills \cup New(m), made' = made, row' \in [Orders -> RowRecords],
           \A p \in Orders : row'[p].side = row[p].side,
           row'[m.o].reserved = Kept(m) - Excess(m),
           FilledWithin', SellReservesNone',
           \A o \in Orders : Unamended(o)' => Unamended(o)
    PROVE  BrokerInv'
  <1>1. m.o \in Orders BY MessageFields
  <1>2. /\ New(m) \subseteq made /\ New(m) \cap fills = {} /\ \A t \in New(m) : t.o = m.o
        /\ Gained(m) \in Int /\ Quantity(New(m)) \in Nat /\ Gained(m) = Gains(New(m))
    BY Unfold, NewTrades DEF Gained
  <1>3. /\ Paying' = Paying + 0 /\ Earning' = Earning + Gained(m)
        /\ Quantity(BuyFills)' = Quantity(BuyFills) + 0
        /\ Quantity(SellFills)' = Quantity(SellFills) + Quantity(New(m))
    BY <1>1, <1>2, Unfold, FillsSplit
  <1>4. PICK sold : sold = [pos EXCEPT !.reserved = @ - Quantity(New(m))] OBVIOUS
  <1>5. /\ cash' = [cash EXCEPT !.pending = @ + Gained(m)]
        /\ pos' = IF Returned(m) > 0 THEN Release(sold, Returned(m)) ELSE sold
    BY <1>4 DEF ApplySell
  <1>6. /\ cash' \in Balances /\ cash'.available = cash.available
        /\ cash'.reserved = cash.reserved /\ cash'.pending = cash.pending + Gained(m)
    BY <1>2, <1>5, Unfold, PendingMoved
  <1>7. /\ sold \in Balances /\ sold.available = pos.available
        /\ sold.reserved = pos.reserved - Quantity(New(m)) /\ sold.pending = pos.pending
    BY <1>2, <1>4, Unfold, SharesSold
  <1>8. Returned(m) \in Nat
    <2>1. row[m.o].rem \in Nat BY <1>1, Unfold, RowFields
    <2>2. AtLeast0(row[m.o].rem - Quantity(New(m))) \in Nat BY <1>2, <2>1, ClipType
    <2> QED BY <2>2 DEF Returned
  <1>9. pos' \in Balances /\ pos'.pending = sold.pending /\ Total(pos') >= Total(sold)
    <2>1. CASE Returned(m) > 0 BY <1>5, <1>7, <1>8, <2>1, Released
    <2>2. CASE ~(Returned(m) > 0)
      <3>1. pos' = sold BY <1>5, <2>2
      <3>2. Total(sold) \in Int BY <1>7, AccountFields DEF Total
      <3> QED BY <1>7, <3>1, <3>2
    <2> QED BY <2>1, <2>2
  <1>10. pos'.available + pos'.reserved >= sold.available + sold.reserved
    BY <1>7, <1>9, AccountFields DEF Total
  <1>11. pos'.available + pos'.reserved + Quantity(SellFills)' >= InitialShares
    <2>1. pos'.available \in Int /\ pos'.reserved \in Int BY <1>9, AccountFields
    <2> QED BY <1>2, <1>3, <1>7, <1>10, <2>1, Unfold
  <1>12. cash'.pending = Paying' + Earning' BY <1>2, <1>3, <1>6, Unfold
  <1>13. pos'.pending = Quantity(BuyFills)' BY <1>3, <1>7, <1>9, Unfold
  <1>14. Total(cash') = Total(cash) + Gained(m) /\ Total(cash) \in Int
    BY <1>2, <1>6, Unfold DEF Total
  <1>15. Total(cash') >= InitialCash + Earning' BY <1>2, <1>3, <1>14, Unfold
  <1>16. ASSUME NEW o \in Orders, Orders = {o}, Unamended(o)'
         PROVE  cash'.reserved = row'[o].reserved /\ Total(cash') = InitialCash + Earning'
    <2>1. m.o = o /\ Unamended(o) BY <1>1, <1>16
    <2>2. Total(cash) = InitialCash + Earning /\ cash.reserved = row[o].reserved
      BY <1>16, <2>1, TotalOfOne
    <2>3. row[o].reserved = 0 BY <2>1, Unfold DEF SellReservesNone
    <2>4. Kept(m) = 0 /\ Excess(m) = 0 BY <2>1, <2>3, Unfold, KeptTypes
    <2> QED BY <1>2, <1>3, <1>6, <1>14, <2>1, <2>2, <2>3, <2>4, Unfold
  <1>17. fills' \subseteq made' BY <1>2, Unfold
  <1> QED BY <1>6, <1>9, <1>11, <1>12, <1>13, <1>15, <1>16, <1>17, Balanced

\* An update of SEKURITAS by a message keeps the broker's half of the invariant.
LEMMA Handled ==
    ASSUME IInv, NEW m \in MessageRecords, MessageOK(m), handleWebhookUpdate(m), made' = made,
           \A o \in Orders : Unamended(o)' = Unamended(o)
    PROVE  BrokerInv' /\ RowStep
  <1>1. m.o \in Orders BY MessageFields
  <1>2. CASE Ignored(m)
    <2>1. UNCHANGED broker BY <1>2 DEF handleWebhookUpdate
    <2>2. BrokerInv' BY <2>1, BrokerSame
    <2>3. \A o \in Orders : row[o].filled \in Nat BY Unfold, RowFields
    <2>4. RowStep BY <2>1, <2>3 DEF RowStep, broker
    <2> QED BY <2>2, <2>4
  <1>3. CASE ~Ignored(m)
    <2>1. /\ IF row[m.o].side = "buy" THEN ApplyBuy(m) ELSE ApplySell(m)
          /\ fills' = fills \cup m.fills /\ row' = [row EXCEPT ![m.o] = Updated(m)]
      BY <1>3 DEF handleWebhookUpdate
    <2>2. fills' = fills \cup New(m) BY <2>1, Unfold, NewTrades
    <2>3. /\ Updated(m) \in RowRecords /\ Updated(m).side = row[m.o].side
          /\ Updated(m).orig = NextOrig(m) /\ Updated(m).filled = NextFilled(m)
          /\ Updated(m).reserved = Kept(m) - Excess(m)
      BY Unfold, UpdatedFields
    <2>4. row \in [Orders -> RowRecords] BY Unfold
    <2>5. /\ row' \in [Orders -> RowRecords] /\ row'[m.o] = Updated(m)
          /\ \A o \in Orders \ {m.o} : row'[o] = row[o]
      BY <1>1, <2>1, <2>3, <2>4
    <2>6. \A p \in Orders : row'[p].side = row[p].side BY <2>3, <2>5
    <2>7. RowStep
      <3>1. \A o \in Orders : row[o].filled \in Nat BY Unfold, RowFields
      <3>2. mats[m.o].status # "none" BY DEF MessageOK
      <3>3. Unamended(m.o) => row'[m.o].orig = row[m.o].orig /\ row'[m.o].filled >= row[m.o].filled
        BY <2>3, <2>5, NextFilledFacts
      <3> QED BY <1>1, <2>5, <2>6, <3>1, <3>2, <3>3 DEF RowStep
    <2>8. FilledWithin'
      <3>1. Unamended(m.o) => row'[m.o].filled <= row'[m.o].orig
        BY <2>3, <2>5, NextFilledFacts
      <3> QED BY <1>1, <2>5, <3>1, Unfold DEF FilledWithin
    <2>9. SellReservesNone'
      <3>1. row[m.o].side # "buy" => row'[m.o].reserved = 0
        <4>1. SUFFICES ASSUME row[m.o].side # "buy" PROVE row'[m.o].reserved = 0 OBVIOUS
        <4>2. row[m.o].reserved = 0 BY <1>1, <4>1, Unfold DEF SellReservesNone
        <4>3. Kept(m) = 0 /\ Excess(m) = 0 BY <4>2, Unfold, KeptTypes
        <4> QED BY <2>3, <2>5, <4>3
      <3> QED BY <1>1, <2>5, <2>6, <3>1, Unfold DEF SellReservesNone
    <2>10. row'[m.o].reserved = Kept(m) - Excess(m) BY <2>3, <2>5
    <2>11. CASE row[m.o].side = "buy"
      <3>1. ApplyBuy(m) BY <2>1, <2>11
      <3> QED BY <2>2, <2>5, <2>6, <2>7, <2>8, <2>9, <2>10, <2>11, <3>1, HandledBuy
    <2>12. CASE row[m.o].side # "buy"
      <3>1. ApplySell(m) BY <2>1, <2>12
      <3> QED BY <2>2, <2>5, <2>6, <2>7, <2>8, <2>9, <2>10, <2>12, <3>1, HandledSell
    <2> QED BY <2>11, <2>12
  <1> QED BY <1>2, <1>3
-----------------------------------------------------------------------------
\* The other half: what MATS and its messages say.
LEMMA MatsFacts ==
    ASSUME IInv
    PROVE  /\ mats \in [Orders -> OrderRecords] /\ made \subseteq TradeRecords /\ IsFiniteSet(made)
           /\ answer \in [Orders -> SUBSET MessageRecords] /\ wire \subseteq MessageRecords
           /\ change \in [Orders -> ChangeRecords] /\ seq \in Nat
           /\ call \in [Orders -> Calls]
           /\ MessagesOK /\ \A o \in Orders : OrderOK(o)
  BY DEF IInv, MatsInv, MatsTypes

LEMMA OrderFields ==
    ASSUME IInv, NEW o \in Orders
    PROVE  /\ mats[o].status \in Statuses /\ mats[o].price \in Nat /\ mats[o].orig \in Nat
           /\ mats[o].filled \in Nat /\ mats[o].rem \in Nat /\ mats[o].seq \in Nat
           /\ mats[o].placed \in Nat
  BY MatsFacts DEF OrderRecords

LEMMA ChangeFields ==
    ASSUME IInv, NEW o \in Orders
    PROVE  /\ change[o].stage \in Stages /\ change[o].prevReserved \in Nat
           /\ change[o].nextReserved \in Nat /\ change[o].prevRem \in Nat
           /\ change[o].nextRem \in Nat /\ change[o].price \in Nat /\ change[o].qty \in Nat
           /\ change[o].answer \subseteq MessageRecords /\ change[o].times \in Nat
  BY MatsFacts DEF ChangeRecords

\* A message stays true as long as its order stays known, its trades stay made,
\* and the quantity of a placed order changes by amendments only.
LEMMA MessageStays ==
    ASSUME NEW m \in MessageRecords, MessageOK(m),
           mats[m.o].status # "none" => mats'[m.o].status # "none", made \subseteq made',
           Unamended(m.o)' => Unamended(m.o) /\ row'[m.o].orig = row[m.o].orig
    PROVE  MessageOK(m)'
  BY DEF MessageOK, Snapshot

\* A step of the broker that leaves the orders of MATS alone.
LEMMA BrokerKeepsMats ==
    ASSUME IInv, UNCHANGED <<mats, made, seq>>, wire' \subseteq wire,
           answer' \in [Orders -> SUBSET MessageRecords],
           \A o \in Orders : \A m \in answer'[o] : MessageOK(m),
           change' \in [Orders -> ChangeRecords], call' \in [Orders -> Calls],
           \A o \in Orders : change'[o].answer \subseteq change[o].answer,
           \A o \in Orders : Unamended(o)' => Unamended(o),
           \A o \in Orders : mats[o].status # "none" => row'[o].orig = row[o].orig \/ ~Unamended(o),
           \A o \in Orders : call'[o] = "none" =>
             call[o] = "none" /\ row'[o] = row[o] /\ change'[o].stage = change[o].stage,
           \A o \in Orders : change'[o].stage # "none" => ~Unamended(o)'
    PROVE  MatsInv'
  <1>1. MatsTypes'
    <2>1. wire' \subseteq MessageRecords BY MatsFacts
    <2> QED BY <2>1, MatsFacts DEF MatsTypes
  <1>2. ASSUME NEW m \in MessageRecords, MessageOK(m) PROVE MessageOK(m)'
    <2>1. m.o \in Orders /\ mats[m.o].status # "none" BY <1>2, MessageFields DEF MessageOK
    <2>2. Unamended(m.o)' => Unamended(m.o) /\ row'[m.o].orig = row[m.o].orig BY <2>1
    <2> QED BY <1>2, <2>2, MessageStays
  <1>3. MessagesOK'
    <2>1. ASSUME NEW m \in wire' PROVE MessageOK(m)'
      <3>1. m \in MessageRecords /\ MessageOK(m) BY <2>1, MatsFacts DEF MessagesOK
      <3> QED BY <3>1, <1>2
    <2>2. ASSUME NEW o \in Orders, NEW m \in answer'[o] PROVE MessageOK(m)'
      <3>1. m \in MessageRecords /\ MessageOK(m) BY <2>2
      <3> QED BY <3>1, <1>2
    <2>3. ASSUME NEW o \in Orders, NEW m \in change'[o].answer PROVE MessageOK(m)'
      <3>1. m \in change[o].answer BY <2>3
      <3>2. m \in MessageRecords /\ MessageOK(m) BY <3>1, MatsFacts, ChangeFields DEF MessagesOK
      <3> QED BY <3>2, <1>2
    <2> QED BY <2>1, <2>2, <2>3 DEF MessagesOK
  <1>4. ASSUME NEW o \in Orders PROVE OrderOK(o)'
    <2>1. OrderOK(o) BY MatsFacts
    <2>2. mats[o].status # "none" /\ Unamended(o)' => row'[o].orig = row[o].orig OBVIOUS
    <2> QED BY <2>1, <2>2 DEF OrderOK, Live
  <1> QED BY <1>1, <1>3, <1>4 DEF MatsInv

LEMMA SnapshotOf ==
    ASSUME NEW kind \in {"status", "answer"}, NEW o \in Orders, NEW S \in SUBSET TradeRecords,
           NEW r \in OrderRecords
    PROVE  /\ Message(kind, o, S, r) \in MessageRecords /\ Message(kind, o, S, r).o = o
           /\ Message(kind, o, S, r).fills = S /\ Message(kind, o, S, r).orig = r.orig
           /\ Message(kind, o, S, r).filled = r.filled
  BY DEF Message, MessageRecords, OrderRecords

LEMMA FillFields ==
    ASSUME NEW t \in TradeRecords
    PROVE  /\ FillOf(t) \in MessageRecords /\ FillOf(t).o = t.o /\ FillOf(t).fills = {t}
           /\ ~Snapshot(FillOf(t))
  <1>1. t.o \in Orders BY DEF TradeRecords
  <1>2. "" \in Statuses BY DEF Statuses
  <1> QED BY <1>1, <1>2 DEF FillOf, MessageRecords, Snapshot

\* What MATS may make of one order.
Sound(o, r) == /\ r \in OrderRecords /\ r.status # "none" /\ r.filled <= r.orig
               /\ r.status \in {"open", "partially_filled"} => r.rem = r.orig - r.filled
               /\ Unamended(o) => r.orig = row[o].orig

\* A step of MATS that makes an order into r and publishes it with its trades.
LEMMA Published ==
    ASSUME IInv, UNCHANGED <<row, call>>, NEW o \in Orders, NEW r, Sound(o, r),
           call[o] # "none", mats' = [mats EXCEPT ![o] = r],
           NEW S, S \subseteq TradeRecords, IsFiniteSet(S), \A t \in S : t.o = o, Publish(o, S),
           change' \in [Orders -> ChangeRecords],
           \A p \in Orders : change'[p].times = change[p].times,
           \A p \in Orders : change'[p].stage # "none" => change[p].stage # "none",
           \A p \in Orders : call[p] = "none" => change'[p].stage = change[p].stage,
           answer' \in [Orders -> SUBSET MessageRecords], seq' \in Nat,
           \A p \in Orders : \A m \in answer'[p] : m \in answer[p] \/ m = Reply(o, S),
           \A p \in Orders : \A m \in change'[p].answer : m \in change[p].answer \/ m = Reply(o, S)
    PROVE  MatsInv'
  <1>1. /\ r \in OrderRecords /\ r.status # "none" /\ r.filled <= r.orig
        /\ r.status \in {"open", "partially_filled"} => r.rem = r.orig - r.filled
        /\ Unamended(o) => r.orig = row[o].orig
    BY DEF Sound
  <1>2. /\ mats' \in [Orders -> OrderRecords] /\ mats'[o] = r
        /\ \A p \in Orders \ {o} : mats'[p] = mats[p]
    BY <1>1, MatsFacts
  <1>3. made' = made \cup S /\ wire' = wire \cup {Status(o)} \cup {FillOf(t) : t \in S}
    BY DEF Publish
  <1>4. Status(o) = Message("status", o, {}, r) /\ Reply(o, S) = Message("answer", o, S, r)
    BY <1>2 DEF Status, Reply
  <1>5. \A p \in Orders : Unamended(p)' = Unamended(p) BY DEF Unamended
  <1>6. /\ Status(o) \in MessageRecords /\ Status(o).o = o /\ Status(o).fills = {}
        /\ Status(o).orig = r.orig /\ Status(o).filled = r.filled
    BY <1>1, <1>4, SnapshotOf
  <1>7. /\ Reply(o, S) \in MessageRecords /\ Reply(o, S).o = o /\ Reply(o, S).fills = S
        /\ Reply(o, S).orig = r.orig /\ Reply(o, S).filled = r.filled
    BY <1>1, <1>4, SnapshotOf
  <1>8. ASSUME NEW m \in MessageRecords, MessageOK(m) PROVE MessageOK(m)'
    <2>1. m.o \in Orders BY MessageFields
    <2>2. mats[m.o].status # "none" => mats'[m.o].status # "none" BY <1>1, <1>2, <2>1
    <2>3. Unamended(m.o)' => Unamended(m.o) /\ row'[m.o].orig = row[m.o].orig BY <1>5, <2>1
    <2> QED BY <1>3, <1>8, <2>2, <2>3, MessageStays
  <1>9. ASSUME NEW m \in MessageRecords, m.o = o, m.fills \subseteq S,
               ~Snapshot(m) \/ (m.orig = r.orig /\ m.filled = r.filled)
        PROVE  MessageOK(m)'
    <2>1. mats'[m.o].status # "none" BY <1>1, <1>2, <1>9
    <2>2. \A t \in m.fills : t \in made' /\ t.o = m.o BY <1>3, <1>9
    <2>3. Snapshot(m) /\ Unamended(m.o)' => m.orig = row'[m.o].orig /\ m.filled <= m.orig
      BY <1>1, <1>5, <1>9
    <2> QED BY <2>1, <2>2, <2>3 DEF MessageOK, Snapshot
  <1>10. MessagesOK'
    <2>1. ASSUME NEW m \in wire' PROVE MessageOK(m)'
      <3>1. CASE m \in wire
        <4>1. m \in MessageRecords /\ MessageOK(m) BY <3>1, MatsFacts DEF MessagesOK
        <4> QED BY <4>1, <1>8
      <3>2. CASE m = Status(o) BY <1>6, <1>9, <3>2
      <3>3. CASE \E t \in S : m = FillOf(t)
        <4>1. PICK t \in S : m = FillOf(t) BY <3>3
        <4>2. m \in MessageRecords /\ m.o = o /\ m.fills = {t} /\ ~Snapshot(m)
          BY <4>1, FillFields
        <4>3. m.fills \subseteq S BY <4>2
        <4> QED BY <4>2, <4>3, <1>9
      <3> QED BY <1>3, <2>1, <3>1, <3>2, <3>3
    <2>2. ASSUME NEW m, m = Reply(o, S) PROVE MessageOK(m)'
      BY <1>7, <1>9, <2>2
    <2>3. ASSUME NEW p \in Orders, NEW m \in answer'[p] PROVE MessageOK(m)'
      <3>1. CASE m \in answer[p]
        <4>1. m \in MessageRecords /\ MessageOK(m) BY <3>1, MatsFacts DEF MessagesOK
        <4> QED BY <4>1, <1>8
      <3> QED BY <2>2, <2>3, <3>1
    <2>4. ASSUME NEW p \in Orders, NEW m \in change'[p].answer PROVE MessageOK(m)'
      <3>1. CASE m \in change[p].answer
        <4>1. m \in MessageRecords /\ MessageOK(m) BY <3>1, MatsFacts, ChangeFields DEF MessagesOK
        <4> QED BY <4>1, <1>8
      <3> QED BY <2>2, <2>4, <3>1
    <2> QED BY <2>1, <2>3, <2>4 DEF MessagesOK
  <1>11. MatsTypes'
    <2>1. made' \subseteq TradeRecords /\ IsFiniteSet(made') BY <1>3, MatsFacts, FS_Union
    <2>2. \A t \in S : FillOf(t) \in MessageRecords BY FillFields
    <2>3. wire' \subseteq MessageRecords BY <1>3, <1>6, <2>2, MatsFacts
    <2> QED BY <1>2, <2>1, <2>3, MatsFacts DEF MatsTypes
  <1>12. ASSUME NEW p \in Orders PROVE OrderOK(p)'
    <2>1. OrderOK(p) BY MatsFacts
    <2>2. CASE p # o
      <3>1. mats'[p] = mats[p] BY <1>2, <2>2
      <3>2. mats[p].status = "none" => \A t \in made' : t.o # p BY <1>3, <2>1, <2>2 DEF OrderOK
      <3> QED BY <1>5, <2>1, <3>1, <3>2 DEF OrderOK, Live
    <2>3. CASE p = o
      <3>1. mats'[p] = r BY <1>2, <2>3
      <3>2. change'[p].stage # "none" => ~Unamended(p)' BY <1>5, <2>1 DEF OrderOK
      <3> QED BY <1>1, <1>5, <2>3, <3>1, <3>2 DEF OrderOK, Live
    <2> QED BY <2>2, <2>3
  <1> QED BY <1>10, <1>11, <1>12 DEF MatsInv
-----------------------------------------------------------------------------
Grows == \A o \in Orders : Unamended(o)' => row'[o].filled >= row[o].filled

\* A step that records no fill, and moves cash and shares within the account.
LEMMA Adjusts ==
    ASSUME IInv, fills' = fills, made' = made, row' \in [Orders -> RowRecords],
           \A o \in Orders : /\ row'[o].side = row[o].side /\ row'[o].orig = row[o].orig
                             /\ row'[o].filled = row[o].filled
                             /\ row'[o].side # "buy" => row'[o].reserved = 0,
           cash' \in Balances, cash'.pending = cash.pending, Total(cash') >= Total(cash),
           pos' \in Balances, pos'.pending = pos.pending, Total(pos') >= Total(pos),
           \A o \in Orders : Unamended(o)' => Unamended(o),
           \A o \in Orders : Orders = {o} /\ Unamended(o)' =>
             cash'.reserved = row'[o].reserved /\ Total(cash') = Total(cash)
    PROVE  BrokerInv' /\ Grows
  <1>1. /\ Paying' = Paying /\ Earning' = Earning
        /\ Quantity(BuyFills)' = Quantity(BuyFills)
        /\ Quantity(SellFills)' = Quantity(SellFills)
    BY Unfold, FillsStay
  <1>2. FilledWithin' BY Unfold DEF FilledWithin
  <1>3. SellReservesNone' BY DEF SellReservesNone
  <1>4. cash'.pending = Paying' + Earning' /\ pos'.pending = Quantity(BuyFills)' BY <1>1, Unfold
  <1>5. Total(cash') \in Int /\ Total(cash) \in Int BY AccountFields, Unfold DEF Total
  <1>6. Total(cash') >= InitialCash + Earning' BY <1>1, <1>5, Unfold
  <1>7. pos'.available + pos'.reserved >= pos.available + pos.reserved
    BY AccountFields, Unfold DEF Total
  <1>8. pos'.available + pos'.reserved + Quantity(SellFills)' >= InitialShares
    <2>1. pos'.available \in Int /\ pos'.reserved \in Int BY AccountFields
    <2> QED BY <1>1, <1>7, <2>1, Unfold
  <1>9. \A o \in Orders : Orders = {o} /\ Unamended(o)' =>
          cash'.reserved = row'[o].reserved /\ Total(cash') = InitialCash + Earning'
    BY <1>1, TotalOfOne
  <1>10. fills' \subseteq made' BY Unfold
  <1>11. BrokerInv' BY <1>2, <1>3, <1>4, <1>6, <1>8, <1>9, <1>10, Balanced
  <1>12. \A o \in Orders : row[o].filled \in Nat BY Unfold, RowFields
  <1> QED BY <1>11, <1>12 DEF Grows

\* A message is handled, and MATS does nothing.
LEMMA HandledStep ==
    ASSUME IInv, NEW m \in MessageRecords, MessageOK(m), handleWebhookUpdate(m),
           UNCHANGED <<mats, made, seq>>, wire' \subseteq wire,
           answer' \in [Orders -> SUBSET MessageRecords],
           \A o \in Orders : \A n \in answer'[o] : MessageOK(n),
           change' \in [Orders -> ChangeRecords], call' \in [Orders -> Calls],
           \A o \in Orders : change'[o].answer \subseteq change[o].answer,
           \A o \in Orders : change'[o].times = change[o].times,
           \A o \in Orders : call'[o] = "none" =>
             call[o] = "none" /\ change'[o].stage = change[o].stage,
           \A o \in Orders : change'[o].stage # "none" => change[o].stage # "none"
    PROVE  IInv' /\ Grows
  <1>1. \A o \in Orders : Unamended(o)' = Unamended(o) BY DEF Unamended
  <1>2. BrokerInv' /\ RowStep BY <1>1, Handled
  <1>3. \A o \in Orders : mats[o].status # "none" => row'[o].orig = row[o].orig \/ ~Unamended(o)
    BY <1>2 DEF RowStep
  <1>4. \A o \in Orders : call'[o] = "none" =>
          call[o] = "none" /\ row'[o] = row[o] /\ change'[o].stage = change[o].stage
    BY <1>2, MatsFacts DEF RowStep, OrderOK
  <1>5. \A o \in Orders : change'[o].stage # "none" => ~Unamended(o)'
    BY <1>1, MatsFacts DEF OrderOK
  <1>6. MatsInv' BY <1>1, <1>3, <1>4, <1>5, BrokerKeepsMats
  <1>7. Grows BY <1>1, <1>2 DEF Grows, RowStep
  <1> QED BY <1>2, <1>6, <1>7 DEF IInv

LEMMA DeliverStep ==
    ASSUME IInv, NEW m \in wire, NEW again \in BOOLEAN, Deliver(m, again)
    PROVE  IInv' /\ Grows
  <1>1. /\ handleWebhookUpdate(m) /\ wire' \subseteq wire
        /\ UNCHANGED <<call, change, mats, made, answer, seq>>
    BY DEF Deliver
  <1>2. m \in MessageRecords /\ MessageOK(m) BY MatsFacts DEF MessagesOK
  <1>3. \A o \in Orders : \A n \in answer'[o] : MessageOK(n) BY <1>1, MatsFacts DEF MessagesOK
  <1>4. /\ answer' \in [Orders -> SUBSET MessageRecords] /\ change' \in [Orders -> ChangeRecords]
        /\ call' \in [Orders -> Calls]
    BY <1>1, MatsFacts
  <1> QED BY <1>1, <1>2, <1>3, <1>4, HandledStep

LEMMA PlaceAnsweredStep ==
    ASSUME IInv, NEW o \in Orders, PlaceAnswered(o)
    PROVE  IInv' /\ Grows
  <1>1. /\ call[o] = "sent" /\ call' = [call EXCEPT ![o] = "done"]
        /\ UNCHANGED <<change, mats, made, answer, wire, seq>>
    BY DEF PlaceAnswered, exchange
  <1>2. PICK m \in answer[o] : handleWebhookUpdate(m) BY DEF PlaceAnswered
  <1>3. m \in MessageRecords /\ MessageOK(m) BY MatsFacts DEF MessagesOK
  <1>4. \A p \in Orders : \A n \in answer'[p] : MessageOK(n) BY <1>1, MatsFacts DEF MessagesOK
  <1>5. answer' \in [Orders -> SUBSET MessageRecords] /\ change' \in [Orders -> ChangeRecords]
    BY <1>1, MatsFacts
  <1>6. call' \in [Orders -> Calls] /\ \A p \in Orders : call'[p] = "none" => call[p] = "none"
    BY <1>1, MatsFacts DEF Calls
  <1> QED BY <1>1, <1>2, <1>3, <1>4, <1>5, <1>6, HandledStep

\* A reconciliation's answer is applied to whatever the row is by then.
LEMMA ReconcileAnsweredStep ==
    ASSUME IInv, NEW o \in Orders, ReconcileAnswered(o)
    PROVE  IInv' /\ Grows
  <1>1. UNCHANGED <<call, change, mats, made, answer, wire, seq>>
    BY DEF ReconcileAnswered, exchange
  <1>2. PICK m \in answer[o] : handleWebhookUpdate(m) BY DEF ReconcileAnswered
  <1>3. m \in MessageRecords /\ MessageOK(m) BY MatsFacts DEF MessagesOK
  <1>4. \A p \in Orders : \A n \in answer'[p] : MessageOK(n) BY <1>1, MatsFacts DEF MessagesOK
  <1>5. answer' \in [Orders -> SUBSET MessageRecords] /\ change' \in [Orders -> ChangeRecords]
    BY <1>1, MatsFacts
  <1>6. call' \in [Orders -> Calls] BY <1>1, MatsFacts
  <1> QED BY <1>1, <1>2, <1>3, <1>4, <1>5, <1>6, HandledStep

LEMMA AmendAnsweredStep ==
    ASSUME IInv, NEW o \in Orders, AmendAnswered(o)
    PROVE  IInv' /\ Grows
  <1>1. /\ change[o].stage = "answered" /\ UNCHANGED <<call, mats, made, answer, wire, seq>>
        /\ change' = [change EXCEPT ![o].stage = "applied", ![o].answer = {}]
    BY DEF AmendAnswered, exchange
  <1>2. PICK m \in change[o].answer : handleWebhookUpdate(m) BY DEF AmendAnswered
  <1>3. m \in MessageRecords /\ MessageOK(m) BY MatsFacts, ChangeFields DEF MessagesOK
  <1>4. \A p \in Orders : \A n \in answer'[p] : MessageOK(n) BY <1>1, MatsFacts DEF MessagesOK
  <1>5. answer' \in [Orders -> SUBSET MessageRecords] /\ call' \in [Orders -> Calls]
    BY <1>1, MatsFacts
  <1>6. /\ change' \in [Orders -> ChangeRecords] /\ change'[o].answer = {}
        /\ change'[o].times = change[o].times /\ \A p \in Orders \ {o} : change'[p] = change[p]
    <2>1. "applied" \in Stages BY DEF Stages
    <2> QED BY <1>1, <2>1, MatsFacts DEF ChangeRecords
  <1>7. call[o] # "none" BY <1>1, MatsFacts DEF OrderOK
  <1>8. \A p \in Orders : change'[p].times = change[p].times /\ change'[p].answer \subseteq change[p].answer
    BY <1>6
  <1>9. \A p \in Orders : call'[p] = "none" => call[p] = "none" /\ change'[p].stage = change[p].stage
    BY <1>1, <1>6, <1>7
  <1>10. \A p \in Orders : change'[p].stage # "none" => change[p].stage # "none"
    BY <1>1, <1>6
  <1> QED BY <1>1, <1>2, <1>3, <1>4, <1>5, <1>6, <1>8, <1>9, <1>10, HandledStep
-----------------------------------------------------------------------------
\* The rest of the broker's steps: BrokerKeepsMats with the messages as they are.
LEMMA BrokerOnly ==
    ASSUME IInv, UNCHANGED exchange, change' \in [Orders -> ChangeRecords], call' \in [Orders -> Calls],
           \A o \in Orders : change'[o].answer \subseteq change[o].answer,
           \A o \in Orders : Unamended(o)' => Unamended(o),
           \A o \in Orders : mats[o].status # "none" => row'[o].orig = row[o].orig \/ ~Unamended(o),
           \A o \in Orders : call'[o] = "none" =>
             call[o] = "none" /\ row'[o] = row[o] /\ change'[o].stage = change[o].stage,
           \A o \in Orders : change'[o].stage # "none" => ~Unamended(o)'
    PROVE  MatsInv'
  <1>1. UNCHANGED <<mats, made, answer, wire, seq>> BY DEF exchange
  <1>2. \A o \in Orders : \A m \in answer'[o] : MessageOK(m) BY <1>1, MatsFacts DEF MessagesOK
  <1>3. answer' \in [Orders -> SUBSET MessageRecords] /\ wire' \subseteq wire BY <1>1, MatsFacts
  <1> QED BY <1>1, <1>2, <1>3, BrokerKeepsMats

LEMMA ReserveIs ==
    ASSUME NEW acct \in Balances, NEW n \in Int, NEW next, next = Reserve(acct, n)
    PROVE  /\ next \in Balances /\ next.pending = acct.pending
           /\ Total(next) = Total(acct) /\ next.reserved = acct.reserved + n
  BY Reserved DEF Reserve

LEMMA TotalType == ASSUME NEW acct \in Balances PROVE Total(acct) \in Int
  BY AccountFields DEF Total

LEMMA PlaceOrderStep ==
    ASSUME IInv, NEW o \in Orders, NEW side \in Sides, NEW price \in Prices, NEW qty \in Quantities,
           PlaceOrder(o, side, price, qty)
    PROVE  IInv' /\ Grows
  <1>1. side \in {"buy", "sell"} /\ price \in Nat /\ qty \in Nat BY BrokerAssumption
  <1>2. PICK n \in Nat : n = IF side = "buy" THEN Cost(price, qty) ELSE 0 BY <1>1, CostType
  <1>3. PICK r : r = [side |-> side, price |-> price, orig |-> qty, filled |-> 0, rem |-> qty,
                      reserved |-> n, submission |-> "pending", known |-> FALSE, seq |-> 0,
                      status |-> "pending"]
    OBVIOUS
  <1>4. /\ call[o] = "none" /\ row' = [row EXCEPT ![o] = r]
        /\ call' = [call EXCEPT ![o] = "sent"] /\ UNCHANGED <<fills, change, exchange>>
    BY <1>2, <1>3 DEF PlaceOrder
  <1>5. \/ side = "buy" /\ cash' = Reserve(cash, n) /\ pos' = pos
        \/ side # "buy" /\ pos' = Reserve(pos, qty) /\ cash' = cash
    BY <1>2 DEF PlaceOrder
  <1>6. /\ r \in RowRecords /\ r.side = side /\ r.orig = qty /\ r.filled = 0 /\ r.reserved = n
    <2>1. "pending" \in Submissions /\ "pending" \in Statuses BY DEF Submissions, Statuses
    <2> QED BY <1>1, <1>3, <2>1 DEF RowRecords
  <1>7. /\ row' \in [Orders -> RowRecords] /\ row'[o] = r
        /\ \A p \in Orders \ {o} : row'[p] = row[p]
    BY <1>4, <1>6, Unfold
  <1>8. UNCHANGED <<mats, made, answer, wire, seq>> BY <1>4 DEF exchange
  <1>9. /\ mats[o].status = "none" /\ row[o] = NoRow /\ change[o].stage = "none"
        /\ \A t \in made : t.o # o
    BY <1>4, MatsFacts DEF OrderOK
  <1>10. /\ Paying' = Paying /\ Earning' = Earning
         /\ Quantity(BuyFills)' = Quantity(BuyFills)
         /\ Quantity(SellFills)' = Quantity(SellFills)
    <2>1. \A p \in Orders : (\E t \in fills : t.o = p) => row'[p].side = row[p].side
      BY <1>7, <1>9, Unfold
    <2> QED BY <1>4, <2>1, Unfold, FillsStay
  <1>11. /\ cash' \in Balances /\ cash'.pending = cash.pending /\ Total(cash') = Total(cash)
         /\ cash'.reserved = cash.reserved + n
    <2>1. cash \in Balances /\ n \in Int /\ cash.reserved \in Int BY Unfold
    <2>2. CASE side = "buy"
      <3>1. cash' = Reserve(cash, n) BY <1>5, <2>2
      <3> QED BY <2>1, <3>1, ReserveIs
    <2>3. CASE side # "buy" BY <1>2, <1>5, <2>1, <2>3
    <2> QED BY <2>2, <2>3
  <1>12. pos' \in Balances /\ pos'.pending = pos.pending /\ Total(pos') = Total(pos)
    <2>1. CASE side = "buy" BY <1>5, <2>1, Unfold
    <2>2. CASE side # "buy"
      <3>1. pos' = Reserve(pos, qty) BY <1>5, <2>2
      <3>2. pos \in Balances /\ qty \in Int BY <1>1, Unfold
      <3> QED BY <3>1, <3>2, ReserveIs
    <2> QED BY <2>1, <2>2
  <1>13. pos'.available + pos'.reserved + Quantity(SellFills)' >= InitialShares
    <2>1. pos'.available \in Int /\ pos'.reserved \in Int /\ pos'.pending \in Int
      BY <1>12, AccountFields
    <2>2. pos.available \in Int /\ pos.reserved \in Int /\ pos.pending \in Int BY Unfold
    <2>3. pos'.available + pos'.reserved >= pos.available + pos.reserved
      <3>1. PICK x \in Int, y \in Int, z \in Int :
              pos.available = x /\ pos.reserved = y /\ pos.pending = z
        BY <2>2
      <3>2. PICK u \in Int, v \in Int : pos'.available = u /\ pos'.reserved = v BY <2>1
      <3>3. u + v + z = x + y + z BY <1>12, <3>1, <3>2 DEF Total
      <3>4. u + v >= x + y BY <3>3
      <3> QED BY <3>1, <3>2, <3>4
    <2> QED BY <1>10, <2>1, <2>2, <2>3, Unfold
  <1>14. FilledWithin' BY <1>1, <1>4, <1>6, <1>7, Unfold DEF FilledWithin, Unamended
  <1>15. SellReservesNone' BY <1>2, <1>6, <1>7, Unfold DEF SellReservesNone
  <1>16. ASSUME NEW p \in Orders, Orders = {p}, Unamended(p)'
         PROVE  cash'.reserved = row'[p].reserved /\ Total(cash') = InitialCash + Earning'
    <2>1. p = o /\ Unamended(p) BY <1>4, <1>16 DEF Unamended
    <2>2. Total(cash) = InitialCash + Earning /\ cash.reserved = row[o].reserved
      BY <1>16, <2>1, TotalOfOne
    <2>3. row[o].reserved = 0 BY <1>9 DEF NoRow
    <2> QED BY <1>6, <1>7, <1>10, <1>11, <2>1, <2>2, <2>3
  <1>17. /\ cash'.pending = Paying' + Earning' /\ pos'.pending = Quantity(BuyFills)'
         /\ Total(cash') >= InitialCash + Earning' /\ fills' \subseteq made'
    BY <1>4, <1>8, <1>10, <1>11, <1>12, Unfold
  <1>18. BrokerInv' BY <1>7, <1>11, <1>12, <1>13, <1>14, <1>15, <1>16, <1>17, Balanced
  <1>19. MatsInv'
    <2>1. /\ change' \in [Orders -> ChangeRecords]
          /\ \A p \in Orders : change'[p].answer \subseteq change[p].answer
          /\ \A p \in Orders : Unamended(p)' => Unamended(p)
          /\ \A p \in Orders : change'[p].stage # "none" => ~Unamended(p)'
      BY <1>4, MatsFacts DEF OrderOK, Unamended
    <2>2. \A p \in Orders : mats[p].status # "none" => row'[p].orig = row[p].orig \/ ~Unamended(p)
      BY <1>7, <1>9
    <2>4. /\ call' \in [Orders -> Calls] /\ call'[o] = "sent"
          /\ \A p \in Orders \ {o} : call'[p] = call[p]
      BY <1>4, MatsFacts DEF Calls
    <2>3. \A p \in Orders : call'[p] = "none" =>
            call[p] = "none" /\ row'[p] = row[p] /\ change'[p].stage = change[p].stage
      BY <1>4, <1>7, <2>4
    <2> QED BY <1>4, <2>1, <2>2, <2>3, <2>4, BrokerOnly
  <1>20. Grows
    <2>1. row[o].filled = 0 BY <1>9 DEF NoRow
    <2>2. \A p \in Orders : row[p].filled \in Nat BY Unfold, RowFields
    <2> QED BY <1>6, <1>7, <2>1, <2>2 DEF Grows
  <1> QED BY <1>18, <1>19, <1>20 DEF IInv

\* A step that adjusts accounts, rows and the running amendment of one order.
LEMMA AdjustsStep ==
    ASSUME IInv, NEW o \in Orders, call[o] # "none", UNCHANGED <<fills, exchange>>,
           row' \in [Orders -> RowRecords], \A p \in Orders \ {o} : row'[p] = row[p],
           row'[o].side = row[o].side, row'[o].orig = row[o].orig,
           row'[o].filled = row[o].filled, row'[o].side # "buy" => row'[o].reserved = 0,
           cash' \in Balances, cash'.pending = cash.pending, Total(cash') >= Total(cash),
           pos' \in Balances, pos'.pending = pos.pending, Total(pos') >= Total(pos),
           Orders = {o} /\ Unamended(o)' =>
             cash'.reserved = row'[o].reserved /\ Total(cash') = Total(cash),
           NEW c \in ChangeRecords, change' = [change EXCEPT ![o] = c],
           c.answer \subseteq change[o].answer, c.times >= change[o].times,
           c.stage # "none" => c.times > 0,
           call' \in [Orders -> Calls],
           \A p \in Orders : call'[p] = "none" => call[p] = "none" /\ p # o
    PROVE  IInv' /\ Grows
  <1>1. /\ change' \in [Orders -> ChangeRecords] /\ change'[o] = c
        /\ \A p \in Orders \ {o} : change'[p] = change[p]
    BY MatsFacts
  <1>2. change[o].times \in Nat /\ c.times \in Nat BY ChangeFields DEF ChangeRecords
  <1>3. \A p \in Orders : Unamended(p)' => Unamended(p) BY <1>1, <1>2 DEF Unamended
  <1>4. \A p \in Orders : /\ row'[p].side = row[p].side /\ row'[p].orig = row[p].orig
                          /\ row'[p].filled = row[p].filled
                          /\ row'[p].side # "buy" => row'[p].reserved = 0
    BY Unfold DEF SellReservesNone
  <1>5. made' = made BY DEF exchange
  <1>6. \A p \in Orders : Orders = {p} /\ Unamended(p)' =>
          cash'.reserved = row'[p].reserved /\ Total(cash') = Total(cash)
    OBVIOUS
  <1>7. BrokerInv' /\ Grows BY <1>3, <1>4, <1>5, <1>6, Adjusts
  <1>8. \A p \in Orders : change'[p].answer \subseteq change[p].answer BY <1>1
  <1>9. \A p \in Orders : change'[p].stage # "none" => ~Unamended(p)'
    BY <1>1, <1>2, MatsFacts DEF OrderOK, Unamended
  <1>10. \A p \in Orders : call'[p] = "none" =>
           call[p] = "none" /\ row'[p] = row[p] /\ change'[p].stage = change[p].stage
    BY <1>1
  <1>11. MatsInv' BY <1>1, <1>3, <1>4, <1>8, <1>9, <1>10, BrokerOnly
  <1> QED BY <1>7, <1>11 DEF IInv

LEMMA PlaceUnknownStep ==
    ASSUME IInv, NEW o \in Orders, PlaceUnknown(o)
    PROVE  IInv' /\ Grows
  <1>1. /\ call[o] = "sent" /\ call' = [call EXCEPT ![o] = "unknown"]
        /\ row' = [row EXCEPT ![o].status = "submit_unknown", ![o].submission = "unknown"]
        /\ UNCHANGED <<cash, pos, fills, change, exchange>>
    BY DEF PlaceUnknown
  <1>2. /\ row' \in [Orders -> RowRecords] /\ \A p \in Orders \ {o} : row'[p] = row[p]
        /\ row'[o].side = row[o].side /\ row'[o].orig = row[o].orig
        /\ row'[o].filled = row[o].filled /\ row'[o].reserved = row[o].reserved
    <2>1. "unknown" \in Submissions /\ "submit_unknown" \in Statuses BY DEF Submissions, Statuses
    <2> QED BY <1>1, <2>1, Unfold DEF RowRecords
  <1>3. Total(cash) \in Int /\ Total(pos) \in Int BY Unfold, TotalType
  <1>4. /\ cash' \in Balances /\ cash'.pending = cash.pending /\ Total(cash') >= Total(cash)
        /\ pos' \in Balances /\ pos'.pending = pos.pending /\ Total(pos') >= Total(pos)
    BY <1>1, <1>3, Unfold
  <1>10. row'[o].side # "buy" => row'[o].reserved = 0
    BY <1>2, Unfold DEF SellReservesNone
  <1>5. Orders = {o} /\ Unamended(o)' =>
          cash'.reserved = row'[o].reserved /\ Total(cash') = Total(cash)
    BY <1>1, <1>2, TotalOfOne DEF Unamended
  <1>6. PICK c \in ChangeRecords : c = change[o] BY MatsFacts
  <1>7. /\ change' = [change EXCEPT ![o] = c] /\ c.answer \subseteq change[o].answer
        /\ c.times >= change[o].times /\ (c.stage # "none" => c.times > 0)
    <2>1. c.times \in Nat BY <1>6, ChangeFields
    <2> QED BY <1>1, <1>6, <2>1, MatsFacts DEF OrderOK, Unamended
  <1>8. /\ call' \in [Orders -> Calls]
        /\ \A p \in Orders : call'[p] = "none" => call[p] = "none" /\ p # o
    BY <1>1, MatsFacts DEF Calls
  <1>9. call[o] # "none" /\ UNCHANGED <<fills, exchange>> BY <1>1
  <1> QED BY <1>2, <1>4, <1>5, <1>7, <1>8, <1>9, <1>10, AdjustsStep

LEMMA RefuseStep ==
    ASSUME IInv, NEW o \in Orders, Refuse(o)
    PROVE  IInv' /\ Grows
  <1>1. /\ call[o] # "none" /\ call' = [call EXCEPT ![o] = "refused"]
        /\ row' = [row EXCEPT ![o].status = "rejected", ![o].submission = "failed",
                              ![o].rem = 0, ![o].reserved = 0]
        /\ UNCHANGED <<fills, change, exchange>>
    BY DEF Refuse, Refund, RefundRow
  <1>2. \/ row[o].side = "buy" /\ cash' = Release(cash, row[o].reserved) /\ pos' = pos
        \/ row[o].side # "buy" /\ pos' = Release(pos, row[o].orig) /\ cash' = cash
    BY DEF Refuse, Refund
  <1>3. /\ row' \in [Orders -> RowRecords] /\ \A p \in Orders \ {o} : row'[p] = row[p]
        /\ row'[o].side = row[o].side /\ row'[o].orig = row[o].orig
        /\ row'[o].filled = row[o].filled /\ row'[o].reserved = 0
    <2>1. "failed" \in Submissions /\ "rejected" \in Statuses BY DEF Submissions, Statuses
    <2>2. PICK half : half = [row EXCEPT ![o].status = "rejected", ![o].submission = "failed"]
      OBVIOUS
    <2>3. row' = [half EXCEPT ![o].rem = 0, ![o].reserved = 0] BY <1>1, <2>2
    <2>4. row \in [Orders -> RowRecords] BY Unfold
    <2>5. /\ half \in [Orders -> RowRecords] /\ \A p \in Orders \ {o} : half[p] = row[p]
          /\ half[o].side = row[o].side /\ half[o].orig = row[o].orig
          /\ half[o].filled = row[o].filled
      BY <2>1, <2>2, <2>4 DEF RowRecords
    <2>6. PICK last : last = [half[o] EXCEPT !.rem = 0, !.reserved = 0] OBVIOUS
    <2>7. half[o] \in RowRecords BY <2>5
    <2>8. /\ last \in RowRecords /\ last.side = half[o].side /\ last.orig = half[o].orig
          /\ last.filled = half[o].filled /\ last.reserved = 0
      BY <2>6, <2>7 DEF RowRecords
    <2>9. row' = [half EXCEPT ![o] = last] BY <2>3, <2>6
    <2> HIDE DEF RowRecords
    <2> QED BY <2>5, <2>8, <2>9
  <1>4. row[o].reserved \in Nat /\ row[o].orig \in Nat BY Unfold, RowFields
  <1>5. Total(cash) \in Int /\ Total(pos) \in Int BY Unfold, TotalType
  <1>6. /\ cash' \in Balances /\ cash'.pending = cash.pending /\ Total(cash') >= Total(cash)
        /\ pos' \in Balances /\ pos'.pending = pos.pending /\ Total(pos') >= Total(pos)
    <2>1. cash \in Balances /\ pos \in Balances BY Unfold
    <2>2. CASE row[o].side = "buy"
      <3>1. cash' = Release(cash, row[o].reserved) /\ pos' = pos BY <1>2, <2>2
      <3>2. cash' \in Balances /\ cash'.pending = cash.pending /\ Total(cash') >= Total(cash)
        BY <1>4, <2>1, <3>1, Released
      <3> QED BY <1>5, <2>1, <3>1, <3>2
    <2>3. CASE row[o].side # "buy"
      <3>1. pos' = Release(pos, row[o].orig) /\ cash' = cash BY <1>2, <2>3
      <3>2. pos' \in Balances /\ pos'.pending = pos.pending /\ Total(pos') >= Total(pos)
        BY <1>4, <2>1, <3>1, Released
      <3> QED BY <1>5, <2>1, <3>1, <3>2
    <2> QED BY <2>2, <2>3
  <1>7. ASSUME Orders = {o}, Unamended(o)'
        PROVE  cash'.reserved = row'[o].reserved /\ Total(cash') = Total(cash)
    <2>1. cash.reserved = row[o].reserved BY <1>1, <1>7, TotalOfOne DEF Unamended
    <2>2. CASE row[o].side = "buy" BY <1>2, <1>3, <1>4, <2>1, <2>2, Released, Unfold
    <2>3. CASE row[o].side # "buy"
      <3>1. row[o].reserved = 0 BY <2>3, Unfold DEF SellReservesNone
      <3> QED BY <1>2, <1>3, <2>1, <2>3, <3>1
    <2> QED BY <2>2, <2>3
  <1>8. PICK c \in ChangeRecords : c = change[o] BY MatsFacts
  <1>9. /\ change' = [change EXCEPT ![o] = c] /\ c.answer \subseteq change[o].answer
        /\ c.times >= change[o].times /\ (c.stage # "none" => c.times > 0)
    <2>1. c.times \in Nat BY <1>8, ChangeFields
    <2> QED BY <1>1, <1>8, <2>1, MatsFacts DEF OrderOK, Unamended
  <1>10. /\ call' \in [Orders -> Calls]
         /\ \A p \in Orders : call'[p] = "none" => call[p] = "none" /\ p # o
    BY <1>1, MatsFacts DEF Calls
  <1> QED BY <1>1, <1>3, <1>6, <1>7, <1>9, <1>10, AdjustsStep
-----------------------------------------------------------------------------
\* What the amendment was asked for and its end leave behind.
LEMMA NoChangeType ==
    ASSUME NEW n \in Nat, NEW c, c = [NoChange EXCEPT !.times = n]
    PROVE  c \in ChangeRecords /\ c.stage = "none" /\ c.answer = {} /\ c.times = n
  BY DEF NoChange, ChangeRecords, Stages

LEMMA MovedInt ==
    ASSUME NEW acct \in Balances, NEW from \in Nat, NEW to \in Nat, NEW next,
           next = acct \/ next = Adjusted(acct, from, to)
    PROVE  /\ next \in Balances /\ next.pending = acct.pending /\ Total(next) >= Total(acct)
           /\ Total(next) = Total(acct)
  <1>1. next \in Balances /\ next.pending = acct.pending /\ Total(next) = Total(acct) BY Moved
  <1>2. Total(acct) \in Int BY TotalType
  <1> QED BY <1>1, <1>2

\* A step that moves cash and shares within the account and the running amendment on.
LEMMA AmendMoves ==
    ASSUME IInv, NEW o \in Orders, call[o] # "none", UNCHANGED <<row, fills, call, exchange>>,
           NEW c \in ChangeRecords, change' = [change EXCEPT ![o] = c],
           c.answer \subseteq change[o].answer, c.times >= change[o].times, c.times > 0,
           NEW a \in Nat, NEW b \in Nat, cash' = cash \/ cash' = Adjusted(cash, a, b),
           NEW d \in Nat, NEW e \in Nat, pos' = pos \/ pos' = Adjusted(pos, d, e)
    PROVE  IInv' /\ Grows
  <1>1. cash \in Balances /\ pos \in Balances BY Unfold
  <1>2. cash' \in Balances /\ cash'.pending = cash.pending /\ Total(cash') >= Total(cash)
    BY <1>1, MovedInt
  <1>3. pos' \in Balances /\ pos'.pending = pos.pending /\ Total(pos') >= Total(pos)
    BY <1>1, MovedInt
  <1>4. c.times \in Nat BY DEF ChangeRecords
  <1>5. ~(Orders = {o} /\ Unamended(o)') BY <1>4, MatsFacts DEF Unamended
  <1>6. /\ call' \in [Orders -> Calls]
        /\ \A p \in Orders : call'[p] = "none" => call[p] = "none" /\ p # o
    BY MatsFacts
  <1>7. /\ row' \in [Orders -> RowRecords] /\ \A p \in Orders \ {o} : row'[p] = row[p]
        /\ row'[o].side = row[o].side /\ row'[o].orig = row[o].orig
        /\ row'[o].filled = row[o].filled /\ (row'[o].side # "buy" => row'[o].reserved = 0)
    BY Unfold DEF SellReservesNone
  <1> QED BY <1>2, <1>3, <1>5, <1>6, <1>7, AdjustsStep

LEMMA AmendOrderStep ==
    ASSUME IInv, NEW o \in Orders, NEW price \in Prices, NEW qty \in Quantities,
           AmendOrder(o, price, qty)
    PROVE  IInv' /\ Grows
  <1>1. /\ row[o].side \in {"buy", "sell"} /\ row[o].filled \in Nat /\ row[o].rem \in Nat
        /\ row[o].reserved \in Nat
    BY Unfold, RowFields
  <1>2. price \in Nat /\ qty \in Nat /\ qty >= row[o].filled BY BrokerAssumption DEF AmendOrder
  <1>3. PICK left \in Nat : left = qty - row[o].filled BY <1>1, <1>2
  <1>4. PICK needs \in Nat : needs = IF row[o].side = "buy" THEN Cost(price, left) ELSE 0
    BY <1>2, CostType
  <1>5. PICK c : c = [stage |-> "read", prevReserved |-> row[o].reserved, nextReserved |-> needs,
                      prevRem |-> row[o].rem, nextRem |-> left,
                      price |-> price, qty |-> qty, answer |-> {},
                      times |-> change[o].times + 1]
    OBVIOUS
  <1>6. /\ row[o].known /\ change' = [change EXCEPT ![o] = c]
        /\ UNCHANGED <<cash, pos, row, fills, call, exchange>>
    BY <1>3, <1>4, <1>5 DEF AmendOrder, broker
  <1>7. change[o].times \in Nat BY ChangeFields
  <1>8. c \in ChangeRecords /\ c.answer = {} /\ c.times = change[o].times + 1
    BY <1>1, <1>2, <1>5, <1>7 DEF ChangeRecords, Stages
  <1>9. c.answer \subseteq change[o].answer /\ c.times >= change[o].times /\ c.times > 0
    BY <1>7, <1>8
  <1>10. call[o] # "none" BY <1>6, MatsFacts DEF OrderOK, NoRow
  <1> QED BY <1>6, <1>8, <1>9, <1>10, AmendMoves

\* What is reserved more moves within the account.
LEMMA AmendReservesStep ==
    ASSUME IInv, NEW o \in Orders, AmendReserves(o)
    PROVE  IInv' /\ Grows
  <1>1. /\ change[o].stage = "read" /\ UNCHANGED <<row, fills, call, exchange>>
    BY DEF AmendReserves
  <1>2. /\ change[o].nextReserved \in Nat /\ change[o].prevReserved \in Nat
        /\ change[o].nextRem \in Nat /\ change[o].prevRem \in Nat
        /\ change[o].times \in Nat
    BY ChangeFields
  <1>3. ~Unamended(o) /\ call[o] # "none" BY <1>1, MatsFacts DEF OrderOK
  <1>4. change[o].times > 0 BY <1>2, <1>3 DEF Unamended
  <1>5. cash' = cash \/ cash' = Adjusted(cash, change[o].prevReserved, change[o].nextReserved)
    BY DEF AmendReserves
  <1>6. pos' = pos \/ pos' = Adjusted(pos, change[o].prevRem, change[o].nextRem)
    BY DEF AmendReserves
  <1>7. PICK c \in ChangeRecords : /\ change' = [change EXCEPT ![o] = c]
                                   /\ c.answer \subseteq change[o].answer
                                   /\ c.times = change[o].times
    <2>1. CASE change' = [change EXCEPT ![o].stage = "sent"]
      <3>1. PICK c : c = change'[o] OBVIOUS
      <3>2. /\ change' = [change EXCEPT ![o] = c] /\ c \in ChangeRecords
            /\ c.answer = change[o].answer /\ c.times = change[o].times
        BY <2>1, <3>1, MatsFacts DEF ChangeRecords, Stages
      <3> QED BY <3>2
    <2>2. CASE change' = [change EXCEPT ![o] = [NoChange EXCEPT !.times = change[o].times]]
      <3>1. PICK c : c = [NoChange EXCEPT !.times = change[o].times] OBVIOUS
      <3>2. c \in ChangeRecords /\ c.answer = {} /\ c.times = change[o].times
        BY <1>2, <3>1, NoChangeType
      <3> QED BY <2>2, <3>1, <3>2
    <2> QED BY <2>1, <2>2 DEF AmendReserves
  <1>8. c.times >= change[o].times /\ c.times > 0 BY <1>2, <1>4, <1>7
  <1> QED BY <1>1, <1>2, <1>3, <1>5, <1>6, <1>7, <1>8, AmendMoves

LEMMA AmendFailsStep ==
    ASSUME IInv, NEW o \in Orders, AmendFails(o)
    PROVE  IInv' /\ Grows
  <1>1. PICK n \in Nat : n = change[o].times BY ChangeFields
  <1>2. PICK c : c = [NoChange EXCEPT !.times = n] OBVIOUS
  <1>3. /\ change[o].stage # "none" /\ change' = [change EXCEPT ![o] = c]
        /\ UNCHANGED <<row, fills, call, exchange>>
    BY <1>1, <1>2 DEF AmendFails
  <1>4. cash' = cash \/ cash' = Adjusted(cash, change[o].nextReserved, change[o].prevReserved)
    BY DEF AmendFails
  <1>5. pos' = pos \/ pos' = Adjusted(pos, change[o].nextRem, change[o].prevRem)
    BY DEF AmendFails
  <1>6. cash \in Balances /\ pos \in Balances BY Unfold
  <1>7. /\ change[o].nextReserved \in Nat /\ change[o].prevReserved \in Nat
        /\ change[o].nextRem \in Nat /\ change[o].prevRem \in Nat
    BY ChangeFields
  <1>8. cash' \in Balances /\ cash'.pending = cash.pending /\ Total(cash') >= Total(cash)
    BY <1>4, <1>6, <1>7, MovedInt
  <1>9. pos' \in Balances /\ pos'.pending = pos.pending /\ Total(pos') >= Total(pos)
    BY <1>5, <1>6, <1>7, MovedInt
  <1>10. c \in ChangeRecords /\ c.stage = "none" /\ c.answer = {} /\ c.times = n
    BY <1>2, NoChangeType
  <1>11. /\ c.answer \subseteq change[o].answer /\ c.times >= change[o].times
         /\ c.stage # "none" => c.times > 0
    BY <1>1, <1>10
  <1>12. ~Unamended(o) /\ call[o] # "none" BY <1>3, MatsFacts DEF OrderOK
  <1>13. ~(Orders = {o} /\ Unamended(o)')
    BY <1>1, <1>3, <1>10, <1>12, MatsFacts DEF Unamended
  <1>14. /\ call' \in [Orders -> Calls]
         /\ \A p \in Orders : call'[p] = "none" => call[p] = "none" /\ p # o
    BY <1>3, <1>12, MatsFacts
  <1>15. /\ row' \in [Orders -> RowRecords] /\ \A p \in Orders \ {o} : row'[p] = row[p]
         /\ row'[o].side = row[o].side /\ row'[o].orig = row[o].orig
         /\ row'[o].filled = row[o].filled /\ (row'[o].side # "buy" => row'[o].reserved = 0)
    BY <1>3, Unfold DEF SellReservesNone
  <1> QED BY <1>3, <1>8, <1>9, <1>10, <1>11, <1>12, <1>13, <1>14, <1>15, AdjustsStep

LEMMA AmendLockedStep ==
    ASSUME IInv, NEW o \in Orders, AmendLocked(o)
    PROVE  IInv' /\ Grows
  <1>1. /\ change[o].stage = "sent" /\ change' = [change EXCEPT ![o].stage = "applied"]
        /\ UNCHANGED <<broker, call, exchange>>
    BY DEF AmendLocked
  <1>2. UNCHANGED <<cash, pos, row, fills>> BY <1>1 DEF broker
  <1>3. PICK c : c = change'[o] OBVIOUS
  <1>4. /\ change' = [change EXCEPT ![o] = c] /\ c \in ChangeRecords
        /\ c.answer = change[o].answer /\ c.times = change[o].times
    BY <1>1, <1>3, MatsFacts DEF ChangeRecords, Stages
  <1>5. change[o].times \in Nat /\ ~Unamended(o) /\ call[o] # "none"
    BY <1>1, ChangeFields, MatsFacts DEF OrderOK
  <1>6. /\ c.answer \subseteq change[o].answer /\ c.times >= change[o].times
        /\ c.stage # "none" => c.times > 0
    BY <1>4, <1>5 DEF Unamended
  <1>7. ~(Orders = {o} /\ Unamended(o)') BY <1>3, <1>4, <1>5 DEF Unamended
  <1>8. /\ call' \in [Orders -> Calls]
        /\ \A p \in Orders : call'[p] = "none" => call[p] = "none" /\ p # o
    BY <1>1, <1>5, MatsFacts
  <1>9. /\ row' \in [Orders -> RowRecords] /\ \A p \in Orders \ {o} : row'[p] = row[p]
        /\ row'[o].side = row[o].side /\ row'[o].orig = row[o].orig
        /\ row'[o].filled = row[o].filled /\ (row'[o].side # "buy" => row'[o].reserved = 0)
    BY <1>2, Unfold DEF SellReservesNone
  <1>10. Total(cash) \in Int /\ Total(pos) \in Int BY Unfold, TotalType
  <1>11. /\ cash' \in Balances /\ cash'.pending = cash.pending /\ Total(cash') >= Total(cash)
         /\ pos' \in Balances /\ pos'.pending = pos.pending /\ Total(pos') >= Total(pos)
    BY <1>2, <1>10, Unfold
  <1> QED BY <1>1, <1>2, <1>4, <1>5, <1>6, <1>7, <1>8, <1>9, <1>11, AdjustsStep

LEMMA AmendSettledStep ==
    ASSUME IInv, NEW o \in Orders, AmendSettled(o)
    PROVE  IInv' /\ Grows
  <1>1. PICK n \in Nat : n = change[o].times BY ChangeFields
  <1>2. PICK c : c = [NoChange EXCEPT !.times = n] OBVIOUS
  <1>3. /\ change[o].stage # "none" /\ change' = [change EXCEPT ![o] = c]
        /\ UNCHANGED <<cash, fills, call, exchange>>
    BY <1>1, <1>2 DEF AmendSettled
  <1>4. pos' = pos \/ pos' = Adjusted(pos, change[o].prevRem, change[o].nextRem)
    BY DEF AmendSettled
  <1>5. /\ row[o].price \in Nat /\ row[o].rem \in Nat /\ row[o].reserved \in Nat
        /\ row[o].side \in {"buy", "sell"}
    BY Unfold, RowFields
  <1>6. change[o].prevRem \in Nat /\ change[o].nextRem \in Nat BY ChangeFields
  <1>7. PICK kept \in Nat : kept = IF row[o].status \in Closed THEN 0
                                   ELSE Cost(row[o].price, IF row[o].rem = 0 THEN change[o].nextRem
                                                           ELSE row[o].rem)
    BY <1>5, <1>6, CostType
  <1>8. row' = IF row[o].side = "buy" THEN [row EXCEPT ![o].reserved = kept] ELSE row
    BY <1>7 DEF AmendSettled
  <1>9. cash \in Balances /\ pos \in Balances /\ row \in [Orders -> RowRecords] BY Unfold
  <1>10. row[o].side # "buy" => row[o].reserved = 0 BY Unfold DEF SellReservesNone
  <1>11. /\ row' \in [Orders -> RowRecords] /\ \A p \in Orders \ {o} : row'[p] = row[p]
         /\ row'[o].side = row[o].side /\ row'[o].orig = row[o].orig
         /\ row'[o].filled = row[o].filled /\ (row'[o].side # "buy" => row'[o].reserved = 0)
    <2>1. CASE row[o].side = "buy" BY <1>8, <1>9, <2>1 DEF RowRecords
    <2>2. CASE row[o].side # "buy" BY <1>8, <1>9, <1>10, <2>2
    <2> QED BY <2>1, <2>2
  <1>12. pos' \in Balances /\ pos'.pending = pos.pending /\ Total(pos') >= Total(pos)
    BY <1>4, <1>6, <1>9, MovedInt
  <1>13. cash' \in Balances /\ cash'.pending = cash.pending /\ Total(cash') >= Total(cash)
    BY <1>3, <1>9, TotalType
  <1>14. c \in ChangeRecords /\ c.stage = "none" /\ c.answer = {} /\ c.times = n
    BY <1>2, NoChangeType
  <1>15. /\ c.answer \subseteq change[o].answer /\ c.times >= change[o].times
         /\ c.stage # "none" => c.times > 0
    BY <1>1, <1>14
  <1>16. ~Unamended(o) /\ call[o] # "none" BY <1>3, MatsFacts DEF OrderOK
  <1>17. ~(Orders = {o} /\ Unamended(o)')
    BY <1>1, <1>3, <1>14, <1>16, MatsFacts DEF Unamended
  <1>18. /\ call' \in [Orders -> Calls]
         /\ \A p \in Orders : call'[p] = "none" => call[p] = "none" /\ p # o
    BY <1>3, <1>16, MatsFacts
  <1> QED BY <1>3, <1>11, <1>12, <1>13, <1>14, <1>15, <1>16, <1>17, <1>18, AdjustsStep
-----------------------------------------------------------------------------
\* MATS accepts, fills, amends and closes orders.
LEMMA MatchedFields ==
    ASSUME NEW price, NEW qty, NEW got, NEW number, NEW placed, NEW r,
           r = Matched(price, qty, got, number, placed),
           price \in Nat, qty \in Nat, got \in 0..qty, number \in Nat, placed \in Nat
    PROVE  /\ r \in OrderRecords /\ r.status # "none" /\ r.filled = got /\ r.orig = qty
           /\ r.rem = r.orig - r.filled /\ r.filled <= r.orig
  <1>1. PICK s : s = IF got = qty THEN "filled" ELSE IF got > 0 THEN "partially_filled" ELSE "open"
    OBVIOUS
  <1>2. s \in Statuses /\ s # "none" BY <1>1 DEF Statuses
  <1>3. PICK rem \in Nat : rem = qty - got OBVIOUS
  <1>4. got \in Nat /\ got <= qty OBVIOUS
  <1>5. r = Order(s, price, qty, got, rem, number, placed) BY <1>1, <1>3 DEF Matched
  <1>6. r \in OrderRecords /\ r.status = s /\ r.orig = qty /\ r.filled = got /\ r.rem = rem
    BY <1>2, <1>4, <1>5 DEF Order, OrderRecords
  <1> QED BY <1>2, <1>3, <1>4, <1>6

LEMMA TradeOf ==
    ASSUME NEW o \in Orders, NEW n \in Nat, NEW price \in Nat, NEW got \in Nat, NEW S,
           S = {[o |-> o, id |-> n, price |-> price, qty |-> got]} \/ S = {}
    PROVE  S \subseteq TradeRecords /\ IsFiniteSet(S) /\ \A t \in S : t.o = o
  <1>1. [o |-> o, id |-> n, price |-> price, qty |-> got] \in TradeRecords BY DEF TradeRecords
  <1>2. IsFiniteSet(S) BY FS_Singleton, FS_EmptySet
  <1> QED BY <1>1, <1>2

LEMMA ReplyType ==
    ASSUME IInv, NEW o \in Orders, NEW r \in OrderRecords, mats' = [mats EXCEPT ![o] = r],
           NEW S, S \subseteq TradeRecords
    PROVE  Reply(o, S) \in MessageRecords
  <1>1. mats'[o] = r BY MatsFacts
  <1> QED BY <1>1, SnapshotOf DEF Reply

LEMMA MatsHalf ==
    ASSUME IInv, UNCHANGED broker, made \subseteq made', MatsInv',
           \A o \in Orders : change'[o].times = change[o].times
    PROVE  IInv' /\ Grows
  <1>1. \A o \in Orders : Unamended(o)' => Unamended(o) BY DEF Unamended
  <1>2. BrokerInv' BY <1>1, BrokerSame
  <1>3. row' = row /\ \A o \in Orders : row[o].filled \in Nat BY Unfold, RowFields DEF broker
  <1> QED BY <1>2, <1>3 DEF IInv, Grows

LEMMA MatsPlaceStep ==
    ASSUME IInv, NEW o \in Orders, MatsPlace(o)
    PROVE  IInv' /\ Grows
  <1>1. /\ call[o] # "none" /\ seq' = seq + 2 /\ UNCHANGED <<broker, call, change>>
    BY DEF MatsPlace
  <1>2. row' = row BY <1>1 DEF broker
  <1>3. seq \in Nat /\ seq + 1 \in Nat /\ seq' \in Nat BY <1>1, MatsFacts
  <1>4. row[o].price \in Nat /\ row[o].orig \in Nat BY Unfold, RowFields
  <1>5. PICK r, S :
          /\ Sound(o, r) /\ mats' = [mats EXCEPT ![o] = r]
          /\ S \subseteq TradeRecords /\ IsFiniteSet(S) /\ \A t \in S : t.o = o
          /\ Publish(o, S) /\ answer' = [answer EXCEPT ![o] = {Reply(o, S)}]
    <2>1. CASE /\ mats' = [mats EXCEPT ![o] =
                             Order("rejected", row[o].price, row[o].orig, 0, 0, seq, seq)]
               /\ Publish(o, {}) /\ answer' = [answer EXCEPT ![o] = {Reply(o, {})}]
      <3>1. PICK r : r = Order("rejected", row[o].price, row[o].orig, 0, 0, seq, seq) OBVIOUS
      <3>2. "rejected" \in Statuses BY DEF Statuses
      <3>3. /\ r \in OrderRecords /\ r.status = "rejected" /\ r.orig = row[o].orig
            /\ r.filled = 0
        <4>1. seq \in Nat /\ 0 \in Nat BY <1>3
        <4> QED BY <1>4, <3>1, <3>2, <4>1 DEF Order, OrderRecords
      <3>4. Sound(o, r) BY <1>4, <3>3 DEF Sound
      <3>5. IsFiniteSet({}) BY FS_EmptySet
      <3> QED BY <2>1, <3>1, <3>4, <3>5
    <2>2. CASE \E got \in 0..row[o].orig, price \in Prices :
                 /\ mats' = [mats EXCEPT ![o] = Matched(row[o].price, row[o].orig, got, seq, seq)]
                 /\ \E S : /\ S = {} \/ S = {[o |-> o, id |-> seq + 1, price |-> price, qty |-> got]}
                           /\ Publish(o, S) /\ answer' = [answer EXCEPT ![o] = {Reply(o, S)}]
      <3>0. PICK got \in 0..row[o].orig, price \in Prices :
              /\ mats' = [mats EXCEPT ![o] = Matched(row[o].price, row[o].orig, got, seq, seq)]
              /\ \E S : /\ S = {} \/ S = {[o |-> o, id |-> seq + 1, price |-> price, qty |-> got]}
                        /\ Publish(o, S) /\ answer' = [answer EXCEPT ![o] = {Reply(o, S)}]
        BY <2>2
      <3>1. PICK S :
              /\ mats' = [mats EXCEPT ![o] = Matched(row[o].price, row[o].orig, got, seq, seq)]
              /\ S = {} \/ S = {[o |-> o, id |-> seq + 1, price |-> price, qty |-> got]}
              /\ Publish(o, S) /\ answer' = [answer EXCEPT ![o] = {Reply(o, S)}]
        BY <3>0
      <3>2. PICK r : r = Matched(row[o].price, row[o].orig, got, seq, seq) OBVIOUS
      <3>3. /\ r \in OrderRecords /\ r.status # "none" /\ r.orig = row[o].orig
            /\ r.rem = r.orig - r.filled /\ r.filled <= r.orig
        <4>1. seq \in Nat BY <1>3
        <4> QED BY <1>4, <3>2, <4>1, MatchedFields
      <3>4. Sound(o, r) BY <3>3 DEF Sound
      <3>5. got \in Nat /\ price \in Nat BY <1>4, BrokerAssumption
      <3>6. S \subseteq TradeRecords /\ IsFiniteSet(S) /\ \A t \in S : t.o = o
        BY <1>3, <3>1, <3>5, TradeOf
      <3> QED BY <3>1, <3>2, <3>4, <3>6
    <2> QED BY <2>1, <2>2 DEF MatsPlace
  <1>6. r \in OrderRecords BY <1>5 DEF Sound
  <1>7. Reply(o, S) \in MessageRecords BY <1>5, <1>6, ReplyType
  <1>8. /\ answer' \in [Orders -> SUBSET MessageRecords]
        /\ \A p \in Orders : \A m \in answer'[p] : m \in answer[p] \/ m = Reply(o, S)
    BY <1>5, <1>7, MatsFacts
  <1>9. /\ change' \in [Orders -> ChangeRecords]
        /\ \A p \in Orders : change'[p].times = change[p].times
        /\ \A p \in Orders : change'[p].stage # "none" => change[p].stage # "none"
        /\ \A p \in Orders : call[p] = "none" => change'[p].stage = change[p].stage
        /\ \A p \in Orders : \A m \in change'[p].answer : m \in change[p].answer \/ m = Reply(o, S)
    BY <1>1, MatsFacts
  <1>10. MatsInv' BY <1>1, <1>2, <1>3, <1>5, <1>8, <1>9, Published
  <1>11. made \subseteq made' BY <1>5 DEF Publish
  <1> QED BY <1>1, <1>9, <1>10, <1>11, MatsHalf

\* The steps that answer nobody.
LEMMA QuietStep ==
    ASSUME IInv, NEW o \in Orders, UNCHANGED <<broker, call, change, answer>>, seq' \in Nat,
           mats[o].status # "none", NEW r, Sound(o, r), mats' = [mats EXCEPT ![o] = r],
           NEW S, S \subseteq TradeRecords, IsFiniteSet(S), \A t \in S : t.o = o, Publish(o, S)
    PROVE  IInv' /\ Grows
  <1>1. row' = row BY DEF broker
  <1>2. call[o] # "none" BY MatsFacts DEF OrderOK
  <1>3. /\ answer' \in [Orders -> SUBSET MessageRecords]
        /\ \A p \in Orders : \A m \in answer'[p] : m \in answer[p] \/ m = Reply(o, S)
    BY MatsFacts
  <1>4. /\ change' \in [Orders -> ChangeRecords]
        /\ \A p \in Orders : change'[p].times = change[p].times
        /\ \A p \in Orders : change'[p].stage # "none" => change[p].stage # "none"
        /\ \A p \in Orders : call[p] = "none" => change'[p].stage = change[p].stage
        /\ \A p \in Orders : \A m \in change'[p].answer : m \in change[p].answer \/ m = Reply(o, S)
    BY MatsFacts
  <1>5. MatsInv' BY <1>1, <1>2, <1>3, <1>4, Published
  <1>6. made \subseteq made' BY DEF Publish
  <1> QED BY <1>4, <1>5, <1>6, MatsHalf

LEMMA MatsFillStep ==
    ASSUME IInv, NEW o \in Orders, MatsFill(o)
    PROVE  IInv' /\ Grows
  <1>1. /\ Live(o) /\ seq' = seq + 1 /\ UNCHANGED <<broker, call, change, answer>>
    BY DEF MatsFill
  <1>2. PICK got \in 1..mats[o].rem, price \in Prices :
          /\ mats' = [mats EXCEPT ![o] =
                        Matched(@.price, @.orig, @.filled + got, @.seq, @.placed)]
          /\ Publish(o, {[o |-> o, id |-> seq, price |-> price, qty |-> got]})
    BY DEF MatsFill
  <1>3. /\ mats[o].price \in Nat /\ mats[o].orig \in Nat /\ mats[o].filled \in Nat
        /\ mats[o].rem \in Nat /\ mats[o].seq \in Nat /\ mats[o].placed \in Nat
    BY OrderFields
  <1>4. /\ mats[o].rem = mats[o].orig - mats[o].filled /\ mats[o].status # "none"
        /\ Unamended(o) => mats[o].orig = row[o].orig
    BY <1>1, MatsFacts DEF OrderOK, Live
  <1>5. PICK sum \in 0..mats[o].orig : sum = mats[o].filled + got BY <1>3, <1>4
  <1>6. PICK r : r = Matched(mats[o].price, mats[o].orig, sum, mats[o].seq, mats[o].placed)
    OBVIOUS
  <1>7. mats' = [mats EXCEPT ![o] = r] BY <1>2, <1>5, <1>6, MatsFacts
  <1>8. /\ r \in OrderRecords /\ r.status # "none" /\ r.orig = mats[o].orig
        /\ r.rem = r.orig - r.filled /\ r.filled <= r.orig
    BY <1>3, <1>5, <1>6, MatchedFields
  <1>9. Sound(o, r) BY <1>4, <1>8 DEF Sound
  <1>10. PICK S : S = {[o |-> o, id |-> seq, price |-> price, qty |-> got]} OBVIOUS
  <1>11. seq \in Nat /\ seq' \in Nat /\ price \in Nat /\ got \in Nat
    BY <1>1, <1>3, MatsFacts, BrokerAssumption
  <1>12. S \subseteq TradeRecords /\ IsFiniteSet(S) /\ \A t \in S : t.o = o
    BY <1>10, <1>11, TradeOf
  <1>13. Publish(o, S) BY <1>2, <1>10
  <1> QED BY <1>1, <1>4, <1>7, <1>9, <1>11, <1>12, <1>13, QuietStep

LEMMA MatsExpireStep ==
    ASSUME IInv, NEW o \in Orders, MatsExpire(o)
    PROVE  IInv' /\ Grows
  <1>1. /\ Live(o) /\ UNCHANGED <<broker, call, change, answer, seq>> /\ Publish(o, {})
        /\ mats' = [mats EXCEPT ![o].status = "expired", ![o].rem = 0]
    BY DEF MatsExpire
  <1>2. PICK r : r = mats'[o] OBVIOUS
  <1>3. /\ mats' = [mats EXCEPT ![o] = r] /\ r \in OrderRecords /\ r.status = "expired"
        /\ r.orig = mats[o].orig /\ r.filled = mats[o].filled
    BY <1>1, <1>2, MatsFacts DEF OrderRecords, Statuses
  <1>4. /\ mats[o].status # "none" /\ mats[o].filled <= mats[o].orig
        /\ Unamended(o) => mats[o].orig = row[o].orig
    BY <1>1, MatsFacts DEF OrderOK, Live
  <1>5. Sound(o, r) BY <1>3, <1>4 DEF Sound
  <1>6. IsFiniteSet({}) BY FS_EmptySet
  <1>7. seq' \in Nat BY <1>1, MatsFacts
  <1> QED BY <1>1, <1>3, <1>4, <1>5, <1>6, <1>7, QuietStep

LEMMA CancelOrderStep ==
    ASSUME IInv, NEW o \in Orders, CancelOrder(o)
    PROVE  IInv' /\ Grows
  <1>1. /\ Live(o) /\ UNCHANGED <<broker, call, change, answer>> /\ seq' = seq + 1
        /\ Publish(o, {})
        /\ mats' = [mats EXCEPT ![o].status = "cancelled", ![o].rem = 0, ![o].seq = seq]
    BY DEF CancelOrder
  <1>2. seq \in Nat /\ seq' \in Nat BY <1>1, MatsFacts
  <1>3. PICK r : r = mats'[o] OBVIOUS
  <1>4. /\ mats' = [mats EXCEPT ![o] = r] /\ r \in OrderRecords /\ r.status = "cancelled"
        /\ r.orig = mats[o].orig /\ r.filled = mats[o].filled
    BY <1>1, <1>2, <1>3, MatsFacts DEF OrderRecords, Statuses
  <1>5. /\ mats[o].status # "none" /\ mats[o].filled <= mats[o].orig
        /\ Unamended(o) => mats[o].orig = row[o].orig
    BY <1>1, MatsFacts DEF OrderOK, Live
  <1>6. Sound(o, r) BY <1>4, <1>5 DEF Sound
  <1>7. IsFiniteSet({}) BY FS_EmptySet
  <1> QED BY <1>1, <1>2, <1>4, <1>5, <1>6, <1>7, QuietStep
-----------------------------------------------------------------------------
LEMMA MatsAmendStep ==
    ASSUME IInv, NEW o \in Orders, MatsAmend(o)
    PROVE  IInv' /\ Grows
  <1>1. /\ change[o].stage = "sent" /\ Live(o) /\ change[o].qty >= mats[o].filled
        /\ seq' = seq + 2 /\ UNCHANGED <<broker, call, answer>>
    BY DEF MatsAmend
  <1>0. PICK got \in 0..(change[o].qty - mats[o].filled), price \in Prices :
          /\ mats' = [mats EXCEPT ![o] = Matched(change[o].price, change[o].qty,
                                                  @.filled + got, seq, @.placed)]
          /\ \E S : /\ S = {} \/ S = {[o |-> o, id |-> seq + 1, price |-> price, qty |-> got]}
                    /\ Publish(o, S)
                    /\ change' = [change EXCEPT ![o].stage = "answered",
                                                ![o].answer = {Reply(o, S)}]
    BY DEF MatsAmend
  <1>2. PICK S :
          /\ mats' = [mats EXCEPT ![o] = Matched(change[o].price, change[o].qty,
                                                  @.filled + got, seq, @.placed)]
          /\ S = {} \/ S = {[o |-> o, id |-> seq + 1, price |-> price, qty |-> got]}
          /\ Publish(o, S)
          /\ change' = [change EXCEPT ![o].stage = "answered", ![o].answer = {Reply(o, S)}]
    BY <1>0
  <1>3. row' = row BY <1>1 DEF broker
  <1>4. /\ mats[o].filled \in Nat /\ mats[o].placed \in Nat /\ change[o].qty \in Nat
        /\ change[o].price \in Nat /\ seq \in Nat
    BY OrderFields, ChangeFields, MatsFacts
  <1>5. PICK sum \in 0..change[o].qty : sum = mats[o].filled + got BY <1>1, <1>4
  <1>6. PICK r : r = Matched(change[o].price, change[o].qty, sum, seq, mats[o].placed) OBVIOUS
  <1>7. mats' = [mats EXCEPT ![o] = r] BY <1>2, <1>5, <1>6, MatsFacts
  <1>8. /\ r \in OrderRecords /\ r.status # "none" /\ r.orig = change[o].qty
        /\ r.rem = r.orig - r.filled /\ r.filled <= r.orig
    BY <1>4, <1>6, MatchedFields
  <1>9. ~Unamended(o) /\ call[o] # "none" BY <1>1, MatsFacts DEF OrderOK
  <1>10. Sound(o, r) BY <1>8, <1>9 DEF Sound
  <1>11. price \in Nat /\ got \in Nat /\ seq + 1 \in Nat /\ seq' \in Nat
    BY <1>1, <1>4, BrokerAssumption
  <1>12. S \subseteq TradeRecords /\ IsFiniteSet(S) /\ \A t \in S : t.o = o
    BY <1>2, <1>11, TradeOf
  <1>13. Reply(o, S) \in MessageRecords BY <1>7, <1>8, <1>12, ReplyType
  <1>14. PICK said : said = {Reply(o, S)} OBVIOUS
  <1>15. said \subseteq MessageRecords BY <1>13, <1>14
  <1>16. /\ change' \in [Orders -> ChangeRecords] /\ change'[o].stage = "answered"
         /\ change'[o].answer = said /\ change'[o].times = change[o].times
         /\ \A p \in Orders \ {o} : change'[p] = change[p]
    <2>1. change' = [change EXCEPT ![o].stage = "answered", ![o].answer = said] BY <1>2, <1>14
    <2>2. "answered" \in Stages BY DEF Stages
    <2> QED BY <1>15, <2>1, <2>2, MatsFacts DEF ChangeRecords
  <1>17. /\ \A p \in Orders : change'[p].times = change[p].times
         /\ \A p \in Orders : change'[p].stage # "none" => change[p].stage # "none"
         /\ \A p \in Orders : call[p] = "none" => change'[p].stage = change[p].stage
    BY <1>1, <1>9, <1>16
  <1>18. \A p \in Orders : \A m \in change'[p].answer : m \in change[p].answer \/ m = Reply(o, S)
    BY <1>14, <1>16
  <1>19. /\ answer' \in [Orders -> SUBSET MessageRecords]
         /\ \A p \in Orders : \A m \in answer'[p] : m \in answer[p] \/ m = Reply(o, S)
    BY <1>1, MatsFacts
  <1>20. MatsInv'
    BY <1>1, <1>2, <1>3, <1>7, <1>9, <1>10, <1>11, <1>12, <1>16, <1>17, <1>18, <1>19, Published
  <1>21. made \subseteq made' BY <1>2 DEF Publish
  <1> QED BY <1>1, <1>17, <1>20, <1>21, MatsHalf

LEMMA MatsRestartStep ==
    ASSUME IInv, MatsRestart
    PROVE  IInv' /\ Grows
  <1>1. /\ answer' = [o \in Orders |-> {}]
        /\ mats' = [o \in Orders |-> [mats[o] EXCEPT !.seq = mats[o].placed]]
        /\ UNCHANGED <<broker, call, change, made, wire, seq>>
    BY DEF MatsRestart
  <1>2. row' = row BY <1>1 DEF broker
  <1>3. ASSUME NEW o \in Orders
        PROVE  /\ mats'[o] \in OrderRecords /\ mats'[o].status = mats[o].status
               /\ mats'[o].orig = mats[o].orig /\ mats'[o].filled = mats[o].filled
               /\ mats'[o].rem = mats[o].rem
    <2>1. mats'[o] = [mats[o] EXCEPT !.seq = mats[o].placed] BY <1>1
    <2>2. mats[o] \in OrderRecords /\ mats[o].placed \in Nat BY MatsFacts, OrderFields
    <2> QED BY <2>1, <2>2 DEF OrderRecords
  <1>4. mats' \in [Orders -> OrderRecords]
    <2>1. \A o \in Orders : mats'[o] = [mats[o] EXCEPT !.seq = mats[o].placed] BY <1>1
    <2>2. mats' = [o \in Orders |-> mats'[o]] BY <1>1
    <2> QED BY <1>3, <2>2
  <1>5. MatsTypes' BY <1>1, <1>4, MatsFacts DEF MatsTypes
  <1>6. \A o \in Orders : Unamended(o)' = Unamended(o) BY <1>1 DEF Unamended
  <1>7. ASSUME NEW m \in MessageRecords, MessageOK(m) PROVE MessageOK(m)'
    <2>1. m.o \in Orders BY MessageFields
    <2>2. mats[m.o].status # "none" => mats'[m.o].status # "none" BY <1>3, <2>1
    <2>3. Unamended(m.o)' => Unamended(m.o) /\ row'[m.o].orig = row[m.o].orig
      BY <1>2, <1>6, <2>1
    <2> QED BY <1>1, <1>7, <2>2, <2>3, MessageStays
  <1>8. MessagesOK'
    <2>1. \A m \in wire' : MessageOK(m)' BY <1>1, <1>7, MatsFacts DEF MessagesOK
    <2>2. \A o \in Orders : answer'[o] = {} BY <1>1
    <2>3. ASSUME NEW o \in Orders, NEW m \in change'[o].answer PROVE MessageOK(m)'
      <3>1. m \in change[o].answer BY <1>1, <2>3
      <3>2. m \in MessageRecords /\ MessageOK(m) BY <3>1, MatsFacts, ChangeFields DEF MessagesOK
      <3> QED BY <3>2, <1>7
    <2> QED BY <2>1, <2>2, <2>3 DEF MessagesOK
  <1>9. ASSUME NEW o \in Orders PROVE OrderOK(o)'
    <2>1. OrderOK(o) BY MatsFacts
    <2> QED BY <1>1, <1>2, <1>3, <1>6, <2>1 DEF OrderOK, Live
  <1>10. MatsInv' BY <1>5, <1>8, <1>9 DEF MatsInv
  <1>11. made \subseteq made' /\ \A o \in Orders : change'[o].times = change[o].times BY <1>1
  <1> QED BY <1>1, <1>10, <1>11, MatsHalf

\* What a repeated place request is answered with is true.
LEMMA RememberedOK ==
    ASSUME IInv, NEW o \in Orders, mats[o].status # "none"
    PROVE  Current(o) \in MessageRecords /\ MessageOK(Current(o))
  <1>1. PICK r : r = [mats[o] EXCEPT !.seq = mats[o].placed] OBVIOUS
  <1>2. mats[o] \in OrderRecords /\ mats[o].placed \in Nat BY MatsFacts, OrderFields
  <1>3. r \in OrderRecords /\ r.orig = mats[o].orig /\ r.filled = mats[o].filled
    BY <1>1, <1>2 DEF OrderRecords
  <1>4. PICK S : S = {t \in made : t.o = o} OBVIOUS
  <1>5. S \subseteq TradeRecords BY <1>4, MatsFacts
  <1>6. PICK m : m = Current(o) OBVIOUS
  <1>7. m = Message("answer", o, S, r) BY <1>1, <1>4, <1>6 DEF Current
  <1>8. /\ m \in MessageRecords /\ m.o = o /\ m.fills = S /\ m.orig = mats[o].orig
        /\ m.filled = mats[o].filled
    BY <1>3, <1>5, <1>7, SnapshotOf
  <1>9. OrderOK(o) BY MatsFacts
  <1>10. MessageOK(m) BY <1>4, <1>8, <1>9 DEF OrderOK, MessageOK
  <1> QED BY <1>6, <1>8, <1>10

LEMMA ReconcileStep ==
    ASSUME IInv, NEW o \in Orders, Reconcile(o)
    PROVE  IInv' /\ Grows
  <1>1. /\ mats[o].status # "none" /\ answer' = [answer EXCEPT ![o] = {Current(o)}]
        /\ UNCHANGED <<broker, call, change, mats, made, wire, seq>>
    BY DEF Reconcile
  <1>2. row' = row BY <1>1 DEF broker
  <1>3. Current(o) \in MessageRecords /\ MessageOK(Current(o)) BY <1>1, RememberedOK
  <1>4. answer' \in [Orders -> SUBSET MessageRecords] BY <1>1, <1>3, MatsFacts
  <1>5. MatsTypes' BY <1>1, <1>4, MatsFacts DEF MatsTypes
  <1>6. \A p \in Orders : Unamended(p)' = Unamended(p) BY <1>1 DEF Unamended
  <1>7. ASSUME NEW m \in MessageRecords, MessageOK(m) PROVE MessageOK(m)'
    <2>1. m.o \in Orders BY MessageFields
    <2>2. Unamended(m.o)' => Unamended(m.o) /\ row'[m.o].orig = row[m.o].orig
      BY <1>2, <1>6, <2>1
    <2> QED BY <1>1, <1>7, <2>2, MessageStays
  <1>8. MessagesOK'
    <2>1. \A m \in wire' : MessageOK(m)' BY <1>1, <1>7, MatsFacts DEF MessagesOK
    <2>2. ASSUME NEW p \in Orders, NEW m \in answer'[p] PROVE MessageOK(m)'
      <3>1. m \in answer[p] \/ m = Current(o) BY <1>1, <2>2, MatsFacts
      <3>2. m \in MessageRecords /\ MessageOK(m) BY <1>3, <3>1, MatsFacts DEF MessagesOK
      <3> QED BY <3>2, <1>7
    <2>3. ASSUME NEW p \in Orders, NEW m \in change'[p].answer PROVE MessageOK(m)'
      <3>1. m \in change[p].answer BY <1>1, <2>3
      <3>2. m \in MessageRecords /\ MessageOK(m) BY <3>1, MatsFacts, ChangeFields DEF MessagesOK
      <3> QED BY <3>2, <1>7
    <2> QED BY <2>1, <2>2, <2>3 DEF MessagesOK
  <1>9. ASSUME NEW p \in Orders PROVE OrderOK(p)'
    <2>1. OrderOK(p) BY MatsFacts
    <2> QED BY <1>1, <1>2, <1>6, <2>1 DEF OrderOK, Live
  <1>10. MatsInv' BY <1>5, <1>8, <1>9 DEF MatsInv
  <1>11. made \subseteq made' /\ \A p \in Orders : change'[p].times = change[p].times BY <1>1
  <1> QED BY <1>1, <1>10, <1>11, MatsHalf
-----------------------------------------------------------------------------
LEMMA InitHolds == Init => IInv
  <1> SUFFICES ASSUME Init PROVE IInv OBVIOUS
  <1>1. /\ cash = Account(InitialCash, 0, 0) /\ pos = Account(InitialShares, 0, 0)
        /\ row = [o \in Orders |-> NoRow] /\ fills = {} /\ call = [o \in Orders |-> "none"]
        /\ change = [o \in Orders |-> NoChange] /\ mats = [o \in Orders |-> NoOrder]
        /\ made = {} /\ answer = [o \in Orders |-> {}] /\ wire = {} /\ seq = 1
    BY DEF Init
  <1>2. InitialCash \in Nat /\ InitialShares \in Nat BY BrokerAssumption
  <1>3. /\ cash \in Balances /\ cash.available = InitialCash /\ cash.reserved = 0
        /\ cash.pending = 0
    BY <1>1, <1>2, AccountType
  <1>4. /\ pos \in Balances /\ pos.available = InitialShares /\ pos.reserved = 0
        /\ pos.pending = 0
    BY <1>1, <1>2, AccountType
  <1>5. NoRow \in RowRecords BY DEF NoRow, RowRecords, Submissions, Statuses
  <1>6. NoOrder \in OrderRecords /\ NoOrder.status = "none" /\ NoOrder.filled = 0 /\ NoOrder.orig = 0
    BY DEF NoOrder, Order, OrderRecords, Statuses
  <1>7. NoChange \in ChangeRecords /\ NoChange.stage = "none" /\ NoChange.answer = {}
    BY DEF NoChange, ChangeRecords, Stages
  <1>8. BrokerTypes BY <1>1, <1>3, <1>4, <1>5 DEF BrokerTypes
  <1>9. MatsTypes
    <2>1. IsFiniteSet(made) BY <1>1, FS_EmptySet
    <2> QED BY <1>1, <1>6, <1>7, <2>1 DEF MatsTypes, Calls
  <1>10. BuyFills = {} /\ SellFills = {} BY <1>1 DEF BuyFills, SellFills
  <1>11. /\ Paying = 0 /\ Earning = 0 /\ Quantity(BuyFills) = 0 /\ Quantity(SellFills) = 0
    BY <1>10, SumsEmpty DEF Paying, Earning
  <1>12. PendingMatchesFills BY <1>3, <1>4, <1>11 DEF PendingMatchesFills
  <1>13. NothingLost BY <1>2, <1>3, <1>4, <1>11 DEF NothingLost
  <1>14. FilledWithin BY <1>1 DEF FilledWithin, NoRow
  <1>15. ReservedForOne BY <1>1, <1>3 DEF ReservedForOne, NoRow
  <1>16. SellReservesNone BY <1>1 DEF SellReservesNone, NoRow
  <1>17. CashOfOne BY <1>2, <1>3, <1>11 DEF CashOfOne
  <1>18. MessagesOK BY <1>1, <1>7 DEF MessagesOK
  <1>19. \A o \in Orders : OrderOK(o) BY <1>1, <1>6, <1>7 DEF OrderOK, Live
  <1> QED BY <1>8, <1>9, <1>12, <1>13, <1>14, <1>15, <1>16, <1>17, <1>18, <1>19
          DEF IInv, BrokerInv, MatsInv

LEMMA StepHolds == IInv /\ [Next]_vars => IInv' /\ [Grows]_vars
  <1> SUFFICES ASSUME IInv, [Next]_vars PROVE IInv' /\ [Grows]_vars OBVIOUS
  <1>1. CASE UNCHANGED vars
    <2>1. UNCHANGED <<broker, mats, made, answer, wire, change, call, seq>>
      BY <1>1 DEF vars, broker
    <2>2. \A o \in Orders : change'[o].times = change[o].times BY <2>1
    <2>3. MatsTypes' BY <2>1, MatsFacts DEF MatsTypes
    <2>4. row' = row BY <2>1 DEF broker
    <2>5. MatsInv' BY <2>1, <2>3, <2>4, MatsFacts
            DEF MatsInv, MessagesOK, MessageOK, OrderOK, Snapshot, Unamended, Live
    <2>6. IInv' BY <2>1, <2>2, <2>5, MatsHalf
    <2> QED BY <1>1, <2>6
  <1>2. CASE Next
    <2> SUFFICES IInv' /\ Grows OBVIOUS
    <2>1. ASSUME NEW o \in Orders, NEW side \in Sides, NEW price \in Prices, NEW qty \in Quantities,
                 PlaceOrder(o, side, price, qty)
          PROVE  IInv' /\ Grows
      BY <2>1, PlaceOrderStep
    <2>2. ASSUME NEW o \in Orders, PlaceAnswered(o) PROVE IInv' /\ Grows BY <2>2, PlaceAnsweredStep
    <2>3. ASSUME NEW o \in Orders, PlaceUnknown(o) PROVE IInv' /\ Grows BY <2>3, PlaceUnknownStep
    <2>4. ASSUME NEW o \in Orders, Refuse(o) PROVE IInv' /\ Grows BY <2>4, RefuseStep
    <2>5. ASSUME MatsRestart PROVE IInv' /\ Grows BY <2>5, MatsRestartStep
    <2>6. ASSUME NEW o \in Orders, Reconcile(o) PROVE IInv' /\ Grows BY <2>6, ReconcileStep
    <2>7. ASSUME NEW o \in Orders, MatsPlace(o) PROVE IInv' /\ Grows BY <2>7, MatsPlaceStep
    <2>8. ASSUME NEW o \in Orders, MatsFill(o) PROVE IInv' /\ Grows BY <2>8, MatsFillStep
    <2>9. ASSUME NEW o \in Orders, MatsExpire(o) PROVE IInv' /\ Grows BY <2>9, MatsExpireStep
    <2>10. ASSUME NEW o \in Orders, CancelOrder(o) PROVE IInv' /\ Grows BY <2>10, CancelOrderStep
    <2>11. ASSUME NEW m \in wire, NEW again \in BOOLEAN, Deliver(m, again) PROVE IInv' /\ Grows
      BY <2>11, DeliverStep
    <2>12. ASSUME NEW o \in Orders, NEW price \in Prices, NEW qty \in Quantities,
                  AmendOrder(o, price, qty)
           PROVE  IInv' /\ Grows
      BY <2>12, AmendOrderStep
    <2>13. ASSUME NEW o \in Orders, MatsAmend(o) PROVE IInv' /\ Grows BY <2>13, MatsAmendStep
    <2>14. ASSUME NEW o \in Orders, AmendFails(o) PROVE IInv' /\ Grows BY <2>14, AmendFailsStep
    <2>15. ASSUME NEW o \in Orders, AmendAnswered(o) PROVE IInv' /\ Grows
      BY <2>15, AmendAnsweredStep
    <2>16. ASSUME NEW o \in Orders, AmendLocked(o) PROVE IInv' /\ Grows BY <2>16, AmendLockedStep
    <2>17. ASSUME NEW o \in Orders, AmendSettled(o) PROVE IInv' /\ Grows BY <2>17, AmendSettledStep
    <2>18. ASSUME NEW o \in Orders, ReconcileAnswered(o) PROVE IInv' /\ Grows
      BY <2>18, ReconcileAnsweredStep
    <2>19. ASSUME NEW o \in Orders, AmendReserves(o) PROVE IInv' /\ Grows BY <2>19, AmendReservesStep
    <2> QED BY <1>2, <2>1, <2>2, <2>3, <2>4, <2>5, <2>6, <2>7, <2>8, <2>9, <2>10, <2>11, <2>12,
               <2>13, <2>14, <2>15, <2>16, <2>17, <2>18, <2>19 DEF Next
  <1> QED BY <1>1, <1>2

LEMMA Invariant == Spec => []IInv
  <1>1. IInv /\ [Next]_vars => IInv' BY StepHolds
  <1> QED BY InitHolds, <1>1, PTL DEF Spec

\* Balances stay numbers, an order's quantities and its reservation never go below
\* zero, and every recorded fill is a trade of MATS (order-service.ts:410-529).
THEOREM BalancesStayTyped == Spec => []TypeOK
  <1>1. IInv => TypeOK
    <2> SUFFICES ASSUME IInv PROVE TypeOK OBVIOUS
    <2> QED BY Unfold, RowFields DEF TypeOK
  <1> QED BY Invariant, <1>1, PTL

\* Whatever is delivered again, late, in another order, reconciled or answered:
\* what is pending is what the recorded trades cost, earn and bring, each counted
\* once (order-service.ts:410-479).
THEOREM PendingIsTheFills == Spec => []PendingMatchesFills
  <1>1. IInv => PendingMatchesFills BY Unfold
  <1> QED BY Invariant, <1>1, PTL

\* Any number of orders that share the account's reservation and are amended,
\* refused and settled from stale reads never lose the customer cash or shares
\* (order-service.ts:410-529, 591-695).
THEOREM CustomerLosesNothing == Spec => []NothingLost
  <1>1. IInv => NothingLost BY Unfold
  <1> QED BY Invariant, <1>1, PTL

\* With one order that is not amended, no cash is made either, though the
\* release clips the reservation at zero (order-service.ts:436-437, 512-513).
THEOREM OneOrderKeepsCash ==
    ASSUME NEW o, Orders = {o}
    PROVE  Spec => []CashConserved
  <1>1. IInv => CashConserved
    <2> SUFFICES ASSUME IInv, \A p \in Orders : Unamended(p)
                 PROVE  cash.available + cash.reserved + cash.pending = InitialCash + Earning
      BY DEF CashConserved
    <2>1. o \in Orders /\ Unamended(o) OBVIOUS
    <2> QED BY <2>1, Unfold DEF CashOfOne
  <1> QED BY Invariant, <1>1, PTL

\* What was reported filled stays filled: a stale snapshot, answer or fill never
\* takes it back while the order is not amended (order-service.ts:394, 482).
THEOREM FilledNeverShrinks == Spec => FilledGrows
  <1>1. IInv /\ [Next]_vars => [\A o \in Orders : Unamended(o)' => row'[o].filled >= row[o].filled]_vars
    BY StepHolds DEF Grows
  <1> QED BY Invariant, <1>1, PTL DEF Spec, FilledGrows

-----------------------------------------------------------------------------
(***************************************************************************)
(* What closes an order that was not amended.  Its reservation is given    *)
(* back by the message that completes its trades, and so that message must *)
(* find it filled: the row counts at least the trades of the first match,  *)
(* which the first snapshot tells of, and those recorded since.            *)
(***************************************************************************)
TradesOf(S, o) == {t \in S : t.o = o}
First(o) == {t \in TradesOf(made, o) : t.id = mats[o].placed + 1}
Recorded(o) == TradesOf(fills, o)

TapeOK == seq > 0 /\ \A t \in made : t.id < seq

\* An order of MATS with total traded is live while it wants something.
Shape(r, total) ==
    /\ r.filled = total
    /\ r.status \in Closed \cup {"none", "open", "partially_filled"}
    /\ r.rem > 0 <=> r.status \in {"open", "partially_filled"}

\* An order that was not amended keeps its number until it is cancelled.
Unbroken(r) == /\ r.filled + r.rem <= r.orig
               /\ r.rem > 0 => r.seq = r.placed /\ r.filled + r.rem = r.orig

BookOK(o) ==
    /\ Shape(mats[o], Quantity(TradesOf(made, o)))
    /\ Unamended(o) => Unbroken(mats[o])
    /\ mats[o].status # "none" =>
         mats[o].placed > 0 /\ mats[o].placed + 2 <= seq /\ mats[o].seq >= mats[o].placed

\* A snapshot of an unamended order that was placed with a number and matched at once.
Tells(m, placed, matched) ==
    /\ m.seq >= placed
    /\ m.rem > 0 => m.seq = placed
    /\ m.filled + m.rem <= m.orig
    /\ m.status \notin Closed => m.rem > 0 /\ m.filled + m.rem = m.orig
    /\ m.filled >= matched

SnapshotOK(m) == Tells(m, mats[m.o].placed, Quantity(First(m.o)))

WireOK(m) ==
    /\ m.kind # "answer"
    /\ Snapshot(m) => m.fills = {} /\ (Unamended(m.o) => SnapshotOK(m))

\* The reply to placeOrder knows the first match.
AnswerOK(m, o) ==
    /\ m.o = o /\ m.kind = "answer"
    /\ Unamended(o) => /\ SnapshotOK(m) /\ m.seq = mats[o].placed
                       /\ m.filled = Quantity(m.fills)
                       /\ call[o] = "sent" => m.fills = First(o)

\* A submission was reconciled, perhaps by an answer that came late.
Reconciled(o) == call[o] = "unknown"

Whole(o) == Quantity(Recorded(o)) = row[o].orig

RowOK(o) ==
    /\ row[o].filled + row[o].rem <= row[o].orig
    /\ ~row[o].known => Recorded(o) = {} /\ row[o].seq = 0 /\ row[o].filled = 0
    /\ row[o].known => mats[o].status # "none" /\ row[o].seq >= mats[o].placed
    /\ row[o].known /\ ~Reconciled(o) => row[o].filled >= Quantity(First(o) \cup Recorded(o))
    /\ row[o].status \in Refused => row[o].reserved = 0
    /\ Whole(o) /\ ~Reconciled(o) => row[o].reserved = 0
    /\ Whole(o) /\ row[o].status = "filled" => row[o].reserved <= Fee(0)

ClosedInv ==
    /\ TapeOK
    /\ \A o \in Orders : BookOK(o)
    /\ \A o \in Orders : Unamended(o) => RowOK(o)
    /\ \A o \in Orders : \A m \in answer[o] : AnswerOK(m, o)
    /\ \A o \in Orders : \A m \in change[o].answer : m.o = o
    /\ \A m \in wire : WireOK(m)
-----------------------------------------------------------------------------
LEMMA QuantityGrows ==
    ASSUME NEW T, T \subseteq TradeRecords, IsFiniteSet(T), NEW S, S \subseteq T
    PROVE  Quantity(S) \in Nat /\ Quantity(T) \in Nat /\ Quantity(S) <= Quantity(T)
  <1>1. PICK U : U = T \ S OBVIOUS
  <1>2. /\ S \subseteq TradeRecords /\ IsFiniteSet(S) /\ U \subseteq TradeRecords
        /\ IsFiniteSet(U) /\ S \cap U = {} /\ S \cup U = T
    BY <1>1, FS_Subset
  <1>3. Quantity(S \cup U) = Quantity(S) + Quantity(U) BY <1>2, SumsJoin
  <1>4. Quantity(S) \in Nat /\ Quantity(U) \in Nat BY <1>2, SumsType
  <1>5. Quantity(T) = Quantity(S) + Quantity(U) BY <1>2, <1>3
  <1> QED BY <1>4, <1>5

LEMMA QuantityOne ==
    ASSUME NEW t \in TradeRecords PROVE Quantity({t}) = t.qty
  <1>1. IsFiniteSet({}) /\ IsFiniteSet({t}) BY FS_EmptySet, FS_Singleton
  <1>2. \A y \in {} \cup {t} : QtyOf[y] \in Int BY TradeFields
  <1>3. SumFunctionOnSet(QtyOf, {} \cup {t}) = QtyOf[t] + SumFunctionOnSet(QtyOf, {})
    BY <1>1, <1>2, SumAdd
  <1>4. {} \cup {t} = {t} OBVIOUS
  <1>5. Quantity({t}) = SumFunctionOnSet(QtyOf, {t}) BY <1>1, SumsAre
  <1>6. SumFunctionOnSet(QtyOf, {}) = 0 BY SumEmpty
  <1>7. QtyOf[t] = t.qty /\ t.qty \in Nat BY TradeFields
  <1> QED BY <1>3, <1>4, <1>5, <1>6, <1>7

\* The trades of an order, those of its first match and those recorded.
LEMMA TradeSets ==
    ASSUME IInv, NEW o \in Orders
    PROVE  /\ TradesOf(made, o) \subseteq TradeRecords /\ IsFiniteSet(TradesOf(made, o))
           /\ First(o) \subseteq TradesOf(made, o) /\ Recorded(o) \subseteq TradesOf(made, o)
           /\ Quantity(TradesOf(made, o)) \in Nat /\ Quantity(First(o)) \in Nat
           /\ Quantity(Recorded(o)) \in Nat /\ Quantity(First(o) \cup Recorded(o)) \in Nat
           /\ Quantity(Recorded(o)) <= Quantity(First(o) \cup Recorded(o))
           /\ Quantity(First(o)) <= Quantity(First(o) \cup Recorded(o))
           /\ Quantity(First(o) \cup Recorded(o)) <= Quantity(TradesOf(made, o))
  <1>1. made \subseteq TradeRecords /\ IsFiniteSet(made) BY MatsFacts
  <1>2. PICK T : T = TradesOf(made, o) OBVIOUS
  <1>3. T \subseteq made /\ T \subseteq TradeRecords /\ IsFiniteSet(T)
    BY <1>1, <1>2, FS_Subset DEF TradesOf
  <1>4. PICK F : F = First(o) OBVIOUS
  <1>5. PICK R : R = Recorded(o) OBVIOUS
  <1>6. F \subseteq T BY <1>2, <1>4 DEF First
  <1>7. R \subseteq T BY <1>2, <1>5, Unfold DEF Recorded, TradesOf
  <1>8. F \cup R \subseteq T BY <1>6, <1>7
  <1>9. Quantity(F \cup R) \in Nat /\ Quantity(F \cup R) <= Quantity(T) /\ Quantity(T) \in Nat
    BY <1>3, <1>8, QuantityGrows
  <1>10. F \cup R \subseteq TradeRecords /\ IsFiniteSet(F \cup R) BY <1>3, <1>8, FS_Subset
  <1>11. F \subseteq F \cup R /\ R \subseteq F \cup R OBVIOUS
  <1>12. Quantity(F) \in Nat /\ Quantity(F) <= Quantity(F \cup R)
    BY <1>10, <1>11, QuantityGrows
  <1>13. Quantity(R) \in Nat /\ Quantity(R) <= Quantity(F \cup R)
    BY <1>10, <1>11, QuantityGrows
  <1> QED BY <1>2, <1>3, <1>4, <1>5, <1>6, <1>7, <1>9, <1>12, <1>13
-----------------------------------------------------------------------------
\* What a message that may be handled says.
Trusted(m) ==
    Unamended(m.o) =>
      /\ m.kind = "status" => m.fills = {}
      /\ Snapshot(m) => SnapshotOK(m)
      /\ m.kind = "answer" =>
           /\ m.seq = mats[m.o].placed /\ m.filled = Quantity(m.fills)
           /\ ~Reconciled(m.o) => m.fills = First(m.o)

\* The trades recorded when a message has been handled.
LEMMA RecordedThen ==
    ASSUME IInv, NEW m \in MessageRecords, MessageOK(m), fills' = fills \cup m.fills
    PROVE  /\ Recorded(m.o)' = Recorded(m.o) \cup m.fills
           /\ Recorded(m.o)' = Recorded(m.o) \cup New(m)
           /\ \A p \in Orders \ {m.o} : Recorded(p)' = Recorded(p)
           /\ Recorded(m.o) \cup New(m) \subseteq TradesOf(made, m.o)
           /\ Quantity(Recorded(m.o) \cup New(m)) = Quantity(Recorded(m.o)) + Quantity(New(m))
           /\ Quantity(New(m)) \in Nat
  <1>1. m.o \in Orders BY MessageFields
  <1>2. \A t \in m.fills : t \in made /\ t.o = m.o BY DEF MessageOK
  <1>3. fills' = fills \cup New(m) BY Unfold, NewTrades
  <1>4. New(m) \subseteq m.fills BY DEF New
  <1>5. Recorded(m.o)' = Recorded(m.o) \cup m.fills BY <1>2 DEF Recorded, TradesOf
  <1>6. Recorded(m.o)' = Recorded(m.o) \cup New(m) BY <1>2, <1>3, <1>4 DEF Recorded, TradesOf
  <1>7. \A p \in Orders \ {m.o} : Recorded(p)' = Recorded(p) BY <1>2 DEF Recorded, TradesOf
  <1>8. Recorded(m.o) \cup New(m) \subseteq TradesOf(made, m.o)
    BY <1>2, <1>4, Unfold DEF Recorded, TradesOf
  <1>9. PICK R : R = Recorded(m.o) OBVIOUS
  <1>10. PICK N : N = New(m) OBVIOUS
  <1>11. /\ N \subseteq TradeRecords /\ IsFiniteSet(N) /\ N \cap fills = {}
         /\ Quantity(N) \in Nat
    BY <1>10, Unfold, NewTrades
  <1>12. R \subseteq fills BY <1>9 DEF Recorded, TradesOf
  <1>13. R \subseteq TradeRecords /\ IsFiniteSet(R) BY <1>1, <1>9, TradeSets, FS_Subset
  <1>14. Quantity(R \cup N) = Quantity(R) + Quantity(N) BY <1>11, <1>12, <1>13, SumsJoin
  <1> QED BY <1>5, <1>6, <1>7, <1>8, <1>9, <1>10, <1>11, <1>14

\* The row of an order when a message has been handled.
LEMMA RowThen ==
    ASSUME IInv, NEW m \in MessageRecords, MessageOK(m), handleWebhookUpdate(m), ~Ignored(m)
    PROVE  /\ fills' = fills \cup m.fills
           /\ row'[m.o].orig = NextOrig(m) /\ row'[m.o].filled = NextFilled(m)
           /\ row'[m.o].rem = IF NextStatus(m) = "rejected" THEN 0 ELSE NextRem(m)
           /\ row'[m.o].reserved = Kept(m) - Excess(m)
           /\ row'[m.o].status = NextStatus(m) /\ row'[m.o].known
           /\ row'[m.o].submission = "submitted"
           /\ row'[m.o].seq = IF Snapshot(m) THEN Greater(m.seq, row[m.o].seq) ELSE row[m.o].seq
           /\ \A p \in Orders \ {m.o} : row'[p] = row[p]
  <1>1. m.o \in Orders BY MessageFields
  <1>2. fills' = fills \cup m.fills /\ row' = [row EXCEPT ![m.o] = Updated(m)]
    BY DEF handleWebhookUpdate
  <1>3. PICK u : u = Updated(m) OBVIOUS
  <1>4. /\ u.orig = NextOrig(m) /\ u.filled = NextFilled(m) /\ u.reserved = Kept(m) - Excess(m)
        /\ u.rem = (IF NextStatus(m) = "rejected" THEN 0 ELSE NextRem(m))
        /\ u.status = NextStatus(m) /\ u.known /\ u.submission = "submitted"
        /\ u.seq = IF Snapshot(m) THEN Greater(m.seq, row[m.o].seq) ELSE row[m.o].seq
    BY <1>3 DEF Updated
  <1>5. row \in [Orders -> RowRecords] BY Unfold
  <1>6. row'[m.o] = u /\ \A p \in Orders \ {m.o} : row'[p] = row[p] BY <1>1, <1>2, <1>3, <1>5
  <1> QED BY <1>2, <1>4, <1>6

\* A snapshot that is not stale leaves an order it is trusted on within its quantity.
LEMMA SnapshotWithin ==
    ASSUME IInv, NEW m \in MessageRecords, MessageOK(m), Trusted(m), Unamended(m.o),
           RowOK(m.o), BookOK(m.o), Snapshot(m), ~Ignored(m)
    PROVE  /\ NextOrig(m) = row[m.o].orig /\ NextFilled(m) + NextRem(m) <= row[m.o].orig
           /\ m.rem > 0 /\ row[m.o].known => m.rem <= row[m.o].rem
  <1>1. m.o \in Orders BY MessageFields
  <1>2. /\ row[m.o].orig \in Nat /\ row[m.o].filled \in Nat /\ row[m.o].rem \in Nat
        /\ row[m.o].seq \in Nat /\ mats[m.o].placed \in Nat
    BY <1>1, Unfold, RowFields, OrderFields
  <1>3. m.seq \in Nat /\ m.filled \in Nat /\ m.rem \in Nat BY MessageFields
  <1>4. m.orig = row[m.o].orig /\ mats[m.o].placed > 0 BY DEF MessageOK, BookOK
  <1>5. m.rem > 0 => m.seq = mats[m.o].placed BY DEF Trusted, SnapshotOK, Tells
  <1>6. m.filled + m.rem <= m.orig BY DEF Trusted, SnapshotOK, Tells
  <1>7. /\ row[m.o].filled + row[m.o].rem <= row[m.o].orig
        /\ row[m.o].known => row[m.o].seq >= mats[m.o].placed
        /\ ~row[m.o].known => row[m.o].filled = 0
    BY DEF RowOK
  <1>8. row[m.o].seq > 0 => m.seq >= row[m.o].seq /\ (m.seq = row[m.o].seq => m.rem <= row[m.o].rem)
    BY <1>2, <1>3 DEF Ignored, Stale
  <1>9. m.rem > 0 /\ row[m.o].known => m.rem <= row[m.o].rem
    BY <1>2, <1>3, <1>4, <1>5, <1>7, <1>8
  <1>10. row[m.o].filled + m.rem <= row[m.o].orig
    BY <1>2, <1>3, <1>4, <1>6, <1>7, <1>9
  <1>11. NextOrig(m) = m.orig /\ NextRem(m) = m.rem
         /\ (NextFilled(m) = m.filled \/ NextFilled(m) = row[m.o].filled)
    BY DEF NextOrig, NextRem, NextFilled, Greater
  <1> QED BY <1>4, <1>6, <1>9, <1>10, <1>11

LEMMA FillWithin ==
    ASSUME IInv, NEW m \in MessageRecords, MessageOK(m), Unamended(m.o), RowOK(m.o), ~Snapshot(m)
    PROVE  NextOrig(m) = row[m.o].orig /\ NextFilled(m) + NextRem(m) <= row[m.o].orig
  <1>1. m.o \in Orders BY MessageFields
  <1>2. row[m.o].orig \in Nat /\ row[m.o].filled \in Nat /\ row[m.o].rem \in Nat
    BY <1>1, Unfold, RowFields
  <1>3. row[m.o].filled + row[m.o].rem <= row[m.o].orig BY DEF RowOK
  <1>4. NextOrig(m) = row[m.o].orig BY DEF NextOrig
  <1>5. CASE New(m) = {}
    <2>1. NextFilled(m) = row[m.o].filled /\ NextRem(m) = row[m.o].rem
      BY <1>5 DEF NextFilled, NextRem
    <2> QED BY <1>3, <1>4, <2>1
  <1>6. CASE New(m) # {}
    <2>1. NextRem(m) = AtLeast0(row[m.o].orig - NextFilled(m)) BY <1>6 DEF NextRem
    <2>2. NextFilled(m) <= row[m.o].orig /\ NextFilled(m) \in Nat
      BY Unfold, NextFilledFacts, NextTypes
    <2> QED BY <1>2, <1>4, <2>1, <2>2 DEF AtLeast0
  <1> QED BY <1>5, <1>6

\* The row counts the trades of the first match and those recorded.
LEMMA CountsThen ==
    ASSUME IInv, NEW m \in MessageRecords, MessageOK(m), Trusted(m), Unamended(m.o),
           ~Reconciled(m.o), RowOK(m.o), BookOK(m.o), ~Ignored(m)
    PROVE  NextFilled(m) >= Quantity(First(m.o) \cup (Recorded(m.o) \cup New(m)))
  <1>1. m.o \in Orders BY MessageFields
  <1>2. PICK F : F = First(m.o) OBVIOUS
  <1>3. PICK R : R = Recorded(m.o) OBVIOUS
  <1>4. PICK N : N = New(m) OBVIOUS
  <1>5. PICK T : T = TradesOf(made, m.o) OBVIOUS
  <1>6. /\ T \subseteq TradeRecords /\ IsFiniteSet(T) /\ F \subseteq T /\ R \subseteq T
        /\ Quantity(F) \in Nat /\ Quantity(F \cup R) \in Nat /\ Quantity(T) \in Nat
    BY <1>1, <1>2, <1>3, <1>5, TradeSets
  <1>7. \A t \in m.fills : t \in made /\ t.o = m.o BY DEF MessageOK
  <1>8. N \subseteq T /\ m.fills \subseteq T /\ N \subseteq m.fills /\ m.fills \subseteq fills \cup N
    BY <1>4, <1>5, <1>7 DEF New, TradesOf
  <1>9. F \cup (R \cup N) \subseteq T BY <1>6, <1>8
  <1>10. /\ Quantity(F \cup (R \cup N)) \in Nat
         /\ Quantity(F \cup (R \cup N)) <= Quantity(T)
    BY <1>6, <1>9, QuantityGrows
  <1>11. /\ row[m.o].orig \in Nat /\ row[m.o].filled \in Nat /\ mats[m.o].filled \in Nat
         /\ mats[m.o].orig \in Nat
    BY <1>1, Unfold, RowFields, OrderFields
  <1>12. Quantity(T) <= row[m.o].orig
    <2>1. mats[m.o].filled = Quantity(T) BY <1>5 DEF BookOK, Shape
    <2>2. mats[m.o].filled <= mats[m.o].orig /\ mats[m.o].orig = row[m.o].orig
      BY <1>1, MatsFacts DEF OrderOK, MessageOK
    <2> QED BY <2>1, <2>2
  <1>13. /\ row[m.o].known => row[m.o].filled >= Quantity(F \cup R)
         /\ ~row[m.o].known => R = {}
    BY <1>2, <1>3 DEF RowOK
  <1>14. CASE ~Snapshot(m)
    <2>1. row[m.o].known BY <1>14 DEF Ignored, Snapshot
    <2>2. CASE N = {}
      <3>1. NextFilled(m) = row[m.o].filled BY <1>4, <1>14, <2>2 DEF NextFilled
      <3>2. F \cup (R \cup N) = F \cup R BY <2>2
      <3> QED BY <1>2, <1>3, <1>4, <1>13, <2>1, <3>1, <3>2
    <2>3. CASE N # {}
      <3>1. NextFilled(m) = Lesser(row[m.o].orig, row[m.o].filled + Quantity(N))
        BY <1>4, <1>14, <2>3 DEF NextFilled
      <3>3. Quantity(F \cup (R \cup N)) <= Quantity(F \cup R) + Quantity(N)
        <4>1. PICK X : X = N \ F OBVIOUS
        <4>2. N \cap fills = {} BY <1>4 DEF New
        <4>3. R \subseteq fills BY <1>3 DEF Recorded, TradesOf
        <4>4. X \cap (F \cup R) = {} /\ (F \cup R) \cup X = F \cup (R \cup N) BY <4>1, <4>2, <4>3
        <4>5. X \subseteq N /\ N \subseteq TradeRecords /\ IsFiniteSet(N)
          BY <1>6, <1>8, <4>1, FS_Subset
        <4>6. X \subseteq TradeRecords /\ IsFiniteSet(X) BY <4>5, FS_Subset
        <4>7. F \cup R \subseteq T BY <1>6
        <4>8. F \cup R \subseteq TradeRecords /\ IsFiniteSet(F \cup R) BY <1>6, <4>7, FS_Subset
        <4>9. Quantity((F \cup R) \cup X) = Quantity(F \cup R) + Quantity(X)
          BY <4>4, <4>6, <4>8, SumsJoin
        <4>10. Quantity(X) <= Quantity(N) /\ Quantity(X) \in Nat /\ Quantity(N) \in Nat
          BY <4>5, QuantityGrows
        <4>11. Quantity(F \cup (R \cup N)) = Quantity(F \cup R) + Quantity(X) BY <4>4, <4>9
        <4> QED BY <1>6, <4>10, <4>11
      <3>4. Quantity(N) \in Nat BY <1>6, <1>8, QuantityGrows
      <3>5. Quantity(F \cup (R \cup N)) <= row[m.o].orig BY <1>10, <1>11, <1>12, <1>6
      <3>6. Quantity(F \cup (R \cup N)) <= row[m.o].filled + Quantity(N)
        BY <1>6, <1>10, <1>11, <1>13, <2>1, <3>3, <3>4
      <3> QED BY <1>2, <1>3, <1>4, <3>1, <3>5, <3>6 DEF Lesser
    <2> QED BY <2>2, <2>3
  <1>15. CASE Snapshot(m)
    <2>1. NextFilled(m) = Greater(m.filled, row[m.o].filled) /\ m.filled \in Nat
      BY <1>15, MessageFields DEF NextFilled
    <2>2. NextFilled(m) >= m.filled /\ NextFilled(m) >= row[m.o].filled
      BY <1>11, <2>1 DEF Greater
    <2>3. m.filled >= Quantity(F) BY <1>2, <1>15 DEF Trusted, SnapshotOK, Tells
    <2>4. CASE F \cup (R \cup N) = F \cup R
      <3>1. CASE row[m.o].known
        <4>1. NextFilled(m) >= Quantity(F \cup R)
          BY <1>6, <1>11, <1>13, <2>1, <2>2, <3>1 DEF Greater
        <4> QED BY <1>2, <1>3, <1>4, <2>4, <4>1
      <3>2. CASE ~row[m.o].known
        <4>1. F \cup R = F BY <1>13, <3>2
        <4>2. NextFilled(m) >= Quantity(F) BY <1>6, <1>11, <2>1, <2>3 DEF Greater
        <4> QED BY <1>2, <1>3, <1>4, <2>4, <4>1, <4>2
      <3> QED BY <3>1, <3>2
    <2>5. CASE F \cup (R \cup N) # F \cup R
      <3>1. m.kind = "answer" BY <1>8, <1>15, <2>5 DEF Trusted, Snapshot, MessageRecords
      <3>2. m.fills = F BY <1>2, <3>1 DEF Trusted
      <3> QED BY <1>8, <2>5, <3>2
    <2> QED BY <2>4, <2>5
  <1> QED BY <1>14, <1>15

\* When everything is released, nothing is kept.
LEMMA AllReleased ==
    ASSUME IInv, NEW m \in MessageRecords, MessageOK(m), ReleasesAll(m) \/ row[m.o].reserved = 0
    PROVE  Kept(m) - Excess(m) = 0
  <1>1. /\ Kept(m) \in Nat /\ Excess(m) \in Nat
        /\ row[m.o].reserved = 0 => Kept(m) = 0 /\ Excess(m) = 0
    BY Unfold, KeptTypes
  <1>2. CASE ReleasesAll(m)
    <2>1. Excess(m) = AtLeast0(Kept(m) - 0) BY <1>2 DEF Excess
    <2> QED BY <1>1, <2>1 DEF AtLeast0
  <1> QED BY <1>1, <1>2

\* The message with the last trades finds the order filled.
LEMMA LastTrades ==
    ASSUME IInv, NEW m \in MessageRecords, MessageOK(m), Trusted(m), Unamended(m.o),
           ~Reconciled(m.o), RowOK(m.o), BookOK(m.o), ~Ignored(m), New(m) # {}, NextStatus(m) \notin Refused,
           Quantity(Recorded(m.o) \cup New(m)) = row[m.o].orig
    PROVE  NextStatus(m) = "filled"
  <1>1. m.o \in Orders BY MessageFields
  <1>2. PICK R : R = Recorded(m.o) OBVIOUS
  <1>3. PICK F : F = First(m.o) OBVIOUS
  <1>4. PICK N : N = New(m) OBVIOUS
  <1>5. /\ row[m.o].orig \in Nat /\ row[m.o].filled \in Nat /\ row[m.o].rem \in Nat
        /\ row[m.o].seq \in Nat /\ mats[m.o].placed \in Nat
    BY <1>1, Unfold, RowFields, OrderFields
  <1>6. /\ Quantity(R) \in Nat /\ Quantity(F) \in Nat /\ Quantity(F \cup R) \in Nat
        /\ Quantity(R) <= Quantity(F \cup R)
    BY <1>1, <1>2, <1>3, TradeSets
  <1>7. Quantity(N) \in Nat /\ Quantity(R \cup N) = Quantity(R) + Quantity(N)
    <2>1. PICK S : S = fills \cup m.fills OBVIOUS
    <2>2. N \subseteq TradeRecords /\ IsFiniteSet(N) /\ N \cap fills = {} /\ Quantity(N) \in Nat
      BY <1>4, Unfold, NewTrades
    <2>3. R \subseteq fills BY <1>2 DEF Recorded, TradesOf
    <2>4. R \subseteq TradeRecords /\ IsFiniteSet(R) BY <1>1, <1>2, TradeSets, FS_Subset
    <2> QED BY <2>2, <2>3, <2>4, SumsJoin
  <1>8. /\ row[m.o].filled + row[m.o].rem <= row[m.o].orig
        /\ row[m.o].known => row[m.o].filled >= Quantity(F \cup R)
        /\ ~row[m.o].known => R = {}
    BY <1>2, <1>3 DEF RowOK
  <1>9. Quantity(R \cup N) = row[m.o].orig BY <1>2, <1>4
  <1>10. CASE ~Snapshot(m)
    <2>1. row[m.o].known BY <1>10 DEF Ignored, Snapshot
    <2>2. NextFilled(m) = Lesser(row[m.o].orig, row[m.o].filled + Quantity(N))
      BY <1>4, <1>10 DEF NextFilled
    <2>3. row[m.o].filled + Quantity(N) >= row[m.o].orig
      BY <1>5, <1>6, <1>7, <1>8, <1>9, <2>1
    <2>4. NextFilled(m) = row[m.o].orig BY <1>5, <1>7, <2>2, <2>3 DEF Lesser
    <2>5. NextRem(m) = AtLeast0(row[m.o].orig - NextFilled(m)) BY <1>10 DEF NextRem
    <2>6. NextRem(m) = 0 BY <1>5, <2>4, <2>5 DEF AtLeast0
    <2> QED BY <1>10, <2>6 DEF NextStatus
  <1>11. CASE Snapshot(m)
    <2>1. m.kind = "answer" BY <1>11 DEF Trusted, New, Snapshot, MessageRecords
    <2>2. NextStatus(m) = m.status BY <1>11 DEF NextStatus
    <2>3. SUFFICES ASSUME m.status \notin Closed PROVE FALSE BY <2>2 DEF Closed
    <2>4. /\ m.rem > 0 /\ m.filled + m.rem = m.orig /\ m.orig = row[m.o].orig
      BY <1>11, <2>3 DEF Trusted, SnapshotOK, Tells, MessageOK
    <2>5. m.rem \in Nat /\ m.filled \in Nat BY MessageFields
    <2>6. m.fills = F BY <1>3, <2>1 DEF Trusted
    <2>7. N \subseteq F BY <1>4, <2>6 DEF New
    <2>8. R \cup N \subseteq F \cup R BY <2>7
    <2>9. F \cup R \subseteq TradeRecords /\ IsFiniteSet(F \cup R)
      BY <1>1, <1>2, <1>3, TradeSets, FS_Subset, FS_Union
    <2>10. Quantity(R \cup N) <= Quantity(F \cup R) BY <2>8, <2>9, QuantityGrows
    <2>11. CASE row[m.o].known
      <3>1. m.rem <= row[m.o].rem BY <1>11, <2>4, <2>11, SnapshotWithin
      <3>2. row[m.o].orig <= row[m.o].filled BY <1>5, <1>6, <1>8, <1>9, <2>10, <2>11
      <3> QED BY <1>5, <1>8, <2>4, <2>5, <3>1, <3>2
    <2>12. CASE ~row[m.o].known
      <3>1. R = {} BY <1>8, <2>12
      <3>2. R \cup N \subseteq F BY <2>7, <3>1
      <3>3. F \subseteq TradeRecords /\ IsFiniteSet(F) BY <2>9, FS_Subset
      <3>4. Quantity(R \cup N) <= Quantity(F) BY <3>2, <3>3, QuantityGrows
      <3>5. m.filled = Quantity(F) BY <2>1, <2>6 DEF Trusted
      <3> QED BY <1>5, <1>6, <1>9, <2>4, <2>5, <3>4, <3>5
    <2> QED BY <2>11, <2>12
  <1> QED BY <1>10, <1>11

LEMMA ReservedThen ==
    ASSUME IInv, NEW m \in MessageRecords, MessageOK(m), Trusted(m), Unamended(m.o),
           RowOK(m.o), BookOK(m.o), ~Ignored(m), NextOrig(m) = row[m.o].orig,
           Quantity(Recorded(m.o) \cup New(m)) = row[m.o].orig, ~Reconciled(m.o)
    PROVE  Kept(m) - Excess(m) = 0
  <1>1. CASE NextStatus(m) \in Refused BY <1>1, AllReleased DEF ReleasesAll
  <1>2. CASE NextStatus(m) \notin Refused
    <2>2. CASE New(m) = {}
      <3>1. Recorded(m.o) \cup New(m) = Recorded(m.o) BY <2>2
      <3>2. row[m.o].reserved = 0 BY <3>1 DEF RowOK, Whole
      <3> QED BY <3>2, AllReleased
    <2>3. CASE New(m) # {}
      <3>1. NextStatus(m) = "filled" BY <1>2, <2>3, LastTrades
      <3>2. {t \in fills : t.o = m.o} = Recorded(m.o) BY DEF Recorded, TradesOf
      <3>3. row[m.o].orig \in Nat BY MessageFields, Unfold, RowFields
      <3>4. ReserveQuantity(m) = AtLeast0(row[m.o].orig - row[m.o].orig)
        BY <3>1, <3>2 DEF ReserveQuantity
      <3>5. ReserveQuantity(m) = 0 BY <3>3, <3>4 DEF AtLeast0
      <3> QED BY <2>3, <3>1, <3>5, AllReleased DEF ReleasesAll
    <2> QED BY <2>2, <2>3
  <1> QED BY <1>1, <1>2

\* An order that is filled by trades that are all recorded keeps the fee of nothing
\* at most.
LEMMA FeeIsLeft ==
    ASSUME IInv, NEW m \in MessageRecords, MessageOK(m), NextOrig(m) = row[m.o].orig,
           Quantity(Recorded(m.o) \cup New(m)) = row[m.o].orig, NextStatus(m) = "filled"
    PROVE  Kept(m) - Excess(m) <= Fee(0)
  <1>1. {t \in fills : t.o = m.o} = Recorded(m.o) BY DEF Recorded, TradesOf
  <1>2. row[m.o].orig \in Nat BY MessageFields, Unfold, RowFields
  <1>3. ReserveQuantity(m) = AtLeast0(row[m.o].orig - row[m.o].orig)
    BY <1>1 DEF ReserveQuantity
  <1>4. ReserveQuantity(m) = 0 BY <1>2, <1>3 DEF AtLeast0
  <1>5. NextPrice(m) \in Nat /\ Kept(m) \in Nat BY Unfold, NextTypes, KeptTypes
  <1>6. Fee(0) \in Nat BY FeeType
  <1>7. Cost(NextPrice(m), 0) = Fee(0)
    <2>1. NextPrice(m) * 0 = 0 BY <1>5
    <2> QED BY <1>6, <2>1 DEF Cost
  <1>8. PICK target \in {0, Fee(0)} : Excess(m) = AtLeast0(Kept(m) - target)
    BY <1>4, <1>7 DEF Excess
  <1> QED BY <1>5, <1>6, <1>8 DEF AtLeast0

\* The trades made and their orders stay, so what was true of them stays true.
LEMMA FirstStays ==
    ASSUME UNCHANGED <<mats, made>>, NEW o
    PROVE  First(o)' = First(o) /\ TradesOf(made, o)' = TradesOf(made, o)
  BY DEF First, TradesOf

\* A message leaves the row of its order, and those of the others, right.
LEMMA RowsThen ==
    ASSUME IInv, NEW m \in MessageRecords, MessageOK(m), Trusted(m),
           \A o \in Orders : Unamended(o) => RowOK(o), \A o \in Orders : BookOK(o),
           handleWebhookUpdate(m), UNCHANGED <<mats, made>>,
           NEW o \in Orders, Unamended(o), Reconciled(o)' = Reconciled(o)
    PROVE  RowOK(o)'
  <1>1. m.o \in Orders BY MessageFields
  <1>2. First(o)' = First(o) /\ mats' = mats BY FirstStays
  <1>3. RowOK(o) OBVIOUS
  <1>4. CASE Ignored(m)
    <2>1. row' = row /\ fills' = fills BY <1>4 DEF handleWebhookUpdate, broker
    <2>2. Recorded(o)' = Recorded(o) BY <2>1 DEF Recorded, TradesOf
    <2> QED BY <1>2, <1>3, <2>1, <2>2 DEF RowOK, Whole
  <1>5. CASE ~Ignored(m) /\ o # m.o
    <2>1. fills' = fills \cup m.fills /\ row'[o] = row[o] BY <1>5, RowThen
    <2>2. Recorded(o)' = Recorded(o) BY <1>5, <2>1, RecordedThen
    <2> QED BY <1>2, <1>3, <2>1, <2>2 DEF RowOK, Whole
  <1>6. CASE ~Ignored(m) /\ o = m.o
    <2>1. /\ row'[o].orig = NextOrig(m) /\ row'[o].filled = NextFilled(m)
          /\ row'[o].rem = IF NextStatus(m) = "rejected" THEN 0 ELSE NextRem(m)
          /\ row'[o].reserved = Kept(m) - Excess(m)
          /\ row'[o].status = NextStatus(m) /\ row'[o].known
          /\ row'[o].seq = IF Snapshot(m) THEN Greater(m.seq, row[o].seq) ELSE row[o].seq
      BY <1>6, RowThen
    <2>2. Recorded(o)' = Recorded(o) \cup New(m)
      <3>1. fills' = fills \cup m.fills BY <1>6, RowThen
      <3> QED BY <1>6, <3>1, RecordedThen
    <2>3. BookOK(o) OBVIOUS
    <2>4. NextOrig(m) = row[o].orig /\ NextFilled(m) + NextRem(m) <= row[o].orig
      <3>1. CASE Snapshot(m) BY <1>3, <1>6, <2>3, <3>1, SnapshotWithin
      <3>2. CASE ~Snapshot(m) BY <1>3, <1>6, <3>2, FillWithin
      <3> QED BY <3>1, <3>2
    <2>5. row'[o].filled + row'[o].rem <= row'[o].orig
      <3>1. /\ NextFilled(m) \in Nat /\ NextRem(m) \in Nat /\ row[o].orig \in Nat
        BY <1>6, Unfold, NextTypes, RowFields
      <3>2. row'[o].rem = 0 \/ row'[o].rem = NextRem(m) BY <2>1
      <3> QED BY <2>1, <2>4, <3>1, <3>2
    <2>6. mats'[o].status # "none" BY <1>2, <1>6 DEF MessageOK
    <2>7. row'[o].seq >= mats'[o].placed
      <3>1. row[o].seq \in Nat /\ m.seq \in Nat /\ mats[o].placed \in Nat
        BY Unfold, RowFields, MessageFields, OrderFields
      <3>2. CASE Snapshot(m)
        <4>1. m.seq >= mats[o].placed BY <1>6, <3>2 DEF Trusted, SnapshotOK, Tells
        <4> QED BY <1>2, <2>1, <3>1, <3>2, <4>1 DEF Greater
      <3>3. CASE ~Snapshot(m)
        <4>1. row[o].known BY <1>6, <3>3 DEF Ignored, Snapshot
        <4>2. row[o].seq >= mats[o].placed BY <1>3, <4>1 DEF RowOK
        <4> QED BY <1>2, <2>1, <3>3, <4>2
      <3> QED BY <3>2, <3>3
    <2>8. ~Reconciled(o) => row'[o].filled >= Quantity(First(o)' \cup Recorded(o)')
      BY <1>2, <1>3, <1>6, <2>1, <2>2, <2>3, CountsThen
    <2>9. row'[o].status \in Refused => row'[o].reserved = 0
      BY <1>6, <2>1, AllReleased DEF ReleasesAll
    <2>10. Whole(o)' => Quantity(Recorded(o) \cup New(m)) = row[o].orig
      BY <2>1, <2>2, <2>4 DEF Whole
    <2>11. Whole(o)' /\ ~Reconciled(o) => row'[o].reserved = 0
      BY <1>3, <1>6, <2>1, <2>3, <2>4, <2>10, ReservedThen
    <2>12. Whole(o)' /\ row'[o].status = "filled" => row'[o].reserved <= Fee(0)
      BY <1>6, <2>1, <2>4, <2>10, FeeIsLeft
    <2> QED BY <2>1, <2>5, <2>6, <2>7, <2>8, <2>9, <2>11, <2>12 DEF RowOK
  <1> QED BY <1>4, <1>5, <1>6
-----------------------------------------------------------------------------
LEMMA ClosedFacts ==
    ASSUME ClosedInv
    PROVE  /\ seq > 0 /\ \A t \in made : t.id < seq
           /\ \A o \in Orders : BookOK(o)
           /\ \A o \in Orders : Unamended(o) => RowOK(o)
           /\ \A o \in Orders : \A m \in answer[o] : AnswerOK(m, o)
           /\ \A o \in Orders : \A m \in change[o].answer : m.o = o
           /\ \A m \in wire : WireOK(m)
  BY DEF ClosedInv, TapeOK

\* A step of the broker that leaves the orders and the trades of MATS alone.
LEMMA BrokerCloses ==
    ASSUME ClosedInv, UNCHANGED <<mats, made, seq>>, wire' \subseteq wire,
           \A o \in Orders : Unamended(o)' => Unamended(o),
           wire \subseteq MessageRecords,
           \A o \in Orders : Unamended(o)' => RowOK(o)',
           \A o \in Orders : \A m \in answer'[o] : AnswerOK(m, o)',
           \A o \in Orders : change'[o].answer \subseteq change[o].answer
    PROVE  ClosedInv'
  <1>1. TapeOK' BY ClosedFacts DEF TapeOK
  <1>2. ASSUME NEW o \in Orders PROVE BookOK(o)'
    <2>1. BookOK(o) /\ TradesOf(made, o)' = TradesOf(made, o) /\ mats' = mats /\ seq' = seq
      BY ClosedFacts, FirstStays
    <2>2. Unamended(o)' => Unamended(o) OBVIOUS
    <2> QED BY <2>1, <2>2 DEF BookOK, Shape, Unbroken
  <1>3. ASSUME NEW m \in wire' PROVE WireOK(m)'
    <2>1. WireOK(m) /\ m \in MessageRecords BY <1>3, ClosedFacts
    <2>2. m.o \in Orders BY <2>1, MessageFields
    <2>3. Unamended(m.o)' => Unamended(m.o) BY <2>2
    <2>4. First(m.o)' = First(m.o) /\ mats' = mats BY FirstStays
    <2>5. SnapshotOK(m) => SnapshotOK(m)' BY <2>4 DEF SnapshotOK, Tells
    <2> QED BY <2>1, <2>3, <2>5 DEF WireOK, Snapshot
  <1>4. \A o \in Orders : \A m \in change'[o].answer : m.o = o BY ClosedFacts
  <1> QED BY <1>1, <1>2, <1>3, <1>4 DEF ClosedInv

\* An answer stays good while no other trades are recorded.
LEMMA AnswerStays ==
    ASSUME UNCHANGED <<mats, made>>, NEW o \in Orders, NEW m, AnswerOK(m, o),
           Unamended(o)' => Unamended(o), call'[o] = "sent" => call[o] = "sent"
    PROVE  AnswerOK(m, o)'
  <1>1. m.o = o BY DEF AnswerOK
  <1>2. First(o)' = First(o) /\ mats' = mats BY FirstStays
  <1>3. SnapshotOK(m) => SnapshotOK(m)' BY <1>1, <1>2 DEF SnapshotOK, Tells
  <1> QED BY <1>1, <1>2, <1>3 DEF AnswerOK

LEMMA RowStays ==
    ASSUME UNCHANGED <<mats, made, fills>>, NEW o \in Orders, row'[o] = row[o], RowOK(o),
           Reconciled(o)' = Reconciled(o)
    PROVE  RowOK(o)'
  <1>1. First(o)' = First(o) /\ mats' = mats BY FirstStays
  <1>2. Recorded(o)' = Recorded(o) BY DEF Recorded, TradesOf
  <1>3. Whole(o)' = Whole(o) BY <1>2 DEF Whole
  <1> QED BY <1>1, <1>2, <1>3 DEF RowOK

\* A step of the broker that records no trade.
LEMMA QuietCloses ==
    ASSUME IInv, ClosedInv, UNCHANGED <<fills, mats, made, answer, wire, seq>>,
           \A o \in Orders : Unamended(o)' => Unamended(o),
           \A o \in Orders : Unamended(o)' =>
             (row'[o] = row[o] /\ Reconciled(o)' = Reconciled(o)) \/ RowOK(o)',
           \A o \in Orders : call'[o] = "sent" => call[o] = "sent" \/ answer[o] = {},
           \A o \in Orders : change'[o].answer \subseteq change[o].answer
    PROVE  ClosedInv'
  <1>1. ASSUME NEW o \in Orders, Unamended(o)' PROVE RowOK(o)'
    <2>1. CASE row'[o] = row[o] /\ Reconciled(o)' = Reconciled(o)
      <3>1. RowOK(o) BY <1>1, ClosedFacts
      <3> QED BY <2>1, <3>1, RowStays
    <2> QED BY <1>1, <2>1
  <1>2. ASSUME NEW o \in Orders, NEW m \in answer'[o] PROVE AnswerOK(m, o)'
    <2>1. m \in answer[o] /\ AnswerOK(m, o) BY <1>2, ClosedFacts
    <2>2. call'[o] = "sent" => call[o] = "sent" BY <2>1
    <2>3. Unamended(o)' => Unamended(o) OBVIOUS
    <2> QED BY <2>1, <2>2, <2>3, AnswerStays
  <1>3. wire \subseteq MessageRecords BY MatsFacts
  <1> QED BY <1>1, <1>2, <1>3, BrokerCloses

\* A step that handles a message.
LEMMA HandledCloses ==
    ASSUME IInv, ClosedInv, NEW m \in MessageRecords, MessageOK(m), Trusted(m),
           handleWebhookUpdate(m), UNCHANGED <<mats, made, answer, seq>>, wire' \subseteq wire,
           \A o \in Orders : change'[o].times = change[o].times,
           \A o \in Orders : change'[o].answer \subseteq change[o].answer,
           \A o \in Orders : call'[o] = "sent" => call[o] = "sent",
           \A o \in Orders : Reconciled(o)' = Reconciled(o)
    PROVE  ClosedInv'
  <1>1. m.o \in Orders BY MessageFields
  <1>2. \A o \in Orders : Unamended(o)' = Unamended(o) BY DEF Unamended
  <1>3. ASSUME NEW o \in Orders, Unamended(o)' PROVE RowOK(o)'
    <2>1. /\ Unamended(o) /\ \A p \in Orders : Unamended(p) => RowOK(p)
          /\ \A p \in Orders : BookOK(p)
      BY <1>2, <1>3, ClosedFacts
    <2> QED BY <2>1, RowsThen
  <1>4. ASSUME NEW o \in Orders, NEW n \in answer'[o] PROVE AnswerOK(n, o)'
    <2>1. AnswerOK(n, o) BY <1>4, ClosedFacts
    <2>2. Unamended(o)' => Unamended(o) BY <1>2
    <2>3. call'[o] = "sent" => call[o] = "sent" OBVIOUS
    <2> QED BY <2>1, <2>2, <2>3, AnswerStays
  <1>5. wire \subseteq MessageRecords BY MatsFacts
  <1> QED BY <1>2, <1>3, <1>4, <1>5, BrokerCloses
-----------------------------------------------------------------------------
LEMMA DeliverCloses ==
    ASSUME IInv, ClosedInv, NEW m \in wire, NEW again \in BOOLEAN, Deliver(m, again)
    PROVE  ClosedInv'
  <1>1. /\ handleWebhookUpdate(m) /\ wire' \subseteq wire
        /\ UNCHANGED <<call, change, mats, made, answer, seq>>
    BY DEF Deliver
  <1>2. m \in MessageRecords /\ MessageOK(m) /\ WireOK(m) BY MatsFacts, ClosedFacts DEF MessagesOK
  <1>3. Trusted(m) BY <1>2 DEF Trusted, WireOK, Snapshot
  <1>4. \A o \in Orders : Reconciled(o)' = Reconciled(o) BY <1>1 DEF Reconciled
  <1> QED BY <1>1, <1>2, <1>3, <1>4, HandledCloses

LEMMA AnswerTrusted ==
    ASSUME NEW o, NEW m, AnswerOK(m, o), call[o] \in {"sent", "unknown"}
    PROVE  Trusted(m)
  BY DEF AnswerOK, Trusted, Reconciled

LEMMA PlaceAnsweredCloses ==
    ASSUME IInv, ClosedInv, NEW o \in Orders, PlaceAnswered(o)
    PROVE  ClosedInv'
  <1>1. /\ call[o] = "sent" /\ call' = [call EXCEPT ![o] = "done"]
        /\ UNCHANGED <<change, mats, made, answer, wire, seq>>
    BY DEF PlaceAnswered, exchange
  <1>2. PICK m \in answer[o] : handleWebhookUpdate(m) BY DEF PlaceAnswered
  <1>3. m \in MessageRecords /\ MessageOK(m) /\ AnswerOK(m, o)
    BY <1>2, MatsFacts, ClosedFacts DEF MessagesOK
  <1>4. Trusted(m) BY <1>1, <1>3, AnswerTrusted
  <1>5. \A p \in Orders : call'[p] = "sent" => call[p] = "sent" BY <1>1, MatsFacts
  <1>6. \A p \in Orders : Reconciled(p)' = Reconciled(p) BY <1>1, MatsFacts DEF Reconciled
  <1> QED BY <1>1, <1>2, <1>3, <1>4, <1>5, <1>6, HandledCloses

LEMMA ReconcileAnsweredCloses ==
    ASSUME IInv, ClosedInv, NEW o \in Orders, ReconcileAnswered(o)
    PROVE  ClosedInv'
  <1>1. call[o] = "unknown" /\ UNCHANGED <<call, change, mats, made, answer, wire, seq>>
    BY DEF ReconcileAnswered, exchange
  <1>2. PICK m \in answer[o] : handleWebhookUpdate(m) BY DEF ReconcileAnswered
  <1>3. m \in MessageRecords /\ MessageOK(m) /\ AnswerOK(m, o)
    BY <1>2, MatsFacts, ClosedFacts DEF MessagesOK
  <1>4. Trusted(m) BY <1>1, <1>3, AnswerTrusted
  <1>5. \A p \in Orders : Reconciled(p)' = Reconciled(p) BY <1>1 DEF Reconciled
  <1> QED BY <1>1, <1>2, <1>3, <1>4, <1>5, HandledCloses

\* What an order's message says of it.
LEMMA ShapeTells ==
    ASSUME NEW r \in OrderRecords, NEW total \in Nat, Shape(r, total), Unbroken(r), r.status # "none",
           r.seq >= r.placed, NEW matched \in Nat, matched <= total, NEW kind, NEW o, NEW S
    PROVE  /\ Tells(Message(kind, o, S, r), r.placed, matched)
           /\ Message(kind, o, S, r).o = o /\ Message(kind, o, S, r).kind = kind
           /\ Message(kind, o, S, r).fills = S /\ Message(kind, o, S, r).seq = r.seq
           /\ Message(kind, o, S, r).filled = total
  <1>1. PICK m : m = Message(kind, o, S, r) OBVIOUS
  <1>2. /\ m.o = o /\ m.kind = kind /\ m.fills = S /\ m.seq = r.seq /\ m.filled = r.filled
        /\ m.rem = r.rem /\ m.orig = r.orig /\ m.status = r.status
    BY <1>1 DEF Message
  <1>3. /\ r.seq \in Nat /\ r.filled \in Nat /\ r.rem \in Nat /\ r.orig \in Nat /\ r.placed \in Nat
    BY DEF OrderRecords
  <1>4. /\ r.filled = total
        /\ r.rem > 0 <=> r.status \in {"open", "partially_filled"}
        /\ r.filled + r.rem <= r.orig
        /\ r.rem > 0 => r.seq = r.placed /\ r.filled + r.rem = r.orig
        /\ r.status \notin Closed => r.status \in {"open", "partially_filled"}
    BY DEF Shape, Unbroken
  <1>5. Tells(m, r.placed, matched) BY <1>2, <1>3, <1>4 DEF Tells
  <1>6. m.filled = total BY <1>2, <1>4
  <1> QED BY <1>1, <1>2, <1>5, <1>6

\* What is in the tables of MATS.
LEMMA CurrentOK ==
    ASSUME IInv, ClosedInv, NEW o \in Orders, mats[o].status # "none", call[o] = "unknown"
    PROVE  AnswerOK(Current(o), o)
  <1>1. PICK T : T = TradesOf(made, o) OBVIOUS
  <1>2. PICK r : r = [mats[o] EXCEPT !.seq = mats[o].placed] OBVIOUS
  <1>3. mats[o] \in OrderRecords /\ mats[o].placed \in Nat BY MatsFacts, OrderFields
  <1>4. /\ r \in OrderRecords /\ r.seq = mats[o].placed /\ r.placed = mats[o].placed
        /\ r.filled = mats[o].filled /\ r.rem = mats[o].rem /\ r.orig = mats[o].orig
        /\ r.status = mats[o].status
    BY <1>2, <1>3 DEF OrderRecords
  <1>5. Current(o) = Message("answer", o, T, r) BY <1>1, <1>2 DEF Current, TradesOf
  <1>6. /\ Quantity(T) \in Nat /\ Quantity(First(o)) \in Nat
        /\ Quantity(First(o)) <= Quantity(T) /\ First(o) \cup Recorded(o) \subseteq T
    <2>1. /\ Quantity(T) \in Nat /\ Quantity(First(o)) \in Nat
          /\ Quantity(First(o) \cup Recorded(o)) \in Nat
          /\ Quantity(First(o)) <= Quantity(First(o) \cup Recorded(o))
          /\ Quantity(First(o) \cup Recorded(o)) <= Quantity(T)
          /\ First(o) \subseteq T /\ Recorded(o) \subseteq T
      BY <1>1, TradeSets
    <2> QED BY <2>1
  <1>7. r.seq >= r.placed /\ r.status # "none" BY <1>3, <1>4
  <1>8. Shape(r, Quantity(T)) /\ (Unamended(o) => Unbroken(r))
    <2>1. Shape(mats[o], Quantity(T)) /\ (Unamended(o) => Unbroken(mats[o]))
      BY <1>1, ClosedFacts DEF BookOK
    <2> QED BY <1>4, <2>1 DEF Shape, Unbroken
  <1>9. ASSUME Unamended(o)
        PROVE  /\ Tells(Current(o), mats[o].placed, Quantity(First(o)))
               /\ Current(o).seq = mats[o].placed /\ Current(o).filled = Quantity(T)
    <2>1. Shape(r, Quantity(T)) /\ Unbroken(r) BY <1>8, <1>9
    <2>2. /\ Tells(Message("answer", o, T, r), r.placed, Quantity(First(o)))
          /\ Message("answer", o, T, r).seq = r.seq
          /\ Message("answer", o, T, r).filled = Quantity(T)
      <3>1. r \in OrderRecords /\ r.status # "none" /\ r.seq >= r.placed BY <1>4, <1>7
      <3>2. PICK n \in Nat : n = Quantity(First(o)) BY <1>6
      <3>3. PICK q \in Nat : q = Quantity(T) BY <1>6
      <3>4. n <= q /\ Shape(r, q) /\ Unbroken(r) BY <1>6, <2>1, <3>2, <3>3
      <3>5. /\ Tells(Message("answer", o, T, r), r.placed, n)
            /\ Message("answer", o, T, r).seq = r.seq
            /\ Message("answer", o, T, r).filled = q
        BY <3>1, <3>4, ShapeTells
      <3> QED BY <3>2, <3>3, <3>5
    <2> QED BY <1>4, <1>5, <2>2
  <1>10. Current(o).o = o /\ Current(o).kind = "answer" /\ Current(o).fills = T
    BY <1>5 DEF Message
  <1> QED BY <1>9, <1>10 DEF AnswerOK, SnapshotOK

LEMMA ReconcileCloses ==
    ASSUME IInv, ClosedInv, NEW o \in Orders, Reconcile(o)
    PROVE  ClosedInv'
  <1>1. /\ call[o] = "unknown" /\ mats[o].status # "none"
        /\ answer' = [answer EXCEPT ![o] = {Current(o)}]
        /\ UNCHANGED <<row, fills, call, change, mats, made, wire, seq>>
    BY DEF Reconcile, broker
  <1>2. \A p \in Orders : Unamended(p)' = Unamended(p) BY <1>1 DEF Unamended
  <1>3. ASSUME NEW p \in Orders, Unamended(p)' PROVE RowOK(p)'
    <2>1. RowOK(p) BY <1>2, <1>3, ClosedFacts
    <2> QED BY <1>1, <2>1, RowStays DEF Reconciled
  <1>4. ASSUME NEW p \in Orders, NEW m \in answer'[p] PROVE AnswerOK(m, p)'
    <2>1. m \in answer[p] \/ (p = o /\ m = Current(o)) BY <1>1, <1>4, MatsFacts
    <2>2. AnswerOK(m, p) BY <1>1, <2>1, ClosedFacts, CurrentOK
    <2> QED BY <1>1, <1>2, <2>2, AnswerStays
  <1>5. wire \subseteq MessageRecords BY MatsFacts
  <1> QED BY <1>1, <1>2, <1>3, <1>4, <1>5, BrokerCloses

LEMMA AmendAnsweredCloses ==
    ASSUME IInv, ClosedInv, NEW o \in Orders, AmendAnswered(o)
    PROVE  ClosedInv'
  <1>1. /\ change[o].stage = "answered" /\ UNCHANGED <<call, mats, made, answer, wire, seq>>
        /\ change' = [change EXCEPT ![o].stage = "applied", ![o].answer = {}]
    BY DEF AmendAnswered, exchange
  <1>2. PICK m \in change[o].answer : handleWebhookUpdate(m) BY DEF AmendAnswered
  <1>3. m \in MessageRecords /\ MessageOK(m) /\ m.o = o
    BY <1>2, MatsFacts, ChangeFields, ClosedFacts DEF MessagesOK
  <1>4. ~Unamended(o) BY <1>1, MatsFacts DEF OrderOK
  <1>5. Trusted(m) BY <1>3, <1>4 DEF Trusted
  <1>6. \A p \in Orders : Reconciled(p)' = Reconciled(p) BY <1>1 DEF Reconciled
  <1>7. /\ change'[o].answer = {} /\ change'[o].times = change[o].times
        /\ \A p \in Orders \ {o} : change'[p] = change[p]
    BY <1>1, MatsFacts DEF ChangeRecords
  <1>8. \A p \in Orders : change'[p].times = change[p].times /\ change'[p].answer \subseteq change[p].answer
    BY <1>7
  <1> QED BY <1>1, <1>2, <1>3, <1>5, <1>6, <1>8, HandledCloses
-----------------------------------------------------------------------------
LEMMA NoAnswerYet ==
    ASSUME IInv, ClosedInv, NEW o \in Orders, mats[o].status = "none"
    PROVE  /\ answer[o] = {} /\ TradesOf(made, o) = {} /\ First(o) = {} /\ Recorded(o) = {}
  <1>1. \A m \in answer[o] : m \in MessageRecords /\ MessageOK(m) BY MatsFacts DEF MessagesOK
  <1>2. \A t \in made : t.o # o BY MatsFacts DEF OrderOK
  <1>3. TradesOf(made, o) = {} BY <1>2 DEF TradesOf
  <1>4. First(o) = {} /\ Recorded(o) = {} BY <1>3, TradeSets DEF First
  <1>5. \A m \in answer[o] : m.o = o BY ClosedFacts DEF AnswerOK
  <1>6. answer[o] = {} BY <1>1, <1>5 DEF MessageOK
  <1> QED BY <1>3, <1>4, <1>6

LEMMA PlaceOrderCloses ==
    ASSUME IInv, ClosedInv, NEW o \in Orders, NEW side \in Sides, NEW price \in Prices,
           NEW qty \in Quantities, PlaceOrder(o, side, price, qty)
    PROVE  ClosedInv'
  <1>1. /\ call[o] = "none" /\ call' = [call EXCEPT ![o] = "sent"]
        /\ UNCHANGED <<fills, mats, made, answer, wire, seq>> /\ change' = change
    BY DEF PlaceOrder, exchange
  <1>2. PICK n : n = IF side = "buy" THEN Cost(price, qty) ELSE 0 OBVIOUS
  <1>3. row' = [row EXCEPT ![o] =
                 [side |-> side, price |-> price, orig |-> qty, filled |-> 0, rem |-> qty,
                  reserved |-> n, submission |-> "pending", known |-> FALSE, seq |-> 0,
                  status |-> "pending"]]
    BY <1>2 DEF PlaceOrder
  <1>4. row \in [Orders -> RowRecords] BY Unfold
  <1>5. /\ row'[o].orig = qty /\ row'[o].filled = 0 /\ row'[o].rem = qty
        /\ row'[o].submission = "pending" /\ row'[o].known = FALSE /\ row'[o].seq = 0
        /\ row'[o].status = "pending" /\ \A p \in Orders \ {o} : row'[p] = row[p]
    BY <1>3, <1>4
  <1>6. mats[o].status = "none" BY <1>1, MatsFacts DEF OrderOK
  <1>7. answer[o] = {} /\ Recorded(o) = {} BY <1>6, NoAnswerYet
  <1>8. Recorded(o)' = {} BY <1>1, <1>7 DEF Recorded, TradesOf
  <1>9. RowOK(o)'
    <2>1. qty \in Nat /\ qty # 0 BY BrokerAssumption
    <2>2. ~Whole(o)' BY <1>5, <1>8, <2>1, SumsEmpty DEF Whole
    <2>3. row'[o].status \notin Refused BY <1>5 DEF Refused
    <2>4. row'[o].filled + row'[o].rem <= row'[o].orig BY <1>5, <2>1
    <2> QED BY <1>5, <1>8, <2>2, <2>3, <2>4 DEF RowOK
  <1>10. \A p \in Orders : Unamended(p)' => Unamended(p) BY <1>1 DEF Unamended
  <1>11. \A p \in Orders : Unamended(p)' =>
           (row'[p] = row[p] /\ Reconciled(p)' = Reconciled(p)) \/ RowOK(p)'
    BY <1>1, <1>5, <1>9, MatsFacts DEF Reconciled
  <1>12. ASSUME NEW p \in Orders, call'[p] = "sent"
         PROVE  call[p] = "sent" \/ answer[p] = {}
    <2>1. CASE p = o BY <1>7, <2>1
    <2>2. CASE p # o BY <1>1, <1>12, <2>2, MatsFacts
    <2> QED BY <2>1, <2>2
  <1>13. \A p \in Orders : change'[p].answer \subseteq change[p].answer BY <1>1
  <1> QED BY <1>1, <1>10, <1>11, <1>12, <1>13, QuietCloses

LEMMA PlaceUnknownCloses ==
    ASSUME IInv, ClosedInv, NEW o \in Orders, PlaceUnknown(o)
    PROVE  ClosedInv'
  <1>1. /\ call[o] = "sent" /\ call' = [call EXCEPT ![o] = "unknown"]
        /\ UNCHANGED <<fills, mats, made, answer, wire, seq>> /\ change' = change
        /\ row' = [row EXCEPT ![o].status = "submit_unknown", ![o].submission = "unknown"]
    BY DEF PlaceUnknown, exchange
  <1>2. row \in [Orders -> RowRecords] BY Unfold
  <1>3. /\ row'[o].orig = row[o].orig /\ row'[o].filled = row[o].filled
        /\ row'[o].rem = row[o].rem /\ row'[o].known = row[o].known /\ row'[o].seq = row[o].seq
        /\ row'[o].status = "submit_unknown" /\ row'[o].reserved = row[o].reserved
        /\ \A p \in Orders \ {o} : row'[p] = row[p]
    BY <1>1, <1>2 DEF RowRecords
  <1>4. ASSUME Unamended(o) PROVE RowOK(o)'
    <2>1. RowOK(o) BY <1>4, ClosedFacts
    <2>2. First(o)' = First(o) /\ mats' = mats BY <1>1, FirstStays
    <2>3. Recorded(o)' = Recorded(o) BY <1>1 DEF Recorded, TradesOf
    <2>4. row'[o].status \notin Refused /\ row'[o].status # "filled" BY <1>3 DEF Refused
    <2>5. Reconciled(o)' BY <1>1, MatsFacts DEF Reconciled
    <2> QED BY <1>3, <2>1, <2>2, <2>3, <2>4, <2>5 DEF RowOK
  <1>5. \A p \in Orders : Unamended(p)' => Unamended(p) BY <1>1 DEF Unamended
  <1>6. \A p \in Orders : Unamended(p)' =>
          (row'[p] = row[p] /\ Reconciled(p)' = Reconciled(p)) \/ RowOK(p)'
    BY <1>1, <1>3, <1>4, <1>5, MatsFacts DEF Reconciled
  <1>7. \A p \in Orders : call'[p] = "sent" => call[p] = "sent" BY <1>1, MatsFacts
  <1>8. \A p \in Orders : change'[p].answer \subseteq change[p].answer BY <1>1
  <1> QED BY <1>1, <1>5, <1>6, <1>7, <1>8, QuietCloses

LEMMA RefuseCloses ==
    ASSUME IInv, ClosedInv, NEW o \in Orders, Refuse(o)
    PROVE  ClosedInv'
  <1>1. /\ mats[o].status = "none" /\ call' = [call EXCEPT ![o] = "refused"]
        /\ UNCHANGED <<fills, mats, made, answer, wire, seq>> /\ change' = change
        /\ row' = [row EXCEPT ![o].status = "rejected", ![o].submission = "failed",
                              ![o].rem = 0, ![o].reserved = 0]
    BY DEF Refuse, Refund, RefundRow, exchange
  <1>2. row \in [Orders -> RowRecords] BY Unfold
  <1>3. /\ row'[o].orig = row[o].orig /\ row'[o].filled = row[o].filled
        /\ row'[o].rem = 0 /\ row'[o].known = row[o].known /\ row'[o].seq = row[o].seq
        /\ row'[o].reserved = 0 /\ row'[o].submission = "failed"
        /\ \A p \in Orders \ {o} : row'[p] = row[p]
    BY <1>1, <1>2 DEF RowRecords
  <1>4. ASSUME Unamended(o) PROVE RowOK(o)'
    <2>1. RowOK(o) BY <1>4, ClosedFacts
    <2>2. Recorded(o)' = Recorded(o) BY <1>1 DEF Recorded, TradesOf
    <2>3. ~row[o].known BY <1>1, <2>1 DEF RowOK
    <2>4. row[o].filled \in Nat /\ row[o].rem \in Nat /\ row[o].orig \in Nat BY Unfold, RowFields
    <2>5. row'[o].filled + row'[o].rem <= row'[o].orig BY <1>3, <2>1, <2>4 DEF RowOK
    <2>6. Fee(0) \in Nat BY FeeType
    <2> QED BY <1>3, <2>1, <2>2, <2>3, <2>5, <2>6 DEF RowOK
  <1>5. \A p \in Orders : Unamended(p)' => Unamended(p) BY <1>1 DEF Unamended
  <1>6. \A p \in Orders : Unamended(p)' =>
          (row'[p] = row[p] /\ Reconciled(p)' = Reconciled(p)) \/ RowOK(p)'
    BY <1>1, <1>3, <1>4, <1>5, MatsFacts DEF Reconciled
  <1>7. \A p \in Orders : call'[p] = "sent" => call[p] = "sent" BY <1>1, MatsFacts
  <1>8. \A p \in Orders : change'[p].answer \subseteq change[p].answer BY <1>1
  <1> QED BY <1>1, <1>5, <1>6, <1>7, <1>8, QuietCloses

\* The steps of an amendment that handle nothing: they are about amended orders.
LEMMA AmendCloses ==
    ASSUME IInv, ClosedInv, NEW o \in Orders, ~Unamended(o)',
           UNCHANGED <<fills, call, mats, made, answer, wire, seq>>,
           \A p \in Orders \ {o} : row'[p] = row[p] /\ change'[p] = change[p],
           change'[o].answer \subseteq change[o].answer
    PROVE  ClosedInv'
  <1>1. \A p \in Orders : Unamended(p)' => Unamended(p) /\ row'[p] = row[p] BY DEF Unamended
  <1>2. \A p \in Orders : Reconciled(p)' = Reconciled(p) BY DEF Reconciled
  <1>3. \A p \in Orders : change'[p].answer \subseteq change[p].answer OBVIOUS
  <1> QED BY <1>1, <1>2, <1>3, QuietCloses

LEMMA AmendOrderCloses ==
    ASSUME IInv, ClosedInv, NEW o \in Orders, NEW price \in Prices, NEW qty \in Quantities,
           AmendOrder(o, price, qty)
    PROVE  ClosedInv'
  <1>1. PICK c : c = change'[o] OBVIOUS
  <1>2. UNCHANGED <<row, fills, call, mats, made, answer, wire, seq>>
    BY DEF AmendOrder, broker, exchange
  <1>3. change \in [Orders -> ChangeRecords] /\ change[o].times \in Nat
    BY MatsFacts, ChangeFields
  <1>4. /\ change'[o].times = change[o].times + 1 /\ change'[o].answer = {}
        /\ \A p \in Orders \ {o} : change'[p] = change[p]
    BY <1>3 DEF AmendOrder
  <1>5. ~Unamended(o)' BY <1>3, <1>4 DEF Unamended
  <1>6. change'[o].answer \subseteq change[o].answer BY <1>4
  <1> QED BY <1>2, <1>4, <1>5, <1>6, AmendCloses

LEMMA AmendReservesCloses ==
    ASSUME IInv, ClosedInv, NEW o \in Orders, AmendReserves(o)
    PROVE  ClosedInv'
  <1>1. /\ change[o].stage = "read"
        /\ \/ change' = [change EXCEPT ![o].stage = "sent"]
           \/ change' = [change EXCEPT ![o] = [NoChange EXCEPT !.times = change[o].times]]
        /\ UNCHANGED <<row, fills, call, mats, made, answer, wire, seq>>
    BY DEF AmendReserves, exchange
  <1>2. ~Unamended(o) BY <1>1, MatsFacts DEF OrderOK
  <1>3. /\ change'[o].times = change[o].times /\ change'[o].answer \subseteq change[o].answer
        /\ \A p \in Orders \ {o} : change'[p] = change[p]
    BY <1>1, MatsFacts DEF NoChange, ChangeRecords
  <1>4. ~Unamended(o)' BY <1>2, <1>3 DEF Unamended
  <1> QED BY <1>1, <1>3, <1>4, AmendCloses

LEMMA AmendFailsCloses ==
    ASSUME IInv, ClosedInv, NEW o \in Orders, AmendFails(o)
    PROVE  ClosedInv'
  <1>1. /\ change[o].stage \in {"sent", "answered", "applied"}
        /\ change' = [change EXCEPT ![o] = [NoChange EXCEPT !.times = change[o].times]]
        /\ UNCHANGED <<row, fills, call, mats, made, answer, wire, seq>>
    BY DEF AmendFails, exchange
  <1>2. ~Unamended(o) BY <1>1, MatsFacts DEF OrderOK
  <1>3. /\ change'[o].times = change[o].times /\ change'[o].answer = {}
        /\ \A p \in Orders \ {o} : change'[p] = change[p]
    BY <1>1, MatsFacts DEF NoChange
  <1>4. ~Unamended(o)' BY <1>2, <1>3 DEF Unamended
  <1>5. change'[o].answer \subseteq change[o].answer BY <1>3
  <1> QED BY <1>1, <1>3, <1>4, <1>5, AmendCloses

LEMMA AmendLockedCloses ==
    ASSUME IInv, ClosedInv, NEW o \in Orders, AmendLocked(o)
    PROVE  ClosedInv'
  <1>1. /\ change[o].stage = "sent" /\ change' = [change EXCEPT ![o].stage = "applied"]
        /\ UNCHANGED <<row, fills, call, mats, made, answer, wire, seq>>
    BY DEF AmendLocked, exchange, broker
  <1>2. ~Unamended(o) BY <1>1, MatsFacts DEF OrderOK
  <1>3. /\ change'[o].times = change[o].times /\ change'[o].answer = change[o].answer
        /\ \A p \in Orders \ {o} : change'[p] = change[p]
    BY <1>1, MatsFacts DEF ChangeRecords
  <1>4. ~Unamended(o)' BY <1>2, <1>3 DEF Unamended
  <1> QED BY <1>1, <1>3, <1>4, AmendCloses

LEMMA AmendSettledCloses ==
    ASSUME IInv, ClosedInv, NEW o \in Orders, AmendSettled(o)
    PROVE  ClosedInv'
  <1>1. /\ change[o].stage = "applied"
        /\ change' = [change EXCEPT ![o] = [NoChange EXCEPT !.times = change[o].times]]
        /\ UNCHANGED <<fills, call, mats, made, answer, wire, seq>>
    BY DEF AmendSettled, exchange
  <1>2. ~Unamended(o) BY <1>1, MatsFacts DEF OrderOK
  <1>3. /\ change'[o].times = change[o].times /\ change'[o].answer = {}
        /\ \A p \in Orders \ {o} : change'[p] = change[p]
    BY <1>1, MatsFacts DEF NoChange
  <1>4. ~Unamended(o)' BY <1>2, <1>3 DEF Unamended
  <1>5. row' = row \/ \E n : row' = [row EXCEPT ![o].reserved = n] BY DEF AmendSettled
  <1>6. \A p \in Orders \ {o} : row'[p] = row[p] BY <1>5, Unfold
  <1>7. change'[o].answer \subseteq change[o].answer BY <1>3
  <1> QED BY <1>1, <1>3, <1>4, <1>6, <1>7, AmendCloses
-----------------------------------------------------------------------------
\* A step of MATS that makes order o into r and trades S for it.
Becomes(o, r, S) ==
    /\ UNCHANGED <<row, fills, call>> /\ mats' = [mats EXCEPT ![o] = r] /\ Publish(o, S)
    /\ r \in OrderRecords /\ r.status # "none" /\ r.seq >= r.placed
    /\ S \subseteq TradeRecords /\ IsFiniteSet(S)
    /\ seq' \in Nat /\ seq' >= seq
    /\ \A t \in S : t.o = o /\ t.id >= seq /\ t.id < seq'
    /\ mats[o].status # "none" => r.placed = mats[o].placed
    /\ mats[o].status = "none" =>
         r.placed = seq /\ r.seq = seq /\ seq' = seq + 2 /\ \A t \in S : t.id = seq + 1
    /\ r.filled = mats[o].filled + Quantity(S)
    /\ Shape(r, r.filled) /\ (Unamended(o) => Unbroken(r))

\* The trades before and after.
LEMMA TradesThen ==
    ASSUME IInv, ClosedInv, NEW o \in Orders, NEW r, NEW S, Becomes(o, r, S)
    PROVE  /\ mats'[o] = r /\ \A p \in Orders \ {o} : mats'[p] = mats[p]
           /\ TradesOf(made, o)' = TradesOf(made, o) \cup S
           /\ Quantity(TradesOf(made, o) \cup S) = r.filled
           /\ \A p \in Orders \ {o} : TradesOf(made, p)' = TradesOf(made, p)
           /\ \A p \in Orders : mats[p].status # "none" =>
                mats'[p].status # "none" /\ mats'[p].placed = mats[p].placed /\ First(p)' = First(p)
           /\ \A p \in Orders : Recorded(p)' = Recorded(p)
           /\ Quantity(S) \in Nat /\ r.filled \in Nat
  <1>1. /\ fills' = fills /\ mats' = [mats EXCEPT ![o] = r] /\ made' = made \cup S
        /\ r \in OrderRecords /\ r.status # "none"
        /\ S \subseteq TradeRecords /\ IsFiniteSet(S)
        /\ \A t \in S : t.o = o /\ t.id >= seq
    BY DEF Becomes, Publish
  <1>2. /\ mats[o].status # "none" => r.placed = mats[o].placed
        /\ mats[o].status = "none" => r.placed = seq /\ \A t \in S : t.id = seq + 1
        /\ r.filled = mats[o].filled + Quantity(S)
    BY DEF Becomes
  <1>3. mats'[o] = r /\ \A p \in Orders \ {o} : mats'[p] = mats[p] BY <1>1, MatsFacts
  <1>4. TradesOf(made, o)' = TradesOf(made, o) \cup S BY <1>1 DEF TradesOf
  <1>5. \A p \in Orders \ {o} : TradesOf(made, p)' = TradesOf(made, p) BY <1>1 DEF TradesOf
  <1>6. Quantity(S) \in Nat BY <1>1, SumsType
  <1>7. r.filled \in Nat BY <1>1 DEF OrderRecords
  <1>8. seq \in Nat /\ \A t \in made : t.id \in Nat /\ t.id < seq
    BY MatsFacts, ClosedFacts DEF TradeRecords
  <1>9. \A t \in S : t.id \in Nat BY <1>1 DEF TradeRecords
  <1>10. TradesOf(made, o) \cap S = {}
    <2>1. SUFFICES ASSUME NEW t \in made, t \in S PROVE FALSE BY DEF TradesOf
    <2>2. t.id \in Nat /\ t.id < seq /\ t.id >= seq BY <1>1, <1>8, <2>1
    <2> QED BY <1>8, <2>2
  <1>11. Quantity(TradesOf(made, o) \cup S) = r.filled
    <2>1. PICK T : T = TradesOf(made, o) OBVIOUS
    <2>2. T \subseteq TradeRecords /\ IsFiniteSet(T) BY <2>1, TradeSets
    <2>3. Quantity(T \cup S) = Quantity(T) + Quantity(S) BY <1>1, <1>10, <2>1, <2>2, SumsJoin
    <2>4. mats[o].filled = Quantity(T) BY <2>1, ClosedFacts DEF BookOK, Shape
    <2> QED BY <1>2, <2>1, <2>3, <2>4
  <1>12. ASSUME NEW p \in Orders, mats[p].status # "none"
         PROVE  mats'[p].status # "none" /\ mats'[p].placed = mats[p].placed /\ First(p)' = First(p)
    <2>1. mats'[p].status # "none" /\ mats'[p].placed = mats[p].placed
      BY <1>1, <1>2, <1>3, <1>12
    <2>2. CASE p # o
      <3>1. mats'[p] = mats[p] /\ TradesOf(made, p)' = TradesOf(made, p) BY <1>3, <1>5, <2>2
      <3> QED BY <2>1, <3>1 DEF First
    <2>3. CASE p = o
      <3>1. mats[o].placed \in Nat /\ mats[o].placed + 2 <= seq
        BY <1>12, <2>3, OrderFields, ClosedFacts DEF BookOK
      <3>2. \A t \in S : t.id # mats[o].placed + 1
        <4>1. ASSUME NEW t \in S PROVE t.id # mats[o].placed + 1
          <5>1. t.id \in Nat /\ t.id >= seq BY <1>1, <1>9
          <5> QED BY <1>8, <3>1, <5>1
        <4> QED BY <4>1
      <3>3. First(o)' = {t \in TradesOf(made, o) \cup S : t.id = mats[o].placed + 1}
        BY <1>4, <2>1, <2>3 DEF First
      <3> QED BY <2>1, <2>3, <3>2, <3>3 DEF First
    <2> QED BY <2>1, <2>2, <2>3
  <1>14. \A p \in Orders : Recorded(p)' = Recorded(p) BY <1>1 DEF Recorded
  <1> QED BY <1>3, <1>4, <1>5, <1>6, <1>7, <1>11, <1>12, <1>14

\* The trades of the first match are those of the place request.
LEMMA FirstThen ==
    ASSUME IInv, ClosedInv, NEW o \in Orders, NEW r, NEW S, Becomes(o, r, S),
           mats[o].status = "none"
    PROVE  First(o)' = S /\ r.filled = Quantity(S) /\ r.placed = r.seq
  <1>1. TradesOf(made, o) = {} BY NoAnswerYet
  <1>2. r.placed = seq /\ r.seq = seq /\ \A t \in S : t.id = seq + 1 BY DEF Becomes
  <1>3. TradesOf(made, o)' = TradesOf(made, o) \cup S BY TradesThen
  <1>4. Quantity(TradesOf(made, o) \cup S) = r.filled /\ mats'[o] = r BY TradesThen
  <1>5. TradesOf(made, o) \cup S = S BY <1>1
  <1>6. First(o)' = {t \in S : t.id = seq + 1} BY <1>2, <1>3, <1>4, <1>5 DEF First
  <1>7. First(o)' = S BY <1>2, <1>6
  <1> QED BY <1>2, <1>4, <1>5, <1>7

\* What MATS says of the order now.
LEMMA BecomesTells ==
    ASSUME IInv, ClosedInv, NEW o \in Orders, NEW r, NEW S, Becomes(o, r, S), Unamended(o),
           NEW kind, NEW T
    PROVE  /\ Tells(Message(kind, o, T, r), mats'[o].placed, Quantity(First(o)'))
           /\ Message(kind, o, T, r).seq = r.seq /\ Message(kind, o, T, r).filled = r.filled
  <1>1. /\ r \in OrderRecords /\ r.status # "none" /\ r.seq >= r.placed
        /\ Shape(r, r.filled) /\ Unbroken(r) /\ S \subseteq TradeRecords /\ IsFiniteSet(S)
    BY DEF Becomes
  <1>2. PICK n : n = Quantity(First(o)') OBVIOUS
  <1>3. n \in Nat /\ n <= r.filled /\ r.filled \in Nat
    <2>1. PICK U : U = TradesOf(made, o) \cup S OBVIOUS
    <2>2. U \subseteq TradeRecords /\ IsFiniteSet(U) BY <1>1, <2>1, TradeSets, FS_Union
    <2>3. First(o)' \subseteq U BY <2>1, TradesThen DEF First
    <2>4. Quantity(U) = r.filled BY <2>1, TradesThen
    <2> QED BY <1>2, <2>2, <2>3, <2>4, QuantityGrows
  <1>4. mats'[o] = r BY TradesThen
  <1>5. PICK total \in Nat : total = r.filled BY <1>3
  <1>6. Shape(r, total) /\ n <= total BY <1>1, <1>3, <1>5
  <1>7. /\ Tells(Message(kind, o, T, r), r.placed, n)
        /\ Message(kind, o, T, r).seq = r.seq /\ Message(kind, o, T, r).filled = total
    BY <1>1, <1>3, <1>6, ShapeTells
  <1> QED BY <1>2, <1>4, <1>5, <1>7

LEMMA BecomesCloses ==
    ASSUME IInv, ClosedInv, NEW o \in Orders, NEW r, NEW S, Becomes(o, r, S),
           \A p \in Orders : change'[p].times = change[p].times,
           \A p \in Orders : \A m \in answer'[p] :
             m \in answer[p] \/ (p = o /\ m = Reply(o, S) /\ mats[o].status = "none"),
           \A p \in Orders : \A m \in change'[p].answer : m \in change[p].answer \/ m.o = p
    PROVE  ClosedInv'
  <1>1. /\ UNCHANGED <<row, fills, call>> /\ mats' = [mats EXCEPT ![o] = r]
        /\ made' = made \cup S /\ wire' = wire \cup {Status(o)} \cup {FillOf(t) : t \in S}
        /\ r \in OrderRecords /\ r.status # "none" /\ r.seq >= r.placed
        /\ S \subseteq TradeRecords
        /\ seq' \in Nat /\ seq' >= seq
        /\ \A t \in S : t.o = o /\ t.id < seq'
    BY DEF Becomes, Publish
  <1>2. \A p \in Orders : Unamended(p)' = Unamended(p) BY DEF Unamended
  <1>3. seq \in Nat /\ seq > 0 /\ \A t \in made : t.id \in Nat /\ t.id < seq
    BY MatsFacts, ClosedFacts DEF TradeRecords
  <1>11. /\ mats'[o] = r /\ Quantity(TradesOf(made, o)') = r.filled
    <2>1. mats'[o] = r BY TradesThen
    <2>2. TradesOf(made, o)' = TradesOf(made, o) \cup S BY TradesThen
    <2>3. Quantity(TradesOf(made, o) \cup S) = r.filled BY TradesThen
    <2> QED BY <2>1, <2>2, <2>3
  <1>4. TapeOK'
    <2>1. \A t \in made : t.id < seq' BY <1>1, <1>3
    <2>2. seq' > 0 BY <1>1, <1>3
    <2> QED BY <1>1, <2>1, <2>2 DEF TapeOK
  <1>5. ASSUME NEW p \in Orders PROVE BookOK(p)'
    <2>1. BookOK(p) /\ mats[p].placed \in Nat BY ClosedFacts, OrderFields
    <2>2. CASE p # o
      <3>1. mats'[p] = mats[p] /\ TradesOf(made, p)' = TradesOf(made, p) BY <2>2, TradesThen
      <3>2. mats[p].status # "none" => mats[p].placed + 2 <= seq' BY <1>1, <1>3, <2>1 DEF BookOK
      <3> QED BY <1>2, <2>1, <3>1, <3>2 DEF BookOK, Shape, Unbroken
    <2>3. CASE p = o
      <3>1. mats'[o] = r /\ Quantity(TradesOf(made, o)') = r.filled BY <1>11
      <3>2. r.placed > 0 /\ r.placed + 2 <= seq'
        <4>1. CASE mats[o].status = "none"
          <5>1. r.placed = seq /\ seq' = seq + 2 BY <4>1 DEF Becomes
          <5> QED BY <1>3, <5>1
        <4>2. CASE mats[o].status # "none"
          <5>1. r.placed = mats[o].placed BY <4>2 DEF Becomes
          <5> QED BY <1>1, <1>3, <2>1, <2>3, <4>2, <5>1 DEF BookOK
        <4> QED BY <4>1, <4>2
      <3>3. Shape(r, r.filled) /\ (Unamended(o) => Unbroken(r)) BY DEF Becomes
      <3>4. Shape(mats'[o], Quantity(TradesOf(made, o)')) BY <3>1, <3>3
      <3>5. Unamended(o)' => Unbroken(mats'[o]) BY <1>2, <3>1, <3>3
      <3> QED BY <1>1, <2>3, <3>1, <3>2, <3>4, <3>5 DEF BookOK, Shape, Unbroken
    <2> QED BY <2>2, <2>3
  <1>7. \A p \in Orders : Reconciled(p)' = Reconciled(p) BY <1>1 DEF Reconciled
  <1>6. ASSUME NEW p \in Orders, Unamended(p)' PROVE RowOK(p)'
    <2>1. RowOK(p) /\ row' = row BY <1>1, <1>2, <1>6, ClosedFacts
    <2>2. Recorded(p)' = Recorded(p) BY TradesThen
    <2>3. CASE row[p].known
      <3>1. mats[p].status # "none" BY <2>1, <2>3 DEF RowOK
      <3>2. mats'[p].status # "none" /\ mats'[p].placed = mats[p].placed /\ First(p)' = First(p)
        BY <3>1, TradesThen
      <3> QED BY <1>7, <2>1, <2>2, <2>3, <3>2 DEF RowOK, Whole
    <2>4. CASE ~row[p].known BY <1>7, <2>1, <2>2, <2>4 DEF RowOK, Whole
    <2> QED BY <2>3, <2>4
  <1>8. ASSUME NEW p \in Orders, NEW m \in answer'[p] PROVE AnswerOK(m, p)'
    <2>1. CASE m \in answer[p]
      <3>1. AnswerOK(m, p) /\ MessageOK(m) /\ m.o = p
        BY <2>1, MatsFacts, ClosedFacts DEF MessagesOK, AnswerOK
      <3>2. mats[p].status # "none" BY <3>1 DEF MessageOK
      <3>3. mats'[p].placed = mats[p].placed /\ First(p)' = First(p) /\ Recorded(p)' = Recorded(p)
        BY <3>2, TradesThen
      <3>4. SnapshotOK(m) => SnapshotOK(m)' BY <3>1, <3>3 DEF SnapshotOK, Tells
      <3> QED BY <1>1, <1>2, <3>1, <3>3, <3>4 DEF AnswerOK
    <2>2. CASE m \notin answer[p]
      <3>1. p = o /\ m = Reply(o, S) /\ mats[o].status = "none" BY <1>8, <2>2
      <3>2. mats'[o] = r /\ First(o)' = S /\ r.filled = Quantity(S)
        BY <3>1, <1>11, FirstThen
      <3>3. m = Message("answer", o, S, r) BY <3>1, <3>2 DEF Reply
      <3>4. m.o = o /\ m.kind = "answer" /\ m.fills = S BY <3>3 DEF Message
      <3>5. r.placed = r.seq BY <3>1 DEF Becomes
      <3>6. Unamended(o) => /\ Tells(m, mats'[o].placed, Quantity(First(o)'))
                            /\ m.seq = r.seq /\ m.filled = r.filled
        BY <3>3, BecomesTells
      <3>8. Unamended(o)' =>
              /\ SnapshotOK(m)' /\ m.seq = mats'[o].placed /\ m.filled = Quantity(m.fills)
              /\ m.fills = First(o)'
        BY <1>2, <3>2, <3>4, <3>5, <3>6 DEF SnapshotOK
      <3> QED BY <3>1, <3>4, <3>8 DEF AnswerOK
    <2> QED BY <2>1, <2>2
  <1>9. \A p \in Orders : \A m \in change'[p].answer : m.o = p BY ClosedFacts
  <1>10. ASSUME NEW m \in wire' PROVE WireOK(m)'
    <2>1. CASE m \in wire
      <3>1. m \in MessageRecords /\ MessageOK(m) /\ WireOK(m)
        BY <2>1, MatsFacts, ClosedFacts DEF MessagesOK
      <3>2. m.o \in Orders /\ mats[m.o].status # "none" BY <3>1, MessageFields DEF MessageOK
      <3>3. mats'[m.o].placed = mats[m.o].placed /\ First(m.o)' = First(m.o)
        BY <3>2, TradesThen
      <3>4. SnapshotOK(m) => SnapshotOK(m)' BY <3>3 DEF SnapshotOK, Tells
      <3> QED BY <1>2, <3>1, <3>2, <3>4 DEF WireOK, Snapshot
    <2>2. CASE m = Status(o)
      <3>1. mats'[o] = r BY TradesThen
      <3>2. m = Message("status", o, {}, r) BY <2>2, <3>1 DEF Status
      <3>3. m.o = o /\ m.kind = "status" /\ m.fills = {} BY <3>2 DEF Message
      <3>4. Unamended(o) => Tells(m, mats'[o].placed, Quantity(First(o)'))
        BY <3>2, BecomesTells
      <3> QED BY <1>2, <3>3, <3>4 DEF WireOK, SnapshotOK
    <2>3. CASE \E t \in S : m = FillOf(t)
      <3>0. PICK t \in S : m = FillOf(t) BY <2>3
      <3>1. m.kind = "fill" BY <3>0 DEF FillOf
      <3> QED BY <3>1 DEF WireOK, Snapshot
    <2> QED BY <1>1, <1>10, <2>1, <2>2, <2>3
  <1> QED BY <1>4, <1>5, <1>6, <1>8, <1>9, <1>10 DEF ClosedInv
-----------------------------------------------------------------------------
LEMMA MatchTrades ==
    ASSUME NEW o \in Orders, NEW n \in Nat, NEW price \in Nat, NEW got \in Nat, NEW S,
           S = IF got = 0 THEN {} ELSE {[o |-> o, id |-> n, price |-> price, qty |-> got]}
    PROVE  /\ S \subseteq TradeRecords /\ IsFiniteSet(S) /\ Quantity(S) = got
           /\ \A t \in S : t.o = o /\ t.id = n
  <1>1. CASE got = 0
    <2>1. S = {} BY <1>1
    <2> QED BY <1>1, <2>1, SumsEmpty, FS_EmptySet
  <1>2. CASE got # 0
    <2>1. PICK t : t = [o |-> o, id |-> n, price |-> price, qty |-> got] OBVIOUS
    <2>2. t \in TradeRecords /\ t.o = o /\ t.id = n /\ t.qty = got BY <2>1 DEF TradeRecords
    <2>3. S = {t} BY <1>2, <2>1
    <2>4. Quantity({t}) = got BY <2>2, QuantityOne
    <2> QED BY <2>2, <2>3, <2>4, FS_Singleton
  <1> QED BY <1>1, <1>2

LEMMA MatchedShape ==
    ASSUME NEW price, NEW qty, NEW got, NEW number, NEW placed, NEW r,
           r = Matched(price, qty, got, number, placed),
           price \in Nat, qty \in Nat, got \in 0..qty, number \in Nat, placed \in Nat
    PROVE  /\ r \in OrderRecords /\ r.status # "none" /\ r.filled = got
           /\ r.seq = number /\ r.placed = placed /\ Shape(r, got)
           /\ number = placed => Unbroken(r)
  <1>1. r \in OrderRecords /\ r.status # "none" /\ r.filled = got /\ r.orig = qty /\ r.rem = qty - got
    BY MatchedFields
  <1>2. /\ r.seq = number /\ r.placed = placed
        /\ r.status = IF got = qty THEN "filled" ELSE IF got > 0 THEN "partially_filled" ELSE "open"
    BY DEF Matched, Order
  <1>3. r.rem > 0 <=> r.status \in {"open", "partially_filled"} BY <1>1, <1>2
  <1>4. r.status \in Closed \cup {"none", "open", "partially_filled"} BY <1>2 DEF Closed
  <1>5. Shape(r, got) BY <1>1, <1>3, <1>4 DEF Shape
  <1>6. number = placed => Unbroken(r) BY <1>1, <1>2 DEF Unbroken
  <1> QED BY <1>1, <1>2, <1>5, <1>6

\* What a live order is.
LEMMA LiveOrder ==
    ASSUME IInv, ClosedInv, NEW o \in Orders, Live(o)
    PROVE  /\ mats[o].status # "none" /\ mats[o].rem = mats[o].orig - mats[o].filled
           /\ mats[o].filled = Quantity(TradesOf(made, o)) /\ mats[o].filled <= mats[o].orig
           /\ mats[o].seq >= mats[o].placed
           /\ Unamended(o) => mats[o].seq = mats[o].placed
           /\ mats[o].filled + 0 = mats[o].filled
  <1>1. BookOK(o) /\ OrderOK(o) BY MatsFacts, ClosedFacts
  <1>2. mats[o].status # "none" BY DEF Live
  <1>3. mats[o].rem > 0 BY <1>1 DEF BookOK, Shape, Live
  <1>4. mats[o].filled \in Nat BY OrderFields
  <1> QED BY <1>1, <1>2, <1>3, <1>4 DEF BookOK, Shape, Unbroken, OrderOK

\* What a place request makes of order o.
PlacedAs(o, r, S) ==
    /\ mats' = [mats EXCEPT ![o] = r] /\ Publish(o, S)
    /\ answer' = [answer EXCEPT ![o] = {Reply(o, S)}]
    /\ r \in OrderRecords /\ r.status # "none" /\ r.seq = seq /\ r.placed = seq
    /\ S \subseteq TradeRecords /\ IsFiniteSet(S) /\ r.filled = Quantity(S)
    /\ \A t \in S : t.o = o /\ t.id = seq + 1
    /\ Shape(r, r.filled) /\ Unbroken(r)

LEMMA MatsPlaceCloses ==
    ASSUME IInv, ClosedInv, NEW o \in Orders, MatsPlace(o)
    PROVE  ClosedInv'
  <1>1. /\ mats[o].status = "none" /\ seq' = seq + 2 /\ UNCHANGED <<row, fills, call, change>>
    BY DEF MatsPlace, broker
  <1>2. seq \in Nat /\ seq + 1 \in Nat /\ seq' \in Nat /\ row[o].price \in Nat /\ row[o].orig \in Nat
    BY <1>1, MatsFacts, Unfold, RowFields
  <1>3. mats[o].filled = 0
    <2>1. mats[o].filled = Quantity(TradesOf(made, o)) BY ClosedFacts DEF BookOK, Shape
    <2> QED BY <1>1, <2>1, NoAnswerYet, SumsEmpty
  <1>14. PICK r, S : PlacedAs(o, r, S)
    <2>1. CASE /\ mats' = [mats EXCEPT ![o] =
                             Order("rejected", row[o].price, row[o].orig, 0, 0, seq, seq)]
               /\ Publish(o, {}) /\ answer' = [answer EXCEPT ![o] = {Reply(o, {})}]
      <3>1. PICK r : r = Order("rejected", row[o].price, row[o].orig, 0, 0, seq, seq) OBVIOUS
      <3>2. /\ r.status = "rejected" /\ r.orig = row[o].orig /\ r.filled = 0 /\ r.rem = 0
            /\ r.seq = seq /\ r.placed = seq /\ r.price = row[o].price
        BY <3>1 DEF Order
      <3>3. "rejected" \in Statuses BY DEF Statuses
      <3>4. r \in OrderRecords
        <4>1. seq \in Nat /\ 0 \in Nat BY <1>2
        <4> QED BY <1>2, <3>1, <3>3, <4>1 DEF Order, OrderRecords
      <3>5. Shape(r, r.filled) /\ Unbroken(r)
        BY <1>2, <3>2 DEF Shape, Unbroken, Closed, Refused
      <3>6. IsFiniteSet({}) /\ Quantity({}) = 0 BY FS_EmptySet, SumsEmpty
      <3>7. PlacedAs(o, r, {}) BY <2>1, <3>1, <3>2, <3>4, <3>5, <3>6 DEF PlacedAs
      <3> QED BY <3>7
    <2>2. CASE ~(/\ mats' = [mats EXCEPT ![o] =
                             Order("rejected", row[o].price, row[o].orig, 0, 0, seq, seq)]
                 /\ Publish(o, {}) /\ answer' = [answer EXCEPT ![o] = {Reply(o, {})}])
      <3>0. PICK got \in 0..row[o].orig, price \in Prices :
              /\ mats' = [mats EXCEPT ![o] = Matched(row[o].price, row[o].orig, got, seq, seq)]
              /\ \E S : /\ S = IF got = 0 THEN {}
                               ELSE {[o |-> o, id |-> seq + 1, price |-> price, qty |-> got]}
                        /\ Publish(o, S) /\ answer' = [answer EXCEPT ![o] = {Reply(o, S)}]
        BY <2>2 DEF MatsPlace
      <3>1. PICK S :
              /\ mats' = [mats EXCEPT ![o] = Matched(row[o].price, row[o].orig, got, seq, seq)]
              /\ S = IF got = 0 THEN {}
                     ELSE {[o |-> o, id |-> seq + 1, price |-> price, qty |-> got]}
              /\ Publish(o, S) /\ answer' = [answer EXCEPT ![o] = {Reply(o, S)}]
        BY <3>0
      <3>2. PICK r : r = Matched(row[o].price, row[o].orig, got, seq, seq) OBVIOUS
      <3>3. /\ r \in OrderRecords /\ r.status # "none" /\ r.filled = got
            /\ r.seq = seq /\ r.placed = seq /\ Shape(r, got) /\ Unbroken(r)
        <4>1. seq \in Nat BY <1>2
        <4> QED BY <1>2, <3>0, <3>2, <4>1, MatchedShape
      <3>4. got \in Nat /\ price \in Nat BY <1>2, <3>0, BrokerAssumption
      <3>5. /\ S \subseteq TradeRecords /\ IsFiniteSet(S) /\ Quantity(S) = got
            /\ \A t \in S : t.o = o /\ t.id = seq + 1
        <4>1. PICK n \in Nat : n = seq + 1 BY <1>2
        <4>2. S = IF got = 0 THEN {} ELSE {[o |-> o, id |-> n, price |-> price, qty |-> got]}
          BY <3>1, <4>1
        <4> QED BY <3>4, <4>1, <4>2, MatchTrades
      <3>6. r.filled = Quantity(S) /\ Shape(r, r.filled) BY <3>3, <3>5
      <3>7. mats' = [mats EXCEPT ![o] = r] BY <3>1, <3>2
      <3>8. PlacedAs(o, r, S) BY <3>1, <3>3, <3>5, <3>6, <3>7 DEF PlacedAs
      <3> QED BY <3>8
    <2> QED BY <2>1, <2>2
  <1>4. /\ mats' = [mats EXCEPT ![o] = r] /\ Publish(o, S)
        /\ answer' = [answer EXCEPT ![o] = {Reply(o, S)}]
        /\ r \in OrderRecords /\ r.status # "none" /\ r.seq = seq /\ r.placed = seq
        /\ S \subseteq TradeRecords /\ IsFiniteSet(S) /\ r.filled = Quantity(S)
        /\ \A t \in S : t.o = o /\ t.id = seq + 1
        /\ Shape(r, r.filled) /\ Unbroken(r)
    BY <1>14 DEF PlacedAs
  <1>5. mats[o].filled + Quantity(S) = r.filled BY <1>3, <1>4, SumsType
  <1>6. \A t \in S : t.id >= seq /\ t.id < seq' BY <1>1, <1>2, <1>4
  <1>7. seq' >= seq /\ r.seq >= r.placed BY <1>1, <1>2, <1>4
  <1>8. Becomes(o, r, S) BY <1>1, <1>2, <1>4, <1>5, <1>6, <1>7 DEF Becomes
  <1>9. \A p \in Orders : \A m \in answer'[p] :
          m \in answer[p] \/ (p = o /\ m = Reply(o, S) /\ mats[o].status = "none")
    BY <1>1, <1>4, MatsFacts
  <1>10. /\ \A p \in Orders : change'[p].times = change[p].times
         /\ \A p \in Orders : \A m \in change'[p].answer : m \in change[p].answer
    BY <1>1
  <1> QED BY <1>8, <1>9, <1>10, BecomesCloses

\* The steps of MATS for an order it has, that tell nobody.
LEMMA QuietMats ==
    ASSUME IInv, ClosedInv, NEW o \in Orders, NEW r, NEW S, Becomes(o, r, S),
           UNCHANGED <<change, answer>>
    PROVE  ClosedInv'
  BY BecomesCloses

LEMMA MatsFillCloses ==
    ASSUME IInv, ClosedInv, NEW o \in Orders, MatsFill(o)
    PROVE  ClosedInv'
  <1>1. Live(o) /\ seq' = seq + 1 /\ UNCHANGED <<row, fills, call, change, answer>>
    BY DEF MatsFill, broker
  <1>2. PICK got \in 1..mats[o].rem, price \in Prices :
          /\ mats' = [mats EXCEPT ![o] =
                        Matched(@.price, @.orig, @.filled + got, @.seq, @.placed)]
          /\ Publish(o, {[o |-> o, id |-> seq, price |-> price, qty |-> got]})
    BY DEF MatsFill
  <1>3. /\ mats[o].price \in Nat /\ mats[o].orig \in Nat /\ mats[o].filled \in Nat
        /\ mats[o].rem \in Nat /\ mats[o].seq \in Nat /\ mats[o].placed \in Nat
    BY OrderFields
  <1>4. /\ mats[o].rem = mats[o].orig - mats[o].filled /\ mats[o].status # "none"
        /\ mats[o].seq >= mats[o].placed /\ (Unamended(o) => mats[o].seq = mats[o].placed)
    BY <1>1, LiveOrder
  <1>5. PICK sum \in 0..mats[o].orig : sum = mats[o].filled + got BY <1>2, <1>3, <1>4
  <1>6. PICK r : r = Matched(mats[o].price, mats[o].orig, sum, mats[o].seq, mats[o].placed)
    OBVIOUS
  <1>7. mats' = [mats EXCEPT ![o] = r] BY <1>2, <1>5, <1>6, MatsFacts
  <1>8. /\ r \in OrderRecords /\ r.status # "none" /\ r.filled = sum
        /\ r.seq = mats[o].seq /\ r.placed = mats[o].placed /\ Shape(r, sum)
        /\ mats[o].seq = mats[o].placed => Unbroken(r)
    BY <1>3, <1>5, <1>6, MatchedShape
  <1>9. PICK S : S = {[o |-> o, id |-> seq, price |-> price, qty |-> got]} OBVIOUS
  <1>10. seq \in Nat /\ seq' \in Nat /\ price \in Nat /\ got \in Nat /\ got # 0
    BY <1>1, <1>2, <1>3, MatsFacts, BrokerAssumption
  <1>11. /\ S \subseteq TradeRecords /\ IsFiniteSet(S) /\ Quantity(S) = got
         /\ \A t \in S : t.o = o /\ t.id = seq
    <2>1. S = IF got = 0 THEN {} ELSE {[o |-> o, id |-> seq, price |-> price, qty |-> got]}
      BY <1>9, <1>10
    <2> QED BY <1>10, <2>1, MatchTrades
  <1>12. Publish(o, S) BY <1>2, <1>9
  <1>13. r.filled = mats[o].filled + Quantity(S) BY <1>5, <1>8, <1>11
  <1>14. \A t \in S : t.id >= seq /\ t.id < seq' BY <1>1, <1>10, <1>11
  <1>15. seq' >= seq BY <1>1, <1>10
  <1>16. Becomes(o, r, S)
    BY <1>1, <1>4, <1>7, <1>8, <1>10, <1>11, <1>12, <1>13, <1>14, <1>15 DEF Becomes
  <1> QED BY <1>1, <1>16, QuietMats

\* An order that ends without its rest.
LEMMA EndCloses ==
    ASSUME IInv, ClosedInv, NEW o \in Orders, Live(o), NEW r \in OrderRecords,
           UNCHANGED <<row, fills, call, change, answer>>, Publish(o, {}),
           mats' = [mats EXCEPT ![o] = r], r.status \in {"expired", "cancelled"}, r.rem = 0,
           r.filled = mats[o].filled, r.orig = mats[o].orig, r.placed = mats[o].placed,
           r.seq >= r.placed, seq' \in Nat, seq' >= seq
    PROVE  ClosedInv'
  <1>1. /\ mats[o].status # "none" /\ mats[o].filled <= mats[o].orig
    BY LiveOrder
  <1>2. mats[o].filled \in Nat /\ mats[o].orig \in Nat BY OrderFields
  <1>3. IsFiniteSet({}) /\ Quantity({}) = 0 BY FS_EmptySet, SumsEmpty
  <1>4. Shape(r, r.filled) BY <1>1 DEF Shape, Closed, Refused
  <1>5. Unbroken(r) BY <1>1, <1>2 DEF Unbroken
  <1>6. r.filled = mats[o].filled + Quantity({}) BY <1>2, <1>3
  <1>7. r.status # "none" OBVIOUS
  <1>8. Becomes(o, r, {}) BY <1>1, <1>3, <1>4, <1>5, <1>6, <1>7 DEF Becomes
  <1> QED BY <1>8, QuietMats

LEMMA MatsExpireCloses ==
    ASSUME IInv, ClosedInv, NEW o \in Orders, MatsExpire(o)
    PROVE  ClosedInv'
  <1>1. /\ Live(o) /\ UNCHANGED <<row, fills, call, change, answer, seq>> /\ Publish(o, {})
        /\ mats' = [mats EXCEPT ![o].status = "expired", ![o].rem = 0]
    BY DEF MatsExpire, broker
  <1>2. PICK r : r = mats'[o] OBVIOUS
  <1>3. /\ mats' = [mats EXCEPT ![o] = r] /\ r \in OrderRecords /\ r.status = "expired"
        /\ r.orig = mats[o].orig /\ r.filled = mats[o].filled /\ r.rem = 0
        /\ r.placed = mats[o].placed /\ r.seq = mats[o].seq
    BY <1>1, <1>2, MatsFacts DEF OrderRecords, Statuses
  <1>4. r.seq >= r.placed BY <1>1, <1>3, LiveOrder
  <1>5. seq' \in Nat /\ seq' >= seq BY <1>1, MatsFacts
  <1> QED BY <1>1, <1>3, <1>4, <1>5, EndCloses

LEMMA CancelOrderCloses ==
    ASSUME IInv, ClosedInv, NEW o \in Orders, CancelOrder(o)
    PROVE  ClosedInv'
  <1>1. /\ Live(o) /\ UNCHANGED <<row, fills, call, change, answer>> /\ seq' = seq + 1
        /\ Publish(o, {})
        /\ mats' = [mats EXCEPT ![o].status = "cancelled", ![o].rem = 0, ![o].seq = seq]
    BY DEF CancelOrder, broker
  <1>2. seq \in Nat /\ seq' \in Nat /\ seq' >= seq BY <1>1, MatsFacts
  <1>3. PICK r : r = mats'[o] OBVIOUS
  <1>4. /\ mats' = [mats EXCEPT ![o] = r] /\ r \in OrderRecords /\ r.status = "cancelled"
        /\ r.orig = mats[o].orig /\ r.filled = mats[o].filled /\ r.rem = 0
        /\ r.placed = mats[o].placed /\ r.seq = seq
    BY <1>1, <1>2, <1>3, MatsFacts DEF OrderRecords, Statuses
  <1>5. r.seq >= r.placed
    <2>1. mats[o].placed \in Nat /\ mats[o].status # "none" BY <1>1, OrderFields, LiveOrder
    <2>2. mats[o].placed + 2 <= seq BY <2>1, ClosedFacts DEF BookOK
    <2> QED BY <1>2, <1>4, <2>1, <2>2
  <1> QED BY <1>1, <1>2, <1>4, <1>5, EndCloses
-----------------------------------------------------------------------------
LEMMA MatsAmendCloses ==
    ASSUME IInv, ClosedInv, NEW o \in Orders, MatsAmend(o)
    PROVE  ClosedInv'
  <1>1. /\ change[o].stage = "sent" /\ Live(o) /\ change[o].qty >= mats[o].filled
        /\ seq' = seq + 2 /\ UNCHANGED <<row, fills, call, answer>>
    BY DEF MatsAmend, broker
  <1>2. PICK got \in 0..(change[o].qty - mats[o].filled), price \in Prices :
          /\ mats' = [mats EXCEPT ![o] = Matched(change[o].price, change[o].qty,
                                                  @.filled + got, seq, @.placed)]
          /\ \E S : /\ S = IF got = 0 THEN {}
                           ELSE {[o |-> o, id |-> seq + 1, price |-> price, qty |-> got]}
                    /\ Publish(o, S)
                    /\ change' = [change EXCEPT ![o].stage = "answered",
                                                ![o].answer = {Reply(o, S)}]
    BY DEF MatsAmend
  <1>3. PICK S :
          /\ mats' = [mats EXCEPT ![o] = Matched(change[o].price, change[o].qty,
                                                  @.filled + got, seq, @.placed)]
          /\ S = IF got = 0 THEN {} ELSE {[o |-> o, id |-> seq + 1, price |-> price, qty |-> got]}
          /\ Publish(o, S)
          /\ change' = [change EXCEPT ![o].stage = "answered", ![o].answer = {Reply(o, S)}]
    BY <1>2
  <1>4. /\ mats[o].filled \in Nat /\ mats[o].placed \in Nat /\ change[o].qty \in Nat
        /\ change[o].price \in Nat /\ seq \in Nat /\ seq + 1 \in Nat /\ seq' \in Nat
    BY <1>1, OrderFields, ChangeFields, MatsFacts
  <1>5. PICK sum \in 0..change[o].qty : sum = mats[o].filled + got BY <1>1, <1>2, <1>4
  <1>6. PICK r : r = Matched(change[o].price, change[o].qty, sum, seq, mats[o].placed) OBVIOUS
  <1>7. mats' = [mats EXCEPT ![o] = r] BY <1>3, <1>5, <1>6, MatsFacts
  <1>8. /\ r \in OrderRecords /\ r.status # "none" /\ r.filled = sum
        /\ r.seq = seq /\ r.placed = mats[o].placed /\ Shape(r, sum)
    BY <1>4, <1>5, <1>6, MatchedShape
  <1>9. ~Unamended(o) BY <1>1, MatsFacts DEF OrderOK
  <1>10. price \in Nat /\ got \in Nat BY <1>1, <1>2, <1>4, BrokerAssumption
  <1>11. /\ S \subseteq TradeRecords /\ IsFiniteSet(S) /\ Quantity(S) = got
         /\ \A t \in S : t.o = o /\ t.id = seq + 1
    <2>1. PICK n \in Nat : n = seq + 1 BY <1>4
    <2>2. S = IF got = 0 THEN {} ELSE {[o |-> o, id |-> n, price |-> price, qty |-> got]}
      BY <1>3, <2>1
    <2> QED BY <1>10, <2>1, <2>2, MatchTrades
  <1>12. r.filled = mats[o].filled + Quantity(S) BY <1>5, <1>8, <1>11
  <1>13. \A t \in S : t.id >= seq /\ t.id < seq' BY <1>1, <1>4, <1>11
  <1>14. mats[o].status # "none" BY <1>1, LiveOrder
  <1>15. r.seq >= r.placed /\ seq' >= seq
    <2>1. mats[o].placed + 2 <= seq BY <1>14, ClosedFacts DEF BookOK
    <2> QED BY <1>1, <1>4, <1>8, <2>1
  <1>16. Shape(r, r.filled) BY <1>8
  <1>17. Becomes(o, r, S)
    BY <1>1, <1>3, <1>4, <1>7, <1>8, <1>9, <1>11, <1>12, <1>13, <1>14, <1>15, <1>16 DEF Becomes
  <1>18. PICK said : said = {Reply(o, S)} OBVIOUS
  <1>19. /\ change'[o].answer = said /\ change'[o].times = change[o].times
         /\ \A p \in Orders \ {o} : change'[p] = change[p]
    <2>1. change' = [change EXCEPT ![o].stage = "answered", ![o].answer = said] BY <1>3, <1>18
    <2> QED BY <2>1, MatsFacts DEF ChangeRecords
  <1>20. Reply(o, S).o = o BY DEF Reply, Message
  <1>21. \A p \in Orders : change'[p].times = change[p].times BY <1>19
  <1>22. \A p \in Orders : \A m \in change'[p].answer : m \in change[p].answer \/ m.o = p
    BY <1>18, <1>19, <1>20
  <1>23. \A p \in Orders : \A m \in answer'[p] : m \in answer[p] BY <1>1
  <1> QED BY <1>17, <1>21, <1>22, <1>23, BecomesCloses

LEMMA MatsRestartCloses ==
    ASSUME IInv, ClosedInv, MatsRestart
    PROVE  ClosedInv'
  <1>1. /\ answer' = [o \in Orders |-> {}]
        /\ mats' = [o \in Orders |-> [mats[o] EXCEPT !.seq = mats[o].placed]]
        /\ UNCHANGED <<row, fills, call, change, made, wire, seq>>
    BY DEF MatsRestart, broker
  <1>2. ASSUME NEW o \in Orders
        PROVE  /\ mats'[o].status = mats[o].status /\ mats'[o].orig = mats[o].orig
               /\ mats'[o].filled = mats[o].filled /\ mats'[o].rem = mats[o].rem
               /\ mats'[o].placed = mats[o].placed /\ mats'[o].seq = mats[o].placed
               /\ mats[o].placed \in Nat
    <2>1. mats'[o] = [mats[o] EXCEPT !.seq = mats[o].placed] BY <1>1
    <2>2. mats[o] \in OrderRecords /\ mats[o].placed \in Nat BY MatsFacts, OrderFields
    <2> QED BY <2>1, <2>2 DEF OrderRecords
  <1>3. \A o \in Orders : Unamended(o)' = Unamended(o) BY <1>1 DEF Unamended
  <1>4. ASSUME NEW o \in Orders
        PROVE  /\ TradesOf(made, o)' = TradesOf(made, o) /\ Recorded(o)' = Recorded(o)
               /\ First(o)' = First(o)
    BY <1>1, <1>2 DEF TradesOf, Recorded, First
  <1>5. TapeOK' BY <1>1, ClosedFacts DEF TapeOK
  <1>6. ASSUME NEW o \in Orders PROVE BookOK(o)'
    <2>1. BookOK(o) BY ClosedFacts
    <2>2. mats'[o].seq >= mats'[o].placed BY <1>2
    <2> QED BY <1>1, <1>2, <1>3, <1>4, <2>1, <2>2 DEF BookOK, Shape, Unbroken
  <1>7. ASSUME NEW o \in Orders, Unamended(o)' PROVE RowOK(o)'
    <2>1. RowOK(o) BY <1>3, <1>7, ClosedFacts
    <2> QED BY <1>1, <1>2, <1>4, <2>1 DEF RowOK, Whole, Reconciled
  <1>9. \A o \in Orders : \A m \in answer'[o] : AnswerOK(m, o)' BY <1>1
  <1>10. \A o \in Orders : \A m \in change'[o].answer : m.o = o BY <1>1, ClosedFacts
  <1>11. ASSUME NEW m \in wire' PROVE WireOK(m)'
    <2>1. m \in MessageRecords /\ WireOK(m) BY <1>1, <1>11, MatsFacts, ClosedFacts
    <2>2. m.o \in Orders BY <2>1, MessageFields
    <2>3. SnapshotOK(m) => SnapshotOK(m)' BY <1>2, <1>4, <2>2 DEF SnapshotOK, Tells
    <2> QED BY <1>3, <2>1, <2>2, <2>3 DEF WireOK, Snapshot
  <1> QED BY <1>5, <1>6, <1>7, <1>9, <1>10, <1>11 DEF ClosedInv
-----------------------------------------------------------------------------
LEMMA ClosedInitOK == Init => ClosedInv
  <1> SUFFICES ASSUME Init PROVE ClosedInv OBVIOUS
  <1>1. /\ row = [o \in Orders |-> NoRow] /\ fills = {} /\ call = [o \in Orders |-> "none"]
        /\ change = [o \in Orders |-> NoChange] /\ mats = [o \in Orders |-> NoOrder]
        /\ made = {} /\ answer = [o \in Orders |-> {}] /\ wire = {} /\ seq = 1
    BY DEF Init
  <1>2. TapeOK BY <1>1 DEF TapeOK
  <1>3. ASSUME NEW o \in Orders PROVE BookOK(o)
    <2>1. TradesOf(made, o) = {} BY <1>1 DEF TradesOf
    <2>2. /\ mats[o].status = "none" /\ mats[o].filled = 0 /\ mats[o].rem = 0 /\ mats[o].orig = 0
      BY <1>1 DEF NoOrder, Order
    <2>3. Shape(mats[o], Quantity(TradesOf(made, o)))
      BY <2>1, <2>2, SumsEmpty DEF Shape
    <2>4. Unbroken(mats[o]) BY <2>2 DEF Unbroken
    <2> QED BY <2>2, <2>3, <2>4 DEF BookOK
  <1>4. ASSUME NEW o \in Orders PROVE RowOK(o)
    <2>1. Recorded(o) = {} BY <1>1 DEF Recorded, TradesOf
    <2>2. /\ row[o].filled = 0 /\ row[o].rem = 0 /\ row[o].orig = 0 /\ row[o].known = FALSE
          /\ row[o].seq = 0 /\ row[o].reserved = 0
      BY <1>1 DEF NoRow
    <2>3. Fee(0) \in Nat BY FeeType
    <2> QED BY <2>1, <2>2, <2>3 DEF RowOK
  <1>5. \A o \in Orders : change[o].answer = {} BY <1>1 DEF NoChange
  <1> QED BY <1>1, <1>2, <1>3, <1>4, <1>5 DEF ClosedInv

LEMMA ClosedStepOK == IInv /\ ClosedInv /\ [Next]_vars => ClosedInv'
  <1> SUFFICES ASSUME IInv, ClosedInv, [Next]_vars PROVE ClosedInv' OBVIOUS
  <1>1. CASE UNCHANGED vars
    <2>1. UNCHANGED <<row, fills, call, change, mats, made, answer, wire, seq>> BY <1>1 DEF vars
    <2>2. \A o \in Orders : Unamended(o)' => Unamended(o) BY <2>1 DEF Unamended
    <2>3. \A o \in Orders : Reconciled(o)' = Reconciled(o) BY <2>1 DEF Reconciled
    <2> QED BY <2>1, <2>2, <2>3, QuietCloses
  <1>2. CASE Next
    <2>1. ASSUME NEW o \in Orders, NEW side \in Sides, NEW price \in Prices, NEW qty \in Quantities,
                 PlaceOrder(o, side, price, qty)
          PROVE  ClosedInv'
      BY <2>1, PlaceOrderCloses
    <2>2. ASSUME NEW o \in Orders, PlaceAnswered(o) PROVE ClosedInv'
      BY <2>2, PlaceAnsweredCloses
    <2>3. ASSUME NEW o \in Orders, PlaceUnknown(o) PROVE ClosedInv' BY <2>3, PlaceUnknownCloses
    <2>4. ASSUME NEW o \in Orders, Refuse(o) PROVE ClosedInv' BY <2>4, RefuseCloses
    <2>5. ASSUME MatsRestart PROVE ClosedInv' BY <2>5, MatsRestartCloses
    <2>6. ASSUME NEW o \in Orders, Reconcile(o) PROVE ClosedInv' BY <2>6, ReconcileCloses
    <2>7. ASSUME NEW o \in Orders, MatsPlace(o) PROVE ClosedInv' BY <2>7, MatsPlaceCloses
    <2>8. ASSUME NEW o \in Orders, MatsFill(o) PROVE ClosedInv' BY <2>8, MatsFillCloses
    <2>9. ASSUME NEW o \in Orders, MatsExpire(o) PROVE ClosedInv' BY <2>9, MatsExpireCloses
    <2>10. ASSUME NEW o \in Orders, CancelOrder(o) PROVE ClosedInv' BY <2>10, CancelOrderCloses
    <2>11. ASSUME NEW m \in wire, NEW again \in BOOLEAN, Deliver(m, again) PROVE ClosedInv'
      BY <2>11, DeliverCloses
    <2>12. ASSUME NEW o \in Orders, NEW price \in Prices, NEW qty \in Quantities,
                  AmendOrder(o, price, qty)
           PROVE  ClosedInv'
      BY <2>12, AmendOrderCloses
    <2>13. ASSUME NEW o \in Orders, MatsAmend(o) PROVE ClosedInv' BY <2>13, MatsAmendCloses
    <2>14. ASSUME NEW o \in Orders, AmendFails(o) PROVE ClosedInv' BY <2>14, AmendFailsCloses
    <2>15. ASSUME NEW o \in Orders, AmendAnswered(o) PROVE ClosedInv'
      BY <2>15, AmendAnsweredCloses
    <2>16. ASSUME NEW o \in Orders, AmendLocked(o) PROVE ClosedInv' BY <2>16, AmendLockedCloses
    <2>17. ASSUME NEW o \in Orders, AmendSettled(o) PROVE ClosedInv' BY <2>17, AmendSettledCloses
    <2>18. ASSUME NEW o \in Orders, ReconcileAnswered(o) PROVE ClosedInv'
      BY <2>18, ReconcileAnsweredCloses
    <2>19. ASSUME NEW o \in Orders, AmendReserves(o) PROVE ClosedInv' BY <2>19, AmendReservesCloses
    <2> QED BY <1>2, <2>1, <2>2, <2>3, <2>4, <2>5, <2>6, <2>7, <2>8, <2>9, <2>10, <2>11, <2>12,
               <2>13, <2>14, <2>15, <2>16, <2>17, <2>18, <2>19 DEF Next
  <1> QED BY <1>1, <1>2

\* An order that was never amended and ended without its rest, or whose trades
\* are all recorded, holds no more cash, in whatever order its status, its fills
\* and its answers came, and whatever MATS has forgotten; a filled order whose
\* submission was reconciled holds the minimum fee at most (order-service.ts:486-519).
THEOREM ClosedOrdersHoldNothing == Spec => []ClosedHoldsNothing
  <1>1. ClosedInv => ClosedHoldsNothing
    <2> SUFFICES ASSUME ClosedInv, NEW o \in Orders, Unamended(o)
                 PROVE  /\ row[o].status \in Refused => row[o].reserved = 0
                        /\ row[o].status = "filled"
                             /\ Quantity({t \in fills : t.o = o}) = row[o].orig
                           => row[o].reserved <= IF call[o] = "unknown" THEN Fee(0) ELSE 0
      BY DEF ClosedHoldsNothing
    <2>1. RowOK(o) BY ClosedFacts
    <2>2. {t \in fills : t.o = o} = Recorded(o) BY DEF Recorded, TradesOf
    <2>3. row[o].status \in Refused => row[o].reserved = 0 BY <2>1 DEF RowOK
    <2>4. ASSUME row[o].status = "filled", Quantity({t \in fills : t.o = o}) = row[o].orig
          PROVE  row[o].reserved <= IF call[o] = "unknown" THEN Fee(0) ELSE 0
      <3>1. Whole(o) BY <2>2, <2>4 DEF Whole
      <3>2. CASE call[o] = "unknown" BY <2>1, <2>4, <3>1, <3>2 DEF RowOK
      <3>3. CASE call[o] # "unknown"
        <4>1. row[o].reserved = 0 BY <2>1, <3>1, <3>3 DEF RowOK, Reconciled
        <4> QED BY <3>3, <4>1
      <3> QED BY <3>2, <3>3
    <2> QED BY <2>3, <2>4
  <1>2. IInv /\ ClosedInv /\ [Next]_vars => ClosedInv' BY ClosedStepOK
  <1> QED BY <1>1, <1>2, ClosedInitOK, Invariant, PTL DEF Spec

=============================================================================
