------------------------- MODULE OrderServiceProofs --------------------------
(***************************************************************************)
(* The order service for any number of requests, keys, quantities,         *)
(* sessions, failures and restarts: a key buys one order, the rows are the *)
(* book but where a failure or a late copy left them astray, the saved     *)
(* trades are the trades of the engine, and an order gets more than it     *)
(* asked for only after a restart that took up another row.                *)
(*                                                                         *)
(* First what the matching of two queues hands to an order: the stretches  *)
(* of the other queue that overlap its own do not overlap one another.     *)
(* Then the invariant and a lemma for each action.                         *)
(***************************************************************************)
EXTENDS OrderService, SumFacts

TradeRecords == [buy : Requests, sell : Requests, qty : Nat \ {0}]
Gone(order) == order.status = "absent"
-----------------------------------------------------------------------------
(***************************************************************************)
(* Matching.                                                               *)
(***************************************************************************)
LEMMA LeastOfTwo ==
    ASSUME NEW a \in Int, NEW b \in Int
    PROVE  /\ Min({a, b}) = IF a <= b THEN a ELSE b
           /\ Max({a, b}) = IF a <= b THEN b ELSE a
  <1>1. \E x \in {a, b} : \A y \in {a, b} : x <= y OBVIOUS
  <1>2. \E x \in {a, b} : \A y \in {a, b} : x >= y OBVIOUS
  <1>3. Min({a, b}) \in {a, b} /\ \A y \in {a, b} : Min({a, b}) <= y BY <1>1 DEF Min
  <1>4. Max({a, b}) \in {a, b} /\ \A y \in {a, b} : Max({a, b}) >= y BY <1>2 DEF Max
  <1> QED BY <1>3, <1>4

\* The stretches f[1], f[2], ... one after the other overlap a stretch of r
\* shares in no more than r shares: up to the place x no more than the part
\* of the stretch that lies before x.
AreOverlaps(h, f, n, b, r) ==
    \A j \in 1..n : \/ h[j] = 0
                    \/ h[j] = Min({b + r, SumFunctionOnSet(f, 1..(j - 1)) + f[j]})
                              - Max({b, SumFunctionOnSet(f, 1..(j - 1))})

LEMMA OverlapsFit ==
    ASSUME NEW n \in Nat, NEW f \in [1..n -> Nat], NEW h \in [1..n -> Nat],
           NEW b \in Nat, NEW r \in Nat, AreOverlaps(h, f, n, b, r)
    PROVE  SumFunctionOnSet(h, 1..n) <= r
  <1> DEFINE Before(x) == IF x <= b THEN 0 ELSE IF x <= b + r THEN x - b ELSE r
             Upto(m) == SumFunctionOnSet(f, 1..m)
             Got(m) == SumFunctionOnSet(h, 1..m)
             Good == {T \in SUBSET (1..n) : \A m \in 0..n : T = 1..m => Got(m) <= Before(Upto(m))}
  <1>1. \A m \in 0..n : Upto(m) \in Nat /\ Got(m) \in Nat
    <2> TAKE m \in 0..n
    <2>1. PICK S : S = 1..m OBVIOUS
    <2>2. IsFiniteSet(S) BY <2>1, FS_Interval
    <2>3. \A j \in S : f[j] \in Nat /\ h[j] \in Nat BY <2>1
    <2> QED BY <2>1, <2>2, <2>3, SumNat
  <1>2. ASSUME NEW T \in SUBSET (1..n), \A U \in SUBSET T : U # T => U \in Good
        PROVE  T \in Good
    <2> SUFFICES ASSUME NEW m \in 0..n, T = 1..m PROVE Got(m) <= Before(Upto(m))
      OBVIOUS
    <2>1. CASE m = 0
      <3>1. 1..m = {} BY <2>1
      <3>2. Got(m) = 0 /\ Upto(m) = 0 BY <3>1, SumEmpty
      <3> QED BY <3>2
    <2>2. CASE m # 0
      <3>1. PICK k \in 0..n : m = k + 1 BY <2>2
      <3>2. 1..k \in SUBSET T /\ 1..k # T
        <4>1. m \in 1..m /\ m \notin 1..k /\ \A j \in 1..k : j \in 1..m BY <3>1
        <4> QED BY <4>1
      <3>3. Got(k) <= Before(Upto(k)) BY <1>2, <3>1, <3>2
      <3>4. m \in 1..n /\ f[m] \in Nat /\ h[m] \in Nat BY <2>2
      <3>5. Upto(m) = f[m] + Upto(k)
        <4>1. k \in Nat /\ \A j \in 1..(k + 1) : f[j] \in Int BY <3>1
        <4>2. SumFunctionOnSet(f, 1..(k + 1)) = f[k + 1] + SumFunctionOnSet(f, 1..k)
          BY <4>1, SumNext
        <4> QED BY <3>1, <4>2
      <3>6. Got(m) = h[m] + Got(k)
        <4>1. k \in Nat /\ \A j \in 1..(k + 1) : h[j] \in Int BY <3>1
        <4>2. SumFunctionOnSet(h, 1..(k + 1)) = h[k + 1] + SumFunctionOnSet(h, 1..k)
          BY <4>1, SumNext
        <4> QED BY <3>1, <4>2
      <3>7. Upto(k) \in Nat /\ Got(k) \in Nat BY <1>1
      <3>8. m - 1 = k BY <3>1
      <3>9. h[m] = 0 \/ h[m] = Min({b + r, Upto(k) + f[m]}) - Max({b, Upto(k)})
        BY <3>4, <3>8 DEF AreOverlaps
      <3> HIDE DEF Upto, Got
      <3>10. h[m] <= Before(Upto(k) + f[m]) - Before(Upto(k))
        <4>1. CASE h[m] = 0 BY <3>4, <3>7, <4>1
        <4>2. CASE h[m] = Min({b + r, Upto(k) + f[m]}) - Max({b, Upto(k)})
          <5>1. /\ Min({b + r, Upto(k) + f[m]}) = IF b + r <= Upto(k) + f[m] THEN b + r ELSE Upto(k) + f[m]
                /\ Max({b, Upto(k)}) = IF b <= Upto(k) THEN Upto(k) ELSE b
            <6>1. PICK x \in Int, y \in Int, z \in Int :
                    x = b + r /\ y = Upto(k) + f[m] /\ z = Upto(k)
              BY <3>4, <3>7
            <6>2. b \in Int OBVIOUS
            <6>3. /\ Min({x, y}) = IF x <= y THEN x ELSE y
                  /\ Max({b, z}) = IF b <= z THEN z ELSE b
              BY <6>2, LeastOfTwo
            <6> QED BY <6>1, <6>3
          <5> QED BY <3>4, <3>7, <4>2, <5>1
        <4> QED BY <3>9, <4>1, <4>2
      <3> QED BY <3>3, <3>4, <3>5, <3>6, <3>7, <3>10
    <2> QED BY <2>1, <2>2
  <1> HIDE DEF Good
  <1>3. IsFiniteSet(1..n) BY FS_Interval
  <1>4. 1..n \in Good BY <1>2, <1>3, SubsetInduction
  <1>5. Got(n) <= Before(Upto(n)) BY <1>4 DEF Good
  <1>6. Before(Upto(n)) <= r BY <1>1
  <1> QED BY <1>1, <1>5, <1>6

IsQueue(queue) == /\ queue \in Seq(Requests)
                  /\ \A i, j \in 1..Len(queue) : i # j => queue[i] # queue[j]

LEMMA AheadType ==
    ASSUME NEW queue, IsQueue(queue), NEW orders \in [Requests -> Records],
           NEW i \in 1..Len(queue)
    PROVE  /\ Ahead(queue, orders, i) \in Nat
           /\ queue[i] \in Requests /\ orders[queue[i]].rem \in Nat
  <1>1. PICK f : f = [j \in 1..Len(queue) |-> orders[queue[j]].rem] OBVIOUS
  <1>2. Len(queue) \in Nat /\ \A j \in 1..Len(queue) : queue[j] \in Requests BY DEF IsQueue
  <1>3. \A x \in Requests : orders[x].rem \in Nat BY DEF Records
  <1>4. \A j \in 1..Len(queue) : f[j] \in Nat BY <1>1, <1>2, <1>3
  <1>5. PICK S : S = 1..(i - 1) OBVIOUS
  <1>6. S \subseteq 1..Len(queue) BY <1>2, <1>5
  <1>7. IsFiniteSet(S) BY <1>2, <1>5, FS_Interval
  <1>8. SumFunctionOnSet(f, S) \in Nat BY <1>4, <1>6, <1>7, SumNat
  <1> QED BY <1>1, <1>2, <1>3, <1>5, <1>8 DEF Ahead

LEMMA OverlapType ==
    ASSUME NEW buys, IsQueue(buys), NEW sells, IsQueue(sells),
           NEW orders \in [Requests -> Records],
           NEW i \in 1..Len(buys), NEW j \in 1..Len(sells)
    PROVE  Overlap(buys, sells, orders, i, j) \in Int
  <1>1. PICK b \in Nat, x \in Nat : b = Ahead(buys, orders, i) /\ x = orders[buys[i]].rem
    BY AheadType
  <1>2. PICK s \in Nat, y \in Nat : s = Ahead(sells, orders, j) /\ y = orders[sells[j]].rem
    BY AheadType
  <1>3. b + x \in Int /\ s + y \in Int /\ b \in Int /\ s \in Int OBVIOUS
  <1>4. Min({b + x, s + y}) \in Int BY <1>3, LeastOfTwo
  <1>5. Max({b, s}) \in Int BY <1>3, LeastOfTwo
  <1>6. Overlap(buys, sells, orders, i, j) = Min({b + x, s + y}) - Max({b, s})
    BY <1>1, <1>2 DEF Overlap
  <1> QED BY <1>4, <1>5, <1>6

\* The places of two queues that overlap, and the trade of two places.
Meets(buys, sells, orders) ==
    {p \in (1..Len(buys)) \X (1..Len(sells)) : Overlap(buys, sells, orders, p[1], p[2]) > 0}

TradeAt(buys, sells, orders, i, j) ==
    [buy |-> buys[i], sell |-> sells[j], qty |-> Overlap(buys, sells, orders, i, j)]

LEMMA TradesOf ==
    ASSUME NEW buys, NEW sells, NEW orders
    PROVE  /\ \A p \in Meets(buys, sells, orders) :
                TradeAt(buys, sells, orders, p[1], p[2]) \in Trades(buys, sells, orders)
           /\ \A t \in Trades(buys, sells, orders) : \E p \in Meets(buys, sells, orders) :
                t = TradeAt(buys, sells, orders, p[1], p[2])
  BY Zenon DEF Trades, TradeAt, Meets

LEMMA TradesFinite ==
    ASSUME NEW buys, IsQueue(buys), NEW sells, IsQueue(sells),
           NEW orders \in [Requests -> Records],
           NEW T, T = Trades(buys, sells, orders)
    PROVE  IsFiniteSet(T) /\ T \subseteq TradeRecords
  <1> DEFINE P == Meets(buys, sells, orders)
             Of(p) == TradeAt(buys, sells, orders, p[1], p[2])
             e == [p \in P |-> Of(p)]
  <1>1. Len(buys) \in Nat /\ Len(sells) \in Nat BY DEF IsQueue
  <1>2. IsFiniteSet(1..Len(buys)) /\ IsFiniteSet(1..Len(sells)) BY <1>1, FS_Interval
  <1>3. IsFiniteSet((1..Len(buys)) \X (1..Len(sells))) BY <1>2, FS_Product
  <1>4. P \subseteq (1..Len(buys)) \X (1..Len(sells)) BY DEF Meets
  <1>5. IsFiniteSet(P) BY <1>3, <1>4, FS_Subset
  <1>6. (\A p \in P : Of(p) \in T) /\ (\A t \in T : \E p \in P : t = Of(p)) BY TradesOf
  <1>7. ASSUME NEW p \in P PROVE Of(p) \in TradeRecords
    <2>1. PICK i \in 1..Len(buys), j \in 1..Len(sells) : p = <<i, j>> BY <1>4
    <2>2. Overlap(buys, sells, orders, i, j) > 0 BY <2>1 DEF Meets
    <2>3. Overlap(buys, sells, orders, i, j) \in Int BY OverlapType
    <2>4. buys[i] \in Requests /\ sells[j] \in Requests BY AheadType
    <2> QED BY <2>1, <2>2, <2>3, <2>4 DEF TradeAt, TradeRecords
  <1> HIDE DEF P, Of
  <1>8. e \in Surjection(P, T) BY <1>6 DEF Surjection
  <1>9. IsFiniteSet(T) BY <1>5, <1>8, FS_Surjection
  <1> QED BY <1>6, <1>7, <1>9

\* The shares of an order, when its trades can be numbered.
LEMMA SharesNumbered ==
    ASSUME NEW T, NEW o, NEW n \in Nat, NEW h \in [1..n -> Nat],
           NEW J, J = {j \in 1..n : h[j] > 0},
           NEW U, U = {t \in T : o \in {t.buy, t.sell}},
           NEW e, Pairs(e, J, U), \A x \in J : e[x].qty = h[x]
    PROVE  Shares(T, o) \in Nat /\ Shares(T, o) <= SumFunctionOnSet(h, 1..n)
  <1>1. PICK q : q = [t \in T |-> t.qty] OBVIOUS
  <1>2. IsFiniteSet(1..n) BY FS_Interval
  <1>3. J \subseteq 1..n OBVIOUS
  <1>4. IsFiniteSet(J) BY <1>2, <1>3, FS_Subset
  <1>5. Follows(h, q, e, J)
    <2> SUFFICES ASSUME NEW x \in J PROVE h[x] \in Int /\ h[x] = q[e[x]]
      BY DEF Follows
    <2>1. e[x] \in T BY DEF Pairs
    <2> QED BY <1>1, <2>1
  <1>6. SumFunctionOnSet(q, U) = SumFunctionOnSet(h, J) BY <1>4, <1>5, SumImage
  <1>7. \A x \in 1..n : h[x] \in Nat OBVIOUS
  <1>8. /\ SumFunctionOnSet(h, J) \in Nat
        /\ SumFunctionOnSet(h, J) <= SumFunctionOnSet(h, 1..n)
    BY <1>2, <1>3, <1>7, SumPart
  <1>9. Shares(T, o) = SumFunctionOnSet(q, U) BY <1>1 DEF Shares
  <1> QED BY <1>6, <1>8, <1>9

Fits(T, o, order) == Shares(T, o) \in Nat /\ Shares(T, o) <= order.rem

\* A purchase gets no more than it still asks for.
LEMMA BuyerFits ==
    ASSUME NEW buys, IsQueue(buys), NEW sells, IsQueue(sells),
           NEW orders \in [Requests -> Records],
           \A i \in 1..Len(buys), j \in 1..Len(sells) : buys[i] # sells[j],
           NEW T, T = Trades(buys, sells, orders), NEW i \in 1..Len(buys)
    PROVE  Fits(T, buys[i], orders[buys[i]])
  <1> DEFINE n == Len(sells)
             ov(j) == Overlap(buys, sells, orders, i, j)
             f == [j \in 1..n |-> orders[sells[j]].rem]
             h == [j \in 1..n |-> IF ov(j) > 0 THEN ov(j) ELSE 0]
             J == {j \in 1..n : h[j] > 0}
             U == {t \in T : buys[i] \in {t.buy, t.sell}}
             e == [j \in J |-> TradeAt(buys, sells, orders, i, j)]
  <1>1. n \in Nat BY DEF IsQueue
  <1>2. \A j \in 1..n : ov(j) \in Int BY OverlapType
  <1>3. \A j \in 1..n : sells[j] \in Requests /\ orders[sells[j]].rem \in Nat BY AheadType
  <1>4. f \in [1..n -> Nat] BY <1>3
  <1> HIDE DEF n, ov
  <1>5. h \in [1..n -> Nat] BY <1>2
  <1>6. \A j \in J : j \in 1..n /\ ov(j) > 0 /\ h[j] = ov(j) BY <1>2
  <1> HIDE DEF h
  <1>7. \A j \in J : TradeAt(buys, sells, orders, i, j) \in U
    <2> TAKE j \in J
    <2>1. <<i, j>> \in Meets(buys, sells, orders) BY <1>6 DEF Meets, n, ov
    <2>2. TradeAt(buys, sells, orders, i, j) \in T BY <2>1, TradesOf
    <2> QED BY <2>2 DEF TradeAt
  <1>8. \A x, y \in J : e[x] = e[y] => x = y
    BY <1>6 DEF TradeAt, IsQueue, n
  <1>9. \A t \in U : \E x \in J : e[x] = t
    <2> TAKE t \in U
    <2>1. PICK p \in Meets(buys, sells, orders) : t = TradeAt(buys, sells, orders, p[1], p[2])
      BY TradesOf
    <2>2. PICK k \in 1..Len(buys), j \in 1..n : p = <<k, j>> BY DEF Meets, n
    <2>3. t = TradeAt(buys, sells, orders, k, j) BY <2>1, <2>2
    <2>4. t.buy = buys[k] /\ t.sell = sells[j] BY <2>3 DEF TradeAt
    <2>5. buys[k] = buys[i] BY <2>4 DEF n
    <2>6. k = i BY <2>5 DEF IsQueue
    <2>7. ov(j) > 0 BY <2>1, <2>2, <2>6 DEF Meets, ov
    <2>8. j \in J BY <1>2, <2>7 DEF h
    <2> QED BY <2>3, <2>6, <2>8
  <1>10. Pairs(e, J, U) BY <1>7, <1>8, <1>9 DEF Pairs
  <1>11. \A x \in J : e[x].qty = h[x] BY <1>6 DEF TradeAt, ov
  <1> HIDE DEF J, U, e
  <1>12. Shares(T, buys[i]) \in Nat /\ Shares(T, buys[i]) <= SumFunctionOnSet(h, 1..n)
    BY <1>1, <1>5, <1>10, <1>11, SharesNumbered DEF J, U
  <1>13. PICK b \in Nat, r \in Nat : b = Ahead(buys, orders, i) /\ r = orders[buys[i]].rem
    BY AheadType
  <1>14. AreOverlaps(h, f, n, b, r)
    <2> SUFFICES ASSUME NEW j \in 1..n
                 PROVE  \/ h[j] = 0
                        \/ h[j] = Min({b + r, SumFunctionOnSet(f, 1..(j - 1)) + f[j]})
                                  - Max({b, SumFunctionOnSet(f, 1..(j - 1))})
      BY DEF AreOverlaps
    <2>1. h[j] = 0 \/ h[j] = ov(j) BY DEF h
    <2>2. Ahead(sells, orders, j) = SumFunctionOnSet(f, 1..(j - 1)) BY DEF Ahead, n
    <2>3. f[j] = orders[sells[j]].rem OBVIOUS
    <2> QED BY <1>13, <2>1, <2>2, <2>3 DEF ov, Overlap
  <1> HIDE DEF f
  <1>15. SumFunctionOnSet(h, 1..n) <= r BY <1>1, <1>4, <1>5, <1>14, OverlapsFit
  <1>16. SumFunctionOnSet(h, 1..n) \in Nat
    <2>1. IsFiniteSet(1..n) BY <1>1, FS_Interval
    <2>2. \A j \in 1..n : h[j] \in Nat BY <1>5
    <2> QED BY <2>1, <2>2, SumNat
  <1> QED BY <1>12, <1>13, <1>15, <1>16 DEF Fits

\* Nor does a sale.
LEMMA SellerFits ==
    ASSUME NEW buys, IsQueue(buys), NEW sells, IsQueue(sells),
           NEW orders \in [Requests -> Records],
           \A i \in 1..Len(buys), j \in 1..Len(sells) : buys[i] # sells[j],
           NEW T, T = Trades(buys, sells, orders), NEW i \in 1..Len(sells)
    PROVE  Fits(T, sells[i], orders[sells[i]])
  <1> DEFINE n == Len(buys)
             ov(j) == Overlap(buys, sells, orders, j, i)
             f == [j \in 1..n |-> orders[buys[j]].rem]
             h == [j \in 1..n |-> IF ov(j) > 0 THEN ov(j) ELSE 0]
             J == {j \in 1..n : h[j] > 0}
             U == {t \in T : sells[i] \in {t.buy, t.sell}}
             e == [j \in J |-> TradeAt(buys, sells, orders, j, i)]
  <1>1. n \in Nat BY DEF IsQueue
  <1>2. \A j \in 1..n : ov(j) \in Int BY OverlapType
  <1>3. \A j \in 1..n : buys[j] \in Requests /\ orders[buys[j]].rem \in Nat BY AheadType
  <1>4. f \in [1..n -> Nat] BY <1>3
  <1> HIDE DEF n, ov
  <1>5. h \in [1..n -> Nat] BY <1>2
  <1>6. \A j \in J : j \in 1..n /\ ov(j) > 0 /\ h[j] = ov(j) BY <1>2
  <1> HIDE DEF h
  <1>7. \A j \in J : TradeAt(buys, sells, orders, j, i) \in U
    <2> TAKE j \in J
    <2>1. <<j, i>> \in Meets(buys, sells, orders) BY <1>6 DEF Meets, n, ov
    <2>2. TradeAt(buys, sells, orders, j, i) \in T BY <2>1, TradesOf
    <2> QED BY <2>2 DEF TradeAt
  <1>8. \A x, y \in J : e[x] = e[y] => x = y
    BY <1>6 DEF TradeAt, IsQueue, n
  <1>9. \A t \in U : \E x \in J : e[x] = t
    <2> TAKE t \in U
    <2>1. PICK p \in Meets(buys, sells, orders) : t = TradeAt(buys, sells, orders, p[1], p[2])
      BY TradesOf
    <2>2. PICK k \in 1..Len(sells), j \in 1..n : p = <<j, k>> BY DEF Meets, n
    <2>3. t = TradeAt(buys, sells, orders, j, k) BY <2>1, <2>2
    <2>4. t.sell = sells[k] /\ t.buy = buys[j] BY <2>3 DEF TradeAt
    <2>5. sells[k] = sells[i] BY <2>4 DEF n
    <2>6. k = i BY <2>5 DEF IsQueue
    <2>7. ov(j) > 0 BY <2>1, <2>2, <2>6 DEF Meets, ov
    <2>8. j \in J BY <1>2, <2>7 DEF h
    <2> QED BY <2>3, <2>6, <2>8
  <1>10. Pairs(e, J, U) BY <1>7, <1>8, <1>9 DEF Pairs
  <1>11. \A x \in J : e[x].qty = h[x] BY <1>6 DEF TradeAt, ov
  <1> HIDE DEF J, U, e
  <1>12. Shares(T, sells[i]) \in Nat /\ Shares(T, sells[i]) <= SumFunctionOnSet(h, 1..n)
    BY <1>1, <1>5, <1>10, <1>11, SharesNumbered DEF J, U
  <1>13. PICK b \in Nat, r \in Nat : b = Ahead(sells, orders, i) /\ r = orders[sells[i]].rem
    BY AheadType
  <1>14. AreOverlaps(h, f, n, b, r)
    <2> SUFFICES ASSUME NEW j \in 1..n
                 PROVE  \/ h[j] = 0
                        \/ h[j] = Min({b + r, SumFunctionOnSet(f, 1..(j - 1)) + f[j]})
                                  - Max({b, SumFunctionOnSet(f, 1..(j - 1))})
      BY DEF AreOverlaps
    <2>1. h[j] = 0 \/ h[j] = ov(j) BY DEF h
    <2>2. Ahead(buys, orders, j) = SumFunctionOnSet(f, 1..(j - 1)) BY DEF Ahead, n
    <2>3. f[j] = orders[buys[j]].rem OBVIOUS
    <2>4. ov(j) = Min({SumFunctionOnSet(f, 1..(j - 1)) + f[j], b + r})
                  - Max({SumFunctionOnSet(f, 1..(j - 1)), b})
      BY <1>13, <2>2, <2>3 DEF ov, Overlap
    <2>5. \A x, y : {x, y} = {y, x} OBVIOUS
    <2> QED BY <2>1, <2>4, <2>5
  <1> HIDE DEF f
  <1>15. SumFunctionOnSet(h, 1..n) <= r BY <1>1, <1>4, <1>5, <1>14, OverlapsFit
  <1>16. SumFunctionOnSet(h, 1..n) \in Nat
    <2>1. IsFiniteSet(1..n) BY <1>1, FS_Interval
    <2>2. \A j \in 1..n : h[j] \in Nat BY <1>5
    <2> QED BY <2>1, <2>2, SumNat
  <1> QED BY <1>12, <1>13, <1>15, <1>16 DEF Fits

\* No one else trades.
LEMMA OthersNone ==
    ASSUME NEW buys, NEW sells, NEW orders, NEW T, T = Trades(buys, sells, orders),
           NEW o, \A i \in 1..Len(buys) : o # buys[i], \A j \in 1..Len(sells) : o # sells[j]
    PROVE  Shares(T, o) = 0
  <1>1. {t \in T : o \in {t.buy, t.sell}} = {}
    <2> SUFFICES ASSUME NEW t \in T PROVE o # t.buy /\ o # t.sell
      OBVIOUS
    <2>1. PICK p \in Meets(buys, sells, orders) : t = TradeAt(buys, sells, orders, p[1], p[2])
      BY TradesOf
    <2>2. PICK i \in 1..Len(buys), j \in 1..Len(sells) : p = <<i, j>> BY DEF Meets
    <2> QED BY <2>1, <2>2 DEF TradeAt
  <1> QED BY <1>1, SumEmpty DEF Shares

\* What the matching of two queues hands out: finitely many trades, to no
\* order more than it still asks for, to an order in no queue nothing.
Handed(T, orders, S) ==
    /\ IsFiniteSet(T) /\ T \subseteq TradeRecords
    /\ \A o \in Requests : Fits(T, o, orders[o])
    /\ \A o \in Requests \ S : Shares(T, o) = 0

LEMMA Matched ==
    ASSUME NEW buys, IsQueue(buys), NEW sells, IsQueue(sells),
           NEW orders \in [Requests -> Records],
           \A i \in 1..Len(buys), j \in 1..Len(sells) : buys[i] # sells[j],
           NEW S, \A i \in 1..Len(buys) : buys[i] \in S,
           \A j \in 1..Len(sells) : sells[j] \in S,
           NEW T, T = Trades(buys, sells, orders)
    PROVE  Handed(T, orders, S)
  <1>1. IsFiniteSet(T) /\ T \subseteq TradeRecords BY TradesFinite
  <1>2. ASSUME NEW o \in Requests PROVE Fits(T, o, orders[o])
    <2>1. CASE \E i \in 1..Len(buys) : o = buys[i] BY <2>1, BuyerFits
    <2>2. CASE \E j \in 1..Len(sells) : o = sells[j] BY <2>2, SellerFits
    <2>3. CASE /\ \A i \in 1..Len(buys) : o # buys[i]
               /\ \A j \in 1..Len(sells) : o # sells[j]
      <3>1. Shares(T, o) = 0 BY <2>3, OthersNone
      <3>2. orders[o].rem \in Nat BY DEF Records
      <3> QED BY <3>1, <3>2 DEF Fits
    <2> QED BY <2>1, <2>2, <2>3
  <1>3. ASSUME NEW o \in Requests \ S PROVE Shares(T, o) = 0 BY <1>3, OthersNone
  <1> QED BY <1>1, <1>2, <1>3 DEF Handed

LEMMA NothingHanded ==
    ASSUME NEW orders \in [Requests -> Records], NEW S PROVE Handed({}, orders, S)
  <1>1. ASSUME NEW o \in Requests PROVE Shares({}, o) = 0 /\ orders[o].rem \in Nat
    BY SumEmpty DEF Shares, Records
  <1>2. IsFiniteSet({}) BY FS_EmptySet
  <1> QED BY <1>1, <1>2 DEF Handed, Fits

\* The queues of the model.
LEMMA QueuesOf ==
    ASSUME NEW S, S \subseteq Requests, NEW queue \in SetToSeqs(S)
    PROVE  IsQueue(queue) /\ \A i \in 1..Len(queue) : queue[i] \in S
  <1>1. IsFiniteSet(S) BY ServiceAssumption, FS_Subset
  <1>2. PICK n \in Nat : n = Cardinality(S) BY <1>1, FS_CardinalityType
  <1>3. queue \in [1..n -> S] /\ \A i, j \in 1..n : i # j => queue[i] # queue[j]
    BY <1>2 DEF SetToSeqs
  <1>4. queue \in Seq(Requests) /\ Len(queue) = n BY <1>3
  <1> QED BY <1>3, <1>4 DEF IsQueue

LEMMA QueueOfOne ==
    ASSUME NEW r \in Requests
    PROVE  IsQueue(<<r>>) /\ Len(<<r>>) = 1 /\ <<r>>[1] = r
  BY DEF IsQueue
-----------------------------------------------------------------------------
(***************************************************************************)
(* The invariant.  Types come first, with the trades and the copies that   *)
(* the workers hold.                                                       *)
(***************************************************************************)
Types ==
    /\ engine \in [Requests -> Records] /\ rows \in [Requests -> Records]
    /\ tape \in [Requests -> Nat] /\ given \in [Requests -> Nat]
    /\ memo \in [Requests -> Requests \cup {None}]
    /\ segment \in DOMAIN Segments /\ swept \in BOOLEAN
    /\ hand \in [Workers -> Hands] /\ \A w \in Workers : IsFiniteSet(hand[w].trades)
    /\ answer \in [Workers -> Requests \cup {None, Failed}]
    /\ faults \in 0..MaxFaults
    /\ astray \subseteq Requests /\ entered \subseteq Requests /\ misled \subseteq Requests

\* Only who is writing has anything to write, and only of orders that have
\* entered the engine; an order enters once.
Placing == {"match", "collect", "trade"}

HandOK(w) ==
    /\ hand[w].at # "write" => hand[w].copies = {} /\ hand[w].trades = {}
    /\ hand[w].at \in {"submit"} \cup Placing => w \in Requests
    /\ w \in Cancels => hand[w].trades = {}
    /\ \A copy \in hand[w].copies : copy.order \in entered /\ ~Gone(copy.is)

Fresh(r) == hand[r].at \in {"submit"} \cup Placing \/ (hand[r].at = "idle" /\ answer[r] = None)

RequestOK(r) ==
    /\ Fresh(r) => r \notin entered
    /\ hand[r].at \in Placing => ~Gone(rows[r])
    /\ hand[r].at = "write" => r \in entered /\ ~Gone(hand[r].mine) /\ ~Gone(engine[r])

\* What has entered has a row, and nothing else is ever open.
OrderOK(o) ==
    /\ o \in entered => ~Gone(rows[o])
    /\ o \notin entered => engine[o] = Absent /\ given[o] = 0 /\ ~Active(rows[o])
    /\ Gone(engine[o]) => engine[o] = Absent

\* A key names one row, and answers and the memory name it.
Answers(o, k) == ~Gone(rows[o]) /\ Key[o] = k

KeysOK ==
    /\ \A r, s \in Requests : Answers(r, Key[s]) /\ ~Gone(rows[s]) => r = s
    /\ \A k \in Requests : memo[k] # None => memo[k] \in Requests /\ Answers(memo[k], k)
    /\ \A r \in Requests : answer[r] \in Requests => Answers(answer[r], Key[r])

\* An order whose row is not what it is, but for those astray, is at hand
\* somewhere as it is.
Carries(w, o) == \/ \E copy \in hand[w].copies : copy.order = o /\ copy.is = engine[o]
                 \/ w = o /\ hand[w].at = "write" /\ hand[w].mine = engine[o]

RowOK(o) == engine[o] = Absent \/ rows[o] = engine[o] \/ \E w \in Workers : Carries(w, o)

BookOK == \A o \in Requests \ astray : RowOK(o)

\* What an order has traded and what it still asks for come to no more than
\* it asked for; a trade is saved, or at hand, or was lost with a fault.
FillsOK == \A o \in Requests \ misled : given[o] + engine[o].rem <= Qty[o]

Held(hands, o) == SumFunctionOnSet([w \in Workers |-> Shares(hands[w].trades, o)], Workers)

TapeOK == \A o \in Requests : /\ tape[o] + Held(hand, o) <= given[o]
                              /\ faults = 0 => tape[o] + Held(hand, o) = given[o]

ControlOK == /\ \A w \in Workers : HandOK(w)
             /\ \A r \in Requests : RequestOK(r) /\ OrderOK(r)

IInv == Types /\ ControlOK /\ KeysOK /\ BookOK /\ FillsOK /\ TapeOK
-----------------------------------------------------------------------------
LEMMA Roles ==
    /\ Requests \subseteq Workers /\ Cancels \subseteq Workers /\ Daemon \in Workers
    /\ Daemon \notin Requests /\ (\A c \in Cancels : c \notin Requests /\ Target[c] \in Requests)
    /\ None \notin Requests /\ Failed \notin Requests /\ None # Failed
    /\ \A r \in Requests : Key[r] \in Requests /\ Qty[r] \in Nat /\ Qty[r] > 0
    /\ IsFiniteSet(Workers)
  <1>1. IsFiniteSet({Daemon}) BY FS_Singleton
  <1>2. IsFiniteSet(Workers) BY <1>1, ServiceAssumption, FS_Union DEF Workers
  <1>3. \A c \in Cancels : c \notin Requests /\ Target[c] \in Requests BY ServiceAssumption
  <1>4. \A r \in Requests : Key[r] \in Requests /\ Qty[r] \in Nat /\ Qty[r] > 0
    BY ServiceAssumption
  <1>5. None # Failed BY DEF None, Failed
  <1> QED BY <1>2, <1>3, <1>4, <1>5, ServiceAssumption DEF Workers

LEMMA Unfold ==
    ASSUME IInv
    PROVE  /\ engine \in [Requests -> Records] /\ rows \in [Requests -> Records]
           /\ tape \in [Requests -> Nat] /\ given \in [Requests -> Nat]
           /\ memo \in [Requests -> Requests \cup {None}]
           /\ segment \in DOMAIN Segments /\ swept \in BOOLEAN
           /\ hand \in [Workers -> Hands] /\ \A w \in Workers : IsFiniteSet(hand[w].trades)
           /\ answer \in [Workers -> Requests \cup {None, Failed}]
           /\ faults \in Nat /\ faults <= MaxFaults
           /\ astray \subseteq Requests /\ entered \subseteq Requests /\ misled \subseteq Requests
           /\ ControlOK /\ KeysOK /\ BookOK /\ FillsOK /\ TapeOK
  BY ServiceAssumption DEF IInv, Types

LEMMA AbsentType == Absent \in Records /\ Gone(Absent) /\ ~Active(Absent) /\ Absent.rem = 0
  <1>1. "absent" \in Statuses BY DEF Statuses
  <1> QED BY <1>1 DEF Absent, Records, Gone, Active

LEMMA HandFields ==
    ASSUME NEW h \in Hands
    PROVE  /\ h.at \in Stages /\ h.mine \in Records
           /\ h.trades \subseteq TradeRecords
           /\ \A copy \in h.copies : copy.order \in Requests /\ copy.is \in Records
  BY DEF Hands, TradeRecords

LEMMA FreeFields ==
    /\ Free \in Hands /\ Free.at = "idle" /\ Free.copies = {} /\ Free.trades = {}
    /\ Free.mine = Absent /\ IsFiniteSet(Free.trades)
  <1>1. Free.trades = {} /\ IsFiniteSet({}) BY FS_EmptySet DEF Free
  <1> QED BY <1>1, AbsentType DEF Free, Hands, Stages

\* One hand changes.
OneHand(w, h) == /\ h \in Hands /\ IsFiniteSet(h.trades)
                 /\ hand' \in [Workers -> Hands] /\ hand'[w] = h
                 /\ \A v \in Workers \ {w} : hand'[v] = hand[v]

LEMMA Handle ==
    ASSUME IInv, NEW w \in Workers, NEW h \in Hands, IsFiniteSet(h.trades),
           hand' = [hand EXCEPT ![w] = h]
    PROVE  OneHand(w, h)
  <1>1. hand \in [Workers -> Hands] BY Unfold
  <1> QED BY <1>1 DEF OneHand

LEMMA HandleAt ==
    ASSUME IInv, NEW w \in Workers, NEW at \in Stages, Goto(w, at)
    PROVE  \E h : /\ OneHand(w, h) /\ h.at = at /\ h.copies = hand[w].copies
                  /\ h.trades = hand[w].trades /\ h.mine = hand[w].mine
  <1>1. hand[w] \in Hands /\ IsFiniteSet(hand[w].trades) BY Unfold
  <1>2. PICK h : h = [hand[w] EXCEPT !.at = at] OBVIOUS
  <1>3. /\ h \in Hands /\ h.at = at /\ h.copies = hand[w].copies
        /\ h.trades = hand[w].trades /\ h.mine = hand[w].mine
    BY <1>1, <1>2 DEF Hands
  <1>4. hand' = [hand EXCEPT ![w] = h] BY <1>2 DEF Goto
  <1> QED BY <1>1, <1>3, <1>4, Handle

-----------------------------------------------------------------------------
\* The shares of a set of trades, and of all that the workers hold.
LEMMA SharesType ==
    ASSUME NEW T, T \subseteq TradeRecords, IsFiniteSet(T), NEW o
    PROVE  Shares(T, o) \in Nat
  <1>1. PICK U : U = {t \in T : o \in {t.buy, t.sell}} OBVIOUS
  <1>2. IsFiniteSet(U) /\ U \subseteq T BY <1>1, FS_Subset
  <1>3. PICK q : q = [t \in T |-> t.qty] OBVIOUS
  <1>4. \A t \in U : q[t] \in Nat BY <1>2, <1>3 DEF TradeRecords
  <1>5. SumFunctionOnSet(q, U) \in Nat BY <1>2, <1>4, SumNat
  <1> QED BY <1>1, <1>3, <1>5 DEF Shares

LEMMA SharesNone == ASSUME NEW o PROVE Shares({}, o) = 0
  <1>1. {t \in {} : o \in {t.buy, t.sell}} = {} OBVIOUS
  <1> QED BY <1>1, SumEmpty DEF Shares

LEMMA SharesSplit ==
    ASSUME NEW T, T \subseteq TradeRecords, IsFiniteSet(T), NEW o, NEW t \in T
    PROVE  Shares(T, o) = Shares({t}, o) + Shares(T \ {t}, o)
  <1> DEFINE Of(S) == {u \in S : o \in {u.buy, u.sell}}
             q(S) == [u \in S |-> u.qty]
  <1>1. PICK R : R = T \ {t} OBVIOUS
  <1>2. /\ IsFiniteSet(R) /\ IsFiniteSet({t}) /\ R \subseteq T BY <1>1, FS_Subset, FS_Singleton
  <1>3. /\ IsFiniteSet(Of(R)) /\ IsFiniteSet(Of({t})) /\ Of(R) \cap Of({t}) = {}
        /\ Of(R) \cup Of({t}) = Of(T)
    BY <1>1, <1>2, FS_Subset
  <1>4. \A u \in Of(T) : q(T)[u] \in Int BY DEF TradeRecords
  <1>5. /\ \A u \in Of(R) : q(T)[u] = q(R)[u]
        /\ \A u \in Of({t}) : q(T)[u] = q({t})[u]
    BY <1>1
  <1> HIDE DEF Of, q
  <1>6. SumFunctionOnSet(q(T), Of(R)) = SumFunctionOnSet(q(R), Of(R)) BY <1>3, <1>5, SumAgree
  <1>7. SumFunctionOnSet(q(T), Of({t})) = SumFunctionOnSet(q({t}), Of({t}))
    BY <1>3, <1>5, SumAgree
  <1>8. SumFunctionOnSet(q(T), Of(R) \cup Of({t}))
          = SumFunctionOnSet(q(T), Of(R)) + SumFunctionOnSet(q(T), Of({t}))
    BY <1>3, <1>4, SumUnion
  <1>9. Shares(T, o) = Shares(R, o) + Shares({t}, o)
    BY <1>3, <1>6, <1>7, <1>8 DEF Shares, Of, q
  <1>10. Shares(R, o) \in Nat /\ Shares({t}, o) \in Nat BY <1>2, SharesType
  <1> QED BY <1>1, <1>9, <1>10

LEMMA HeldType ==
    ASSUME NEW H, \A w \in Workers : H[w].trades \subseteq TradeRecords /\ IsFiniteSet(H[w].trades),
           NEW o
    PROVE  Held(H, o) \in Nat
  <1>1. PICK f : f = [w \in Workers |-> Shares(H[w].trades, o)] OBVIOUS
  <1>2. \A w \in Workers : f[w] \in Nat BY <1>1, SharesType
  <1>3. SumFunctionOnSet(f, Workers) \in Nat BY <1>2, Roles, SumNat
  <1> QED BY <1>1, <1>3 DEF Held

LEMMA HeldChange ==
    ASSUME NEW H, \A w \in Workers : H[w].trades \subseteq TradeRecords /\ IsFiniteSet(H[w].trades),
           NEW G, \A w \in Workers : G[w].trades \subseteq TradeRecords /\ IsFiniteSet(G[w].trades),
           NEW w \in Workers, \A v \in Workers \ {w} : G[v].trades = H[v].trades, NEW o
    PROVE  Held(G, o) = (Held(H, o) - Shares(H[w].trades, o)) + Shares(G[w].trades, o)
  <1>1. PICK f : f = [v \in Workers |-> Shares(H[v].trades, o)] OBVIOUS
  <1>2. PICK g : g = [v \in Workers |-> Shares(G[v].trades, o)] OBVIOUS
  <1>3. \A v \in Workers : f[v] \in Int /\ g[v] \in Int
    <2> TAKE v \in Workers
    <2>1. Shares(H[v].trades, o) \in Nat BY SharesType
    <2>2. Shares(G[v].trades, o) \in Nat BY SharesType
    <2> QED BY <1>1, <1>2, <2>1, <2>2
  <1>4. \A v \in Workers \ {w} : f[v] = g[v] BY <1>1, <1>2
  <1>5. IsFiniteSet(Workers) BY Roles
  <1>6. SumFunctionOnSet(g, Workers) = (SumFunctionOnSet(f, Workers) - f[w]) + g[w]
    BY <1>3, <1>4, <1>5, SumChange
  <1> QED BY <1>1, <1>2, <1>6 DEF Held

LEMMA HandHeld ==
    ASSUME IInv, NEW w \in Workers, NEW h, OneHand(w, h), NEW o
    PROVE  /\ Held(hand', o) = (Held(hand, o) - Shares(hand[w].trades, o)) + Shares(h.trades, o)
           /\ Held(hand, o) \in Nat /\ Held(hand', o) \in Nat
           /\ Shares(hand[w].trades, o) \in Nat /\ Shares(h.trades, o) \in Nat
  <1>1. \A v \in Workers : hand[v].trades \subseteq TradeRecords /\ IsFiniteSet(hand[v].trades)
    BY Unfold, HandFields
  <1>2. \A v \in Workers : hand'[v] \in Hands /\ IsFiniteSet(hand'[v].trades)
    BY <1>1 DEF OneHand
  <1>3. \A v \in Workers : hand'[v].trades \subseteq TradeRecords /\ IsFiniteSet(hand'[v].trades)
    BY <1>2, HandFields
  <1>4. \A v \in Workers \ {w} : hand'[v].trades = hand[v].trades BY DEF OneHand
  <1>5. hand'[w].trades = h.trades BY DEF OneHand
  <1>6. Held(hand', o) = (Held(hand, o) - Shares(hand[w].trades, o)) + Shares(hand'[w].trades, o)
    BY <1>1, <1>3, <1>4, HeldChange
  <1>7. Held(hand, o) \in Nat BY <1>1, HeldType
  <1>8. Held(hand', o) \in Nat BY <1>3, HeldType
  <1> QED BY <1>1, <1>3, <1>5, <1>6, <1>7, <1>8, SharesType
-----------------------------------------------------------------------------
(***************************************************************************)
(* Steps that only ask, look or finish: one hand with nothing in it        *)
(* changes, and an answer.                                                 *)
(***************************************************************************)
book == <<engine, rows, tape, given, entered, misled, faults, astray>>

Says(w) == /\ answer' \in [Workers -> Requests \cup {None, Failed}]
           /\ \A v \in Workers \ {w} : answer'[v] = answer[v]
           /\ w \in Requests /\ answer'[w] \in Requests => Answers(answer'[w], Key[w])

Remembers == /\ memo' \in [Requests -> Requests \cup {None}]
             /\ \A k \in Requests : memo'[k] # None => memo'[k] \in Requests /\ Answers(memo'[k], k)

Empty(h) == h.copies = {} /\ h.trades = {}

LEMMA SaysNothing == ASSUME IInv, NEW w \in Workers, answer' = answer PROVE Says(w)
  BY Unfold DEF Says, KeysOK

LEMMA SaysResult ==
    ASSUME IInv, NEW w \in Workers, NEW a, answer' = [answer EXCEPT ![w] = a],
           a \in Requests \cup {None, Failed}, w \in Requests /\ a \in Requests => Answers(a, Key[w])
    PROVE  Says(w) /\ answer'[w] = a
  <1>1. answer \in [Workers -> Requests \cup {None, Failed}] BY Unfold
  <1> QED BY <1>1 DEF Says

LEMMA RemembersSame == ASSUME IInv, memo' = memo PROVE Remembers
  BY Unfold DEF Remembers, KeysOK

LEMMA RemembersRow ==
    ASSUME IInv, NEW k \in Requests, NEW o \in Requests, Answers(o, k),
           memo' = [memo EXCEPT ![k] = o]
    PROVE  Remembers
  <1>1. memo \in [Requests -> Requests \cup {None}] BY Unfold
  <1>2. \A j \in Requests : memo[j] # None => memo[j] \in Requests /\ Answers(memo[j], j)
    BY Unfold DEF KeysOK
  <1>3. memo' \in [Requests -> Requests \cup {None}] /\ memo'[k] = o
        /\ \A j \in Requests \ {k} : memo'[j] = memo[j]
    BY <1>1
  <1> QED BY <1>2, <1>3 DEF Remembers

LEMMA QuietStep ==
    ASSUME IInv, NEW w \in Workers, NEW h, OneHand(w, h), UNCHANGED book,
           Empty(h), Empty(hand[w]), hand[w].at = "write" \/ h.at = "write" => w \notin Requests,
           h.at \in {"submit"} \cup Placing => w \in Requests,
           h.at \in Placing => hand[w].at \in Placing,
           w \in Requests /\ (h.at = "submit" \/ answer'[w] = None) => w \notin entered,
           Says(w), Remembers, segment' \in DOMAIN Segments, swept' \in BOOLEAN
    PROVE  IInv'
  <1>1. Types'
    <2>1. \A v \in Workers : IsFiniteSet(hand'[v].trades) BY Unfold DEF OneHand
    <2> QED BY <2>1 DEF IInv, Types, book, OneHand, Says, Remembers
  <1>2. ControlOK'
    <2>1. ControlOK BY Unfold
    <2>2. ASSUME NEW v \in Workers PROVE HandOK(v)'
      <3>1. CASE v = w BY <3>1 DEF HandOK, OneHand, Empty, book
      <3>2. CASE v # w
        <4>1. HandOK(v) BY <2>1 DEF ControlOK
        <4>2. hand'[v] = hand[v] BY <3>2 DEF OneHand
        <4> QED BY <4>1, <4>2 DEF HandOK, book
      <3> QED BY <3>1, <3>2
    <2>3. ASSUME NEW r \in Requests PROVE RequestOK(r)'
      <3>1. r \in Workers BY Roles
      <3>2. CASE r = w
        <4>1. hand'[r] = h BY <3>2 DEF OneHand
        <4>2. h.at # "write" BY <3>2
        <4>3. RequestOK(r) BY <2>1 DEF ControlOK
        <4>4. h.at \in Placing => r \notin entered /\ ~Gone(rows[r])
          BY <3>2, <4>3 DEF RequestOK, Fresh
        <4>5. h.at = "idle" \/ h.at = "submit" \/ h.at \in Placing
          BY <4>2, HandFields DEF OneHand, Stages, Placing
        <4>6. Fresh(r)' => r \notin entered BY <3>2, <4>1, <4>4, <4>5 DEF Fresh
        <4> QED BY <4>1, <4>2, <4>4, <4>6 DEF RequestOK, book
      <3>3. CASE r # w
        <4>1. RequestOK(r) BY <2>1 DEF ControlOK
        <4>2. hand'[r] = hand[r] /\ answer'[r] = answer[r] BY <3>1, <3>3 DEF OneHand, Says
        <4> QED BY <4>1, <4>2 DEF RequestOK, Fresh, book
      <3> QED BY <3>2, <3>3
    <2>4. ASSUME NEW o \in Requests PROVE OrderOK(o)'
      BY <2>1 DEF ControlOK, OrderOK, book
    <2> QED BY <2>2, <2>3, <2>4 DEF ControlOK
  <1>3. KeysOK'
    <2>1. KeysOK BY Unfold
    <2>2. ASSUME NEW r \in Requests, answer'[r] \in Requests PROVE Answers(answer'[r], Key[r])
      <3>1. r \in Workers BY Roles
      <3> QED BY <2>1, <2>2, <3>1 DEF Says, KeysOK
    <2>3. rows' = rows BY DEF book
    <2> QED BY <2>1, <2>2, <2>3 DEF KeysOK, Answers, Remembers
  <1>4. BookOK'
    <2> SUFFICES ASSUME NEW o \in Requests \ astray PROVE RowOK(o)'
      BY DEF BookOK, book
    <2>1. RowOK(o) BY Unfold DEF BookOK
    <2>2. ASSUME NEW v \in Workers, Carries(v, o) PROVE Carries(v, o)'
      <3>1. v # w BY <2>2 DEF Carries, Empty
      <3>2. hand'[v] = hand[v] BY <3>1 DEF OneHand
      <3> QED BY <2>2, <3>2 DEF Carries, book
    <2> QED BY <2>1, <2>2 DEF RowOK, book
  <1>5. FillsOK' BY Unfold DEF FillsOK, book
  <1>6. TapeOK'
    <2> SUFFICES ASSUME NEW o \in Requests
                 PROVE  Held(hand', o) = Held(hand, o)
      BY Unfold DEF TapeOK, book
    <2>1. Shares(hand[w].trades, o) = 0 /\ Shares(h.trades, o) = 0 BY SharesNone DEF Empty
    <2> QED BY <2>1, HandHeld
  <1> QED BY <1>1, <1>2, <1>3, <1>4, <1>5, <1>6 DEF IInv

\* Who is not writing has nothing in hand.
LEMMA IdleEmpty ==
    ASSUME IInv, NEW w \in Workers, hand[w].at # "write" PROVE Empty(hand[w])
  <1>1. HandOK(w) BY Unfold DEF ControlOK
  <1> QED BY <1>1 DEF HandOK, Empty

LEMMA LookStep == ASSUME IInv, NEW r \in Requests, Look(r) PROVE IInv'
  <1>1. r \in Workers /\ Key[r] \in Requests /\ r \notin Cancels BY Roles
  <1>2. /\ hand[r].at = "idle" /\ answer[r] = None /\ UNCHANGED book
        /\ segment' = segment /\ swept' = swept
    BY <1>1 DEF Look, Asks, At, engineVars, daemonVars, faultVars, book
  <1>3. Empty(hand[r]) BY <1>1, <1>2, IdleEmpty
  <1>4. segment' \in DOMAIN Segments /\ swept' \in BOOLEAN BY <1>2, Unfold
  <1>5. KeysOK /\ RequestOK(r) BY Unfold DEF ControlOK
  <1>6. r \notin entered BY <1>2, <1>5 DEF RequestOK, Fresh
  <1>7. CASE \E o \in Requests : /\ Answers(o, Key[r]) /\ Ends(r, o)
                                 /\ memo' = memo \/ memo' = [memo EXCEPT ![Key[r]] = o]
    <2>1. PICK o \in Requests : /\ Answers(o, Key[r]) /\ Ends(r, o)
                                /\ memo' = memo \/ memo' = [memo EXCEPT ![Key[r]] = o]
      BY <1>7
    <2>2. OneHand(r, Free) BY <1>1, <2>1, FreeFields, Handle DEF Ends
    <2>3. Says(r) /\ answer'[r] = o BY <1>1, <2>1, SaysResult DEF Ends
    <2>4. Remembers BY <1>1, <2>1, RemembersSame, RemembersRow
    <2> QED BY <1>1, <1>2, <1>3, <1>4, <2>2, <2>3, <2>4, FreeFields, Roles, QuietStep DEF Empty
  <1>8. CASE Goto(r, "submit") /\ UNCHANGED <<memo, answer>>
    <2>1. PICK h : /\ OneHand(r, h) /\ h.at = "submit" /\ h.copies = hand[r].copies
                   /\ h.trades = hand[r].trades
      BY <1>1, <1>8, HandleAt DEF Stages
    <2>2. Empty(h) BY <1>3, <2>1 DEF Empty
    <2>3. Says(r) BY <1>1, <1>8, SaysNothing
    <2>4. Remembers BY <1>8, RemembersSame
    <2> QED BY <1>1, <1>2, <1>3, <1>4, <1>6, <2>1, <2>2, <2>3, <2>4, QuietStep DEF Placing
  <1>9. CASE memo[Key[r]] # None /\ Ends(r, memo[Key[r]]) /\ UNCHANGED memo
    BY <1>1, <1>5, <1>7, <1>9 DEF KeysOK
  <1>10. CASE \E o \in RowsOf(Key[r]) : Ends(r, o) /\ memo' = [memo EXCEPT ![Key[r]] = o]
    BY <1>7, <1>10 DEF RowsOf, Answers, Gone
  <1> QED BY <1>8, <1>9, <1>10 DEF Look

LEMMA CancelAnswerStep == ASSUME IInv, NEW c \in Cancels, CancelAnswer(c) PROVE IInv'
  <1>1. c \in Workers /\ c \notin Requests /\ Target[c] \in Requests BY Roles
  <1>2. /\ hand[c].at = "write" /\ hand[c].copies = {} /\ UNCHANGED book /\ Ends(c, Target[c])
        /\ segment' = segment /\ swept' = swept /\ memo' = memo
    BY DEF CancelAnswer, At, engineVars, daemonVars, faultVars, book
  <1>3. Empty(hand[c])
    <2>1. HandOK(c) BY <1>1, Unfold DEF ControlOK
    <2> QED BY <1>1, <1>2, <2>1 DEF Empty, HandOK
  <1>4. segment' \in DOMAIN Segments /\ swept' \in BOOLEAN BY <1>2, Unfold
  <1>5. OneHand(c, Free) BY <1>1, <1>2, FreeFields, Handle DEF Ends
  <1>6. Says(c) BY <1>1, <1>2, SaysResult DEF Ends
  <1>7. Remembers BY <1>2, RemembersSame
  <1> QED BY <1>1, <1>2, <1>3, <1>4, <1>5, <1>6, <1>7, FreeFields, QuietStep DEF Empty, Placing

LEMMA SweptStep == ASSUME IInv, Swept PROVE IInv'
  <1>1. Daemon \in Workers /\ Daemon \notin Requests BY Roles
  <1>2. /\ Empty(hand[Daemon]) /\ UNCHANGED book /\ hand' = [hand EXCEPT ![Daemon] = Free]
        /\ segment' = segment /\ swept' = swept /\ memo' = memo /\ answer' = answer
    BY DEF Swept, At, engineVars, daemonVars, faultVars, book, Empty
  <1>3. segment' \in DOMAIN Segments /\ swept' \in BOOLEAN BY <1>2, Unfold
  <1>4. OneHand(Daemon, Free) BY <1>1, <1>2, FreeFields, Handle
  <1>5. Says(Daemon) /\ Remembers BY <1>1, <1>2, SaysNothing, RemembersSame
  <1> QED BY <1>1, <1>2, <1>3, <1>4, <1>5, FreeFields, QuietStep DEF Empty, Placing

LEMMA AdvanceStep == ASSUME IInv, Advance PROVE IInv'
  <1>1. Daemon \in Workers /\ Daemon \notin Requests BY Roles
  <1>2. /\ hand[Daemon].at = "idle" /\ UNCHANGED book /\ hand' = hand
        /\ segment < Len(Segments) /\ segment' = segment + 1 /\ swept' = FALSE
        /\ memo' = memo /\ answer' = answer
    BY DEF Advance, At, engineVars, faultVars, book
  <1>3. segment' \in DOMAIN Segments
    <2>1. Segments \in Seq({"auction", "continuous", "frozen", "closed"}) BY ServiceAssumption
    <2>2. segment \in DOMAIN Segments BY Unfold
    <2> QED BY <1>2, <2>1, <2>2
  <1>4. Empty(hand[Daemon]) BY <1>1, <1>2, IdleEmpty
  <1>5. OneHand(Daemon, hand[Daemon])
    <2>1. hand \in [Workers -> Hands] /\ IsFiniteSet(hand[Daemon].trades) BY <1>1, Unfold
    <2> QED BY <1>1, <1>2, <2>1 DEF OneHand
  <1>6. Says(Daemon) /\ Remembers BY <1>1, <1>2, SaysNothing, RemembersSame
  <1> QED BY <1>1, <1>2, <1>3, <1>4, <1>5, <1>6, QuietStep DEF Placing

-----------------------------------------------------------------------------
(***************************************************************************)
(* What steps that change one hand keep, part by part.                     *)
(***************************************************************************)
LEMMA ControlStep ==
    ASSUME IInv, NEW w \in Workers, NEW h, OneHand(w, h),
           entered \subseteq entered', \A r \in Requests \ {w} : r \in entered' => r \in entered,
           HandOK(w)', w \in Requests => RequestOK(w)', Says(w),
           \A o \in Requests : Gone(rows'[o]) => Gone(rows[o]),
           \A o \in Requests : Gone(engine'[o]) => Gone(engine[o]),
           \A o \in Requests : OrderOK(o)'
    PROVE  ControlOK'
  <1>1. ControlOK BY Unfold
  <1>2. ASSUME NEW v \in Workers, v # w PROVE HandOK(v)'
    <2>1. HandOK(v) /\ hand'[v] = hand[v] BY <1>1, <1>2 DEF ControlOK, OneHand
    <2> QED BY <2>1 DEF HandOK
  <1>3. ASSUME NEW r \in Requests, r # w PROVE RequestOK(r)'
    <2>1. RequestOK(r) /\ r \in Workers BY <1>1, Roles DEF ControlOK
    <2>2. hand'[r] = hand[r] /\ answer'[r] = answer[r] BY <1>3, <2>1 DEF OneHand, Says
    <2>3. Gone(rows'[r]) => Gone(rows[r]) OBVIOUS
    <2>4. Gone(engine'[r]) => Gone(engine[r]) OBVIOUS
    <2> QED BY <1>3, <2>1, <2>2, <2>3, <2>4 DEF RequestOK, Fresh
  <1> QED BY <1>2, <1>3 DEF ControlOK

LEMMA KeysStep ==
    ASSUME IInv, NEW w \in Workers, Says(w), Remembers,
           \A o \in Requests : Gone(rows'[o]) <=> Gone(rows[o])
    PROVE  KeysOK'
  <1>1. KeysOK BY Unfold
  <1>2. \A o \in Requests : Gone(rows'[o]) <=> Gone(rows[o]) OBVIOUS
  <1>3. ASSUME NEW r \in Requests, answer'[r] \in Requests PROVE Answers(answer'[r], Key[r])
    <2>1. r \in Workers BY Roles
    <2> QED BY <1>1, <1>3, <2>1 DEF Says, KeysOK
  <1>4. \A r \in Requests : Key[r] \in Requests BY Roles
  <1>5. \A r, s \in Requests : ~Gone(rows'[r]) /\ ~Gone(rows'[s]) /\ Key[r] = Key[s] => r = s
    BY <1>1, <1>2, <1>4 DEF KeysOK, Answers
  <1>6. \A k \in Requests :
          memo'[k] # None => memo'[k] \in Requests /\ ~Gone(rows'[memo'[k]]) /\ Key[memo'[k]] = k
    BY DEF Remembers, Answers
  <1>7. \A r \in Requests :
          answer'[r] \in Requests => ~Gone(rows'[answer'[r]]) /\ Key[answer'[r]] = Key[r]
    BY <1>3 DEF Answers
  <1> QED BY <1>5, <1>6, <1>7 DEF KeysOK, Answers

LEMMA TapeStep ==
    ASSUME IInv, NEW w \in Workers, NEW h, OneHand(w, h), h.trades = hand[w].trades,
           UNCHANGED <<tape, given, faults>>
    PROVE  TapeOK'
  <1> SUFFICES ASSUME NEW o \in Requests PROVE Held(hand', o) = Held(hand, o)
    BY Unfold DEF TapeOK
  <1> QED BY HandHeld

LEMMA FillsStep ==
    ASSUME IInv, given' = given, misled' = misled, engine' \in [Requests -> Records],
           \A o \in Requests : engine'[o].rem <= engine[o].rem
    PROVE  FillsOK'
  <1> SUFFICES ASSUME NEW o \in Requests \ misled
               PROVE  given[o] + engine'[o].rem <= Qty[o]
    BY DEF FillsOK
  <1>1. given[o] + engine[o].rem <= Qty[o] BY Unfold DEF FillsOK
  <1>2. engine[o] \in Records /\ engine'[o] \in Records /\ given[o] \in Nat BY Unfold
  <1>3. engine[o].rem \in Nat /\ engine'[o].rem \in Nat /\ Qty[o] \in Nat
    BY <1>2, Roles DEF Records
  <1> QED BY <1>1, <1>2, <1>3

LEMMA TypesStep ==
    ASSUME IInv, NEW w \in Workers, NEW h, OneHand(w, h), Says(w), Remembers,
           engine' \in [Requests -> Records], rows' \in [Requests -> Records],
           tape' \in [Requests -> Nat], given' \in [Requests -> Nat],
           segment' \in DOMAIN Segments, swept' \in BOOLEAN, faults' \in 0..MaxFaults,
           astray' \subseteq Requests, entered' \subseteq Requests, misled' \subseteq Requests
    PROVE  Types'
  <1>1. \A v \in Workers : IsFiniteSet(hand'[v].trades) BY Unfold DEF OneHand
  <1> QED BY <1>1 DEF Types, OneHand, Says, Remembers

-----------------------------------------------------------------------------
(***************************************************************************)
(* Writing.                                                                *)
(***************************************************************************)
LEMMA PutRow ==
    ASSUME IInv, NEW o \in Requests, NEW is \in Records, Put(o, is)
    PROVE  /\ rows' \in [Requests -> Records] /\ rows'[o] = is
           /\ \A p \in Requests \ {o} : rows'[p] = rows[p] /\ (p \in astray' => p \in astray)
                                        /\ (p \in astray => p \in astray')
           /\ astray' \subseteq Requests
           /\ is # engine[o] /\ rows[o] = engine[o] => o \in astray'
           /\ is # engine[o] /\ o \in astray => o \in astray'
  <1>1. rows \in [Requests -> Records] /\ astray \subseteq Requests BY Unfold
  <1>2. rows' = [rows EXCEPT ![o] = is] BY DEF Put
  <1>3. CASE is = engine[o]
    <2>1. astray' = astray \ {o} BY <1>3 DEF Put
    <2> QED BY <1>1, <1>2, <1>3, <2>1
  <1>4. CASE is # engine[o] /\ rows[o] = engine[o]
    <2>1. astray' = astray \cup {o} BY <1>4 DEF Put
    <2> QED BY <1>1, <1>2, <1>4, <2>1
  <1>5. CASE is # engine[o] /\ rows[o] # engine[o]
    <2>1. astray' = astray BY <1>5 DEF Put
    <2> QED BY <1>1, <1>2, <1>5, <2>1
  <1> QED BY <1>3, <1>4, <1>5

LEMMA WriteCopyStep == ASSUME IInv, NEW w \in Workers, WriteCopy(w) PROVE IInv'
  <1>1. PICK copy \in hand[w].copies :
          /\ Put(copy.order, copy.is)
          /\ hand' = [hand EXCEPT ![w].copies = @ \ {copy}]
    BY DEF WriteCopy
  <1>2. /\ hand[w].at = "write" /\ UNCHANGED <<engine, entered, given, tape, memo, segment, swept,
                                               answer, faults, misled>>
    BY DEF WriteCopy, At, engineVars, daemonVars, faultVars
  <1>3. PICK o, is : o = copy.order /\ is = copy.is OBVIOUS
  <1>4. hand[w] \in Hands /\ IsFiniteSet(hand[w].trades) BY Unfold
  <1>5. o \in Requests /\ is \in Records BY <1>1, <1>3, <1>4, HandFields
  <1>6. HandOK(w) /\ \A r \in Requests : RequestOK(r) /\ OrderOK(r) BY Unfold DEF ControlOK
  <1>7. o \in entered /\ ~Gone(is) /\ ~Gone(rows[o]) BY <1>3, <1>5, <1>6 DEF HandOK, OrderOK
  <1>8. PICK h : h = [hand[w] EXCEPT !.copies = @ \ {copy}] OBVIOUS
  <1>9. /\ h \in Hands /\ h.at = hand[w].at /\ h.copies = hand[w].copies \ {copy}
        /\ h.trades = hand[w].trades /\ h.mine = hand[w].mine
    BY <1>4, <1>8 DEF Hands
  <1>10. OneHand(w, h)
    <2>1. hand' = [hand EXCEPT ![w] = h] BY <1>1, <1>8
    <2> QED BY <1>4, <1>9, <2>1, Handle
  <1>11. Put(o, is) BY <1>1, <1>3
  <1>12. /\ rows' \in [Requests -> Records] /\ rows'[o] = is /\ astray' \subseteq Requests
         /\ \A p \in Requests \ {o} : rows'[p] = rows[p]
    BY <1>5, <1>11, PutRow
  <1>13. \A p \in Requests : Gone(rows'[p]) <=> Gone(rows[p]) BY <1>7, <1>12
  <1>14. Says(w) /\ Remembers BY <1>2, SaysNothing, RemembersSame
  <1>15. Types' BY <1>2, <1>10, <1>12, <1>14, Unfold, TypesStep DEF IInv, Types
  <1>16. ControlOK'
    <2>1. HandOK(w)' BY <1>2, <1>6, <1>9, <1>10 DEF HandOK, OneHand
    <2>2. w \in Requests => RequestOK(w)'
      <3>1. hand'[w] = h BY <1>10 DEF OneHand
      <3> QED BY <1>2, <1>6, <1>9, <1>13, <3>1 DEF RequestOK, Fresh
    <2>3. ASSUME NEW p \in Requests PROVE OrderOK(p)'
      <3>1. CASE p = o BY <1>2, <1>6, <1>7, <1>12, <3>1 DEF OrderOK
      <3>2. CASE p # o BY <1>2, <1>6, <1>12, <3>2 DEF OrderOK
      <3> QED BY <3>1, <3>2
    <2> QED BY <1>2, <1>10, <1>13, <1>14, <2>1, <2>2, <2>3, ControlStep
  <1>17. KeysOK' BY <1>13, <1>14, KeysStep
  <1>18. BookOK'
    <2> SUFFICES ASSUME NEW p \in Requests, p \notin astray' PROVE RowOK(p)'
      BY DEF BookOK
    <2>1. ASSUME p \notin astray, p # o \/ is # engine[o], NEW v \in Workers, Carries(v, p)
          PROVE  Carries(v, p)'
      <3>1. CASE v = w
        <4>1. hand'[w] = h BY <1>10 DEF OneHand
        <4> QED BY <1>2, <1>3, <1>9, <2>1, <3>1, <4>1 DEF Carries
      <3>2. CASE v # w
        <4>1. hand'[v] = hand[v] BY <1>10, <3>2 DEF OneHand
        <4> QED BY <1>2, <2>1, <4>1 DEF Carries
      <3> QED BY <3>1, <3>2
    <2>2. CASE p # o
      <3>1. p \notin astray /\ rows'[p] = rows[p] BY <1>5, <1>11, <2>2, PutRow
      <3>2. RowOK(p) BY <3>1, Unfold DEF BookOK
      <3> QED BY <1>2, <2>1, <2>2, <3>1, <3>2 DEF RowOK
    <2>3. CASE p = o /\ is = engine[o] BY <1>2, <1>12, <2>3 DEF RowOK
    <2>4. CASE p = o /\ is # engine[o]
      <3>1. p \notin astray /\ rows[o] # engine[o] BY <1>5, <1>11, <2>4, PutRow
      <3>2. RowOK(p) BY <3>1, Unfold DEF BookOK
      <3> QED BY <1>2, <2>1, <2>4, <3>1, <3>2 DEF RowOK
    <2> QED BY <2>2, <2>3, <2>4
  <1>19. FillsOK'
    <2>1. ASSUME NEW p \in Requests PROVE engine[p].rem \in Nat BY Unfold DEF Records
    <2>2. \A p \in Requests : engine'[p].rem <= engine[p].rem BY <1>2, <2>1
    <2>3. engine' \in [Requests -> Records] BY <1>2, Unfold
    <2> QED BY <1>2, <2>2, <2>3, FillsStep
  <1>20. TapeOK' BY <1>2, <1>9, <1>10, TapeStep
  <1> QED BY <1>15, <1>16, <1>17, <1>18, <1>19, <1>20 DEF IInv

LEMMA SaveTradeStep == ASSUME IInv, NEW w \in Workers, SaveTrade(w) PROVE IInv'
  <1>1. PICK t \in hand[w].trades :
          /\ tape' = [o \in Requests |-> tape[o] + Shares({t}, o)]
          /\ hand' = [hand EXCEPT ![w].trades = @ \ {t}]
    BY DEF SaveTrade
  <1>2. /\ hand[w].at = "write"
        /\ UNCHANGED <<engine, entered, given, rows, memo, segment, swept, answer, faults, misled,
                       astray>>
    BY DEF SaveTrade, At, engineVars, daemonVars, faultVars
  <1>3. hand[w] \in Hands /\ IsFiniteSet(hand[w].trades) BY Unfold
  <1>4. hand[w].trades \subseteq TradeRecords BY <1>3, HandFields
  <1>5. PICK h : h = [hand[w] EXCEPT !.trades = @ \ {t}] OBVIOUS
  <1>6. /\ h \in Hands /\ h.at = hand[w].at /\ h.copies = hand[w].copies
        /\ h.trades = hand[w].trades \ {t} /\ h.mine = hand[w].mine
    BY <1>3, <1>5 DEF Hands
  <1>7. IsFiniteSet(h.trades)
    <2>1. hand[w].trades \ {t} \subseteq hand[w].trades OBVIOUS
    <2> QED BY <1>3, <1>6, <2>1, FS_Subset
  <1>8. OneHand(w, h)
    <2>1. hand' = [hand EXCEPT ![w] = h] BY <1>1, <1>5
    <2> QED BY <1>6, <1>7, <2>1, Handle
  <1>9. HandOK(w) /\ \A r \in Requests : RequestOK(r) /\ OrderOK(r) BY Unfold DEF ControlOK
  <1>10. Says(w) /\ Remembers BY <1>2, SaysNothing, RemembersSame
  <1>11. ASSUME NEW o \in Requests
         PROVE  /\ tape'[o] = tape[o] + Shares({t}, o) /\ Shares({t}, o) \in Nat
                /\ Held(hand, o) = Held(hand', o) + Shares({t}, o) /\ tape[o] \in Nat
                /\ Held(hand', o) \in Nat
    <2>1. tape'[o] = tape[o] + Shares({t}, o) BY <1>1
    <2>2. IsFiniteSet({t}) /\ {t} \subseteq TradeRecords BY <1>4, FS_Singleton
    <2>3. Shares({t}, o) \in Nat BY <2>2, SharesType
    <2>4. Shares(hand[w].trades, o) = Shares({t}, o) + Shares(h.trades, o)
      BY <1>3, <1>4, <1>6, SharesSplit
    <2>5. /\ Held(hand', o) = (Held(hand, o) - Shares(hand[w].trades, o)) + Shares(h.trades, o)
          /\ Held(hand, o) \in Nat /\ Held(hand', o) \in Nat
          /\ Shares(hand[w].trades, o) \in Nat /\ Shares(h.trades, o) \in Nat
      BY <1>8, HandHeld
    <2>6. tape[o] \in Nat BY Unfold
    <2> QED BY <2>1, <2>3, <2>4, <2>5, <2>6
  <1>12. tape' \in [Requests -> Nat]
    <2>1. ASSUME NEW o \in Requests PROVE tape[o] + Shares({t}, o) \in Nat
      <3>1. PICK x \in Nat, y \in Nat : x = tape[o] /\ y = Shares({t}, o) BY <1>11
      <3> QED BY <3>1
    <2> QED BY <1>1, <2>1
  <1>13. Types' BY <1>2, <1>8, <1>10, <1>12, Unfold, TypesStep DEF IInv, Types
  <1>14. ControlOK'
    <2>1. HandOK(w)' BY <1>2, <1>6, <1>8, <1>9 DEF HandOK, OneHand
    <2>2. w \in Requests => RequestOK(w)'
      <3>1. hand'[w] = h BY <1>8 DEF OneHand
      <3> QED BY <1>2, <1>6, <1>9, <3>1 DEF RequestOK, Fresh
    <2>3. \A p \in Requests : OrderOK(p)' BY <1>2, <1>9 DEF OrderOK
    <2> QED BY <1>2, <1>8, <1>10, <2>1, <2>2, <2>3, ControlStep
  <1>15. KeysOK' BY <1>2, <1>10, KeysStep
  <1>16. BookOK'
    <2> SUFFICES ASSUME NEW p \in Requests, p \notin astray PROVE RowOK(p)'
      BY <1>2 DEF BookOK
    <2>1. RowOK(p) BY Unfold DEF BookOK
    <2>2. ASSUME NEW v \in Workers, Carries(v, p) PROVE Carries(v, p)'
      BY <1>2, <1>6, <1>8, <2>2 DEF Carries, OneHand
    <2> QED BY <1>2, <2>1, <2>2 DEF RowOK
  <1>17. FillsOK' BY <1>2, Unfold DEF FillsOK
  <1>18. TapeOK'
    <2> SUFFICES ASSUME NEW o \in Requests
                 PROVE  tape'[o] + Held(hand', o) = tape[o] + Held(hand, o)
      BY <1>2, Unfold DEF TapeOK
    <2> QED BY <1>11
  <1> QED BY <1>13, <1>14, <1>15, <1>16, <1>17, <1>18 DEF IInv

\* The request's own row: whatever mixture is read, it is of the order, and
\* it is what the order is when nothing has changed it.
LEMMA TornRead ==
    ASSUME NEW old \in Records, NEW new \in Records, NEW is \in Torn(old, new),
           ~Gone(old), ~Gone(new)
    PROVE  is \in Records /\ ~Gone(is) /\ (old = new => is = new)
  <1>1. PICK both : both = [status |-> new.status, rem |-> old.rem, filled |-> old.filled] OBVIOUS
  <1>2. PICK first : first = [status |-> new.status, rem |-> old.rem, filled |-> new.filled] OBVIOUS
  <1>3. new = [status |-> new.status, rem |-> new.rem, filled |-> new.filled] BY DEF Records
  <1>4. is \in {old, new, first, both} BY <1>1, <1>2, <1>3 DEF Torn, Records
  <1>5. both \in Records /\ first \in Records BY <1>1, <1>2 DEF Records
  <1>6. both.status = new.status /\ first.status = new.status BY <1>1, <1>2
  <1> QED BY <1>1, <1>2, <1>3, <1>4, <1>5, <1>6 DEF Gone

LEMMA WriteOwnStep == ASSUME IInv, NEW r \in Requests, WriteOwn(r) PROVE IInv'
  <1>1. PICK is \in Torn(hand[r].mine, engine[r]) : Put(r, is) BY DEF WriteOwn
  <1>2. /\ hand[r].at = "write" /\ Empty(hand[r]) /\ Ends(r, r)
        /\ memo' = [memo EXCEPT ![Key[r]] = r]
        /\ UNCHANGED <<engine, entered, given, tape, segment, swept, faults, misled>>
    BY DEF WriteOwn, At, engineVars, daemonVars, faultVars, Empty
  <1>3. r \in Workers /\ Key[r] \in Requests BY Roles
  <1>4. hand[r] \in Hands /\ engine[r] \in Records BY <1>3, Unfold
  <1>5. HandOK(r) /\ \A p \in Requests : RequestOK(p) /\ OrderOK(p) BY <1>3, Unfold DEF ControlOK
  <1>6. r \in entered /\ ~Gone(hand[r].mine) /\ ~Gone(engine[r]) /\ ~Gone(rows[r])
    BY <1>2, <1>5 DEF RequestOK, OrderOK
  <1>7. is \in Records /\ ~Gone(is) /\ (hand[r].mine = engine[r] => is = engine[r])
    BY <1>1, <1>4, <1>6, HandFields, TornRead
  <1>8. /\ rows' \in [Requests -> Records] /\ rows'[r] = is /\ astray' \subseteq Requests
        /\ \A p \in Requests \ {r} : rows'[p] = rows[p]
    BY <1>1, <1>7, PutRow
  <1>9. OneHand(r, Free) BY <1>2, <1>3, FreeFields, Handle DEF Ends
  <1>10. Answers(r, Key[r]) BY <1>6 DEF Answers
  <1>11. Says(r) /\ answer'[r] = r BY <1>2, <1>3, <1>10, SaysResult DEF Ends
  <1>12. Remembers BY <1>2, <1>3, <1>10, RemembersRow
  <1>13. \A p \in Requests : Gone(rows'[p]) <=> Gone(rows[p]) BY <1>6, <1>7, <1>8
  <1>14. Types' BY <1>2, <1>3, <1>8, <1>9, <1>11, <1>12, Unfold, TypesStep DEF IInv, Types
  <1>15. ControlOK'
    <2>1. HandOK(r)' BY <1>9, FreeFields DEF HandOK, OneHand
    <2>2. RequestOK(r)'
      <3>1. hand'[r] = Free BY <1>9 DEF OneHand
      <3>2. answer'[r] # None BY <1>11, Roles
      <3> QED BY <3>1, <3>2, FreeFields DEF RequestOK, Fresh, Placing
    <2>3. ASSUME NEW p \in Requests PROVE OrderOK(p)'
      <3>1. CASE p = r BY <1>2, <1>5, <1>6, <1>7, <1>8, <3>1 DEF OrderOK
      <3>2. CASE p # r BY <1>2, <1>5, <1>8, <3>2 DEF OrderOK
      <3> QED BY <3>1, <3>2
    <2> QED BY <1>2, <1>3, <1>9, <1>11, <1>13, <2>1, <2>2, <2>3, ControlStep
  <1>16. KeysOK' BY <1>3, <1>11, <1>12, <1>13, KeysStep
  <1>17. BookOK'
    <2> SUFFICES ASSUME NEW p \in Requests, p \notin astray' PROVE RowOK(p)'
      BY DEF BookOK
    <2>1. ASSUME NEW v \in Workers, Carries(v, p), p # r \/ is # engine[r] PROVE Carries(v, p)'
      <3>1. v # r
        <4> SUFFICES ASSUME v = r PROVE FALSE OBVIOUS
        <4>1. p = r /\ hand[r].mine = engine[r] BY <1>2, <2>1 DEF Carries, Empty
        <4> QED BY <1>7, <2>1, <4>1
      <3>2. hand'[v] = hand[v] BY <1>9, <3>1 DEF OneHand
      <3> QED BY <1>2, <2>1, <3>2 DEF Carries
    <2>2. CASE p # r
      <3>1. p \notin astray /\ rows'[p] = rows[p] BY <1>1, <1>7, <2>2, PutRow
      <3>2. RowOK(p) BY <3>1, Unfold DEF BookOK
      <3> QED BY <1>2, <2>1, <2>2, <3>1, <3>2 DEF RowOK
    <2>3. CASE p = r /\ is = engine[r] BY <1>2, <1>8, <2>3 DEF RowOK
    <2>4. CASE p = r /\ is # engine[r]
      <3>1. p \notin astray /\ rows[r] # engine[r] BY <1>1, <1>7, <2>4, PutRow
      <3>2. RowOK(p) BY <3>1, Unfold DEF BookOK
      <3> QED BY <1>2, <2>1, <2>4, <3>1, <3>2 DEF RowOK
    <2> QED BY <2>2, <2>3, <2>4
  <1>18. FillsOK' BY <1>2, Unfold DEF FillsOK
  <1>19. TapeOK'
    <2>1. Free.trades = hand[r].trades BY <1>2, FreeFields DEF Empty
    <2> QED BY <1>2, <1>3, <1>9, <2>1, TapeStep
  <1> QED BY <1>14, <1>15, <1>16, <1>17, <1>18, <1>19 DEF IInv

-----------------------------------------------------------------------------
(***************************************************************************)
(* Cancelling.                                                             *)
(***************************************************************************)
CopyInHand(c, is) == [at |-> "write", copies |-> {[order |-> Target[c], is |-> is]},
                      trades |-> {}, mine |-> Absent]

LEMMA CopyTaken ==
    ASSUME IInv, NEW c \in Cancels, NEW is \in Records, ~Gone(is), Target[c] \in entered,
           TakeCopy(c, is), hand[c].at = "idle", entered' = entered
    PROVE  \E h : /\ OneHand(c, h) /\ h.trades = {} /\ h.at = "write"
                  /\ h.copies = {[order |-> Target[c], is |-> is]} /\ HandOK(c)'
  <1>1. PICK h : h = CopyInHand(c, is) OBVIOUS
  <1>2. PICK o \in Requests : o = Target[c] BY Roles
  <1>3. PICK copy : copy = [order |-> o, is |-> is] OBVIOUS
  <1>4. copy \in [order : Requests, is : Records] /\ copy.order = o /\ copy.is = is BY <1>3
  <1>5. /\ h.at = "write" /\ h.copies = {copy} /\ h.trades = {} /\ h.mine = Absent
        /\ h = [at |-> "write", copies |-> {copy}, trades |-> {}, mine |-> Absent]
    BY <1>1, <1>2, <1>3 DEF CopyInHand
  <1>6. h \in Hands BY <1>4, <1>5, AbsentType DEF Hands, Stages
  <1>7. IsFiniteSet(h.trades) BY <1>5, FS_EmptySet
  <1>8. c \in Workers BY Roles
  <1>9. hand' = [hand EXCEPT ![c] = h] BY <1>1 DEF TakeCopy, CopyInHand
  <1>10. OneHand(c, h) BY <1>6, <1>7, <1>8, <1>9, Handle
  <1>11. HandOK(c)' BY <1>2, <1>4, <1>5, <1>10 DEF HandOK, OneHand, Placing
  <1> QED BY <1>2, <1>3, <1>5, <1>10, <1>11

LEMMA LockStep == ASSUME IInv, NEW c \in Cancels, Lock(c) PROVE IInv'
  <1> DEFINE o == Target[c]
  <1>1. c \in Workers /\ c \notin Requests /\ o \in Requests BY Roles
  <1>2. /\ hand[c].at = "idle" /\ UNCHANGED book /\ answer' = answer
        /\ segment' = segment /\ swept' = swept /\ memo' = memo
    BY DEF Lock, Asks, At, engineVars, daemonVars, faultVars, book
  <1>3. Empty(hand[c]) BY <1>1, <1>2, IdleEmpty
  <1>4. segment' \in DOMAIN Segments /\ swept' \in BOOLEAN BY <1>2, Unfold
  <1>5. Says(c) /\ Remembers BY <1>1, <1>2, SaysNothing, RemembersSame
  <1>6. OrderOK(o) BY <1>1, Unfold DEF ControlOK
  <1>7. CASE engine[o] = Absent
    <2>1. Goto(c, "write") BY <1>7 DEF Lock
    <2>2. PICK h : /\ OneHand(c, h) /\ h.at = "write" /\ h.copies = hand[c].copies
                   /\ h.trades = hand[c].trades
      BY <1>1, <2>1, HandleAt DEF Stages
    <2> QED BY <1>1, <1>2, <1>3, <1>4, <1>5, <2>2, QuietStep DEF Empty, Placing
  <1>8. CASE engine[o] # Absent
    <2>1. o \in entered BY <1>6, <1>8 DEF OrderOK
    <2>2. PICK is : is = [engine[o] EXCEPT !.status = "locked"] OBVIOUS
    <2>3. is \in Records /\ ~Gone(is)
      <3>1. engine[o] \in Records BY <1>1, Unfold
      <3>2. "locked" \in Statuses BY DEF Statuses
      <3> QED BY <2>2, <3>1, <3>2 DEF Records, Gone
    <2>4. TakeCopy(c, is) BY <1>8, <2>2 DEF Lock
    <2>5. PICK h : OneHand(c, h) /\ h.trades = {} /\ h.at = "write" /\ HandOK(c)'
      BY <1>2, <2>1, <2>3, <2>4, CopyTaken DEF book
    <2>6. Types' BY <1>1, <1>2, <1>4, <1>5, <2>5, Unfold, TypesStep DEF book, IInv, Types
    <2>7. ControlOK'
      <3>1. \A p \in Requests : OrderOK(p)' BY <1>2, Unfold DEF ControlOK, OrderOK, book
      <3> QED BY <1>1, <1>2, <1>5, <2>5, <3>1, ControlStep DEF book
    <2>8. KeysOK' BY <1>1, <1>2, <1>5, KeysStep DEF book
    <2>9. BookOK'
      <3> SUFFICES ASSUME NEW p \in Requests, p \notin astray PROVE RowOK(p)'
        BY <1>2 DEF BookOK, book
      <3>1. RowOK(p) BY Unfold DEF BookOK
      <3>2. ASSUME NEW v \in Workers, Carries(v, p) PROVE Carries(v, p)'
        <4>1. v # c BY <1>1, <1>3, <3>2 DEF Carries, Empty
        <4>2. hand'[v] = hand[v] BY <2>5, <4>1 DEF OneHand
        <4> QED BY <1>2, <3>2, <4>2 DEF Carries, book
      <3> QED BY <1>2, <3>1, <3>2 DEF RowOK, book
    <2>10. FillsOK' BY <1>2, Unfold DEF FillsOK, book
    <2>11. TapeOK' BY <1>1, <1>2, <1>3, <2>5, TapeStep DEF Empty, book
    <2> QED BY <2>6, <2>7, <2>8, <2>9, <2>10, <2>11 DEF IInv
  <1> QED BY <1>7, <1>8

LEMMA CancelStep == ASSUME IInv, NEW c \in Cancels, Cancel(c) PROVE IInv'
  <1> DEFINE o == Target[c]
  <1>1. c \in Workers /\ c \notin Requests /\ o \in Requests BY Roles
  <1>2. /\ hand[c].at = "idle" /\ UNCHANGED <<rows, tape, given, entered, misled, faults, astray>>
        /\ segment' = segment /\ swept' = swept /\ memo' = memo
    BY DEF Cancel, Asks, At, daemonVars, faultVars
  <1>3. Empty(hand[c]) BY <1>1, <1>2, IdleEmpty
  <1>4. segment' \in DOMAIN Segments /\ swept' \in BOOLEAN BY <1>2, Unfold
  <1>5. Remembers BY <1>2, RemembersSame
  <1>6. \A p \in Requests : OrderOK(p) BY Unfold DEF ControlOK
  <1>7. engine \in [Requests -> Records] BY Unfold
  <1>8. CASE ~Active(engine[o]) /\ Ends(c, Failed) /\ UNCHANGED engine
    <2>1. OneHand(c, Free) BY <1>1, <1>8, FreeFields, Handle DEF Ends
    <2>2. Says(c) BY <1>1, <1>8, SaysResult DEF Ends
    <2> QED BY <1>1, <1>2, <1>3, <1>4, <1>5, <1>8, <2>1, <2>2, FreeFields, QuietStep
        DEF Empty, book, Placing
  <1>9. CASE /\ Active(engine[o])
             /\ \E is : /\ is = [engine[o] EXCEPT !.status = "cancelled", !.rem = 0]
                        /\ engine' = [engine EXCEPT ![o] = is] /\ TakeCopy(c, is)
             /\ UNCHANGED answer
    <2>1. PICK is : /\ is = [engine[o] EXCEPT !.status = "cancelled", !.rem = 0]
                    /\ engine' = [engine EXCEPT ![o] = is] /\ TakeCopy(c, is)
      BY <1>9
    <2>2. is \in Records /\ ~Gone(is) /\ is.rem = 0
      <3>1. engine[o] \in Records BY <1>1, <1>7
      <3>2. "cancelled" \in Statuses BY DEF Statuses
      <3> QED BY <2>1, <3>1, <3>2 DEF Records, Gone
    <2>3. /\ engine' \in [Requests -> Records] /\ engine'[o] = is
          /\ \A p \in Requests \ {o} : engine'[p] = engine[p]
      BY <1>1, <1>7, <2>1, <2>2
    <2>4. o \in entered
      <3>1. engine[o] # Absent BY <1>9, AbsentType
      <3> QED BY <1>1, <1>6, <3>1 DEF OrderOK
    <2>5. PICK h : /\ OneHand(c, h) /\ h.trades = {} /\ h.at = "write" /\ HandOK(c)'
                   /\ h.copies = {[order |-> o, is |-> is]}
      BY <1>2, <2>1, <2>2, <2>4, CopyTaken
    <2>6. Says(c) BY <1>1, <1>9, SaysNothing
    <2>7. Types' BY <1>1, <1>2, <1>4, <1>5, <2>3, <2>5, <2>6, Unfold, TypesStep DEF IInv, Types
    <2>8. ControlOK'
      <3>1. ASSUME NEW p \in Requests PROVE OrderOK(p)'
        <4>1. CASE p = o BY <1>2, <1>6, <2>2, <2>3, <2>4, <4>1 DEF OrderOK
        <4>2. CASE p # o BY <1>2, <1>6, <2>3, <4>2 DEF OrderOK
        <4> QED BY <4>1, <4>2
      <3>2. \A p \in Requests : Gone(engine'[p]) => Gone(engine[p]) BY <2>2, <2>3
      <3> QED BY <1>1, <1>2, <2>5, <2>6, <3>1, <3>2, ControlStep
    <2>9. KeysOK' BY <1>1, <1>2, <1>5, <2>6, KeysStep
    <2>10. BookOK'
      <3> SUFFICES ASSUME NEW p \in Requests, p \notin astray PROVE RowOK(p)'
        BY <1>2 DEF BookOK
      <3>1. CASE p = o
        <4>1. PICK copy \in h.copies : copy.order = o /\ copy.is = is BY <2>5
        <4>2. Carries(c, p)' BY <2>3, <2>5, <3>1, <4>1 DEF Carries, OneHand
        <4> QED BY <1>1, <4>2 DEF RowOK
      <3>2. CASE p # o
        <4>1. RowOK(p) /\ engine'[p] = engine[p] BY <2>3, <3>2, Unfold DEF BookOK
        <4>2. ASSUME NEW v \in Workers, Carries(v, p) PROVE Carries(v, p)'
          <5>1. v # c BY <1>1, <1>3, <4>2 DEF Carries, Empty
          <5>2. hand'[v] = hand[v] BY <2>5, <5>1 DEF OneHand
          <5> QED BY <4>1, <4>2, <5>2 DEF Carries
        <4> QED BY <1>2, <4>1, <4>2 DEF RowOK
      <3> QED BY <3>1, <3>2
    <2>11. FillsOK'
      <3>1. ASSUME NEW p \in Requests PROVE engine'[p].rem <= engine[p].rem
        <4>1. engine[p].rem \in Nat BY <1>7 DEF Records
        <4>2. CASE p = o BY <2>2, <2>3, <4>1, <4>2
        <4>3. CASE p # o BY <2>3, <4>1, <4>3
        <4> QED BY <4>2, <4>3
      <3> QED BY <1>2, <2>3, <3>1, FillsStep
    <2>12. TapeOK' BY <1>1, <1>2, <1>3, <2>5, TapeStep DEF Empty
    <2> QED BY <2>7, <2>8, <2>9, <2>10, <2>11, <2>12 DEF IInv
  <1> QED BY <1>8, <1>9 DEF Cancel

-----------------------------------------------------------------------------
(***************************************************************************)
(* Placing, up to the row.                                                 *)
(***************************************************************************)
LEMMA RowSaved ==
    ASSUME IInv, NEW r \in Requests, NEW h, OneHand(r, h), Empty(h), Empty(hand[r]), h.at # "write",
           h.at # "submit", r \notin entered, RowsOf(Key[r]) = {}, NEW is \in Records,
           ~Gone(is), ~Active(is), rows' = [rows EXCEPT ![r] = is],
           UNCHANGED <<engine, tape, given, entered, misled, faults, astray, segment, swept>>,
           \/ UNCHANGED <<memo, answer>> /\ h.at = "match"
           \/ /\ memo' = [memo EXCEPT ![Key[r]] = r] /\ answer' = [answer EXCEPT ![r] = r]
              /\ h.at = "idle"
    PROVE  IInv'
  <1>1. r \in Workers /\ Key[r] \in Requests /\ r \notin Cancels BY Roles
  <1>2. /\ rows \in [Requests -> Records] /\ memo \in [Requests -> Requests \cup {None}]
        /\ answer \in [Workers -> Requests \cup {None, Failed}]
    BY Unfold
  <1>3. /\ rows' \in [Requests -> Records] /\ rows'[r] = is
        /\ \A p \in Requests \ {r} : rows'[p] = rows[p]
    BY <1>2
  <1>4. Gone(rows[r]) /\ \A p \in Requests : Key[p] = Key[r] => Gone(rows[p])
    BY DEF RowsOf, Gone
  <1>5. /\ memo' \in [Requests -> Requests \cup {None}]
        /\ answer' \in [Workers -> Requests \cup {None, Failed}]
        /\ \A v \in Workers \ {r} : answer'[v] = answer[v]
        /\ answer'[r] \in {answer[r], r} /\ (h.at = "idle" => answer'[r] = r)
        /\ \A k \in Requests : memo'[k] = memo[k] \/ (k = Key[r] /\ memo'[k] = r)
    BY <1>1, <1>2
  <1>6. KeysOK /\ ControlOK BY Unfold
  <1>7. Types'
    <2>1. \A v \in Workers : IsFiniteSet(hand'[v].trades) BY Unfold DEF OneHand
    <2> QED BY <1>3, <1>5, <2>1 DEF IInv, Types, OneHand
  <1>8. ControlOK'
    <2>1. ASSUME NEW v \in Workers PROVE HandOK(v)'
      <3>1. CASE v = r BY <1>1, <3>1 DEF HandOK, OneHand, Empty
      <3>2. CASE v # r
        <4>1. HandOK(v) /\ hand'[v] = hand[v] BY <1>6, <3>2 DEF ControlOK, OneHand
        <4> QED BY <4>1 DEF HandOK
      <3> QED BY <3>1, <3>2
    <2>2. ASSUME NEW p \in Requests PROVE RequestOK(p)'
      <3>1. CASE p = r
        <4>1. hand'[r] = h BY DEF OneHand
        <4> QED BY <1>3, <3>1, <4>1 DEF RequestOK
      <3>2. CASE p # r
        <4>1. p \in Workers BY Roles
        <4>2. /\ RequestOK(p) /\ hand'[p] = hand[p] /\ answer'[p] = answer[p]
              /\ rows'[p] = rows[p]
          BY <1>3, <1>5, <1>6, <3>2, <4>1 DEF ControlOK, OneHand
        <4> QED BY <4>2 DEF RequestOK, Fresh
      <3> QED BY <3>1, <3>2
    <2>3. ASSUME NEW p \in Requests PROVE OrderOK(p)'
      <3>1. OrderOK(p) BY <1>6 DEF ControlOK
      <3>2. CASE p = r BY <1>3, <3>1, <3>2 DEF OrderOK
      <3>3. CASE p # r BY <1>3, <3>1, <3>3 DEF OrderOK
      <3> QED BY <3>2, <3>3
    <2> QED BY <2>1, <2>2, <2>3 DEF ControlOK
  <1>9. KeysOK'
    <2>1. \A p \in Requests : ~Gone(rows[p]) => ~Gone(rows'[p]) BY <1>3
    <2>2. ASSUME NEW p \in Requests, NEW s \in Requests, ~Gone(rows'[p]), ~Gone(rows'[s]),
                 Key[p] = Key[s]
          PROVE  p = s
      <3>1. CASE p = r \/ s = r BY <1>3, <1>4, <2>2, <3>1
      <3>2. CASE p # r /\ s # r BY <1>3, <1>6, <2>2, <3>2 DEF KeysOK, Answers
      <3> QED BY <3>1, <3>2
    <2>3. ASSUME NEW k \in Requests, memo'[k] # None
          PROVE  memo'[k] \in Requests /\ ~Gone(rows'[memo'[k]]) /\ Key[memo'[k]] = k
      <3>1. CASE memo'[k] = memo[k] BY <1>6, <2>1, <2>3, <3>1 DEF KeysOK, Answers
      <3>2. CASE k = Key[r] /\ memo'[k] = r BY <1>3, <3>2
      <3> QED BY <1>5, <3>1, <3>2
    <2>4. ASSUME NEW p \in Requests, answer'[p] \in Requests
          PROVE  ~Gone(rows'[answer'[p]]) /\ Key[answer'[p]] = Key[p]
      <3>1. p \in Workers BY Roles
      <3>2. CASE answer'[p] = answer[p] BY <1>6, <2>1, <2>4, <3>2 DEF KeysOK, Answers
      <3>3. CASE p = r /\ answer'[p] = r BY <1>3, <3>3
      <3> QED BY <1>5, <3>1, <3>2, <3>3
    <2> QED BY <2>2, <2>3, <2>4 DEF KeysOK, Answers
  <1>10. BookOK'
    <2> SUFFICES ASSUME NEW p \in Requests, p \notin astray PROVE RowOK(p)'
      BY DEF BookOK
    <2>1. CASE p = r
      <3>1. engine[r] = Absent BY <1>6 DEF ControlOK, OrderOK
      <3> QED BY <2>1, <3>1 DEF RowOK
    <2>2. CASE p # r
      <3>1. RowOK(p) /\ rows'[p] = rows[p] BY <1>3, <2>2, Unfold DEF BookOK
      <3>2. ASSUME NEW v \in Workers, Carries(v, p) PROVE Carries(v, p)'
        <4>1. v # r BY <2>2, <3>2 DEF Carries, Empty
        <4>2. hand'[v] = hand[v] BY <4>1 DEF OneHand
        <4> QED BY <3>2, <4>2 DEF Carries
      <3> QED BY <3>1, <3>2 DEF RowOK
    <2> QED BY <2>1, <2>2
  <1>11. FillsOK' BY Unfold DEF FillsOK
  <1>12. TapeOK'
    <2>1. h.trades = hand[r].trades BY DEF Empty
    <2> QED BY <1>1, <2>1, TapeStep
  <1> QED BY <1>7, <1>8, <1>9, <1>10, <1>11, <1>12 DEF IInv

LEMMA SubmitStep == ASSUME IInv, NEW r \in Requests, Submit(r) PROVE IInv'
  <1>1. r \in Workers /\ Key[r] \in Requests /\ Qty[r] \in Nat BY Roles
  <1>2. /\ hand[r].at = "submit"
        /\ UNCHANGED <<engine, tape, given, entered, misled, faults, astray, segment, swept>>
    BY DEF Submit, At, engineVars, daemonVars, faultVars
  <1>3. Empty(hand[r]) BY <1>1, <1>2, IdleEmpty
  <1>4. r \notin entered
    <2>1. RequestOK(r) BY Unfold DEF ControlOK
    <2> QED BY <1>2, <2>1 DEF RequestOK, Fresh
  <1>5. CASE Saves(r, "accepted", Qty[r]) /\ Goto(r, "match") /\ UNCHANGED <<memo, answer>>
    <2>1. PICK is : is = [status |-> "accepted", rem |-> Qty[r], filled |-> 0] OBVIOUS
    <2>2. rows' = [rows EXCEPT ![r] = is] /\ RowsOf(Key[r]) = {}
      BY <1>5, <2>1 DEF Saves, MaySave
    <2>3. is \in Records /\ ~Gone(is) /\ ~Active(is)
      <3>1. "accepted" \in Statuses BY DEF Statuses
      <3> QED BY <1>1, <2>1, <3>1 DEF Records, Gone, Active
    <2>4. PICK h : /\ OneHand(r, h) /\ h.at = "match" /\ h.copies = hand[r].copies
                   /\ h.trades = hand[r].trades
      BY <1>1, <1>5, HandleAt DEF Stages
    <2>5. Empty(h) BY <1>3, <2>4 DEF Empty
    <2> QED BY <1>2, <1>3, <1>4, <1>5, <2>2, <2>3, <2>4, <2>5, RowSaved
  <1>6. CASE Saves(r, "rejected", 0) /\ Ends(r, r) /\ memo' = [memo EXCEPT ![Key[r]] = r]
    <2>1. PICK is : is = [status |-> "rejected", rem |-> 0, filled |-> 0] OBVIOUS
    <2>2. rows' = [rows EXCEPT ![r] = is] /\ RowsOf(Key[r]) = {}
      BY <1>6, <2>1 DEF Saves, MaySave
    <2>3. is \in Records /\ ~Gone(is) /\ ~Active(is)
      <3>1. "rejected" \in Statuses BY DEF Statuses
      <3> QED BY <2>1, <3>1 DEF Records, Gone, Active
    <2>4. OneHand(r, Free) BY <1>1, <1>6, FreeFields, Handle DEF Ends
    <2>5. Empty(Free) /\ Free.at = "idle" BY FreeFields DEF Empty
    <2> QED BY <1>2, <1>3, <1>4, <1>6, <2>2, <2>3, <2>4, <2>5, RowSaved DEF Ends
  <1>7. CASE Ends(r, Failed) /\ UNCHANGED <<rows, memo>>
    <2>1. OneHand(r, Free) BY <1>1, <1>7, FreeFields, Handle DEF Ends
    <2>2. Failed \notin Requests /\ Failed # None BY Roles
    <2>3. Says(r) /\ answer'[r] = Failed BY <1>1, <1>7, <2>2, SaysResult DEF Ends
    <2>4. Remembers BY <1>7, RemembersSame
    <2>5. segment' \in DOMAIN Segments /\ swept' \in BOOLEAN BY <1>2, Unfold
    <2>6. UNCHANGED book BY <1>2, <1>7 DEF book
    <2> QED BY <1>1, <1>2, <1>3, <1>4, <2>1, <2>2, <2>3, <2>4, <2>5, <2>6, FreeFields, QuietStep
        DEF Empty, Placing
  <1> QED BY <1>5, <1>6, <1>7 DEF Submit

-----------------------------------------------------------------------------
(***************************************************************************)
(* Trading, under the lock of the engine.                                  *)
(***************************************************************************)
\* What the matching leaves of an order.
Leaves(old, new, n) ==
    /\ n \in Nat /\ old.rem \in Nat /\ new.rem = old.rem - n
    /\ n = 0 => new = old
    /\ n > 0 \/ ~Gone(old) => ~Gone(new)

LEMMA TradedOrders ==
    ASSUME NEW orders \in [Requests -> Records], NEW T, NEW S, Handed(T, orders, S),
           NEW after, after = Traded(orders, T)
    PROVE  /\ after \in [Requests -> Records]
           /\ \A o \in Requests : Leaves(orders[o], after[o], Shares(T, o))
  <1>1. ASSUME NEW o \in Requests
        PROVE  after[o] \in Records /\ Leaves(orders[o], after[o], Shares(T, o))
    <2>1. PICK n : n = Shares(T, o) OBVIOUS
    <2>2. PICK old \in Records : old = orders[o] OBVIOUS
    <2>3. n \in Nat /\ n <= old.rem /\ old.rem \in Nat /\ old.filled \in Nat /\ old.status \in Statuses
      BY <2>1, <2>2 DEF Handed, Fits, Records
    <2>4. PICK new : new = after[o] OBVIOUS
    <2>5. CASE n = 0
      <3>1. new = old BY <2>1, <2>2, <2>4, <2>5 DEF Traded
      <3> QED BY <2>1, <2>2, <2>3, <2>4, <2>5, <3>1 DEF Leaves
    <2>6. CASE n # 0
      <3>1. new = [status |-> IF n = old.rem THEN "filled" ELSE "partially_filled",
                   rem |-> old.rem - n, filled |-> old.filled + n]
        BY <2>1, <2>2, <2>4, <2>6 DEF Traded
      <3>2. PICK status : status = IF n = old.rem THEN "filled" ELSE "partially_filled" OBVIOUS
      <3>3. status \in Statuses /\ status # "absent" BY <3>2 DEF Statuses
      <3>4. old.rem - n \in Nat /\ old.filled + n \in Nat BY <2>3
      <3>5. new \in Records /\ new.status = status /\ new.rem = old.rem - n
        BY <3>1, <3>2, <3>3, <3>4 DEF Records
      <3> QED BY <2>1, <2>2, <2>3, <2>4, <2>6, <3>3, <3>5 DEF Leaves, Gone
    <2> QED BY <2>5, <2>6
  <1>2. after = [o \in Requests |-> after[o]] BY DEF Traded
  <1>3. after \in [Requests -> Records] BY <1>1, <1>2
  <1> QED BY <1>1, <1>3

LEMMA TradeTaken ==
    ASSUME IInv, NEW w \in Workers, NEW orders \in [Requests -> Records], NEW T, NEW S,
           Handed(T, orders, S), Trade(w, orders, T)
    PROVE  /\ engine' \in [Requests -> Records] /\ given' \in [Requests -> Nat]
           /\ \A o \in Requests : /\ Leaves(orders[o], engine'[o], Shares(T, o))
                                  /\ given'[o] = given[o] + Shares(T, o)
           /\ \E h : /\ OneHand(w, h) /\ h.at = "write" /\ h.trades = T
                     /\ \A copy \in h.copies : /\ copy.order \in Requests
                                               /\ copy.is = engine'[copy.order]
                                               /\ Shares(T, copy.order) > 0
                     /\ \A o \in Requests \ {w} : Shares(T, o) > 0 =>
                          \E copy \in h.copies : copy.order = o /\ copy.is = engine'[o]
                     /\ w \in Requests => h.mine = engine'[w]
  <1>1. engine' = Traded(orders, T) BY DEF Trade
  <1>2. /\ engine' \in [Requests -> Records]
        /\ \A o \in Requests : Leaves(orders[o], engine'[o], Shares(T, o))
    BY <1>1, TradedOrders
  <1>3. given' = [o \in Requests |-> given[o] + Shares(T, o)] BY DEF Trade
  <1>4. given' \in [Requests -> Nat]
    <2>1. ASSUME NEW o \in Requests PROVE given[o] + Shares(T, o) \in Nat
      <3>1. given[o] \in Nat BY Unfold
      <3>2. Shares(T, o) \in Nat BY DEF Handed, Fits
      <3> QED BY <3>1, <3>2
    <2> QED BY <1>3, <2>1
  <1>5. PICK moved : moved = {o \in Requests \ {w} : Shares(T, o) > 0} OBVIOUS
  <1>6. PICK copies : copies = Copies(engine', moved) OBVIOUS
  <1>7. PICK mine : mine = IF w \in Requests THEN engine'[w] ELSE Absent OBVIOUS
  <1>8. PICK h : h = [at |-> "write", trades |-> T, copies |-> copies, mine |-> mine] OBVIOUS
  <1>9. hand' = [hand EXCEPT ![w] = h] BY <1>1, <1>5, <1>6, <1>7, <1>8, Zenon DEF Trade
  <1>10. /\ \A copy \in copies : \E o \in moved : copy = [order |-> o, is |-> engine'[o]]
         /\ \A o \in moved : [order |-> o, is |-> engine'[o]] \in copies
    BY <1>6 DEF Copies
  <1>11. copies \subseteq [order : Requests, is : Records] BY <1>2, <1>5, <1>10
  <1>12. mine \in Records BY <1>2, <1>7, AbsentType
  <1>13. T \subseteq TradeRecords /\ IsFiniteSet(T) BY DEF Handed
  <1>14. h \in Hands BY <1>8, <1>11, <1>12, <1>13 DEF Hands, TradeRecords, Stages
  <1>15. h.at = "write" /\ h.trades = T /\ h.copies = copies /\ h.mine = mine BY <1>8
  <1>16. OneHand(w, h) BY <1>9, <1>13, <1>14, <1>15, Handle
  <1>17. ASSUME NEW copy \in h.copies
         PROVE  /\ copy.order \in Requests /\ copy.is = engine'[copy.order]
                /\ Shares(T, copy.order) > 0
    <2>1. PICK o \in moved : copy = [order |-> o, is |-> engine'[o]] BY <1>10, <1>15
    <2>2. copy.order = o /\ copy.is = engine'[o] BY <2>1
    <2> QED BY <1>5, <2>2
  <1>18. ASSUME NEW o \in Requests \ {w}, Shares(T, o) > 0
         PROVE  \E copy \in h.copies : copy.order = o /\ copy.is = engine'[o]
    <2>1. o \in moved BY <1>5, <1>18
    <2>2. PICK copy \in copies : copy = [order |-> o, is |-> engine'[o]] BY <1>10, <2>1
    <2>3. copy.order = o /\ copy.is = engine'[o] BY <2>2
    <2> QED BY <1>15, <2>3
  <1>19. w \in Requests => h.mine = engine'[w] BY <1>7, <1>15
  <1> QED BY <1>2, <1>3, <1>4, <1>15, <1>16, <1>17, <1>18, <1>19

LEMMA TradeStep ==
    ASSUME IInv, NEW w \in Workers, w \notin Cancels, hand[w].at # "write",
           NEW orders \in [Requests -> Records], NEW T, NEW S, Handed(T, orders, S),
           Trade(w, orders, T),
           entered' \subseteq Requests, entered \subseteq entered',
           \A o \in Requests : o \in entered' <=> o \in entered \/ o = w,
           \A o \in Requests : o \in S => o \in entered',
           \A o \in Requests : o # w => orders[o] = engine[o],
           w \in Requests => /\ ~Gone(orders[w]) /\ orders[w].rem = Qty[w]
                             /\ w \notin entered /\ ~Gone(rows[w]),
           UNCHANGED <<rows, tape, memo, answer, faults, misled, astray>>,
           segment' \in DOMAIN Segments, swept' \in BOOLEAN
    PROVE  IInv'
  <1>1. /\ engine' \in [Requests -> Records] /\ given' \in [Requests -> Nat]
        /\ \A o \in Requests : /\ Leaves(orders[o], engine'[o], Shares(T, o))
                               /\ given'[o] = given[o] + Shares(T, o)
    BY TradeTaken
  <1>2. PICK h : /\ OneHand(w, h) /\ h.at = "write" /\ h.trades = T
                 /\ \A copy \in h.copies : /\ copy.order \in Requests
                                           /\ copy.is = engine'[copy.order]
                                           /\ Shares(T, copy.order) > 0
                 /\ \A o \in Requests \ {w} : Shares(T, o) > 0 =>
                      \E copy \in h.copies : copy.order = o /\ copy.is = engine'[o]
                 /\ w \in Requests => h.mine = engine'[w]
    BY TradeTaken
  <1>3. Empty(hand[w]) BY IdleEmpty
  <1>4. Says(w) /\ Remembers BY SaysNothing, RemembersSame
  <1>5. ControlOK BY Unfold
  <1>6. \A o \in Requests : o \notin S => Shares(T, o) = 0 BY DEF Handed
  <1>7. \A o \in Requests : Shares(T, o) > 0 => o \in entered' BY <1>6
  <1>8. Types' BY <1>1, <1>2, <1>4, Unfold, TypesStep DEF IInv, Types
  <1>9. ControlOK'
    <2>1. ASSUME NEW o \in Requests, ~Gone(orders[o]) \/ Shares(T, o) > 0 PROVE ~Gone(engine'[o])
      BY <1>1, <2>1 DEF Leaves
    <2>2. HandOK(w)' BY <1>2, <1>7, <2>1 DEF HandOK, OneHand, Placing
    <2>3. w \in Requests => RequestOK(w)'
      <3>1. hand'[w] = h BY <1>2 DEF OneHand
      <3> QED BY <1>2, <2>1, <3>1 DEF RequestOK, Fresh, Placing
    <2>4. ASSUME NEW o \in Requests PROVE OrderOK(o)'
      <3>1. OrderOK(o) BY <1>5 DEF ControlOK
      <3>2. o \in entered' => ~Gone(rows[o]) BY <3>1 DEF OrderOK
      <3>3. ASSUME o \notin entered' PROVE engine'[o] = Absent /\ given'[o] = 0 /\ ~Active(rows[o])
        <4>1. o # w /\ o \notin entered BY <3>3
        <4>2. Shares(T, o) = 0 BY <1>6, <3>3
        <4>3. engine'[o] = engine[o] /\ given'[o] = given[o] + 0
          BY <1>1, <4>1, <4>2 DEF Leaves
        <4> QED BY <3>1, <4>1, <4>3 DEF OrderOK
      <3>4. ASSUME Gone(engine'[o]) PROVE engine'[o] = Absent
        <4>1. Gone(orders[o]) /\ ~(Shares(T, o) > 0) BY <2>1, <3>4
        <4>2. o # w BY <4>1
        <4>3. Shares(T, o) \in Nat BY <1>1 DEF Leaves
        <4>4. Shares(T, o) = 0 BY <4>1, <4>3
        <4>5. engine'[o] = orders[o] BY <1>1, <4>4 DEF Leaves
        <4> QED BY <3>1, <3>4, <4>2, <4>5 DEF OrderOK
      <3> QED BY <3>2, <3>3, <3>4 DEF OrderOK
    <2>5. \A o \in Requests : Gone(engine'[o]) => Gone(engine[o]) BY <2>1
    <2> QED BY <1>2, <1>4, <2>2, <2>3, <2>4, <2>5, ControlStep
  <1>10. KeysOK' BY <1>4, KeysStep
  <1>11. BookOK'
    <2> SUFFICES ASSUME NEW o \in Requests, o \notin astray PROVE RowOK(o)'
      BY DEF BookOK
    <2>1. CASE o = w
      <3>1. Carries(w, w)' BY <1>2, <2>1 DEF Carries, OneHand
      <3> QED BY <2>1, <3>1 DEF RowOK
    <2>2. CASE o # w /\ Shares(T, o) > 0
      <3>1. PICK copy \in h.copies : copy.order = o /\ copy.is = engine'[o] BY <1>2, <2>2
      <3>2. Carries(w, o)' BY <1>2, <3>1 DEF Carries, OneHand
      <3> QED BY <3>2 DEF RowOK
    <2>3. CASE o # w /\ ~(Shares(T, o) > 0)
      <3>1. Shares(T, o) = 0
        <4>1. Shares(T, o) \in Nat BY <1>1 DEF Leaves
        <4> QED BY <2>3, <4>1
      <3>2. engine'[o] = engine[o] BY <1>1, <2>3, <3>1 DEF Leaves
      <3>3. RowOK(o) BY Unfold DEF BookOK
      <3>4. ASSUME NEW v \in Workers, Carries(v, o) PROVE Carries(v, o)'
        <4>1. v # w BY <1>3, <3>4 DEF Carries, Empty
        <4>2. hand'[v] = hand[v] BY <1>2, <4>1 DEF OneHand
        <4> QED BY <3>2, <3>4, <4>2 DEF Carries
      <3> QED BY <3>2, <3>3, <3>4 DEF RowOK
    <2> QED BY <2>1, <2>2, <2>3
  <1>12. FillsOK'
    <2> SUFFICES ASSUME NEW o \in Requests, o \notin misled
                 PROVE  given'[o] + engine'[o].rem <= Qty[o]
      BY DEF FillsOK
    <2>1. given[o] + orders[o].rem <= Qty[o]
      <3>1. CASE o # w
        <4>1. given[o] + engine[o].rem <= Qty[o] BY Unfold DEF FillsOK
        <4> QED BY <3>1, <4>1
      <3>2. CASE o = w
        <4>1. given[o] = 0 BY <1>5, <3>2 DEF ControlOK, OrderOK
        <4>2. orders[o].rem = Qty[o] /\ Qty[o] \in Nat BY <3>2, Roles
        <4> QED BY <4>1, <4>2
      <3> QED BY <3>1, <3>2
    <2>2. PICK n \in Nat, m \in Nat : n = Shares(T, o) /\ m = orders[o].rem
      BY <1>1 DEF Leaves
    <2>3. engine'[o].rem = m - n /\ given'[o] = given[o] + n BY <1>1, <2>2 DEF Leaves
    <2>4. given[o] \in Nat /\ Qty[o] \in Nat BY Unfold, Roles
    <2> QED BY <2>1, <2>2, <2>3, <2>4
  <1>13. TapeOK'
    <2> SUFFICES ASSUME NEW o \in Requests
                 PROVE  /\ tape[o] + Held(hand', o) <= given'[o]
                        /\ faults = 0 => tape[o] + Held(hand', o) = given'[o]
      BY DEF TapeOK
    <2>1. /\ tape[o] + Held(hand, o) <= given[o]
          /\ faults = 0 => tape[o] + Held(hand, o) = given[o]
      BY Unfold DEF TapeOK
    <2>2. Shares(hand[w].trades, o) = 0 BY <1>3, SharesNone DEF Empty
    <2>3. /\ Held(hand', o) = (Held(hand, o) - Shares(hand[w].trades, o)) + Shares(h.trades, o)
          /\ Held(hand, o) \in Nat /\ Shares(h.trades, o) \in Nat
      BY <1>2, HandHeld
    <2>4. given'[o] = given[o] + Shares(h.trades, o) BY <1>1, <1>2
    <2>5. given[o] \in Nat /\ tape[o] \in Nat BY Unfold
    <2> QED BY <2>1, <2>2, <2>3, <2>4, <2>5
  <1> QED BY <1>8, <1>9, <1>10, <1>11, <1>12, <1>13 DEF IInv

\* The orders that rest have entered.
LEMMA RestingEntered ==
    ASSUME IInv, NEW o \in Requests, Active(engine[o]) PROVE o \in entered
  <1>1. OrderOK(o) BY Unfold DEF ControlOK
  <1> QED BY <1>1, AbsentType DEF OrderOK

LEMMA UncrossStep == ASSUME IInv, Uncross PROVE IInv'
  <1>1. Daemon \in Workers /\ Daemon \notin Requests /\ Daemon \notin Cancels
    BY Roles, ServiceAssumption
  <1>2. PICK buys \in SetToSeqs(Resting("buy")), sells \in SetToSeqs(Resting("sell")) :
          Trade(Daemon, engine, Trades(buys, sells, engine))
    BY DEF Uncross
  <1>3. /\ hand[Daemon].at = "idle" /\ swept' = TRUE
        /\ UNCHANGED <<rows, tape, memo, segment, answer, faults, misled, astray, entered>>
    BY DEF Uncross, At, faultVars
  <1>4. engine \in [Requests -> Records] BY Unfold
  <1>5. Resting("buy") \subseteq Requests /\ Resting("sell") \subseteq Requests BY DEF Resting
  <1>6. PICK S : S = Resting("buy") \cup Resting("sell") OBVIOUS
  <1>7. /\ IsQueue(buys) /\ \A i \in 1..Len(buys) : buys[i] \in Resting("buy")
        /\ IsQueue(sells) /\ \A j \in 1..Len(sells) : sells[j] \in Resting("sell")
    BY <1>5, QueuesOf
  <1>8. \A i \in 1..Len(buys), j \in 1..Len(sells) : buys[i] # sells[j]
    BY <1>7 DEF Resting
  <1>9. /\ \A i \in 1..Len(buys) : buys[i] \in S
        /\ \A j \in 1..Len(sells) : sells[j] \in S
    BY <1>6, <1>7
  <1>10. PICK T : T = Trades(buys, sells, engine) OBVIOUS
  <1>11. Handed(T, engine, S) BY <1>4, <1>7, <1>8, <1>9, <1>10, Matched
  <1>12. Trade(Daemon, engine, T) BY <1>2, <1>10
  <1>13. \A o \in Requests : o \in S => o \in entered BY <1>6, RestingEntered DEF Resting
  <1>14. entered \subseteq Requests /\ segment' \in DOMAIN Segments /\ swept' \in BOOLEAN
    BY <1>3, Unfold
  <1>15. \A o \in Requests : o \in entered' <=> o \in entered \/ o = Daemon BY <1>1, <1>3
  <1>16. hand[Daemon].at # "write" BY <1>3
  <1> QED BY <1>1, <1>3, <1>4, <1>11, <1>12, <1>13, <1>14, <1>15, <1>16, TradeStep

\* The session is read: only the stage changes.
LEMMA AdmitStep == ASSUME IInv, NEW r \in Requests, Admit(r) PROVE IInv'
  <1>1. r \in Workers BY Roles
  <1>2. PICK at \in {"collect", "trade"} : Goto(r, at) BY DEF Admit
  <1>3. /\ hand[r].at = "match" /\ answer' = answer /\ memo' = memo
        /\ segment' = segment /\ swept' = swept /\ UNCHANGED book
    BY DEF Admit, At, engineVars, daemonVars, faultVars, book
  <1>4. PICK h : /\ OneHand(r, h) /\ h.at = at /\ h.copies = hand[r].copies
                 /\ h.trades = hand[r].trades
    BY <1>1, <1>2, HandleAt DEF Stages
  <1>5. Empty(hand[r]) BY <1>1, <1>3, IdleEmpty
  <1>6. Empty(h) BY <1>4, <1>5 DEF Empty
  <1>7. r \notin entered
    <2>1. RequestOK(r) BY Unfold DEF ControlOK
    <2> QED BY <1>3, <2>1 DEF RequestOK, Fresh, Placing
  <1>8. /\ h.at \in Placing /\ hand[r].at \in Placing /\ h.at # "write" /\ hand[r].at # "write"
    BY <1>2, <1>3, <1>4 DEF Placing
  <1>9. Says(r) BY <1>1, <1>3, SaysNothing
  <1>10. Remembers BY <1>3, RemembersSame
  <1>11. segment' \in DOMAIN Segments /\ swept' \in BOOLEAN BY <1>3, Unfold
  <1> QED BY <1>1, <1>3, <1>4, <1>5, <1>6, <1>7, <1>8, <1>9, <1>10, <1>11, QuietStep

LEMMA MatchStep == ASSUME IInv, NEW r \in Requests, Match(r) PROVE IInv'
  <1>1. r \in Workers /\ r \notin Cancels /\ Qty[r] \in Nat BY Roles
  <1>2. PICK order : order = [status |-> "open", rem |-> Qty[r], filled |-> 0] OBVIOUS
  <1>3. order \in Records /\ ~Gone(order) /\ order.rem = Qty[r]
    <2>1. "open" \in Statuses BY DEF Statuses
    <2> QED BY <1>1, <1>2, <2>1 DEF Records, Gone
  <1>4. PICK placed : placed = [engine EXCEPT ![r] = order] OBVIOUS
  <1>5. engine \in [Requests -> Records] BY Unfold
  <1>6. /\ placed \in [Requests -> Records] /\ placed[r] = order
        /\ \A o \in Requests : o # r => placed[o] = engine[o]
    BY <1>3, <1>4, <1>5
  <1>7. /\ hand[r].at \in Placing /\ entered' = entered \cup {r}
        /\ UNCHANGED <<rows, tape, memo, answer, faults, misled, astray, segment, swept>>
    BY DEF Match, At, Placing, daemonVars, faultVars
  <1>8. RequestOK(r) BY Unfold DEF ControlOK
  <1>9. r \notin entered /\ ~Gone(rows[r]) BY <1>7, <1>8 DEF RequestOK, Fresh
  <1>10. ~Active(engine[r])
    <2>1. OrderOK(r) BY Unfold DEF ControlOK
    <2> QED BY <1>9, <2>1, AbsentType DEF OrderOK
  <1>11. PICK other : other = IF Side[r] = "buy" THEN "sell" ELSE "buy" OBVIOUS
  <1>12. PICK S : S = Resting(other) \cup {r} OBVIOUS
  <1>13. \E T : Handed(T, placed, S) /\ Trade(r, placed, T)
    <2>1. CASE Trade(r, placed, {}) BY <1>6, <2>1, NothingHanded
    <2>2. CASE \E queue \in SetToSeqs(Resting(other)) :
                 Trade(r, placed, IF Side[r] = "buy" THEN Trades(<<r>>, queue, placed)
                                  ELSE Trades(queue, <<r>>, placed))
      <3>1. PICK queue \in SetToSeqs(Resting(other)) :
                 Trade(r, placed, IF Side[r] = "buy" THEN Trades(<<r>>, queue, placed)
                                  ELSE Trades(queue, <<r>>, placed))
        BY <2>2
      <3>2. Resting(other) \subseteq Requests BY DEF Resting
      <3>3. IsQueue(queue) /\ \A i \in 1..Len(queue) : queue[i] \in Resting(other)
        BY <3>2, QueuesOf
      <3>4. PICK one : one = <<r>> OBVIOUS
      <3>5. IsQueue(one) /\ Len(one) = 1 /\ one[1] = r BY <3>4, QueueOfOne
      <3>6. \A i \in 1..Len(one) : one[i] = r
        <4>1. 1..1 = {1} OBVIOUS
        <4> QED BY <3>5, <4>1
      <3>7. /\ \A i \in 1..Len(one) : one[i] \in S
            /\ \A i \in 1..Len(queue) : queue[i] \in S /\ queue[i] # r
        BY <1>10, <1>12, <3>3, <3>6 DEF Resting
      <3>8. CASE Side[r] = "buy"
        <4>1. PICK T : T = Trades(one, queue, placed) OBVIOUS
        <4>2. Trade(r, placed, T) BY <3>1, <3>4, <3>8, <4>1
        <4>3. \A i \in 1..Len(one), j \in 1..Len(queue) : one[i] # queue[j] BY <3>6, <3>7
        <4>4. Handed(T, placed, S) BY <1>6, <3>3, <3>5, <3>7, <4>1, <4>3, Matched
        <4> QED BY <4>2, <4>4
      <3>9. CASE Side[r] # "buy"
        <4>1. PICK T : T = Trades(queue, one, placed) OBVIOUS
        <4>2. Trade(r, placed, T) BY <3>1, <3>4, <3>9, <4>1
        <4>3. \A i \in 1..Len(queue), j \in 1..Len(one) : queue[i] # one[j] BY <3>6, <3>7
        <4>4. Handed(T, placed, S) BY <1>6, <3>3, <3>5, <3>7, <4>1, <4>3, Matched
        <4> QED BY <4>2, <4>4
      <3> QED BY <3>8, <3>9
    <2> QED BY <1>2, <1>4, <1>11, <2>1, <2>2 DEF Match
  <1>14. PICK T : Handed(T, placed, S) /\ Trade(r, placed, T) BY <1>13
  <1>15. \A o \in Requests : o \in S => o \in entered'
    BY <1>7, <1>12, RestingEntered DEF Resting
  <1>16. entered \subseteq Requests /\ segment' \in DOMAIN Segments /\ swept' \in BOOLEAN
    BY <1>7, Unfold
  <1>17. entered' \subseteq Requests /\ entered \subseteq entered'
         /\ \A o \in Requests : o \in entered' <=> o \in entered \/ o = r
    BY <1>7, <1>16
  <1>18. hand[r].at # "write" BY <1>7 DEF Placing
  <1>19. ~Gone(placed[r]) /\ placed[r].rem = Qty[r] BY <1>3, <1>6
  <1> QED BY <1>1, <1>6, <1>7, <1>9, <1>14, <1>15, <1>16, <1>17, <1>18, <1>19, TradeStep

-----------------------------------------------------------------------------
(***************************************************************************)
(* The end of the day, faults and restarts.                                *)
(***************************************************************************)
LEMMA ExpireStep == ASSUME IInv, Expire PROVE IInv'
  <1>1. Daemon \in Workers /\ Daemon \notin Requests BY Roles
  <1>2. PICK open : open = {o \in Requests : Active(engine[o])} OBVIOUS
  <1>3. /\ engine' = [o \in Requests |-> IF o \in open
                                         THEN [engine[o] EXCEPT !.status = "expired", !.rem = 0]
                                         ELSE engine[o]]
        /\ hand' = [hand EXCEPT ![Daemon] = [at |-> "write", copies |-> Copies(engine', open),
                                             trades |-> {}, mine |-> Absent]]
    BY <1>2, Zenon DEF Expire
  <1>4. /\ hand[Daemon].at = "idle" /\ swept' = TRUE
        /\ UNCHANGED <<rows, tape, memo, segment, answer, faults, misled, astray, entered, given>>
    BY DEF Expire, At, faultVars
  <1>5. Empty(hand[Daemon]) BY <1>1, <1>4, IdleEmpty
  <1>6. ControlOK /\ engine \in [Requests -> Records] BY Unfold
  <1>7. ASSUME NEW o \in Requests
        PROVE  /\ engine'[o] \in Records /\ engine'[o].rem <= engine[o].rem
               /\ o \notin open => engine'[o] = engine[o]
               /\ o \in open => ~Gone(engine'[o]) /\ o \in entered
    <2>1. PICK old \in Records : old = engine[o] BY <1>6
    <2>2. old.rem \in Nat BY DEF Records
    <2>3. CASE o \notin open
      <3>1. engine'[o] = old BY <1>3, <2>1, <2>3
      <3>2. old.rem <= old.rem BY <2>2
      <3> QED BY <2>1, <2>3, <3>1, <3>2
    <2>4. CASE o \in open
      <3>1. "expired" \in Statuses BY DEF Statuses
      <3>2. PICK new : new = [old EXCEPT !.status = "expired", !.rem = 0] OBVIOUS
      <3>3. new \in Records /\ new.rem = 0 /\ new.status = "expired"
        BY <3>1, <3>2 DEF Records
      <3>4. o \in entered BY <1>2, <2>4, RestingEntered
      <3>5. engine'[o] = new BY <1>3, <2>1, <2>4, <3>2
      <3> QED BY <2>1, <2>2, <2>4, <3>3, <3>4, <3>5 DEF Gone
    <2> QED BY <2>3, <2>4
  <1>8. engine' \in [Requests -> Records]
    <2>1. engine' = [o \in Requests |-> engine'[o]] BY <1>3
    <2> QED BY <1>7, <2>1
  <1>9. PICK copies : copies = Copies(engine', open) OBVIOUS
  <1>10. /\ \A copy \in copies : \E o \in open : copy = [order |-> o, is |-> engine'[o]]
         /\ \A o \in open : [order |-> o, is |-> engine'[o]] \in copies
    BY <1>9 DEF Copies
  <1>11. copies \subseteq [order : Requests, is : Records] BY <1>2, <1>7, <1>10
  <1>12. PICK h : h = [at |-> "write", copies |-> copies, trades |-> {}, mine |-> Absent] OBVIOUS
  <1>13. h.at = "write" /\ h.copies = copies /\ h.trades = {} BY <1>12
  <1>14. h \in Hands BY <1>11, <1>12, AbsentType DEF Hands, Stages
  <1>15. OneHand(Daemon, h)
    <2>1. hand' = [hand EXCEPT ![Daemon] = h] BY <1>3, <1>9, <1>12
    <2>2. IsFiniteSet(h.trades) BY <1>13, FS_EmptySet
    <2> QED BY <1>1, <1>14, <2>1, <2>2, Handle
  <1>16. ASSUME NEW copy \in copies
         PROVE  \E o \in open : copy.order = o /\ copy.is = engine'[o]
    <2>1. PICK o \in open : copy = [order |-> o, is |-> engine'[o]] BY <1>10
    <2>2. copy.order = o /\ copy.is = engine'[o] BY <2>1
    <2> QED BY <2>2
  <1>17. Says(Daemon) /\ Remembers BY <1>1, <1>4, SaysNothing, RemembersSame
  <1>18. segment' \in DOMAIN Segments /\ swept' \in BOOLEAN BY <1>4, Unfold
  <1>19. Types' BY <1>1, <1>4, <1>8, <1>15, <1>17, <1>18, Unfold, TypesStep DEF IInv, Types
  <1>20. ControlOK'
    <2>1. HandOK(Daemon)'
      <3>1. \A copy \in copies : copy.order \in entered /\ ~Gone(copy.is)
        BY <1>2, <1>7, <1>16
      <3> QED BY <1>4, <1>13, <1>15, <3>1 DEF HandOK, OneHand, Placing
    <2>2. ASSUME NEW o \in Requests PROVE OrderOK(o)' /\ (Gone(engine'[o]) => Gone(engine[o]))
      <3>1. OrderOK(o) BY <1>6 DEF ControlOK
      <3>2. CASE o \in open BY <1>4, <1>7, <3>1, <3>2 DEF OrderOK
      <3>3. CASE o \notin open BY <1>4, <1>7, <3>1, <3>3 DEF OrderOK
      <3> QED BY <3>2, <3>3
    <2> QED BY <1>1, <1>4, <1>15, <1>17, <2>1, <2>2, ControlStep
  <1>21. KeysOK' BY <1>1, <1>4, <1>17, KeysStep
  <1>22. BookOK'
    <2> SUFFICES ASSUME NEW o \in Requests, o \notin astray PROVE RowOK(o)'
      BY <1>4 DEF BookOK
    <2>1. CASE o \in open
      <3>1. PICK copy \in copies : copy = [order |-> o, is |-> engine'[o]] BY <1>10, <2>1
      <3>2. copy.order = o /\ copy.is = engine'[o] BY <3>1
      <3>3. Carries(Daemon, o)' BY <1>13, <1>15, <3>2 DEF Carries, OneHand
      <3> QED BY <1>1, <3>3 DEF RowOK
    <2>2. CASE o \notin open
      <3>1. RowOK(o) /\ engine'[o] = engine[o] BY <1>7, <2>2, Unfold DEF BookOK
      <3>2. ASSUME NEW v \in Workers, Carries(v, o) PROVE Carries(v, o)'
        <4>1. v # Daemon BY <1>1, <1>5, <3>2 DEF Carries, Empty
        <4>2. hand'[v] = hand[v] BY <1>15, <4>1 DEF OneHand
        <4> QED BY <3>1, <3>2, <4>2 DEF Carries
      <3> QED BY <1>4, <3>1, <3>2 DEF RowOK
    <2> QED BY <2>1, <2>2
  <1>23. FillsOK' BY <1>4, <1>7, <1>8, FillsStep
  <1>24. TapeOK' BY <1>1, <1>4, <1>5, <1>13, <1>15, TapeStep DEF Empty
  <1> QED BY <1>19, <1>20, <1>21, <1>22, <1>23, <1>24 DEF IInv

LEMMA BreaksOffStep == ASSUME IInv, NEW w \in Workers, BreaksOff(w) PROVE IInv'
  <1>1. /\ faults < MaxFaults /\ faults' = faults + 1 /\ hand' = [hand EXCEPT ![w] = Free]
        /\ hand[w].at # "idle"
        /\ \E a \in {None, Failed} : /\ answer' = [answer EXCEPT ![w] = a]
                                     /\ w \in Requests => a = Failed
        /\ astray' = astray \cup Unwritten(w)
        /\ UNCHANGED <<engine, entered, given, rows, tape, memo, segment, swept, misled>>
    BY Roles DEF BreaksOff, At, Slip, engineVars, daemonVars
  <1>2. PICK a \in {None, Failed} : /\ answer' = [answer EXCEPT ![w] = a]
                                    /\ w \in Requests => a = Failed
    BY <1>1
  <1>3. OneHand(w, Free) BY <1>1, FreeFields, Handle
  <1>4. a \notin Requests /\ Failed # None BY Roles
  <1>5. Says(w) /\ answer'[w] = a BY <1>2, <1>4, SaysResult
  <1>6. Remembers BY <1>1, RemembersSame
  <1>7. ControlOK /\ faults \in Nat /\ MaxFaults \in Nat BY Unfold, ServiceAssumption
  <1>8. faults' \in 0..MaxFaults /\ faults' # 0 BY <1>1, <1>7
  <1>9. hand[w] \in Hands /\ astray \subseteq Requests BY Unfold
  <1>10. Unwritten(w) \subseteq Requests BY <1>9, HandFields DEF Unwritten
  <1>11. astray' \subseteq Requests BY <1>1, <1>9, <1>10
  <1>12. Types' BY <1>1, <1>3, <1>5, <1>6, <1>8, <1>11, Unfold, TypesStep DEF IInv, Types
  <1>13. ControlOK'
    <2>1. HandOK(w)' BY <1>3, FreeFields DEF HandOK, OneHand, Placing
    <2>2. w \in Requests => RequestOK(w)'
      <3>1. hand'[w] = Free BY <1>3 DEF OneHand
      <3>2. w \in Requests => answer'[w] # None BY <1>2, <1>4, <1>5
      <3> QED BY <3>1, <3>2, FreeFields DEF RequestOK, Fresh, Placing
    <2>3. \A o \in Requests : OrderOK(o)' BY <1>1, <1>7 DEF ControlOK, OrderOK
    <2> QED BY <1>1, <1>3, <1>5, <2>1, <2>2, <2>3, ControlStep
  <1>14. KeysOK' BY <1>1, <1>5, <1>6, KeysStep
  <1>15. BookOK'
    <2> SUFFICES ASSUME NEW o \in Requests, o \notin astray' PROVE RowOK(o)'
      BY DEF BookOK
    <2>1. o \notin astray /\ o \notin Unwritten(w) BY <1>1
    <2>2. RowOK(o) BY <2>1, Unfold DEF BookOK
    <2>3. ~Carries(w, o)
      <3>1. \A copy \in hand[w].copies : copy.order # o BY <2>1 DEF Unwritten
      <3>2. ~(w = o /\ hand[o].at = "write") BY <2>1 DEF Unwritten, At
      <3> QED BY <3>1, <3>2 DEF Carries
    <2>4. ASSUME NEW v \in Workers, Carries(v, o) PROVE Carries(v, o)'
      <3>1. v # w BY <2>3, <2>4
      <3>2. hand'[v] = hand[v] BY <1>3, <3>1 DEF OneHand
      <3> QED BY <1>1, <2>4, <3>2 DEF Carries
    <2> QED BY <1>1, <2>2, <2>4 DEF RowOK
  <1>16. FillsOK' BY <1>1, Unfold DEF FillsOK
  <1>17. TapeOK'
    <2> SUFFICES ASSUME NEW o \in Requests PROVE tape[o] + Held(hand', o) <= given[o]
      BY <1>1, <1>8 DEF TapeOK
    <2>1. tape[o] + Held(hand, o) <= given[o] BY Unfold DEF TapeOK
    <2>2. /\ Held(hand', o) = (Held(hand, o) - Shares(hand[w].trades, o)) + Shares(Free.trades, o)
          /\ Held(hand, o) \in Nat /\ Shares(hand[w].trades, o) \in Nat
      BY <1>3, HandHeld
    <2>3. Shares(Free.trades, o) = 0 BY FreeFields, SharesNone
    <2>4. tape[o] \in Nat /\ given[o] \in Nat BY Unfold
    <2> QED BY <2>1, <2>2, <2>3, <2>4
  <1> QED BY <1>12, <1>13, <1>14, <1>15, <1>16, <1>17 DEF IInv

\* With all hands free nothing is held.
LEMMA NothingHeld ==
    ASSUME NEW H, \A w \in Workers : H[w].trades = {}, NEW o
    PROVE  Held(H, o) = 0
  <1>1. PICK f : f = [w \in Workers |-> Shares(H[w].trades, o)] OBVIOUS
  <1>2. \A w \in Workers : f[w] = 0 BY <1>1, SharesNone
  <1> DEFINE Good == {S \in SUBSET Workers : SumFunctionOnSet(f, S) = 0}
  <1>3. ASSUME NEW S \in SUBSET Workers, \A U \in SUBSET S : U # S => U \in Good
        PROVE  S \in Good
    <2>1. CASE S = {} BY <2>1, SumEmpty
    <2>2. CASE S # {}
      <3>1. PICK w : w \in S BY <2>2
      <3>2. S \ {w} \in Good BY <1>3, <3>1
      <3>3. IsFiniteSet(S) BY Roles, FS_Subset
      <3>4. \A x \in S : f[x] \in Int BY <1>2
      <3>5. SumFunctionOnSet(f, S) = f[w] + SumFunctionOnSet(f, S \ {w})
        BY <3>1, <3>3, <3>4, SumRemove
      <3> QED BY <1>2, <3>1, <3>2, <3>5
    <2> QED BY <2>1, <2>2
  <1> HIDE DEF Good
  <1>4. Workers \in Good BY <1>3, Roles, SubsetInduction
  <1> QED BY <1>1, <1>4 DEF Good, Held

LEMMA FirstSegment == 1 \in DOMAIN Segments
  <1>1. PICK S : Segments \in Seq(S) /\ Segments # <<>> BY ServiceAssumption
  <1> QED BY <1>1

LEMMA RestartStep == ASSUME IInv, Restart PROVE IInv'
  <1>1. /\ faults < MaxFaults /\ faults' = faults + 1
        /\ engine' = [o \in Requests |-> Recovered(o)]
        /\ misled' = misled \cup {o \in Requests : Active(rows[o]) /\ rows[o] # engine[o]}
        /\ memo' = [k \in Requests |-> None]
        /\ hand' = [w \in Workers |-> Free]
        /\ astray' = {} /\ segment' = 1 /\ swept' = FALSE
        /\ UNCHANGED <<rows, tape, entered, given>>
    BY DEF Restart, Slip
  <1>2. answer' = [w \in Workers |-> IF At(w, "idle") \/ w = Daemon THEN answer[w] ELSE Failed]
    BY DEF Restart
  <1>3. /\ ControlOK /\ KeysOK /\ faults \in Nat /\ MaxFaults \in Nat
        /\ answer \in [Workers -> Requests \cup {None, Failed}]
        /\ engine \in [Requests -> Records] /\ rows \in [Requests -> Records]
    BY Unfold, ServiceAssumption
  <1>4. \A w \in Workers : hand'[w] = Free BY <1>1
  <1>5. ASSUME NEW o \in Requests
        PROVE  /\ engine'[o] \in Records
               /\ Active(rows[o]) => engine'[o] = rows[o]
               /\ ~Active(rows[o]) => engine'[o] = Absent
    BY <1>1, <1>3, AbsentType DEF Recovered
  <1>6. Types'
    <2>1. engine' \in [Requests -> Records]
      <3>1. engine' = [o \in Requests |-> engine'[o]] BY <1>1
      <3> QED BY <1>5, <3>1
    <2>2. memo' \in [Requests -> Requests \cup {None}] BY <1>1
    <2>3. hand' \in [Workers -> Hands] /\ \A w \in Workers : IsFiniteSet(hand'[w].trades)
      BY <1>1, <1>4, FreeFields
    <2>4. answer' \in [Workers -> Requests \cup {None, Failed}] BY <1>2, <1>3
    <2>5. faults' \in 0..MaxFaults BY <1>1, <1>3
    <2>6. segment' \in DOMAIN Segments /\ swept' \in BOOLEAN BY <1>1, FirstSegment
    <2>7. astray' \subseteq Requests /\ misled' \subseteq Requests BY <1>1, Unfold
    <2> QED BY <1>1, <2>1, <2>2, <2>3, <2>4, <2>5, <2>6, <2>7, Unfold DEF Types
  <1>7. ControlOK'
    <2>1. \A w \in Workers : HandOK(w)' BY <1>4, FreeFields DEF HandOK, Placing
    <2>2. ASSUME NEW r \in Requests PROVE RequestOK(r)'
      <3>1. r \in Workers /\ r # Daemon BY Roles
      <3>2. hand'[r] = Free /\ (answer'[r] = None => hand[r].at = "idle" /\ answer[r] = None)
        BY <1>2, <1>4, <3>1, Roles DEF At
      <3>3. RequestOK(r) BY <1>3 DEF ControlOK
      <3>4. answer'[r] = None => r \notin entered BY <3>2, <3>3 DEF RequestOK, Fresh
      <3> QED BY <1>1, <3>2, <3>4, FreeFields DEF RequestOK, Fresh, Placing
    <2>3. ASSUME NEW o \in Requests PROVE OrderOK(o)'
      <3>1. OrderOK(o) BY <1>3 DEF ControlOK
      <3>2. Gone(engine'[o]) => engine'[o] = Absent
        BY <1>5 DEF Active, Gone
      <3> QED BY <1>1, <1>5, <3>1, <3>2 DEF OrderOK
    <2> QED BY <2>1, <2>2, <2>3 DEF ControlOK
  <1>8. KeysOK'
    <2>1. \A k \in Requests : memo'[k] = None BY <1>1
    <2>2. ASSUME NEW r \in Requests, answer'[r] \in Requests PROVE answer'[r] = answer[r]
      <3>1. r \in Workers BY Roles
      <3>2. answer'[r] = answer[r] \/ answer'[r] = Failed BY <1>2, <3>1
      <3> QED BY <2>2, <3>2, Roles
    <2> QED BY <1>1, <1>3, <2>1, <2>2 DEF KeysOK, Answers
  <1>9. BookOK' BY <1>1, <1>5 DEF BookOK, RowOK
  <1>10. FillsOK'
    <2> SUFFICES ASSUME NEW o \in Requests, o \notin misled' PROVE given[o] + engine'[o].rem <= Qty[o]
      BY <1>1 DEF FillsOK
    <2>1. given[o] + engine[o].rem <= Qty[o] BY <1>1, Unfold DEF FillsOK
    <2>2. engine[o] \in Records BY <1>3
    <2>3. engine[o].rem \in Nat /\ given[o] \in Nat /\ Qty[o] \in Nat
      BY <2>2, Unfold, Roles DEF Records
    <2>4. CASE Active(rows[o])
      <3>1. engine'[o] = engine[o] BY <1>1, <1>5, <2>4
      <3> QED BY <2>1, <3>1
    <2>5. CASE ~Active(rows[o])
      <3>1. engine'[o].rem = 0 BY <1>5, <2>5, AbsentType
      <3> QED BY <2>1, <2>3, <3>1
    <2> QED BY <2>4, <2>5
  <1>11. TapeOK'
    <2> SUFFICES ASSUME NEW o \in Requests PROVE tape[o] + Held(hand', o) <= given[o]
      BY <1>1, <1>3 DEF TapeOK
    <2>1. tape[o] + Held(hand, o) <= given[o] BY Unfold DEF TapeOK
    <2>2. Held(hand', o) = 0 BY <1>4, FreeFields, NothingHeld
    <2>3. \A v \in Workers : hand[v].trades \subseteq TradeRecords /\ IsFiniteSet(hand[v].trades)
      BY Unfold, HandFields
    <2>4. Held(hand, o) \in Nat BY <2>3, HeldType
    <2>5. tape[o] \in Nat /\ given[o] \in Nat BY Unfold
    <2> QED BY <2>1, <2>2, <2>4, <2>5
  <1> QED BY <1>6, <1>7, <1>8, <1>9, <1>10, <1>11 DEF IInv

-----------------------------------------------------------------------------
LEMMA IInvInit == ASSUME Init PROVE IInv
  <1>1. /\ engine = [r \in Requests |-> Absent] /\ rows = engine
        /\ tape = [r \in Requests |-> 0] /\ memo = [k \in Requests |-> None]
        /\ segment = 1 /\ swept = FALSE /\ hand = [w \in Workers |-> Free]
        /\ answer = [w \in Workers |-> None] /\ faults = 0
        /\ astray = {} /\ entered = {} /\ misled = {} /\ given = [r \in Requests |-> 0]
    BY DEF Init
  <1>2. /\ \A w \in Workers : hand[w] = Free /\ answer[w] = None
        /\ \A r \in Requests : engine[r] = Absent /\ rows[r] = Absent /\ tape[r] = 0
                               /\ memo[r] = None /\ given[r] = 0
    BY <1>1
  <1>3. Types
    <2>1. engine \in [Requests -> Records] /\ rows \in [Requests -> Records]
      BY <1>1, AbsentType
    <2>2. hand \in [Workers -> Hands] /\ \A w \in Workers : IsFiniteSet(hand[w].trades)
      BY <1>1, <1>2, FreeFields
    <2>3. tape \in [Requests -> Nat] /\ given \in [Requests -> Nat] BY <1>1
    <2>4. memo \in [Requests -> Requests \cup {None}] BY <1>1
    <2>5. answer \in [Workers -> Requests \cup {None, Failed}] BY <1>1
    <2>6. segment \in DOMAIN Segments BY <1>1, FirstSegment
    <2>7. swept \in BOOLEAN BY <1>1
    <2>8. faults \in 0..MaxFaults BY <1>1, ServiceAssumption
    <2>9. astray \subseteq Requests /\ entered \subseteq Requests /\ misled \subseteq Requests
      BY <1>1
    <2> QED BY <2>1, <2>2, <2>3, <2>4, <2>5, <2>6, <2>7, <2>8, <2>9 DEF Types
  <1>4. ControlOK
    <2>1. \A w \in Workers : HandOK(w) BY <1>2, FreeFields DEF HandOK, Placing
    <2>2. \A r \in Requests : RequestOK(r)
      BY <1>1, <1>2, Roles, FreeFields DEF RequestOK, Fresh, Placing
    <2>3. \A o \in Requests : OrderOK(o) BY <1>1, <1>2, AbsentType DEF OrderOK
    <2> QED BY <2>1, <2>2, <2>3 DEF ControlOK
  <1>5. KeysOK BY <1>2, Roles, AbsentType DEF KeysOK, Answers
  <1>6. BookOK BY <1>2 DEF BookOK, RowOK
  <1>7. FillsOK
    <2> SUFFICES ASSUME NEW o \in Requests PROVE given[o] + engine[o].rem <= Qty[o]
      BY DEF FillsOK
    <2> QED BY <1>2, AbsentType, Roles
  <1>8. TapeOK
    <2> SUFFICES ASSUME NEW o \in Requests
                 PROVE  tape[o] + Held(hand, o) = given[o] /\ given[o] <= given[o]
      BY DEF TapeOK
    <2>1. Held(hand, o) = 0 BY <1>2, FreeFields, NothingHeld
    <2> QED BY <1>2, <2>1
  <1> QED BY <1>3, <1>4, <1>5, <1>6, <1>7, <1>8 DEF IInv

LEMMA IInvNext == ASSUME IInv, [Next]_vars PROVE IInv'
  <1>1. CASE \E w \in Workers : WriteCopy(w) \/ SaveTrade(w) \/ BreaksOff(w)
    BY <1>1, WriteCopyStep, SaveTradeStep, BreaksOffStep
  <1>2. CASE \E r \in Requests : Look(r) \/ Submit(r) \/ Admit(r) \/ Match(r) \/ WriteOwn(r)
    BY <1>2, LookStep, SubmitStep, AdmitStep, MatchStep, WriteOwnStep
  <1>3. CASE \E c \in Cancels : Cancel(c) \/ Lock(c) \/ CancelAnswer(c)
    BY <1>3, CancelStep, LockStep, CancelAnswerStep
  <1>4. CASE Uncross \/ Expire \/ Swept \/ Advance
    BY <1>4, UncrossStep, ExpireStep, SweptStep, AdvanceStep
  <1>5. CASE Restart BY <1>5, RestartStep
  <1>6. CASE UNCHANGED vars
    <2> USE <1>6 DEF vars
    <2>1. Types' BY Unfold DEF IInv, Types
    <2>2. ControlOK' BY Unfold DEF ControlOK, HandOK, RequestOK, OrderOK, Fresh
    <2>3. KeysOK' BY Unfold DEF KeysOK, Answers
    <2>4. BookOK' BY Unfold DEF BookOK, RowOK, Carries
    <2>5. FillsOK' /\ TapeOK' BY Unfold DEF FillsOK, TapeOK
    <2> QED BY <2>1, <2>2, <2>3, <2>4, <2>5 DEF IInv
  <1> QED BY <1>1, <1>2, <1>3, <1>4, <1>5, <1>6 DEF Next

LEMMA ServiceInvariant == Spec => []IInv
  <1> QED BY IInvInit, IInvNext, PTL DEF Spec

-----------------------------------------------------------------------------
\* However often a request is sent, at once, again after a failure or after a
\* restart, one order with its key enters the engine, and all answers name it
\* (Service.Place, the unique key of mats_orders).
THEOREM OneKeyOneOrder == Spec => []OneOrderPerKey
  <1>1. ASSUME IInv PROVE OneOrderPerKey
    <2>1. KeysOK /\ ControlOK /\ entered \subseteq Requests BY <1>1, Unfold
    <2>2. ASSUME NEW r \in entered, NEW s \in entered, Key[r] = Key[s] PROVE r = s
      <3>1. r \in Requests /\ s \in Requests BY <2>1
      <3>2. ~Gone(rows[r]) /\ ~Gone(rows[s]) BY <2>1, <3>1 DEF ControlOK, OrderOK
      <3> QED BY <2>1, <2>2, <3>1, <3>2 DEF KeysOK, Answers
    <2>3. ASSUME NEW r \in Requests, NEW s \in Requests, Key[r] = Key[s],
                 {answer[r], answer[s]} \subseteq Requests
          PROVE  answer[r] = answer[s]
      <3>1. answer[r] \in Requests /\ answer[s] \in Requests BY <2>3
      <3>2. Answers(answer[r], Key[r]) /\ Answers(answer[s], Key[s]) BY <2>1, <3>1 DEF KeysOK
      <3> QED BY <2>1, <2>3, <3>1, <3>2 DEF KeysOK, Answers
    <2> QED BY <2>2, <2>3 DEF OneOrderPerKey
  <1> QED BY <1>1, ServiceInvariant, PTL

\* With no request under way the rows are the book the next start takes up,
\* but for those that a late copy or a failed write has left astray
\* (Service.Place and Cancel write after the engine has let go of its lock).
THEOREM RowsAreTheBook == Spec => []RowsFollowBook
  <1>1. ASSUME IInv PROVE RowsFollowBook
    <2> SUFFICES ASSUME AtRest, NEW o \in Requests \ astray, engine[o] # Absent
                 PROVE  rows[o] = engine[o]
      BY DEF RowsFollowBook
    <2>1. RowOK(o) BY <1>1, Unfold DEF BookOK
    <2>2. ASSUME NEW w \in Workers PROVE ~Carries(w, o)
      <3>1. hand[w].at = "idle" BY DEF AtRest, At
      <3>2. Empty(hand[w]) BY <1>1, <3>1, IdleEmpty
      <3> QED BY <3>1, <3>2 DEF Carries, Empty
    <2> QED BY <2>1, <2>2 DEF RowOK
  <1> QED BY <1>1, ServiceInvariant, PTL

\* No trade is saved twice, and with no fault none is missing once the
\* requests are done; the types are part of it (SaveTrade of the store).
THEOREM TapeIsTheTrades == Spec => []TapeFollowsEngine
  <1>1. ASSUME IInv PROVE TapeFollowsEngine
    <2>1. TypeOK
      <3>1. ASSUME NEW w \in Workers
            PROVE  /\ DOMAIN hand[w] = {"at", "copies", "trades", "mine"}
                   /\ hand[w].at \in Stages
                   /\ \A copy \in hand[w].copies : copy.order \in Requests /\ copy.is \in Records
                   /\ hand[w].mine \in Records
        <4>1. hand[w] \in Hands BY <1>1, Unfold
        <4> QED BY <4>1 DEF Hands
      <3>2. UNION {astray, entered, misled} \subseteq Requests BY <1>1, Unfold
      <3> QED BY <1>1, <3>1, <3>2 DEF TypeOK, IInv, Types
    <2>2. ASSUME NEW o \in Requests
          PROVE  tape[o] <= given[o] /\ (AtRest /\ faults = 0 => tape[o] = given[o])
      <3>1. /\ tape[o] + Held(hand, o) <= given[o]
            /\ faults = 0 => tape[o] + Held(hand, o) = given[o]
        BY <1>1, Unfold DEF TapeOK
      <3>2. \A v \in Workers : hand[v].trades \subseteq TradeRecords /\ IsFiniteSet(hand[v].trades)
        BY <1>1, Unfold, HandFields
      <3>3. Held(hand, o) \in Nat BY <3>2, HeldType
      <3>4. tape[o] \in Nat /\ given[o] \in Nat BY <1>1, Unfold
      <3>5. AtRest => Held(hand, o) = 0
        <4>1. AtRest => \A v \in Workers : hand[v].trades = {}
          BY <1>1, IdleEmpty DEF AtRest, At, Empty
        <4> QED BY <4>1, NothingHeld
      <3> QED BY <3>1, <3>3, <3>4, <3>5
    <2> QED BY <2>1, <2>2 DEF TapeFollowsEngine
  <1> QED BY <1>1, ServiceInvariant, PTL

\* An order trades more than it asked for only after a restart that took up
\* a row that was not what the order was (Book.Match, Service.Recover).
THEOREM NoOverfill == Spec => []OverfilledOnlyIfMisled
  <1>1. ASSUME IInv PROVE OverfilledOnlyIfMisled
    <2> SUFFICES ASSUME NEW o \in Requests, o \notin misled PROVE given[o] <= Qty[o]
      BY DEF OverfilledOnlyIfMisled
    <2>1. given[o] + engine[o].rem <= Qty[o] BY <1>1, Unfold DEF FillsOK
    <2>2. engine[o] \in Records BY <1>1, Unfold
    <2>3. engine[o].rem \in Nat /\ given[o] \in Nat /\ Qty[o] \in Nat
      BY <1>1, <2>2, Unfold, Roles DEF Records
    <2> QED BY <2>1, <2>3
  <1> QED BY <1>1, ServiceInvariant, PTL
-----------------------------------------------------------------------------
\* What a client was told of is stored, and under the client's own key.
AnswersAreStored ==
    \A r \in Requests : answer[r] \in Requests =>
      rows[answer[r]].status # "absent" /\ Key[answer[r]] = Key[r]

\* No row is taken back, and no request is told of another order later.
StoredForGood ==
    [][\A r \in Requests : /\ rows[r].status # "absent" => rows'[r].status # "absent"
                           /\ answer[r] \in Requests => answer'[r] = answer[r]]_vars

LEMMA RowsStay ==
    ASSUME IInv, [Next]_vars, NEW o \in Requests, ~Gone(rows[o])
    PROVE  ~Gone(rows'[o])
  <1>0. rows \in [Requests -> Records] BY Unfold
  <1>1. ASSUME NEW p \in Requests, NEW is \in Records, Put(p, is), ~Gone(is)
        PROVE  ~Gone(rows'[o])
    <2>1. rows'[p] = is /\ \A q \in Requests \ {p} : rows'[q] = rows[q] BY <1>1, PutRow
    <2> QED BY <1>1, <2>1
  <1>2. ASSUME NEW w \in Workers, WriteCopy(w) PROVE ~Gone(rows'[o])
    <2>1. PICK copy \in hand[w].copies : Put(copy.order, copy.is) BY <1>2 DEF WriteCopy
    <2>2. PICK p, is : p = copy.order /\ is = copy.is OBVIOUS
    <2>3. hand[w] \in Hands /\ HandOK(w) BY Unfold DEF ControlOK
    <2>4. p \in Requests /\ is \in Records /\ ~Gone(is) BY <2>1, <2>2, <2>3, HandFields DEF HandOK
    <2> QED BY <1>1, <2>1, <2>2, <2>4
  <1>3. ASSUME NEW r \in Requests, WriteOwn(r) PROVE ~Gone(rows'[o])
    <2>1. PICK is \in Torn(hand[r].mine, engine[r]) : Put(r, is) BY <1>3 DEF WriteOwn
    <2>2. hand[r].at = "write" BY <1>3 DEF WriteOwn, At
    <2>3. r \in Workers BY Roles
    <2>4. hand[r] \in Hands /\ engine[r] \in Records /\ RequestOK(r) BY <2>3, Unfold DEF ControlOK
    <2>5. hand[r].mine \in Records /\ ~Gone(hand[r].mine) /\ ~Gone(engine[r])
      BY <2>2, <2>4, HandFields DEF RequestOK
    <2>6. is \in Records /\ ~Gone(is) BY <2>1, <2>4, <2>5, TornRead
    <2> QED BY <1>1, <2>1, <2>6
  <1>4. ASSUME NEW r \in Requests, Submit(r) PROVE ~Gone(rows'[o])
    <2>1. CASE rows' = rows BY <2>1
    <2>2. ASSUME NEW status, NEW rem, status # "absent", Saves(r, status, rem)
          PROVE  ~Gone(rows'[o])
      <3>1. PICK new : new = [status |-> status, rem |-> rem, filled |-> 0] OBVIOUS
      <3>2. rows' = [rows EXCEPT ![r] = new] BY <2>2, <3>1 DEF Saves
      <3>3. new.status # "absent" BY <2>2, <3>1
      <3>4. rows'[o] = new \/ rows'[o] = rows[o] BY <1>0, <3>2
      <3> QED BY <3>3, <3>4 DEF Gone
    <2>3. rows' = rows \/ Saves(r, "accepted", Qty[r]) \/ Saves(r, "rejected", 0)
      BY <1>4 DEF Submit
    <2> QED BY <2>1, <2>2, <2>3
  <1>5. \/ rows' = rows \/ \E w \in Workers : WriteCopy(w)
        \/ \E r \in Requests : WriteOwn(r) \/ Submit(r)
    <2>1. CASE \E w \in Workers : SaveTrade(w) \/ BreaksOff(w)
      BY <2>1 DEF SaveTrade, BreaksOff
    <2>2. CASE \E r \in Requests : Look(r) \/ Admit(r) \/ Match(r) BY <2>2 DEF Look, Admit, Match
    <2>3. CASE \E c \in Cancels : Cancel(c) \/ Lock(c) \/ CancelAnswer(c)
      BY <2>3 DEF Cancel, Lock, CancelAnswer
    <2>4. CASE Uncross \/ Expire \/ Swept \/ Advance \/ Restart
      BY <2>4 DEF Uncross, Expire, Swept, Advance, Restart
    <2>5. CASE UNCHANGED vars BY <2>5 DEF vars
    <2> QED BY <2>1, <2>2, <2>3, <2>4, <2>5 DEF Next
  <1> QED BY <1>2, <1>3, <1>4, <1>5

\* A request that has been told of an order has nothing more to do.
Told == \A r \in Requests : answer[r] \in Requests => hand[r].at = "idle"

\* A step is one worker's, who was not told yet; told now, it is done.
Works(w) ==
    /\ \A r \in Requests \ {w} : hand'[r] = hand[r] /\ answer'[r] = answer[r]
    /\ w \in Requests => \/ hand[w].at # "idle"
                         \/ answer[w] = None
    /\ hand'[w] = Free \/ answer'[w] = answer[w]

LEMMA OneWorks ==
    ASSUME IInv, [Next]_vars
    PROVE  UNCHANGED <<hand, answer>> \/ Restart \/ \E w \in Workers : Works(w)
  <1>0. /\ hand \in [Workers -> Hands] /\ answer \in [Workers -> Requests \cup {None, Failed}]
        /\ Requests \subseteq Workers /\ Cancels \subseteq Workers /\ Daemon \in Workers
        /\ Daemon \notin Requests /\ \A c \in Cancels : c \notin Requests
    BY Unfold, Roles
  <1>1. ASSUME NEW w \in Workers, NEW h, hand' = [hand EXCEPT ![w] = h], answer' = answer,
               w \in Requests => hand[w].at # "idle" \/ answer[w] = None
        PROVE  Works(w)
    BY <1>0, <1>1 DEF Works
  <1>2. ASSUME NEW w \in Workers, NEW a, Ends(w, a),
               w \in Requests => hand[w].at # "idle" \/ answer[w] = None
        PROVE  Works(w)
    BY <1>0, <1>2 DEF Works, Ends
  <1>3. ASSUME NEW w \in Workers, WriteCopy(w) \/ SaveTrade(w) PROVE Works(w)
    <2>1. hand[w].at # "idle" /\ answer' = answer BY <1>3 DEF WriteCopy, SaveTrade, At
    <2>2. CASE WriteCopy(w)
      <3>1. PICK copy \in hand[w].copies : hand' = [hand EXCEPT ![w].copies = @ \ {copy}]
        BY <2>2 DEF WriteCopy
      <3>2. PICK h : h = [hand[w] EXCEPT !.copies = @ \ {copy}] OBVIOUS
      <3>3. hand' = [hand EXCEPT ![w] = h] BY <3>1, <3>2
      <3> QED BY <1>1, <2>1, <3>3
    <2>3. CASE SaveTrade(w)
      <3>1. PICK t \in hand[w].trades : hand' = [hand EXCEPT ![w].trades = @ \ {t}]
        BY <2>3 DEF SaveTrade
      <3>2. PICK h : h = [hand[w] EXCEPT !.trades = @ \ {t}] OBVIOUS
      <3>3. hand' = [hand EXCEPT ![w] = h] BY <3>1, <3>2
      <3> QED BY <1>1, <2>1, <3>3
    <2> QED BY <1>3, <2>2, <2>3
  <1>4. ASSUME NEW w \in Workers, BreaksOff(w) PROVE Works(w)
    <2>1. PICK a : a = IF w = Daemon THEN None ELSE Failed OBVIOUS
    <2>2. Ends(w, a) /\ hand[w].at # "idle" BY <1>4, <2>1 DEF BreaksOff, Ends, At
    <2> QED BY <1>2, <2>2
  <1>5. ASSUME NEW w \in Workers, NEW at, Goto(w, at), answer' = answer,
               w \in Requests => hand[w].at # "idle" \/ answer[w] = None
        PROVE  Works(w)
    <2>1. PICK h : h = [hand[w] EXCEPT !.at = at] OBVIOUS
    <2>2. hand' = [hand EXCEPT ![w] = h] BY <1>5, <2>1 DEF Goto
    <2> QED BY <1>1, <1>5, <2>2
  <1>6. ASSUME NEW r \in Requests, Look(r) PROVE Works(r)
    <2>1. hand[r].at = "idle" /\ answer[r] = None BY <1>0, <1>6 DEF Look, Asks, At
    <2>2. (\E a : Ends(r, a)) \/ (Goto(r, "submit") /\ answer' = answer) BY <1>6 DEF Look
    <2> QED BY <1>0, <1>2, <1>5, <2>1, <2>2
  <1>7. ASSUME NEW r \in Requests, Submit(r) PROVE Works(r)
    <2>1. hand[r].at # "idle" BY <1>7 DEF Submit, At
    <2>2. (\E a : Ends(r, a)) \/ (Goto(r, "match") /\ answer' = answer) BY <1>7 DEF Submit
    <2> QED BY <1>0, <1>2, <1>5, <2>1, <2>2
  <1>8. ASSUME NEW r \in Requests, Match(r) PROVE Works(r)
    <2>1. hand[r].at # "idle" /\ answer' = answer BY <1>8 DEF Match, At
    <2>2. \E h : hand' = [hand EXCEPT ![r] = h] BY <1>8 DEF Match, Trade
    <2> QED BY <1>0, <1>1, <2>1, <2>2
  <1>13. ASSUME NEW r \in Requests, Admit(r) PROVE Works(r)
    <2>1. hand[r].at # "idle" /\ answer' = answer BY <1>13 DEF Admit, At
    <2>2. \E at : Goto(r, at) BY <1>13 DEF Admit
    <2> QED BY <1>0, <1>5, <2>1, <2>2
  <1>9. ASSUME NEW r \in Requests, WriteOwn(r) PROVE Works(r)
    <2>1. hand[r].at # "idle" /\ Ends(r, r) BY <1>9 DEF WriteOwn, At
    <2> QED BY <1>0, <1>2, <2>1
  <1>10. ASSUME NEW c \in Cancels, Cancel(c) \/ Lock(c) \/ CancelAnswer(c) PROVE Works(c)
    <2>1. CASE Cancel(c)
      <3>1. (\E h : hand' = [hand EXCEPT ![c] = h] /\ answer' = answer) \/ Ends(c, Failed)
        BY <2>1 DEF Cancel, TakeCopy
      <3> QED BY <1>0, <1>1, <1>2, <3>1
    <2>2. CASE Lock(c)
      <3>1. answer' = answer /\ (Goto(c, "write") \/ \E h : hand' = [hand EXCEPT ![c] = h])
        BY <2>2 DEF Lock, TakeCopy
      <3> QED BY <1>0, <1>1, <1>5, <3>1
    <2>3. CASE CancelAnswer(c)
      <3>1. Ends(c, Target[c]) BY <2>3 DEF CancelAnswer
      <3> QED BY <1>0, <1>2, <3>1
    <2> QED BY <1>10, <2>1, <2>2, <2>3
  <1>11. ASSUME Uncross \/ Expire \/ Swept PROVE Works(Daemon)
    <2>1. answer' = answer /\ \E h : hand' = [hand EXCEPT ![Daemon] = h]
      BY <1>11 DEF Uncross, Trade, Expire, Swept
    <2> QED BY <1>0, <1>1, <2>1
  <1>12. ASSUME Advance \/ UNCHANGED vars PROVE UNCHANGED <<hand, answer>>
    BY <1>12 DEF Advance, vars
  <1> QED
    BY <1>0, <1>3, <1>4, <1>6, <1>7, <1>8, <1>9, <1>10, <1>11, <1>12, <1>13 DEF Next

LEMMA AnswersStay ==
    ASSUME IInv, [Next]_vars, Told
    PROVE  Told' /\ \A r \in Requests : answer[r] \in Requests => answer'[r] = answer[r]
  <1>1. CASE UNCHANGED <<hand, answer>> BY <1>1 DEF Told
  <1>2. CASE Restart
    <2>1. answer' = [w \in Workers |-> IF At(w, "idle") \/ w = Daemon THEN answer[w] ELSE Failed]
      BY <1>2 DEF Restart
    <2>2. hand' = [w \in Workers |-> Free] BY <1>2 DEF Restart
    <2>3. \A r \in Requests : r \in Workers /\ hand'[r].at = "idle" BY <2>2, Roles, FreeFields
    <2>4. \A r \in Requests : answer[r] \in Requests => answer'[r] = answer[r]
      BY <2>1, <2>3 DEF Told, At
    <2> QED BY <2>3, <2>4 DEF Told
  <1>3. ASSUME NEW w \in Workers, Works(w)
        PROVE  Told' /\ \A r \in Requests : answer[r] \in Requests => answer'[r] = answer[r]
    <2>1. w \in Requests => answer[w] \notin Requests BY <1>3, Roles DEF Works, Told
    <2>2. ASSUME NEW r \in Requests, answer'[r] \in Requests PROVE hand'[r].at = "idle"
      BY <1>3, <2>1, <2>2, FreeFields DEF Works, Told
    <2>3. \A r \in Requests : answer[r] \in Requests => answer'[r] = answer[r]
      BY <1>3, <2>1 DEF Works
    <2> QED BY <2>2, <2>3 DEF Told
  <1> QED BY <1>1, <1>2, <1>3, OneWorks

LEMMA ToldInvariant == Spec => []Told
  <1>1. Init => Told
    <2> SUFFICES ASSUME Init PROVE Told OBVIOUS
    <2>1. \A r \in Requests : answer[r] = None BY Roles DEF Init
    <2> QED BY <2>1, Roles DEF Told
  <1>2. IInv /\ Told /\ [Next]_vars => Told' BY AnswersStay
  <1> QED BY <1>1, <1>2, ServiceInvariant, PTL DEF Spec

\* A client is told only of an order that is stored, placed under the client's
\* key: nothing that was answered can be missing after a restart.
THEOREM AnswersAreStoredHolds == Spec => []AnswersAreStored
  <1>1. ASSUME IInv PROVE AnswersAreStored
    BY <1>1, Unfold DEF KeysOK, Answers, Gone, AnswersAreStored
  <1> QED BY <1>1, ServiceInvariant, PTL

\* A row, once saved, is there for good, whatever copies are written over it
\* and however often MATS restarts; and an answer is final.
THEOREM StoredForGoodHolds == Spec => StoredForGood
  <1>1. ASSUME IInv, Told, [Next]_vars, NEW r \in Requests
        PROVE  /\ rows[r].status # "absent" => rows'[r].status # "absent"
               /\ answer[r] \in Requests => answer'[r] = answer[r]
    BY <1>1, RowsStay, AnswersStay DEF Gone
  <1>2. IInv /\ Told /\ [Next]_vars =>
          [\A r \in Requests : /\ rows[r].status # "absent" => rows'[r].status # "absent"
                               /\ answer[r] \in Requests => answer'[r] = answer[r]]_vars
    BY <1>1
  <1> QED BY <1>2, ServiceInvariant, ToldInvariant, PTL DEF Spec, StoredForGood
=============================================================================
