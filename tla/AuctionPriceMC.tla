--------------------------- MODULE AuctionPriceMC ---------------------------
(***************************************************************************)
(* AuctionPrice on every book, those included that no engine reaches.  A   *)
(* behaviour starts from an empty book and lets orders enter and leave, so *)
(* every book of limit orders is a reachable state.                        *)
(***************************************************************************)
EXTENDS MatchingEngine

CONSTANTS Ticks,       \* prices an auction could have
          References   \* the reference prices tried

ASSUME PricesAssumption == Ticks \subseteq Nat /\ References \subseteq Nat

unused == <<nextSeq, drawn, op, tape, batch, reported, auctioned, stranded>>

Quotes == [side : Sides, price : Prices, rem : Quantities]

Enter(o, quote) ==
    /\ o \notin book
    /\ book' = book \cup {o}
    /\ orders' = [orders EXCEPT ![o].side = quote.side, ![o].price = quote.price,
                                ![o].rem = quote.rem]
    /\ UNCHANGED unused

\* Orders outside the book are blank, so that equal books are equal states.
Leave(o) == /\ o \in book
            /\ book' = book \ {o}
            /\ orders' = [orders EXCEPT ![o] = Absent]
            /\ UNCHANGED unused

BooksNext == \E o \in OrderIds : \/ \E quote \in Quotes : Enter(o, quote)
                                 \/ Leave(o)

BooksSpec == Init /\ [][BooksNext]_vars

\* The price that is found, and what it executes.
IEP(ref) == CHOOSE p \in IndicativePrice(orders, book, ref) : TRUE
Volume(ref) == IF book = {} THEN 0 ELSE Executable(orders, book, IEP(ref))

\* The members of S that minimise cost.
Minimising(S, cost) == {p \in S : \A q \in S : cost[p] <= cost[q]}

\* The prices that the auction contract leaves after each of its rules: those
\* of greatest executable volume, of those the least imbalanced, of those the
\* nearest to the reference, of those the lowest.
Prospects == Candidates(orders, book)
Most == Minimising(Prospects, [p \in Prospects |-> -Executable(orders, book, p)])
LeastUneven == Minimising(Most, [p \in Prospects |-> Imbalance(orders, book, p)])
Nearest(ref) == Minimising(LeastUneven, [p \in Prospects |-> AbsDiff(p, ref)])
Lowest(ref) == Minimising(Nearest(ref), [p \in Prospects |-> p])

(***************************************************************************)
(* The indicative price is the one the auction contract defines.  The code *)
(* does it in one pass with a pairwise comparison (auction.go Indicative). *)
(***************************************************************************)
IndicativeFollowsContract ==
    \A ref \in References : IndicativePrice(orders, book, ref) = Lowest(ref)

(***************************************************************************)
(* Looking only at the prices of resting orders loses no volume: no tick   *)
(* between them would execute more than the indicative price does.         *)
(***************************************************************************)
NoTickExecutesMore ==
    \A ref \in References, p \in Ticks : Executable(orders, book, p) <= Volume(ref)
=============================================================================
