---------------------------- MODULE AuctionPrice ----------------------------
(***************************************************************************)
(* The indicative equilibrium price of a call auction, as                  *)
(* internal/matching/auction.go computes it.  Pure operators: "ord" is a   *)
(* function from order ids to records with the fields side, price and rem, *)
(* "bk" the set of ids resting in the book, "ref" the reference price.     *)
(***************************************************************************)
EXTENDS Integers, FiniteSets, Functions

AbsDiff(a, b) == IF a < b THEN b - a ELSE a - b

Lesser(a, b) == IF a < b THEN a ELSE b

\* The quantity that would buy at price p or better.
BuyVolume(ord, bk, p) ==
    SumFunctionOnSet([o \in bk |-> ord[o].rem],
                     {o \in bk : ord[o].side = "buy" /\ ord[o].price >= p})

\* The quantity that would sell at price p or better.
SellVolume(ord, bk, p) ==
    SumFunctionOnSet([o \in bk |-> ord[o].rem],
                     {o \in bk : ord[o].side = "sell" /\ ord[o].price <= p})

\* What an auction at price p executes, and what it leaves unbalanced.
Executable(ord, bk, p) == Lesser(BuyVolume(ord, bk, p), SellVolume(ord, bk, p))
Imbalance(ord, bk, p)  == AbsDiff(BuyVolume(ord, bk, p), SellVolume(ord, bk, p))

\* Only the limit prices of live orders are considered.
Candidates(ord, bk) == {ord[o].price : o \in {b \in bk : ord[b].rem > 0}}

\* The two definitions below show what the properties notice; they are not
\* part of the model.  Fault: balance first, volume second.
BetterIndicativeBalanced(ord, bk, ref, p, q) ==
    LET vp == Executable(ord, bk, p)  vq == Executable(ord, bk, q)
        ip == Imbalance(ord, bk, p)   iq == Imbalance(ord, bk, q)
    IN  \/ ip < iq
        \/ ip = iq /\ vp > vq
        \/ ip = iq /\ vp = vq /\ p < q

\* Fault: the sign of the distance to the reference is lost.
BetterIndicativeSigned(ord, bk, ref, p, q) ==
    LET vp == Executable(ord, bk, p)  vq == Executable(ord, bk, q)
        ip == Imbalance(ord, bk, p)   iq == Imbalance(ord, bk, q)
    IN  \/ vp > vq
        \/ vp = vq /\ ip < iq
        \/ vp = vq /\ ip = iq /\ p - ref < q - ref

\* Is p a better auction price than q?  More volume, then less imbalance,
\* then nearer to the reference, then lower.
BetterIndicative(ord, bk, ref, p, q) ==
    LET vp == Executable(ord, bk, p)  vq == Executable(ord, bk, q)
        ip == Imbalance(ord, bk, p)   iq == Imbalance(ord, bk, q)
        dp == AbsDiff(p, ref)         dq == AbsDiff(q, ref)
    IN  \/ vp > vq
        \/ vp = vq /\ ip < iq
        \/ vp = vq /\ ip = iq /\ dp < dq
        \/ vp = vq /\ ip = iq /\ dp = dq /\ p < q

\* The winner of the comparison among all candidates: one price, or none if
\* the book is empty.
IndicativePrice(ord, bk, ref) ==
    {p \in Candidates(ord, bk) :
       \A q \in Candidates(ord, bk) \ {p} : BetterIndicative(ord, bk, ref, p, q)}
=============================================================================
