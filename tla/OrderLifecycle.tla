--------------------------- MODULE OrderLifecycle ---------------------------
(***************************************************************************)
(* What the exchange promises about the life of an order, without prices,  *)
(* books, sequence numbers or sessions: quantity changes hands only        *)
(* between two different orders that both still want it, an amendment      *)
(* redefines what is wanted but never what was got, and a closed order is  *)
(* closed for good.  MatchingEngineLifecycle shows that the engine         *)
(* implements it.                                                          *)
(***************************************************************************)
EXTENDS Naturals

CONSTANTS OrderIds,    \* ids the orders can take
          Quantities   \* what an order can ask for

VARIABLE life   \* of each order: its status, what it asked for, wants and got

Blank == [status |-> "absent", orig |-> 0, rem |-> 0, filled |-> 0]

Init == life = [o \in OrderIds |-> Blank]

Working == {"accepted", "open", "amended", "partially_filled"}

Accept(o, qty) ==
    /\ life[o] = Blank
    /\ life' = [life EXCEPT ![o] =
                  [status |-> "accepted", orig |-> qty, rem |-> qty, filled |-> 0]]

\* An order that trades shows it at once when it was waiting; the incoming
\* order of a match shows it when the match is over.
Bought(o, qty, status) ==
    [life[o] EXCEPT !.rem = @ - qty, !.filled = @ + qty, !.status = status]

StatusAfter(o, qty) ==
    {life[o].status, IF life[o].rem = qty THEN "filled" ELSE "partially_filled"}

Exchange(a, b, qty) ==
    /\ a # b
    /\ life[a].status \in Working /\ life[b].status \in Working
    /\ qty <= life[b].rem
    /\ \E sa \in StatusAfter(a, qty), sb \in StatusAfter(b, qty) :
         life' = [life EXCEPT ![a] = Bought(a, qty, sa), ![b] = Bought(b, qty, sb)]

Settle(o) ==
    /\ life[o].status \in {"accepted", "amended"}
    /\ life' = [life EXCEPT ![o].status =
                  IF life[o].rem = 0 THEN "filled"
                  ELSE IF life[o].filled > 0 THEN "partially_filled" ELSE "open"]

Amend(o, qty) ==
    /\ life[o].status \in Working \ {"accepted"}
    /\ life[o].rem > 0
    /\ qty >= life[o].filled
    /\ life' = [life EXCEPT ![o].orig = qty, ![o].rem = qty - life[o].filled,
                            ![o].status = "amended"]

\* Cancelling one order, refusing the rest of one, or expiring several.
Close(S, status) ==
    /\ S # {}
    /\ \A o \in S : life[o].status \in Working /\ life[o].rem > 0
    /\ status = "rejected" => \A o \in S : life[o].filled = 0
    /\ life' = [o \in OrderIds |->
                  IF o \in S THEN [life[o] EXCEPT !.rem = 0, !.status = status]
                             ELSE life[o]]

Next ==
    \/ \E o \in OrderIds, qty \in Quantities : Accept(o, qty)
    \/ \E a, b \in OrderIds : \E qty \in 1..life[a].rem : Exchange(a, b, qty)
    \/ \E o \in OrderIds : Settle(o)
    \/ \E o \in OrderIds, qty \in Quantities : Amend(o, qty)
    \/ \E S \in SUBSET OrderIds, status \in {"cancelled", "rejected", "expired"} :
         Close(S, status)

Spec == Init /\ [][Next]_life
=============================================================================
