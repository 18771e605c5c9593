--------------------------- MODULE OrderServiceMC ----------------------------
(* A sale of two that is sent twice with one key, and purchases of one.     *)
EXTENDS OrderService, TLC

CONSTANTS s1, s2, b1, b2, b3, c1

KeyOf == [r \in Requests |-> IF r = s2 THEN s1 ELSE r]
SideOf == [r \in Requests |-> IF r \in {s1, s2} THEN "sell" ELSE "buy"]
QtyOf == [r \in Requests |-> IF r \in {s1, s2} THEN 2 ELSE 1]
TargetOf == [c \in Cancels |-> s1]
Day == <<"continuous", "frozen", "auction", "closed">>
Continuous == <<"continuous">>
Purchases == Permutations({b1, b2, b3} \cap Requests)
=============================================================================
