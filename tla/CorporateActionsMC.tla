------------------------- MODULE CorporateActionsMC -------------------------
(* A holder of two shares who has bought one more that is not settled yet,  *)
(* a customer without a position, and a subscription by each.               *)
EXTENDS CorporateActions, TLC

HeldMC == [c \in Accounts |-> IF c = "c1" THEN 2 ELSE 0]
BoughtMC == [c \in Accounts |-> IF c = "c1" THEN 1 ELSE 0]
SubscriptionsMC == [c \in Accounts |-> 1]

Symmetry == Permutations(Calls)
=============================================================================
