-------------------------- MODULE SekuritasOrdersMC --------------------------
(***************************************************************************)
(* SekuritasOrders for TLC.  Order ids are interchangeable.                *)
(***************************************************************************)
EXTENDS SekuritasOrders, TLC

Permutes == Permutations(Orders)
=============================================================================
