--------------------------- MODULE BeiSettlementMC ---------------------------
(* Instances of BeiSettlement for TLC: SEKURITAS answers as it likes. *)
EXTENDS BeiSettlement, TLC

Symmetry == Permutations(Handlers)
=============================================================================
