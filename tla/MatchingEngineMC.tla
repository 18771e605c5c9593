-------------------------- MODULE MatchingEngineMC --------------------------
(***************************************************************************)
(* MatchingEngine for TLC.  Order ids are interchangeable.                 *)
(***************************************************************************)
EXTENDS MatchingEngine, TLC

Permutes == Permutations(OrderIds)
=============================================================================
