---------------------- MODULE MatchingEngineLifecycleMC ----------------------
(***************************************************************************)
(* The refinement for TLC.  Order ids are interchangeable.                 *)
(***************************************************************************)
EXTENDS MatchingEngineLifecycle, TLC

Permutes == Permutations(OrderIds)
=============================================================================
