----------------------- MODULE MatchingEngineLifecycle -----------------------
(***************************************************************************)
(* The refinement mapping from the matching engine to OrderLifecycle: an   *)
(* order's life is its record without side, type, price and number.        *)
(***************************************************************************)
EXTENDS MatchingEngine

Life == [o \in OrderIds |-> [status |-> orders[o].status, orig |-> orders[o].orig,
                             rem |-> orders[o].rem, filled |-> orders[o].filled]]

L == INSTANCE OrderLifecycle WITH life <- Life

(***************************************************************************)
(* Every step of the engine (matching, auctions, amendments, failures      *)
(* half-way, expiry) is a step of the order lifecycle or changes no life.  *)
(***************************************************************************)
ImplementsLifecycle == L!Spec
=============================================================================
