-------------------------- MODULE EventDispatcherMC --------------------------
(* One trade and one closing: the request that publishes an event and the   *)
(* loop can meet on its row, and the closing can overtake the trade.        *)
EXTENDS EventDispatcher
=============================================================================
