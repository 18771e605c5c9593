----------------------------- MODULE PostTradeMC -----------------------------
(* One trade, one closing that is retried, and two settlement requests.     *)
EXTENDS PostTrade
=============================================================================
