--------------------------- MODULE CustomerCashMC ---------------------------
(* One customer, two withdrawals, one deposit and two reconciliation jobs.  *)
EXTENDS CustomerCash
=============================================================================
