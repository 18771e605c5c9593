SPECIFICATION Spec
CONSTANTS
  Accounts = {"c1", "c2"}
  Treasury = "treasury"
  Actions = {"split", "reverse", "dividend"}
  Held <- HeldMC
  Bought <- BoughtMC
  Subscriptions <- SubscriptionsMC
  Calls = {k1, k2}
  MaxCalls = 2
  MaxFailures = 1
INVARIANTS TypeOK NoCompounding MirrorsLedger SharesExplained TreasuryBalances
CHECK_DEADLOCK FALSE
SYMMETRY Symmetry
