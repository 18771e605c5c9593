SPECIFICATION Spec
CONSTANTS
    Orders = {o1}
    Sides = {"buy", "sell"}
    Prices = {1, 2}
    Quantities = {1, 2}
    InitialCash = 4
    InitialShares = 2
    FeeRate = 0
    MinimumFee = 1
    MaxSeq = 4
    Retries = TRUE
    MaxAmends = 1
\* The day ends: nothing is left to do.
CHECK_DEADLOCK FALSE
INVARIANTS TypeOK PendingMatchesFills CashConserved ClosedHoldsNothing
PROPERTIES FilledGrows
