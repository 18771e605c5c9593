SPECIFICATION Spec
CONSTANTS
    Orders = {o1,o2}
    Sides = {"buy"}
    Prices = {1}
    Quantities = {1,2}
    InitialCash = 3
    InitialShares = 2
    FeeRate = 0
    MinimumFee = 1
    MaxSeq = 4
    Retries = FALSE
    MaxAmends = 1
SYMMETRY Permutes
\* The day ends: nothing is left to do.
CHECK_DEADLOCK FALSE
INVARIANT NothingLost
