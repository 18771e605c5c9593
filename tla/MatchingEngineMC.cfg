\* Continuous matching: three limit orders on two ticks, so that an order can
\* meet two resting ones and be amended after a partial fill.
SPECIFICATION Spec
CONSTANTS
    OrderIds = {o1, o2, o3}
    NoOrder = NoOrder
    Prices = {1, 2}
    Quantities = {1, 2}
    OrderTypes = {"limit"}
    ReferencePrice = 1
    MaxSeq = 4
    MaxDrawn = 1
SYMMETRY Permutes
INVARIANTS
    NoUnmatchedCross
    FillsMatchTape
    AuctionClearsBook
PROPERTIES
    PriorityHonoured
