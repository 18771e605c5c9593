\* Every book of up to four orders on three ticks, and of quantity 1 or 2.
SPECIFICATION BooksSpec
CONSTANTS
    OrderIds = {o1, o2, o3, o4}
    NoOrder = NoOrder
    Prices = {1, 2, 3}
    Quantities = {1, 2}
    OrderTypes = {"limit"}
    ReferencePrice = 2
    MaxSeq = 1
    MaxDrawn = 1
    Ticks = {0, 1, 2, 3, 4}
    References = {0, 2, 3}
INVARIANTS
    IndicativeFollowsContract
    NoTickExecutesMore
