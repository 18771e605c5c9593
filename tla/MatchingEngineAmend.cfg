\* Amendments, market orders and failures: two orders of up to three lots, so
\* that an amendment can be below, at or above what is already filled; and the
\* termination of the engine's loops.  No symmetry: TLC's liveness check and
\* symmetry reduction do not go together.
SPECIFICATION FairSpec
CONSTANTS
    OrderIds = {o1, o2}
    NoOrder = NoOrder
    Prices = {1, 2}
    Quantities = {1, 2, 3}
    OrderTypes = {"limit", "market"}
    ReferencePrice = 1
    MaxSeq = 5
    MaxDrawn = 1
INVARIANTS
    QuantitiesBalance
    BookSound
    LiveOrdersTracked
PROPERTIES
    MethodsReturn
    ImplementsLifecycle
