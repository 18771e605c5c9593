SPECIFICATION Spec
CONSTANTS
    s1 = s1
    s2 = s2
    b1 = b1
    b2 = b2
    b3 = b3
    c1 = c1
    Requests = {s1, b1, b2}
    Cancels = {}
    Key <- KeyOf
    Side <- SideOf
    Qty <- QtyOf
    Target <- TargetOf
    Daemon = daemon
    Segments <- Continuous
    MaxFaults = 0
SYMMETRY Purchases
INVARIANT BookCanBeRebuilt
CHECK_DEADLOCK FALSE
