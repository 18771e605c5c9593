SPECIFICATION Spec
CONSTANTS
    s1 = s1
    s2 = s2
    b1 = b1
    b2 = b2
    b3 = b3
    c1 = c1
    Requests = {s1, s2, b1}
    Cancels = {c1}
    Key <- KeyOf
    Side <- SideOf
    Qty <- QtyOf
    Target <- TargetOf
    Daemon = daemon
    Segments <- Day
    MaxFaults = 2
INVARIANTS OneOrderPerKey RowsFollowBook TapeFollowsEngine OverfilledOnlyIfMisled
CHECK_DEADLOCK FALSE
