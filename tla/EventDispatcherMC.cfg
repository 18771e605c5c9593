SPECIFICATION FairSpec
CONSTANTS
    Trades = {t}
    Reports = {}
    Closings = {c}
    Drain = drain
    MaxAttempts = 2
    Limit = 2
    MaxFailures = 2
    MaxRequeues = 1
    MaxRestarts = 1
INVARIANTS DeadAfterMaxAttempts
PROPERTIES ImplementsQueue EventuallyReceived ClosingAccepted
CHECK_DEADLOCK FALSE
