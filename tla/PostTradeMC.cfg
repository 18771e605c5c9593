CONSTANTS
  Trades = {1}
  Types = {"dvp"}
  Handlers = {h1}
  Callers = {c1, c2}
  MaxCycles = 1
  MaxFailures = 2
SPECIFICATION FairSpec
INVARIANTS TypeOK PaidOnce SentMeansSettled
PROPERTY EventuallySettled
CHECK_DEADLOCK FALSE
