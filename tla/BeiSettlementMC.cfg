CONSTANTS
  Trades = {1, 2}
  Types = {"dvp", "rvp"}
  Handlers = {h1, h2}
  MaxCycles = 2
  MaxFailures = 1
SPECIFICATION BeiSpec
SYMMETRY Symmetry
INVARIANTS FinalityMeansSettled IndexFollowsCloses
CHECK_DEADLOCK FALSE
