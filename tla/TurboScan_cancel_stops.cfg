SPECIFICATION FairSpec
CONSTANTS
  Files = {f1, f2}
  f1 = f1
  f2 = f2
  NumWorkers = 1
  Rounds = 1
  MaxOps = 2
  MaxScans = 1
PROPERTY CancelStops
CHECK_DEADLOCK FALSE
