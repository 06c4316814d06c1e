SPECIFICATION FairSpec
CONSTANTS
  Files = {f1, f2}
  f1 = f1
  f2 = f2
  NumWorkers = 1
  Rounds = 2
  MaxOps = 3
  MaxScans = 2
INVARIANTS
  CompleteMeansAll
  PauseBound
PROPERTIES
  NoCompletedAfterCancelled
  KeepsContract
  ScanEnds
CHECK_DEADLOCK FALSE
