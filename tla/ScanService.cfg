SPECIFICATION FairSpec
CONSTANTS
  Modes = 2
  MaxRuns = 2
  ModesOf <- TwoThenOne
  MaxCancels = 1
INVARIANTS
  OneScanThread
  
PROPERTIES
  RunsEnd
CHECK_DEADLOCK FALSE
