SPECIFICATION Spec
CONSTANTS
  Algos = {"md5"}
  Modes = {"quick", "verify"}
  MaxScans = 2
  MaxVersion = 2
INVARIANT PureOptimization
CHECK_DEADLOCK FALSE
