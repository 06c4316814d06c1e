SPECIFICATION Spec
CONSTANTS
  a = a
  b = b
  c = c
  d = d
  Dirs = {a, d}
  Under <- Flat
  NumWorkers = 2
  MaySkip = {}
  MayProtect = {}
  MayVanish = {}
  MayRefuse = FALSE
INVARIANT ReachableScanned
CHECK_DEADLOCK FALSE
