SPECIFICATION FairSpec
CONSTANTS
  a = a
  b = b
  c = c
  d = d
  Dirs = {a, b, c, d}
  Under <- Nested
  NumWorkers = 1
  MaySkip = {b}
  MayProtect = {b}
  MayVanish = {a, c}
  MayRefuse = TRUE
INVARIANTS
  WholeOrNothing
  FoundOnce
  LoneFolderHandled
PROPERTY CancelEnds
CHECK_DEADLOCK FALSE
