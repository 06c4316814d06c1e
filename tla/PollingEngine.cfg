SPECIFICATION FairSpec
CONSTANTS
  Kinds <- AllKinds
  NumItems = 2
  MaxOps = 3
  MaxScans = 2
INVARIANTS
  PauseBound
  AllOrNothing
PROPERTIES
  ScansEnd
CHECK_DEADLOCK FALSE
