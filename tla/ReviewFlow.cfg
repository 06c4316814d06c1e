SPECIFICATION Spec
CONSTANTS
  a = a
  b = b
  c = c
  d = d
  Path = {a, b, c, d}
  MaxHistory = 2
  MaxBatch = 2
  MaxVersion = 2
  MaxPlaces = 1
  MaxStuck = 1
  MaxGroup = 2
  CopySets <- Kinds
  UndoDepth = 1
  MaxTurns = 3
SYMMETRY Symmetry
INVARIANTS
  OriginalsKept
  UnchosenStays
  ChoicesConsistent
  SnapOfLastBatch
PROPERTIES
  UndoBringsBack
  ReviewAfterApply
CHECK_DEADLOCK FALSE
