SPECIFICATION Spec
CONSTANTS
  NumFiles = 2
  MaxScans = 2
  BatchSize = 1
  Scopes = {"quick", "verify", "index"}
  MaxFaults = 1
INVARIANTS
  RowsBelong
  LoadExact
PROPERTIES
  RowsForward
  ResultsNotLost
CHECK_DEADLOCK FALSE
