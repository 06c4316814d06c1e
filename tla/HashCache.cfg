SPECIFICATION Spec
CONSTANTS
  Algos = {"md5", "xxhash"}
  Modes = {"quick", "verify"}
  MaxScans = 2
  MaxVersion = 3
INVARIANTS
  QuickRight
  AnswerOfThisScan
PROPERTY FreshWritesRight
CHECK_DEADLOCK FALSE
