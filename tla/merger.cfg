CONSTANTS
  k1 = k1
  k2 = k2
  Keys = {k1, k2}
  Inputs <- MCInputs
  Partitions = 2
  MAX_TOTAL_PARTITIONS = 4
SPECIFICATION Spec
INVARIANTS HandedOutOnceComplete DiskClean RecursionBounded
CHECK_DEADLOCK FALSE
