CONSTANTS
  LastDay = 7
  MaxStops = 2
SPECIFICATION Spec
INVARIANTS TypeOK OnlyMissedDays
PROPERTY CreatedInOrder
CHECK_DEADLOCK FALSE
