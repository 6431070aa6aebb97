CONSTANTS
  LastDay = 4
  MaxStops = 0
SPECIFICATION Spec
PROPERTY DailyRun
CHECK_DEADLOCK FALSE
