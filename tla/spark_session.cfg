SPECIFICATION Spec
CONSTANTS
  Threads = {1, 2}
  Programs <- MCPrograms
  MaxSessions = 4
  MaxContexts = 3
INVARIANTS TypeOK OfOneContext ReturnedRuns 
PROPERTY DefaultKept
CHECK_DEADLOCK FALSE
