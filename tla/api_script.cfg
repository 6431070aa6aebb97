CONSTANTS
  per_page = 2
  MaxTotal = 9
SPECIFICATION ScriptSpec
INVARIANT EveryRecordAskedFor
CHECK_DEADLOCK FALSE
PROPERTY RunsToTheEnd
