CONSTANTS
  b1 = b1
  b2 = b2
  Breweries = {b1, b2}
  Corrupt = corrupt
  Columns <- MCColumns
  Group <- MCGroup
  HookResults <- MCHookResults
  Runs = {r1, r2}
  Kinds = {"manual", "scheduled"}
  LastDay = 1
  Retries = 1
SPECIFICATION Spec
INVARIANTS SilverValidated LatestNotStale GoldCountsBreweries
SYMMETRY Symmetry
CHECK_DEADLOCK FALSE
