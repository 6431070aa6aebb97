CONSTANTS
  b1 = b1
  b2 = b2
  Breweries = {b1, b2}
  Corrupt = corrupt
  Columns <- MCColumns
  Group <- MCGroup
  HookResults <- MCMainResults
  Runs = {r1, r2}
  Kinds = {"scheduled"}
  LastDay = 2
  Retries = 1
SPECIFICATION Spec
INVARIANTS TypeOK SilverLineage SilverKept GoldLineage GoldNotOlder
PROPERTIES BronzeImmutable ImplementsLake EveryRunFinishes
CHECK_DEADLOCK FALSE
