SPECIFICATION TableSpec
CONSTANTS
  Keys <- MCKeys
  Numbers <- MCNumbers
  Num <- MCNum
  Slots = 2
  IntMax = 7
  Names = 3
  OtherFiles = {0, 1}
  MaxRows = 3
  MaxRuns = 2
  MaxLookups = 1
  MaxDeaths = 1
INVARIANTS LookupRight DeadOnlyIf Healed
CHECK_DEADLOCK FALSE
