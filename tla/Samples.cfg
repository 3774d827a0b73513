CONSTANTS
  Period = 3
  Circle <- MCCircle
  Scale = 840
  Direction = {"fax", "fay"}
  ValueThreshold = 3
  DurationThreshold = 1
  ItemCount = 1
  Unit = 420
  Readings <- MCValues
  Fax <- MCFax
  Fay <- MCFay
  MaxCount = 4
  MaxAge = 4
  Steps <- MCSteps
  MaxTime = 8
  MaxRun = 4

SPECIFICATION Spec
INVARIANTS TypeOK StatisticTells
PROPERTIES PeaksRecorded
CHECK_DEADLOCK FALSE
