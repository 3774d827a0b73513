CONSTANTS
  MaxCommands = 3
  MaxStarts = 2
SPECIFICATION ServiceSpec
CHECK_DEADLOCK FALSE
INVARIANT ServiceTypeOK
PROPERTIES
  RequestsTakeEffect
  StatusNeverGoesBack
