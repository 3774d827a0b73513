CONSTANTS
  NumCommands = 2
  Tolerated = {1}

SPECIFICATION CommandSpec
INVARIANT NeverCrashes
CHECK_DEADLOCK FALSE
