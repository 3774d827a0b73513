CONSTANTS
  NumCommands = 3
  Tolerated = {1}

SPECIFICATION FairCommandSpec
INVARIANTS CommandTypeOK PollLoopUndisturbed
PROPERTIES AbortsOwnCommand CommandsEnd
CHECK_DEADLOCK FALSE
