SPECIFICATION Spec
CONSTANTS
  Attempts = {1, 2}
  MaxOps = 1
  Descriptors <- MCDescriptors
INVARIANTS
  TypeOK
  TransfersAccounted
PROPERTIES
  OperationsEnd
CHECK_DEADLOCK FALSE
