SPECIFICATION Spec
CONSTANTS
  Word = 4
  Defaults <- MCDefaults
  Config <- MCConfig
  Version = 1
  Clients = {c1, c2}
  Packets <- MCPackets
  Together = 2
  Steps = {0, 1}
  MaxReads = 2
  Room = 4
  HalfTurn = 2
SYMMETRY Symmetry
INVARIANTS
  TypeOK
  MeasurementsNotMixed
  DeltasDelivered
  RegistersTell
  OrientationTells
CHECK_DEADLOCK FALSE
