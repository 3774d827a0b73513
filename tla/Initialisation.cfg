SPECIFICATION Spec
CHECK_DEADLOCK FALSE
CONSTANTS
  Base = 256
  XsensPreamble <- MCXsensPreamble
  UbloxPreamble <- MCUbloxPreamble
  Drivers = {"mti_630", "mti_g_710", "glonass", "galileo", "runwell"}
  FilterProfile = 1
  Measurements <- MCMeasurements
  Slow = FALSE
  MaxAttempts = 2
  MaxUnsolicited = 1
  MaxRequests = 2
INVARIANTS
  TypeOK
  InitialisedMeansReady
  AnswersRight
