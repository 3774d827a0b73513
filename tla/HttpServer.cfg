CONSTANTS
  Devices <- MCDevices
  Processors <- MCProcessors
  Connections <- MCConnections
  Texts <- MCTexts
  TextsOf <- MCTextsOf
  Patient <- MCPatient
  ReadSizes <- MCReadSizes
  Endings <- MCEndings
SPECIFICATION Spec
CHECK_DEADLOCK FALSE
INVARIANTS
  TypeOK
  VerdictOfGrammar
  EveryConnectionAccounted
PROPERTY Served
