SPECIFICATION Spec
CHECK_DEADLOCK FALSE
CONSTANTS
  Base = 8
  XsensPreamble <- MCXsensPreamble
  UbloxPreamble <- MCUbloxPreamble
  MtData2 = 1
  XsensItems <- MCXsensItems
  UbloxMessages <- MCUbloxMessages
  Filters <- MCFilters
  Unconvertible <- MCUnconvertible
  Fragments <- MCFragments
  GoodPackets <- MCGoodPackets
  RecoveryPackets <- MCRecoveryPackets
  NoPacket = NoPacket
  BufferLimit = 16
  MaxChunk = 3
  MaxFragments = 3
INVARIANTS
  TypeOK
  ChunksDoNotMatter
  NoneLostNoneTwice
  Recovers
