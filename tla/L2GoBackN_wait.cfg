SPECIFICATION FairSpec
CONSTANTS
  Total = 6
  Chunk = 3
  AckInterval = 3
  BackTo0s = {FALSE}
  TestRead = FALSE
  WaitAck = TRUE
  Paced = FALSE
  BufferCap = 6
  DataLosses = 2
  BackLosses = 0
  MaxOnWire = 3
INVARIANTS
  TypeOK
  StopsAndWaits
  IdleNicWakesUp
PROPERTIES
  AllReceived
CHECK_DEADLOCK FALSE
