SPECIFICATION Spec
CONSTANTS
  Total = 5
  Chunk = 3
  AckInterval = 1
  BackTo0s = {FALSE, TRUE}
  TestRead = FALSE
  WaitAck = FALSE
  Paced = TRUE
  BufferCap = 6
  DataLosses = 2
  BackLosses = 1
  MaxOnWire = 3
INVARIANTS
  SenderKeepsNeeded
  AnswersServed
CHECK_DEADLOCK FALSE
