SPECIFICATION FairSpec
CONSTANTS
  Flows = {f1, f2}
  Iters = 3
  Slots = 2
  Unit = 2
  MinWindow = 1
  MaxWindow = 2
  InitWindow = 2
  Increase = 1
  PollMax = 2
  MaxSendWr = 1
  Word = 16
  NicMayFail = FALSE
INVARIANTS
  WindowRespected
PROPERTIES
  StreamSafety
  StreamService
  EntryHandled
  Terminates
