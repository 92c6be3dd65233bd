SPECIFICATION Spec
CONSTANTS
  Flows = {f1, f2}
  Iters = 3
  Slots = 2
  Unit = 2
  MinWindow = 1
  MaxWindow = 4
  InitWindow = 3
  Increase = 1
  PollMax = 2
  MaxSendWr = 3
  Word = 16
  NicMayFail = TRUE
SYMMETRY FlowSymmetry
INVARIANTS
  TypeOK
  InflightMatchesRing
  OwnPostTime
  SlotsDistinct
  BurstFitsWindow
  CleanExit
