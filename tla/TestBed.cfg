SPECIFICATION Spec
CONSTANTS
  N = 2
  Segments = 3
  Iters = 3
  Depth = 2
  MaxPoll = 2
  PipeCap = 1
  MaxLines = 2
INVARIANTS
  ServerCounts
PROPERTIES
  ScriptsEnd
CHECK_DEADLOCK FALSE
