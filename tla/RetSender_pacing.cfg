SPECIFICATION Spec
CONSTANTS
  Unit = 3
  MaxWindow = 6
  Allowed = 5
  Delays = {2, 4}
  Word = 32
  MaxLosses = 0
  MaxDuplicates = 0
  Floor = 2
  Ceiling = 5
  Start = 3
  Increase = 2
  Decrease = 1
  Run = 1
PROPERTIES
  SendsWhenExpired
CHECK_DEADLOCK FALSE
