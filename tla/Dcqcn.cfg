SPECIFICATION Spec
CONSTANTS
  Bps = 24
  MinRate = 2
  Rai = 2
  Rhai = 3
  Threshold = 2
  Bc = 2
  AlphaUnit = 4
  G = 2
  Word = 64
  MaxStage = 18
  MaxTarget = 60
  MaxCnps = 5
INVARIANTS
  RateInBounds
  StageMatches
PROPERTIES
  OnlyCnpCuts
  Recovers
CHECK_DEADLOCK FALSE
