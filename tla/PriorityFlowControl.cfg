SPECIFICATION FairSpec
CONSTANTS
  Ports = {1, 2, 3}
  Queues = {3}
  Sizes = {1}
  MaxBuffer = 18
  SpLimit = 3
  PgMin = 0
  PortMin = 0
  HeadroomLimit = 5
  Cell = 2
  Word = 32
  PgSharedLimit = 2
  PgSharedOff = 2
  PortMaxShared = 3
  PortMinOff = 3
  Alpha = 1
  AlphaOffDiff = 1
  PfcOnDctcp = TRUE
  Modes = {TRUE, FALSE}
  Sources = {1}
  Destinations = {2, 3}
  PauseTime = 4
  DataDelay = 1
  FrameDelay = 1
  FrameJitter = 1
INVARIANTS
  PausedWhileOver
  OverrunBounded
  NoLoss
PROPERTIES
  PauseEnds
