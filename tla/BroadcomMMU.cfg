SPECIFICATION BufferSpec
CONSTANTS
  Ports = {1, 2}
  Queues = {1, 3}
  Sizes = {2, 4}
  MaxBuffer = 8
  SpLimit = 4
  PgMin = 3
  PortMin = 3
  HeadroomLimit = 4
  Cell = 3
  Word = 64
INVARIANTS
  BufferTypes
  CountersMatch
  HeadroomWithinPG
