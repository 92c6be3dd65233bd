SPECIFICATION Spec
CONSTANTS
  Modes = {"QCN", "NIC", "RR"}
  QCnt = 3
  FCnt = 3
  Sizes = {1, 2}
  MinTx = 2
  MaxBytes = 4
  MaxOwed = 10
  MaxKept = 2
  MaxRecovers = 1
INVARIANTS
  BytesMatch
  ServedInTurn
  GuaranteeServes
  QueueMatchesBuffer
