SPECIFICATION Spec
CONSTANTS
  Jobs = {j1, j2, j3, j4}
  Clients = {c1, c2}
  Streams = {c1}
  Lows = {l1}
  Runs = {}
  Backs = {b1}
  MaxQueue = 3
  NChoices = 1
  MaxTokens = 1
  MaxRounds = 1
  None = None
SYMMETRY JobSymmetry
INVARIANTS TypeOK RefsExact QueueInOrder NoOrphan CancelsHold
PROPERTIES NoOvertaking
CHECK_DEADLOCK FALSE
