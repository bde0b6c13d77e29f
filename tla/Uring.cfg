CONSTANTS
  Entries = 3
  Sizes = {1, 2}
  MaxBatches = 2
  MaxHiccups = 2
  None = None
SPECIFICATION Spec
INVARIANTS TypeOK BuffersBack
PROPERTIES KeepsPromise WaitEnds
CHECK_DEADLOCK FALSE
