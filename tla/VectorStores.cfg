SPECIFICATION Spec
CONSTANTS
  Files = {f1, f2}
  NoFile = NoFile
  NotText = {f2}
  Clients = {c1, c2}
  FirstModel = TRUE
  Pieces = 1
  MaxAttach = 2
  MaxEvents = 2
INVARIANTS
  TypeOK
  StatusTrue
PROPERTIES
  WaitingEnds
CHECK_DEADLOCK FALSE
