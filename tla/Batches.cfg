SPECIFICATION FairSpec
CONSTANTS
  NBatches = 2
  NLines = 2
  Cancellable = {1}
  MaxStops = 1
  MaxCrashes = 1
  FaultKinds = {"read", "append", "add"}
  MaxFaults = 1
  MaxEvicted = 1
INVARIANTS TypeOK WorkExact AnswersKept
PROPERTIES LineKeepsCancel BatchEnds
CHECK_DEADLOCK FALSE
