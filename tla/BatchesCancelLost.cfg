SPECIFICATION Spec
CONSTANTS
  NBatches = 1
  NLines = 1
  Cancellable = {1}
  MaxStops = 0
  MaxCrashes = 0
  FaultKinds = {}
  MaxFaults = 0
  MaxEvicted = 0
PROPERTIES CancelSticks
CHECK_DEADLOCK FALSE
