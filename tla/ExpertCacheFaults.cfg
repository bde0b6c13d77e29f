SPECIFICATION FairSpec
CONSTANTS
  e1 = e1  e2 = e2
  s1 = s1  s2 = s2  s3 = s3  s4 = s4
  None = None
  SlotOrder <- Slots2
  SlotCounts = {2}
  NLayers = 2
  Experts = {e1, e2}
  Asks <- SomeAsks
  PfMax = 1
  Chunk = 2
  RingSizes = {1}
  WarmOrder <- WarmTwo
  MaxFaults = 1
  PfFaults = TRUE
  MainFaults = TRUE
  GpuAhead = FALSE
INVARIANTS MapConsistent NeverLost
PROPERTIES CallReturns
