SPECIFICATION Spec
CONSTANTS
  e1 = e1  e2 = e2
  s1 = s1  s2 = s2  s3 = s3  s4 = s4
  None = None
  SlotOrder <- Slots4
  SlotCounts = {3, 4}
  NLayers = 2
  Experts = {e1, e2}
  Asks <- SomeAsks
  PfMax = 1
  Chunk = 2
  RingSizes = {1}
  WarmOrder <- WarmTwo
  MaxFaults = 0
  PfFaults = FALSE
  MainFaults = FALSE
  GpuAhead = FALSE
SYMMETRY SlotSymmetry
INVARIANTS TypeOK MapConsistent LeaseRight ReadsLandHome CopyTrue
