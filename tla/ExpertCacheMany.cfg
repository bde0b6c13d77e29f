SPECIFICATION Spec
CONSTANTS
  e1 = e1  e2 = e2
  s1 = s1  s2 = s2  s3 = s3  s4 = s4
  None = None
  SlotOrder <- Slots4
  SlotCounts = {4}
  NLayers = 3
  Experts = {e1, e2}
  Asks <- Both
  PfMax = 1
  Chunk = 1
  RingSizes = {1}
  WarmOrder <- NoWarm
  MaxFaults = 0
  PfFaults = FALSE
  MainFaults = FALSE
  GpuAhead = TRUE
SYMMETRY SlotSymmetry
INVARIANTS LeaseRight
