CONSTANTS
  Kinds = {response, conversation}
  Ids = {a, b}
  Sizes = {1, 2}
  Caps = {1, 2}
  DocMax = 2
  StoreMax = 3
  MaxWrites = 5
  MaxFaults = 1
  MaxCrashes = 2
  None = None
SYMMETRY NameSymmetry
SPECIFICATION Spec
INVARIANTS TypeOK SeqOrder Durable
CHECK_DEADLOCK FALSE
