CONSTANTS
  Ids = {u1, u2, u3}
  Sizes = {2}
  UploadsKept = 2
  FilesMax = 3
  MaxTries = 2
  MaxCompletes = 3
  MaxDeletes = 1
  MaxAccidents = 1
  None = None
SYMMETRY IdSymmetry
SPECIFICATION Spec
INVARIANTS TypeOK PartsExact FilesRight
CHECK_DEADLOCK FALSE
