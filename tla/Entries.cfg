SPECIFICATION Spec
CONSTANTS
  b1 = b1
  b2 = b2
  b3 = b3
  b4 = b4
  b5 = b5
  f1 = f1
  f2 = f2
  None = None
  Blocks <- MCBlocks
  Files <- MCFiles
  UdfValues = 2
  IsoValues = 2
  MaxList = 2
SYMMETRY Symmetry
INVARIANTS TypeOK Owned Faultless FieldsOfTheFile NothingOutlivesItsHandle
\* Both handles may be closed, and the program is over.
CHECK_DEADLOCK FALSE
