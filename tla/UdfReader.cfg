SPECIFICATION FairSpec
CONSTANTS
  BLOCK_SIZE = 2
  Limit = 5
  Readers = {r1, r2}
  Entries <- MCEntries
  MaxBuf = 4
  Offsets <- MCOffsets
  Positions <- MCPositions
  None = None
INVARIANTS TypeOK
PROPERTIES IsByteStream ReadsReturn
