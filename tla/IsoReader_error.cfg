SPECIFICATION FairSpec
CONSTANTS
  BLOCK_SIZE = 3
  Limit = 9
  Entries <- MCEntries
  MaxBuf = 7
  Offsets <- MCOffsets
  MaxLsn = 5
INVARIANTS FailedReadReadsNothing
