SPECIFICATION Spec
CONSTANTS
  Tables <- MCTables
  Empty = Empty
  BUF = 17
  Radix = 6
INVARIANTS TypeOK NotTorn AllOfIt
