CONSTANTS
  a = a
  b = b
  Sessions = {a, b}
  Transfers <- MCTransfers
  Chunks = 2
SPECIFICATION MCSpec
CHECK_DEADLOCK FALSE
INVARIANTS
  NobodyIsForgotten
  WriteIsWhole
PROPERTIES
  ReleaseIsOwn
  LeaseReturned
