CONSTANTS
  a = a
  b = b
  Sessions = {a, b}
  Transfers <- MCTransfers
  Chunks = 2
SPECIFICATION Spec
CHECK_DEADLOCK FALSE
INVARIANT
  OneTransferAtATime
