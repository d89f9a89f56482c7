\* All requests may be over and the clock stopped.
CHECK_DEADLOCK FALSE
CONSTANTS
  r1 = r1
  r2 = r2
  r3 = r3
  n1 = n1
  n2 = n2
  Requests <- MCRequests
  Followed <- MCFollowed
  Nonces = {n1, n2}
  MaxConnections = 1
  Window = 1
  Horizon = 1
  Chunks = 2
  MaxOut = 1
  MaxUnread = 1
  HighWater = 1
SPECIFICATION MCSpec
INVARIANTS
  ReservationsExact
  NoOrphanSocket
  NonceOnce
  TunnelIsExact
PROPERTIES
  ConnectionsSettle
