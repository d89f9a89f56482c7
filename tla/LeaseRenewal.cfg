\* The clock stops at Horizon and a session that is over is never reused.
CHECK_DEADLOCK FALSE
CONSTANTS
  s1 = s1
  s2 = s2
  Sessions = {s1, s2}
  Maximum = 1
  Ttl = 5
  RenewEvery = 2
  RetryDelay = 1
  Margin = 2
  MinDelay = 1
  Latency = 1
  StartLatency = 1
  Horizon = 12
SPECIFICATION MCFairSpec
INVARIANTS
  LiveWithinLimit
PROPERTIES
  NoResurrection
  SlotReturned
  ImplementsPool
