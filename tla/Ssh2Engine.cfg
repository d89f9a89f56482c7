\* Every engine may have closed.
CHECK_DEADLOCK FALSE
CONSTANTS
  e1 = e1
  e2 = e2
  k1 = k1
  k2 = k2
  Engines = {e1, e2}
  Keys = {k1, k2}
  NoKey = NoKey
  ReadyTimeout = 1
  ConfirmTimeout = 2
SPECIFICATION FairSpec
INVARIANTS
  TrustIsPinned
  ClosedHoldsNothing
PROPERTIES
  KeepsContract
  EngineSettles
