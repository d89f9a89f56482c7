\* Every engine may have closed.
CHECK_DEADLOCK FALSE
CONSTANTS
  e1 = e1
  k1 = k1
  Engines = {e1}
  Keys = {k1}
  NoKey = NoKey
  ReadyTimeout = 1
  ConfirmTimeout = 3
SPECIFICATION Spec
INVARIANTS
  ConfirmationWindow
