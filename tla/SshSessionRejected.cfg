CHECK_DEADLOCK FALSE
CONSTANTS
  a1 = a1
  Attempts = {a1}
  EngineMayReject = TRUE
  MaxCrashes = 0
SPECIFICATION FairSpec
PROPERTIES
  ConnectSettles
