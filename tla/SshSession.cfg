\* A session object whose session has ended and whose ticket is used stops.
CHECK_DEADLOCK FALSE
CONSTANTS
  a1 = a1
  a2 = a2
  Attempts = {a1, a2}
  EngineMayReject = TRUE
  MaxCrashes = 2
SPECIFICATION FairSpec
INVARIANTS
  OneSocketPerTicket
  LiveIsAccounted
  NothingLeftBehind
PROPERTIES
  OutcomeIsKept
  SessionSettles
