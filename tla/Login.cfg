SPECIFICATION Spec
CONSTANTS
  r1 = r1
  r2 = r2
  r3 = r3
  r4 = r4
  Mixes <- MCMixes
  Requests <- MCRequests
  Claims <- MCClaims
  Nothing = Nothing
  Addresses = {ip1}
  Account = account
  IpThreshold = 1
  AccountThreshold = 2
  MaxDelay = 2
  MaxFailures = 3
  StateTtl = 3
  SessionTtl = 2
  PendingTtl = 1
  AttemptTtl = 1
  MaxTime = 3
  MaxBusy = 2
CHECK_DEADLOCK FALSE
INVARIANTS LoginWasEntitled FactorWasProven AttemptUsedOnce AdmissionIsPaced
