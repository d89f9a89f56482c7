SPECIFICATION ImportSpec
CONSTANTS
  r1 = r1
  r2 = r2
  r3 = r3
  r4 = r4
  d1 = d1
  d2 = d2
  elsewhere = elsewhere
  Requests <- MCRequests
  Hosts = {d1, d2, elsewhere}
  Names = {"device", "own"}
  Devices <- MCDevices
  DisplayName = "device"
  Discoveries <- MCDiscoveries
  Wishes <- MCWishes
  MaxImports = 2
  Starts <- MCStarts
  NewRows <- MCNewRows
  Edits <- MCEdits
  Nothing = Nothing
  NoCursor = NoCursor
  PageSize = 1
  Profiles = {1, 2, 3}
  Commands = {1, 2}
  MaxHistory = 1
  MaxTime = 1
  MaxSwitches = 3
  MaxAsked = 2
CHECK_DEADLOCK FALSE
INVARIANTS RowIsSound OpenSessionKeepsProfile ListIsComplete PanelShowsItsSession ImportIsExact
INVARIANT ImportIsShown
