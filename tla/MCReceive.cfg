SPECIFICATION FairSpec
CONSTANTS
  Ops <- MCOps
  Builds = 2
  FirstKeys = {1}
  FirstCerts = {1}
  PerEpochCap = 1
  TotalCap = 1
  MaxRestarts = 4
INVARIANTS
  CursorIsAPrefix
  LoggedIsFoldedOrParked
PROPERTIES
  EverythingArrives
CHECK_DEADLOCK FALSE
