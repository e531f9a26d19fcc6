SPECIFICATION Spec
CONSTANTS
  Replica = {1, 2}
  Ops <- MCOps
  SizeOf <- MCSizeOf
  NoGroup = NoGroup
  MaxSnaps = 1
  MaxRebuilds = 1
INVARIANTS
  FunctionOfOpsPresent
  HeldIsLogged
PROPERTY
  RebuildIdentity
CHECK_DEADLOCK FALSE
