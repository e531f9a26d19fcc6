SPECIFICATION Spec
CONSTANTS
    Device = {1, 2}
    MaxTime = 2
    MaxDrift = 1
    MaxLogical = 1
    MaxOps = 3
INVARIANTS
    SkewIsBounded
PROPERTIES
    StampsFollowCausality
CHECK_DEADLOCK FALSE
