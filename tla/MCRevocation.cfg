SPECIFICATION FairSpec
CONSTANTS
    Device = {1, 2, 3, 4}
    Self = 1
    Adopted = {4}
    Lost = 2
    TargetCap = 1
    MaxStamp = 2
    MaxOps = 3
INVARIANTS
    LedgerIsAFunctionOfTheOps
    OnlyRevokedAreGated
    NobodyFreesItself
PROPERTIES
    BoundsStand
    BelievedIsReported
CHECK_DEADLOCK FALSE
