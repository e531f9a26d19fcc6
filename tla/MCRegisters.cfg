SPECIFICATION Spec
CONSTANTS
    Device = {1, 2, 3}
    Writer = {1, 2}
    MaxHlc = 3
    Field = {"state", "deleted"}
    ClassOf <- MCClassOf
    Terminal = {2}
    Element = {}
    Key = {}
    Edits <- RegisterEdits
    Forced = {}
    MaxVal = 2
    MaxOps = 3
INVARIANTS
    OrderExact
    OrderIsCausality
    RegistersExact
    Convergence
    RebuildIdentity
    DominantWriteStands
CHECK_DEADLOCK FALSE
