SPECIFICATION Spec
CONSTANTS
    Device = {1, 2}
    Writer = {1, 2}
    MaxHlc = 4
    Field = {"plan"}
    ClassOf <- MCClassOf
    Terminal = {}
    Element = {"x"}
    Key = {"k"}
    Edits <- FieldEdits
    Forced = {"plan"}
    MaxVal = 1
    MaxOps = 4
INVARIANTS
    FieldsExact
    ObservedRemove
PROPERTIES
    DeadAddsStayDead
CHECK_DEADLOCK FALSE
