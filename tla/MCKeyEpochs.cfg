SPECIFICATION Spec
CONSTANTS
    d1 = d1
    d2 = d2
    d3 = d3
    Device = {d1, d2, d3}
    Founder = d1
    Initial = {d1, d2}
    Rotators = {d1, d2, d3}
    MaxMints = 3
    MaxRevokes = 2
INVARIANTS
    RecordsAreTrue
    NoPermanentHole
CHECK_DEADLOCK FALSE
