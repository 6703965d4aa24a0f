SPECIFICATION Spec
CONSTANTS
    JobIds = {i1, i2}
    JobNames = {"a", "b"}
    ResIds = {r1, r2}
    ResNames = {"db"}
    Runs = {u1, u2}
    Callers = {c1}
    Blocks <- MCBlocks
    Capacity = 1
    InitRows <- Imported
    None = None
    Absent = Absent
    TimeKind <- TimeKindOf
    MaxBlocks = 2
    MaxEdits = 3
INVARIANTS
    DocumentApplied
    
    HoldsMatch
PROPERTIES
    UpdateKeeps
SYMMETRY Symmetry
CHECK_DEADLOCK FALSE
