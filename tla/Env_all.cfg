CONSTANTS
    x = x
    y = y
    v1 = v1
    v2 = v2
    MaxDepth = 3
    Vars = {x, y}
    Values = {v1, v2}
    Unbound = Unbound
    None = None
    Formals <- MCFormals
    MaxActuals = 2
    MaxFrames = 2
    MaxCells = 4
SPECIFICATION Spec
SYMMETRY Interchangeable
CHECK_DEADLOCK FALSE
INVARIANTS Lexical
