CONSTANTS
    c1 = c1
    c2 = c2
    c3 = c3
    b1 = b1
    b2 = b2
    b3 = b3
    f1 = f1
    Cells = {c1, c2, c3}
    Buffers = {b1, b2, b3}
    Files = {f1}
    NULL = NULL
    Other = Other
    Kinds = {"lisp_array", "string"}
    MaxDepth = 3
SPECIFICATION Spec
CONSTRAINT StringsApart
SYMMETRY Interchangeable
CHECK_DEADLOCK FALSE
INVARIANTS OnlyTornFrees BuffersOwned FilesOwned
