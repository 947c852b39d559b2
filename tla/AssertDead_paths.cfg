CONSTANTS
    c1 = c1
    c2 = c2
    a = a
    A = A
    NIL = NIL
    Cells = {c1, c2}
    Symbols = {a}
    Classes = {A}
    Dim = 1
    Constructors = {"external", "internal"}
    Assertions = {1}
    Lines = {1}
    Garbage = {0}
    GcCauses = {"user"}
SPECIFICATION Spec
CHECK_DEADLOCK FALSE
INVARIANT PathIsReal
