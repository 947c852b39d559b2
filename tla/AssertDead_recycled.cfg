CONSTANTS
    c1 = c1
    c2 = c2
    c3 = c3
    a = a
    b = b
    A = A
    B = B
    NIL = NIL
    Cells = {c1}
    Symbols = {}
    Classes = {A}
    Dim = 1
    Constructors = {"struct"}
    Assertions = {1}
    Lines = {1}
    Garbage = {0}
    GcCauses = {"user"}
SPECIFICATION HSpec
SYMMETRY Interchangeable
CHECK_DEADLOCK FALSE
INVARIANT AlarmDeserved
