CONSTANTS
    c1 = c1
    c2 = c2
    c3 = c3
    c4 = c4
    c5 = c5
    c6 = c6
    a = a
    A = A
    B = B
    C = C
    NIL = NIL
    Cells = {c1, c2, c3, c4, c5, c6}
    Symbols = {a}
    Classes = {A, B, C}
    Dim = 2
    Constructors = {"struct"}
    Assertions = {27}
    Lines = {21, 25, 26}
    Garbage = {0, 99}
    GcCauses = {"user"}
    Rounds = 4
SPECIFICATION LSpec
INVARIANT OneStepARound
