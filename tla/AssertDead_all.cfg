CONSTANTS
    c1 = c1
    c2 = c2
    a = a
    A = A
    NIL = NIL
    Cells = {c1, c2}
    Symbols = {a}
    Classes = {A}
    Dim = 1
    Constructors = {"struct", "external", "internal"}
    Assertions = {1, 2}
    Lines = {1}
    Garbage = {0}
    GcCauses = {"user", "newcell"}
SPECIFICATION Spec
SYMMETRY Interchangeable
VIEW WithoutLines
CONSTRAINT FewKinds
CHECK_DEADLOCK FALSE
INVARIANTS TypeOK Attributed Instrumented DefsSound FieldsLead CallInfoAgrees NoneMissed
PROPERTY Learns
