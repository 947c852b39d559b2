CONSTANTS
    c1 = c1
    c2 = c2
    c3 = c3
    NIL = NIL
    FREE = FREE
    Cells <- ThreeCells
    HeapOf <- TwoHeaps
    NHeaps = 2
    Types = {"symbol"}
    Registers = {r1}
    LowWater = 1
    AfterGcHook = TRUE
    MaxNest = 1
    MaxStale = 1
SPECIFICATION Spec
SYMMETRY Interchangeable
CHECK_DEADLOCK FALSE
INVARIANTS NoDangling FreeListExact IInv
PROPERTY Implements
