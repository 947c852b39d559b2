CONSTANTS
    c1 = c1
    c2 = c2
    c3 = c3
    NIL = NIL
    FREE = FREE
    Cells <- TwoCells
    HeapOf <- TwoHeaps
    NHeaps = 2
    Types = {"closure", "closure_traced", "struct_instance", "struct_def"}
    Registers = {r1}
    LowWater = 2
    AfterGcHook = FALSE
    MaxNest = 1
    MaxStale = 1
SPECIFICATION FairSpec
CHECK_DEADLOCK FALSE
INVARIANTS TypeOK TriColour NewCellNeverNull
PROPERTY CollectionEnds
