CONSTANTS
    n1 = n1
    n2 = n2
    n3 = n3
    v1 = v1
    v2 = v2
    NIL = 0
    Object <- HeapOfKeys
    MaxDepth = 3
    Names = {n1, n2, n3}
    Bucket <- NameBucket
    Keys = {1, 2, 4}
    Dim = 2
    Values = {v1, v2}
    None = None
    MaxMade = 3
SPECIFICATION Spec
SYMMETRY Interchangeable
CHECK_DEADLOCK FALSE
INVARIANTS OneSymbolPerName InOwnBucket LastSet NoShadows
