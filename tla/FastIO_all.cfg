CONSTANTS
    NIL = 0
    Object <- HeapToPrint
    LongNames = {3}
    MaxDepth = 3
    MaxPrints = 3
SPECIFICATION Spec
CHECK_DEADLOCK FALSE
INVARIANTS FetchesMeant RoundTrip
