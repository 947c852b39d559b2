SPECIFICATION FairSpec
CONSTANTS
    NIL = NIL
    FREE = "free"
    HeapSize = 2
    Cells <- Addresses
    Ids <- Identities
    Registers = {r1}
    Types = {"cons", "lisp_array"}
INVARIANTS TypeOK NeverFatal NoStrayPointers BuffersOwned
PROPERTIES ImplementsCollector Exact CollectionEnds
