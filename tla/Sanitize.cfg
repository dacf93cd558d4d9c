SPECIFICATION FairCopySpec
CONSTANTS
    Node <- MCNode
    Root = 1
    MaxDepth = 2
    MaxHeight = 9
    Heap <- MCHeap
INVARIANTS
    CopyComplete
PROPERTIES
    Terminates
CHECK_DEADLOCK FALSE
