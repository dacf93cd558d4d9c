SPECIFICATION CopySpec
CONSTANTS
    Node <- MCNodeSmall
    Root = 1
    MaxDepth = 2
    MaxHeight = 9
    Heap <- MCCycle
INVARIANTS
    CyclesCut
CHECK_DEADLOCK FALSE
