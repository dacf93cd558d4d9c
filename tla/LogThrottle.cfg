SPECIFICATION Spec
CONSTANTS
    Goroutine = {g1, g2}
    Key = {k1, k2}
    Window = 2
    GlobalWindow = 3
    GlobalCap = 2
    MaxTime = 6
    MaxLines = 4
SYMMETRY Symmetry
INVARIANTS
    SiteSpacing
    GlobalRate
    EveryLineAccounted
PROPERTIES
    SuppressionJustified
CHECK_DEADLOCK FALSE
