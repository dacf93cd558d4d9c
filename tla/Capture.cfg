SPECIFICATION Spec
CONSTANTS
    r1 = r1
    r2 = r2
    c0 = c0
    c1 = c1
    c2 = c2
    Request = {r1, r2}
    Cell = {c0, c1, c2}
    CellOf <- MCCellOf
    Key = {"user.id", "level", "host.arch", "data"}
    Kind = {"error", "panic"}
    Option <- MCOption
    Scrubber = {"none", "rewrite", "nested", "drop", "panic"}
    Edit <- MCEdit
    Hasher = TRUE
    MaxOps = 1
    MaxCaptures = 1
SYMMETRY Symmetry
INVARIANTS
    ReservedKeysOwned
    RequestIsolation
    LevelsRespected
    NoPreScrubLeak
    EveryCallEnds
PROPERTIES
    SnapshotStays
CHECK_DEADLOCK FALSE
