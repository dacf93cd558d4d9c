SPECIFICATION FairSpec
CONSTANTS
    r1 = r1
    Request = {r1, r2}
    Client = {a, b}
    Config <- MCConfig
INVARIANTS
    FaultsCaptured
    ReportedStatusTrue
    CrashKeepsEvent
    OnlyLateStranded
PROPERTIES
    ReplacedClose
CHECK_DEADLOCK FALSE
