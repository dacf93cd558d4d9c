SPECIFICATION Spec
SYMMETRY Symmetry
CONSTANTS
    MaxEvents = 3
    MaxItems = 2
    MaxBytes = 3
    SizeOf <- MCSizeOf
    BatchSize = 2
    MaxBatchBytes = 3
    MaxRetries = 1
    Loop = Loop
    Flusher = {f1}
    Closer = {}
    Timed = {f1}
    Slot = {s1, s2}
    Fault = {"lost"}
    ObserverPanics = FALSE
INVARIANTS
    TypeOK
    NewestBuffered
    Conservation
    InflightMatches
    NoMissedWakeup
    NilMeansDrained
PROPERTIES
    LedgerSpec
