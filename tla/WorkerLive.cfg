SPECIFICATION FairSpec
CONSTANTS
    MaxEvents = 1
    MaxItems = 2
    MaxBytes = 3
    SizeOf <- MCSizeOf
    BatchSize = 2
    MaxBatchBytes = 3
    MaxRetries = 1
    Loop = Loop
    Flusher = {f1}
    Closer = {c1, c2}
    Timed = {c2}
    Slot = {s1}
    Fault = {"permanent","unreached"}
    ObserverPanics = TRUE
INVARIANTS
    Conservation
    NilMeansDrained
PROPERTIES
    CallsReturn
    EventsResolve
