SPECIFICATION Spec
CONSTANTS
    MaxEvents = 2
    MaxItems = 2
    MaxBytes = 3
    SizeOf <- MCSizeOf
    BatchSize = 1
    MaxBatchBytes = 3
    MaxRetries = 0
    Loop = Loop
    Flusher = {f1}
    Closer = {}
    Timed = {f1}
    Slot = {s1}
    Fault = {}
    ObserverPanics = FALSE
INVARIANTS
    NoUnguardedPanic
