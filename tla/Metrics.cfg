SPECIFICATION Spec
CONSTANTS
    MaxItems = 1
    MaxBytes = 3
    SizeOf <- MCSizeOf
    BatchSize = 1
    MaxBatchBytes = 2
    Capturer = {p1, p2}
    Loop = Loop
    Caller = {c1}
INVARIANTS
    Balance
PROPERTIES
    CountersSpec
    GaugesSettle
