SPECIFICATION Spec
CONSTANTS
    small = small
    medium = medium
    large = large
    Zero = Zero
    Item <- MCItem
    SizeOf <- MCSizeOf
    Limit <- MCLimit
    MaxItems = 3
    MaxBytes = 3
    MinInitialCap = 1
INVARIANTS
    TypeOK
    SlotsAccurate
    BytesAccurate
PROPERTIES
    FifoSpec
