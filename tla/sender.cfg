CONSTANTS
    MaxSize = 11
    BLOCK = 2
    Q_DEPTH = 3
    MaxFaults = 2
    None = None
SPECIFICATION Spec
INVARIANTS TypeOK DataInPlace TotalExact BuffersAtRest
