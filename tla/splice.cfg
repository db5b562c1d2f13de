CONSTANTS
    NumOutputs = 2
    FileSize = 7
    ChunkSize = 2
    PipeSize = 4
    Entries = 6
    MaxFaults = 1
    Hole = Hole
SPECIFICATION Spec
INVARIANTS TypeOK ExpectedOutstanding NoStarvedDrain NeverStuck OutputIsolation
CHECK_DEADLOCK FALSE
