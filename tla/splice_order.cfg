CONSTANTS
    NumOutputs = 1
    FileSize = 4
    ChunkSize = 2
    PipeSize = 4
    Entries = 4
    MaxFaults = 0
    Hole = Hole
SPECIFICATION Spec
INVARIANT SucceededChunksRight
