CONSTANTS
    NumOutputs = 3
    FileSize = 4
    ChunkSize = 2
    PipeSize = 4
    Entries = 8
    MaxFaults = 0
    Hole = Hole
SPECIFICATION Spec
INVARIANT NoChunkDropped
