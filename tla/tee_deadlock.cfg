CONSTANTS
    NumOutputs = 2
    FileSize = 6
    ChunkSize = 2
    PipeSize = 4
    Entries = 4
    MaxFaults = 2
    Hole = Hole
SPECIFICATION FairSpec
PROPERTY Termination
CHECK_DEADLOCK FALSE
