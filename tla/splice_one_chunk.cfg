CONSTANTS
    NumOutputs = 2
    FileSize = 3
    ChunkSize = 2
    PipeSize = 6
    Entries = 4
    MaxFaults = 2
    Hole = Hole
SPECIFICATION FairSpec
INVARIANT TotalMeansNoHole
PROPERTY KeepsPromise
