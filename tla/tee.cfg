CONSTANTS
    NumOutputs = 2
    FileSize = 5
    ChunkSize = 2
    PipeSize = 6
    Entries = 8
    MaxFaults = 2
    Hole = Hole
SPECIFICATION FairSpec
INVARIANTS TypeOK PipesCleared NeverAhead TotalShowsErrors
PROPERTY KeepsPromise
