CONSTANTS
    NumOutputs = 4
    FileSize = 5
    ChunkSize = 2
    MaxBlocks = 2
    NumThreads = 2
    Modulus = 64
    MaxFaults = 2
    Hole = Hole
    Junk = Junk
SPECIFICATION FairSpec
INVARIANTS TypeOK SenderQuiescent CleanPathComplete TotalsShowErrors
PROPERTY KeepsPromise
