CONSTANTS
    NumOutputs = 2
    SourceSize = 3
    Sizes <- Stable
    WindowSize = 2
    Entries = 2
    Modulus = 64
    MaxFaults = 2
SPECIFICATION FairSpec
INVARIANTS TypeOK OnlyReadDataWritten FreedContextIdle ContextsFreed WindowIsolation TotalShowsErrors ExactWindows
PROPERTY KeepsPromise
