CONSTANTS
    Procs = {p, q}
    Jobs <- SomeJobs
    MaxRuns = 3
    MaxFaults = 2
SPECIFICATION Spec
INVARIANTS TypeOK Ownership FailsByItself
PROPERTY ReturnsClean
