SPECIFICATION FairSpec
CONSTANTS
    o1 = o1
    o2 = o2
    Obj <- MCObj
    InitialObjects <- MCInitialObjects
    MaxVersion = 2
    Capacity = 6
    BatchSize = 2
    MaxBatchBytes = 9
    InitialBackoff = 1
    MaxBackoff = 1
    MaxEvents = 6
    MaxNetFaults = 1
    MaxDiskFaults = 0
    MaxRestarts = 1
INVARIANT
    MirrorsCluster
PROPERTY
    Converges
