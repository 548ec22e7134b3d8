SPECIFICATION Spec
CONSTANTS
    o1 = o1
    o2 = o2
    Obj <- MCOneObj
    InitialObjects <- MCInitialObjects
    MaxVersion = 4
    Capacity = 1
    BatchSize = 1
    MaxBatchBytes = 9
    InitialBackoff = 1
    MaxBackoff = 1
    MaxEvents = 6
    MaxNetFaults = 0
    MaxDiskFaults = 0
    MaxRestarts = 0
INVARIANT
    MirrorsCluster
