SPECIFICATION FairSpec
CONSTANTS
    e1 = e1
    e2 = e2
    e3 = e3
    s1 = s1
    s2 = s2
    Event <- MCEvent
    SyncEvent <- MCSyncEvent
    Snapshots <- MCSnapshots
    EventSize <- MCEventSize
    Capacity = 1
    BatchSize = 2
    MaxBatchBytes = 3
    InitialBackoff = 1
    MaxBackoff = 3
    MaxEvents = 3
    MaxNetFaults = 2
    MaxDiskFaults = 1
    MaxRestarts = 1
INVARIANTS
    TypeOK
    NoLostWakeup
    SeqDurable
    BatchFits
PROPERTIES
    Custody
    EventuallyUploaded
