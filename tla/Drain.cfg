SPECIFICATION FairSpec
CONSTANTS
    n = n
    p1 = p1
    p2 = p2
    d1 = d1
    d2 = d2
    u = u
    Node <- MCNode
    Pod <- MCPod
    Evictable <- MCPod
    Drains <- MCDrains
    Uncordons <- MCUncordons
    NodeOf <- MCNodeOf
    Nowhere = Nowhere
    StallRetries = 1
    MaxFaults = 1
INVARIANTS TypeOK DrainedNode OutcomeReported
PROPERTIES EveryDrainEnds
