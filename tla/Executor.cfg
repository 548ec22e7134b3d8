SPECIFICATION FairSpec
CONSTANTS
    x = x
    y = y
    v = v
    Absent = Absent
    None = None
    w = w
    Obj <- MCObj
    Value <- MCValue
    Command <- MCCommand
    Batches <- MCBatches
    DriftPolicy = "overwrite-with-approval"
    DryRunFirst = TRUE
    MaxForeign = 1
    MaxFaults = 1
CHECK_DEADLOCK FALSE
INVARIANTS TypeOK OneTerminal SuccessIsComplete
PROPERTIES ApplyIsGated DriftWindow EveryCommandEnds
