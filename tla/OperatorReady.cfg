SPECIFICATION Spec
CONSTANTS
    Commands <- MCCommands
    VerbOf <- MCVerbOf
    MaxSessions = 2
    Environments <- MCEnvironments
    Known <- MCKnown
    DefaultInformers <- MCDefaultInformers
    RightToken = "right"
    MaxStarts = 2
    MaxFaults = 1
INVARIANT ReadyWhenConnected
CHECK_DEADLOCK FALSE
