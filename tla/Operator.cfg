SPECIFICATION FairSpec
CONSTANTS
    Commands <- MCCommands
    VerbOf <- MCVerbOf
    MaxSessions = 2
    Environments <- MCEnvironments
    Known <- MCKnown
    DefaultInformers <- MCDefaultInformers
    RightToken = "right"
    MaxStarts = 2
    MaxFaults = 1
INVARIANTS
    TypeOK
    WriterOnly
    OncePerChannel
PROPERTIES
    StopStopsWrites
    StopEnds
    CommandsArrive
CHECK_DEADLOCK FALSE
