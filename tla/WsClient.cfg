SPECIFICATION FairSpec
CONSTANTS
    reader = reader handler = handler
    Caller <- MCCaller
    Reader = reader
    Timings <- MCTimings
    HandshakeTimeout = 2
    WriteTimeout = 1
    BackoffMin = 2
    BackoffMax = 3
    AnswerTime = 1
    Backlog = 1
    MaxFaults = 2
INVARIANTS
    TypeOK
    SilenceBound
    SendBounded
PROPERTIES
    LiveIsKept
    ChannelSpec
    Reconnects
    Ends
