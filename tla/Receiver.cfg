SPECIFICATION FairSpec
CONSTANTS
    c1 = c1 c2 = c2
    Cmd <- MCOneCmd
    Nonce <- MCOneNonce
    BadCmd <- MCNoBad
    Channels <- MCBoth
    Responses <- MCOneResponses
    MaxIDs = 2
    MaxNonces = 2
    MaxQueued = 2
    MaxHandOuts = 2
    MaxPollFaults = 1
    MaxWsFaults = 1
    MaxRestarts = 1
INVARIANTS TypeOK TerminalKept
PROPERTIES EventuallyReported
