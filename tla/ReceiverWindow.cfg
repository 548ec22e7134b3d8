SPECIFICATION Spec
CONSTANTS
    c1 = c1 c2 = c2
    Cmd <- MCCmd
    Nonce <- MCNonce
    BadCmd <- MCNoBad
    Channels <- MCPoll
    Responses <- MCResponses
    MaxIDs = 1
    MaxNonces = 1
    MaxQueued = 2
    MaxHandOuts = 3
    MaxPollFaults = 0
    MaxWsFaults = 0
    MaxRestarts = 0
INVARIANT ReplayWindow
SYMMETRY Symmetry
