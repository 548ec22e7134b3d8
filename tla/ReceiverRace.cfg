SPECIFICATION Spec
CONSTANTS
    c1 = c1 c2 = c2
    Cmd <- MCCmd
    Nonce <- MCNonce
    BadCmd <- MCNoBad
    Channels <- MCBoth
    Responses <- MCResponses
    MaxIDs = 2
    MaxNonces = 2
    MaxQueued = 2
    MaxHandOuts = 2
    MaxPollFaults = 0
    MaxWsFaults = 0
    MaxRestarts = 0
INVARIANT AtMostOnce
