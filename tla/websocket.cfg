CONSTANTS
    NoFile = NoFile
    Slots <- MCOneSlots
    Fds <- MCFds
    MaxOpen = 1
    MaxUnits = 2
    MaxTx = 2
    MaxBadUrls = 1
SPECIFICATION FairSpec
INVARIANT ReceivedInOrder
PROPERTIES HandshakeOrClosed RequestSent
CHECK_DEADLOCK FALSE
