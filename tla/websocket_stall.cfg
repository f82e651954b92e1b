CONSTANTS
    NoFile = NoFile
    Slots <- MCOneSlots
    Fds <- MCFds
    MaxOpen = 1
    MaxUnits = 1
    MaxTx = 2
    MaxBadUrls = 0
SPECIFICATION FairSpec
PROPERTY EverythingSent
CHECK_DEADLOCK FALSE
