CONSTANTS
    NoFile = NoFile
    Slots <- MCTwoSlots
    Fds <- MCFds
    MaxOpen = 2
    MaxUnits = 0
    MaxTx = 2
    MaxBadUrls = 1
SPECIFICATION Spec
INVARIANTS RegistrationsMatch EventsFindConnection ClosedOnce
CHECK_DEADLOCK FALSE
