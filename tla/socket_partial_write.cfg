CONSTANTS
    MaxTx = 4
    MaxRx = 2
    MaxAdd = 2
    IovMax = 4
    WordSize = 16
SPECIFICATION Spec
INVARIANT StreamInOrder
CHECK_DEADLOCK FALSE
