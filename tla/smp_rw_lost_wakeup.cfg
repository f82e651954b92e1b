CONSTANTS
    NCpus = 2
    NThreads = 2
    Uses <- RWUses
SPECIFICATION Spec
INVARIANT WaitersHaveHolder
CHECK_DEADLOCK FALSE
