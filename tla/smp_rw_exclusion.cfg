CONSTANTS
    NCpus = 3
    NThreads = 3
    Uses <- OneWriterUses
SPECIFICATION Spec
INVARIANT MutualExclusion
CHECK_DEADLOCK FALSE
