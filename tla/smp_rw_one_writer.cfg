CONSTANTS
    NCpus = 3
    NThreads = 3
    Uses <- OneWriterUses
SPECIFICATION SpecOnce
INVARIANTS SoundUntilHandedOnAgain
CHECK_DEADLOCK FALSE
