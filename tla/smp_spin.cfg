CONSTANTS
    NCpus = 3
    NThreads = 3
    Uses <- SpinUses
SPECIFICATION FairSpec
INVARIANTS TypeOK MutualExclusion NoPanic WaitersHaveHolder GrantsGoToHolders SpinInv
PROPERTIES SlotCycle ImplementsFifoLock WaiterServed
