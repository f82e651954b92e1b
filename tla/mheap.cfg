CONSTANTS
    MaxSize = 24
    NSmallBins = 4
    Log2NSmallBins = 2
    CacheSize = 1
    PageSize = 8
    Requests <- SmallRequests
SPECIFICATION Spec
INVARIANTS TagsChain FreeListsExact BlocksAccountedFor RequestsMet InUseIsMapped
PROPERTY ImplementsAllocator
