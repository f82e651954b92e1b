CONSTANTS
    Log2SmallBins = 1
    NBins = 6
    MaxHeapLen = 12
    MaxObjects = 4
    HeapSizes = {1, 3, 4}
    Aligns = {0, 4}
    W = 3
    MaxBit = 7
    MaxPool = 6
    MaxNodes = 9
    Keys = {0, 1, 2}
    Far = 99
    Filled <- StartKeys
    MaxFHeapOps = 3
    HashKeys = {0, 1, 2, 3}
    HashValues = {0, 1}
    KeySum <- KeySums
    UserBits = 2
    ShrinkAbove = 1
    NewSizes = {0, 3, 9}
    MaxHashOps = 5
    MaxSlots = 4
    SparseWords = 4
    Codings = {0, 1, 2, 3, 4, 5, 6}
    SignedZdata <- SignedNumbers
    MaxZdata = 3
    Histograms <- SmallHistograms
    MaxCodingBits = 8
    Elems = {a, b}
    Zero = zero
    PowersOfTwo = {1, 2, 4, 8}
    MaxLen = 8
    MinLen = 2
    MaxElts = 4
    HeadSteps <- CallersHeadSteps
SPECIFICATION ContainersSpec
INVARIANTS HeapIsSound BitmapIsSet PoolIsSound FHeapIsPriorityQueueAlone
INVARIANTS HashIsMap NextVisitsAll MhashIsMap
INVARIANTS SparseFindsOwn ZvecReadsBackAlone
INVARIANTS TypeOK IndexRoundTrip
PROPERTY ImplementsQueue
CHECK_DEADLOCK FALSE
