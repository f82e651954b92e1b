CONSTANTS
    MaxTx = 4
    MaxRx = 2
    MaxAdd = 2
    IovMax = 3
    WordSize = 16
    Loggers = {t1, t2}
    Types = {x}
    Tracks = {k}
    RingSize = 4
    CounterWords = 8
    MaxLogged = 5
    MaxCalls = 1
    Logs = {"first", "second", "third"}
    Formats = {f, g}
    Start <- LogStarts
    FirstSize = 2
    MaxTime = 5
    ByteValues = 8
    Widths = {1, 2}
    Counts = {5}
    Unsigned = {4, 20, 532}
    Signed = {2}
    Lengths = {0, 3}
    DiffTypes = {1, 2}
    ChunkSize = 2
    FileBuffer = 4
    DataSize = 9
    FirstVector = 2
    MaxItems = 3
SPECIFICATION StreamsSpec
INVARIANTS StreamUntilResumed RxStreamUntilFailure
INVARIANTS ReadsLastEvents TriggerEventKept
INVARIANTS MergedInOrderAlone ItemsReadBackAlone
SYMMETRY Alike
CHECK_DEADLOCK FALSE
