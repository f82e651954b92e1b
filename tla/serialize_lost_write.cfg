CONSTANTS
    ByteValues = 8
    Unsigned = {3}
    Signed = {2}
    Lengths = {0, 3}
    Widths = {2}
    Counts = {5}
    DiffTypes = {1}
    ChunkSize = 2
    FileBuffer = 4
    DataSize = 9
    FirstVector = 2
    MaxItems = 3
SPECIFICATION SerializeSpec
INVARIANT WrittenIsKept
CHECK_DEADLOCK FALSE
