CONSTANTS
    Prependable = 2
    InitialSize = 3
    ByteValues = {0, 1}
    Zero = 0
    MaxChunk = 4
    MaxSize = 8
    MaxBytes = 4
    PipeSize = 3
    BufSize = 2
    Lengths = {1, 2, 3}
SPECIFICATION BuffersSpec
INVARIANTS ContentIntact NothingLost ResultsAreRight
PROPERTIES DrainedIsSafe CallsReturn
CHECK_DEADLOCK FALSE
