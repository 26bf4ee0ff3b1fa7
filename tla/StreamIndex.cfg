CONSTANTS
    Blank = Blank
    Junk = Junk
    MaxChunkSize = 3
    BufferSize = 2
    PrefetchCount = 2
    Padding = 2
    WordSize = 64
    Files <- OverstatedFile
    Headers <- BehindTerminator
SPECIFICATION Spec
CHECK_DEADLOCK FALSE
INVARIANT NeverPanics
