\* Chunks of three bytes and reads of at most two, so that reads of every
\* alignment cross a boundary; AES blocks of two bytes (three bytes and their
\* padding fill a blob of four, as 2^21 - 1 bytes fill one of 2^21).
CONSTANTS
    Blank = Blank
    Junk = Junk
    MaxChunkSize = 3
    BufferSize = 2
    PrefetchCount = 2
    Padding = 2
    WordSize = 64
    Files <- MCFiles
    Headers <- MCHeaders
SPECIFICATION FairSpec
CHECK_DEADLOCK FALSE
INVARIANTS
    TypeOK
    BodyIsRange
    ShortOnlyByFault
    RangeAsAsked
    PanicsOnlyOnLies
    SizeNotInvented
    PrefetchInBounds
PROPERTY RequestEnds
