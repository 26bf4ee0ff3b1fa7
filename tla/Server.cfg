\* Blobs of two bytes, KB of two bytes, a word of eight bits with two
\* nanoseconds a second: a stream of 20 KB gives a token of no second, one of 21 KB
\* of one, and 64 KB overflow.
CONSTANTS
    Requests = {fragment, bought}
    Paid = {bought}
    Fragments = {fragment}
    KeyPairs = {k1, k2}
    Sizes = {40, 42, 128}
    Settings <- MCSettings
    Kilo = 2
    Second = 2
    WordSize = 256
    BlobSize = 2
    StopWait = 2
    WriteTimeout = 1
    StreamWriteTimeout = 3
    Malformed = Malformed
    None = None
SPECIFICATION FairSpec
INVARIANTS
    TypeOK
    StreamsOutliveWriteTimeout
    PaidNeedsToken
PROPERTIES
    ExpiryInKilobytes
    ShutdownIsGraceful
    NothingNewAfterShutdown
    SignalEndsProcess
