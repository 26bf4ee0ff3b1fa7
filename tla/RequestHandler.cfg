\* A repost is cached and refused as any other claim that is no stream, so that
\* it stands for both; a free stream is served as one that is paid for is with a
\* good token.
CONSTANTS
    Handlers = {h1}
    Requests <- ManyRequests
    Kinds = {"missing", "repost", "paid", "members"}
    Contents = {"claim", "channel"}
    Counts = {2, 3, 10, 11}
    DownloadsEnabled = TRUE
    EdgeTokenSet = TRUE
    Transcoder = TRUE
    MaxDepth = 5
    None = None
SPECIFICATION Spec
INVARIANTS
    TypeOK
    ContentIsAllowed
