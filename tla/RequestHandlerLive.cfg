CONSTANTS
    Handlers = {h1, h2}
    Requests <- TwoForms
    Kinds = {"repost", "free"}
    Contents = {}
    Counts = {1}
    DownloadsEnabled = TRUE
    EdgeTokenSet = FALSE
    Transcoder = FALSE
    MaxDepth = 1
    None = None
SPECIFICATION FairSpec
PROPERTY CacheSettles
