\* One request that is followed, and the calls of others; the counts of the rate
\* limit do not matter here.
CONSTANTS
    Readers = {h1, r1}
    Handlers = {h1}
    Requests <- MCRequests
    Contents = {"claim", "channel"}
    Counts = {1}
    Life = 1
    FetchLimit = 1
    None = None
SPECIFICATION RSpec
INVARIANTS
    TypeOK
    OldBlocksHold
PROPERTY ListsAreRecent
