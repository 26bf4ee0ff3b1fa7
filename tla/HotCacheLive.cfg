\* Two readers and no symmetry.
CONSTANTS
    Readers = {r1, r2}
    c = c
    x = x
    k1 = k1
    k2 = k2
    Hashes = {c, x}
    Keys = {k1, k2}
    NoKey = NoKey
    Named <- MCNamed
    Available <- MCAvailable
    Parsing <- MCParsing
    Capacity = 1
    None = None
SPECIFICATION FairSpec
PROPERTY LookupEnds
