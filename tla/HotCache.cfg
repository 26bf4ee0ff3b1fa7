\* Three readers, so that a flight can have two waiters, or a third reader can
\* come between the end of a flight and the next; a capacity of one, so that
\* every second entry evicts.
CONSTANTS
    Readers = {r1, r2, r3}
    c = c
    x = x
    k1 = k1
    k2 = k2
    Hashes = {c, x}
    Keys = {k1, k2}
    NoKey = NoKey
    Named <- MCNamed
    Available <- MCAvailable
    Parsing <- MCParsing
    Capacity = 1
    None = None
SPECIFICATION Spec
SYMMETRY ReaderSymmetry
INVARIANTS
    TypeOK
    PanicsNeedBothKinds
    RightAnswers
    SingleFlight
    NobodyStranded
    TiersRight
    WithinCapacity
PROPERTY Service
