CONSTANTS
    Callers = {c1, c2}
    Endpoints = {e1, e2}
    WindowSize = 1
    MapLife = 2
    MapIds = {m1, m2, m3}
    None = None
    MaxTime = 3
SPECIFICATION Spec
SYMMETRY AllSymmetry
VIEW ReachableView
INVARIANTS
    TypeOK
    NeverOvercounts
    ExactInSequence
