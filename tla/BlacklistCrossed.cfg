CONSTANTS
    Reloaders = {r1, r2}
    Checkers = {c}
    n1 = n1
    n2 = n2
    a1 = a1
    a2 = a2
    Networks <- TwoNetworks
    Providers <- TwoProviders
    Versions <- TwoVersions
    Addresses <- CrossAddresses
    Editions = {e1, e2}
    None = None
SPECIFICATION Spec
SYMMETRY AllSymmetry
INVARIANT ReloadedFromTheFile
