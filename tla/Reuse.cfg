CONSTANTS
    Public = {p1, p2, p3}
    Proxy = {c1}
    MaxSession = 3
    MaxUnits = 1
    CountMod = 16
    Eager = {}
    Silent = {p3}
    Main = Main
    None = None
SPECIFICATION Spec
SYMMETRY Symmetry
CHECK_DEADLOCK FALSE
INVARIANT PublicGetsPrefixUnlessRaced
INVARIANT FdBoundOnce
INVARIANT UndealtFdAvailable
INVARIANT SessionIntactUnlessRaced
