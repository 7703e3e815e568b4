CONSTANTS
    Public = {p1, p2}
    Proxy = {c1}
    MaxSession = 2
    MaxUnits = 1
    CountMod = 16
    Eager = {}
    Silent = {}
    Main = Main
    None = None
SPECIFICATION Spec
SYMMETRY Symmetry
CHECK_DEADLOCK FALSE
INVARIANT NoTruncation
