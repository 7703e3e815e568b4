CONSTANTS
    Public = {p1}
    Proxy = {c1}
    MaxSession = 1
    MaxUnits = 3
    CountMod = 16
    Eager = {c1}
    Silent = {}
    Main = Main
    None = None
SPECIFICATION FairSpec
CHECK_DEADLOCK FALSE
INVARIANT TypeOK
INVARIANT NoTruncation
PROPERTY NoWriteAfterShutdown
PROPERTY LocalFinEndsSession
