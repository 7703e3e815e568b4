CONSTANTS
    Num = 2
    RawStart = {TRUE, FALSE}
    RawWord = {"free", "taken"}
    MaxConn = 2
SPECIFICATION FairSpec
CHECK_DEADLOCK FALSE
INVARIANT LoopThere
PROPERTY StartUpEndsUnlessRaced
PROPERTY ThreadsLoop
