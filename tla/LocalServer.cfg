CONSTANTS
    NumServers = 2
    MaxFd = 2
    MaxClient = 3
    MaxConnects = 2
    CountMod = 8
SPECIFICATION FairSpec
CHECK_DEADLOCK FALSE
INVARIANT TypeOK
INVARIANT FdHeldOnce
INVARIANT ServerFound
INVARIANT FdSetCurrent
INVARIANT ClientCountExact
INVARIANT ThreadEndsBeforeDelete
PROPERTY CloseReturns
