CONSTANTS
    MaxFd = 2
    NumObj = 2
    InitNum = 1
    None = None
    RecvSize = 4
    SendSize = 1
    ExpireTime = 2
    MaxWire = 3
    MaxDropped = 1
    Talkers = {2}
    Watched = 2
SPECIFICATION FairSpec
CHECK_DEADLOCK FALSE
INVARIANT TypeOK
INVARIANT PoolExact
INVARIANT NoMessageWaits
INVARIANT AnswersExact
INVARIANT IdleIsCounted
PROPERTY SilentLeaves
PROPERTY RequestsAnswered
