CONSTANTS
    MaxFd = 2
    NumObj = 2
    InitNum = 1
    None = None
    RecvSize = 4
    SendSize = 1
    ExpireTime = 2
    MaxWire = 2
    MaxDropped = 0
    Talkers = {2}
    Watched = 2
SPECIFICATION Spec
CHECK_DEADLOCK FALSE
PROPERTY ExpiresOnlyIdle
