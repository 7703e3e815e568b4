CONSTANTS
    Client = {k1, k2}
    Public = {p1, p2}
    None = None
SPECIFICATION FairSpec
CHECK_DEADLOCK FALSE
INVARIANT ClaimFindsTunnel
INVARIANT WaitingAreCovered
PROPERTY HandshakeCompletes
PROPERTY PublicIsServed
