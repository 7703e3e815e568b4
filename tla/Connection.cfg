CONSTANTS
    Sender = {s1}
    Loop = Loop
    None = None
    Capacity = 2
    MaxSend = 2
    MaxIn = 2
    AddedByLoop = FALSE
SPECIFICATION FairSpec
CHECK_DEADLOCK FALSE
INVARIANT InOrder
INVARIANT CloseAfterDrainedUnlessRaw
INVARIANT UnsentArmedUnlessRaced
INVARIANT UnreadArmedUnlessRaced
PROPERTY LoopReturns
PROPERTY QueuedIsSent
PROPERTY CloseIsHandled
