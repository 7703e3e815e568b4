CONSTANTS
    Sender = {s1}
    Loop = Loop
    None = None
    Capacity = 2
    MaxSend = 2
    MaxIn = 2
    AddedByLoop = TRUE
SPECIFICATION Spec
CHECK_DEADLOCK FALSE
INVARIANT UnsentIsArmed
