CONSTANTS
    Byte = {a, b}
    Marked = b
    Garbage = Garbage
    InitCapacity = 3
    MaxCapacityArg = 11
    DoubleBorderLine = 4
    MaxInsert = 4
    SizeMax = 65535
SPECIFICATION Spec
CONSTRAINT OneMarked
INVARIANT TypeOK
INVARIANT RoomToCopy
PROPERTY IsBoundedQueue
