CONSTANTS
    Byte = {a, b}
    Garbage = Garbage
    InitCapacity = 2
    MaxCapacityArg = 5
    DoubleBorderLine = 4
    MaxInsert = 3
    SizeMax = 65535
SPECIFICATION Spec
PROPERTY FailedWriteTakesNothing
