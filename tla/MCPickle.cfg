CONSTANTS
    a = a
    b = b
    Obj = {a, b}
    Kind <- OneOfEach
    Leaf <- Leaves
    Base = 4
    Width = 5
    Width32 = 4
    Width16 = 3
    MaxVarint64 = 3
    MaxVarint32 = 2
    MaxStatic = 5
    MaxArgs = 2
    Byte = {0, 2, 5, 6}
    MaxKids = 2
    Keys <- SomeKeys
    Depth = 1
SPECIFICATION Spec
INVARIANTS RoundTrip NoOverrun MarksMeanSelf LoadKeepsCaller
CONSTRAINT Continued
CHECK_DEADLOCK FALSE
